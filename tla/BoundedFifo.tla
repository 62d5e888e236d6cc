------------------------------- MODULE BoundedFifo -------------------------------
(* What glommio::channels::spsc_queue promises its two users: a first-in,      *)
(* first-out queue of at most Capacity values, from which every value that was *)
(* pushed is taken exactly once.                                               *)
EXTENDS Integers, Sequences

CONSTANTS Capacity, Values, NoValue

VARIABLES items,   \* the values in the queue, oldest first
          taken    \* the value the last successful pop returned

vars == <<items, taken>>

Init == items = <<>> /\ taken = NoValue

Push(v) ==
  /\ Len(items) < Capacity
  /\ items' = Append(items, v)
  /\ UNCHANGED taken

Pop ==
  /\ items # <<>>
  /\ taken' = Head(items)
  /\ items' = Tail(items)

Next == (\E v \in Values : Push(v)) \/ Pop

Spec == Init /\ [][Next]_vars
==================================================================================
