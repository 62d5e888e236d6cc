--------------------------------- MODULE OnceCell ---------------------------------
(* sync/once_cell.rs: a cell initialised at most once, by one of the tasks that *)
(* ask for its value.  It is built on the semaphore: the steps of a call are    *)
(* those of Semaphore with one unit, and what the cell does around them.        *)
(*                                                                              *)
(* A task runs from one suspension point to the next without another task       *)
(* between; where that takes several steps of the semaphore, running names the  *)
(* task that is in the middle.                                                  *)
EXTENDS Integers, Sequences, FiniteSets

CONSTANTS Tasks, NoTask

VARIABLES
  avail, closed, waiters, phase, units, woken, ready, amounts, total,   \* initialising, a Semaphore
  cellValue,    \* OnceCell.value: the task whose value it is, or NoTask
  stage,        \* of a task: "none", "wait" (for the permit), "init", "close", "leave"
  running

semVars == <<avail, closed, waiters, phase, units, woken, ready, amounts, total>>
cellVars == <<cellValue, stage, running>>
onceVars == <<semVars, cellVars>>

Initialising == INSTANCE Semaphore WITH InitUnits <- 1, Workloads <- {{1}}, MaxSignal <- 0

Go(t, s) ==
  /\ stage' = [stage EXCEPT ![t] = s]
  /\ running' = IF s \in {"close", "leave"} THEN t ELSE NoTask

(* OnceCell::new                                                                *)
CellInit == cellValue = NoTask /\ stage = [t \in Tasks |-> "none"] /\ running = NoTask
Init == Initialising!Init /\ CellInit

----------------------------------------------------------------------------------
(* get_or_try_init of a cell without value, until it waits for the permit or    *)
(* its initialiser is suspended.  With a value it returns it and changes        *)
(* nothing.                                                                     *)
GetOrTryInit(t) ==
  /\ running = NoTask /\ stage[t] = "none" /\ cellValue = NoTask
  /\ Initialising!Acquire(t, 1)
  /\ Go(t, IF phase'[t] = "holding" THEN "init" ELSE "wait")
  /\ UNCHANGED cellValue

(* The call is polled while it waits for the permit.  With a closed semaphore   *)
(* it returns the value; with the permit it looks at the cell again.            *)
PollPermit(t) ==
  /\ running = NoTask /\ stage[t] = "wait"
  /\ Initialising!Poll(t)
  /\ Go(t, CASE phase'[t] = "waiting" -> "wait"
             [] phase'[t] = "idle" -> "none"
             [] phase'[t] = "holding" -> IF cellValue = NoTask THEN "init" ELSE "leave")
  /\ UNCHANGED cellValue

(* The call is dropped while it waits.                                          *)
DropCall(t) ==
  /\ running = NoTask /\ stage[t] = "wait"
  /\ Initialising!DropWaiter(t)
  /\ Go(t, "none") /\ UNCHANGED cellValue

(* The initialiser returns a value.                                             *)
Initialise(t) ==
  /\ running = NoTask /\ stage[t] = "init"
  /\ cellValue' = t /\ Go(t, "close")
  /\ UNCHANGED semVars

\* Fault seeded in InitFails: the permit is kept.
InitFails_keepsPermit(t) ==
  /\ running = NoTask /\ stage[t] = "init"
  /\ Go(t, "none")
  /\ UNCHANGED <<semVars, cellValue>>

(* The initialiser fails, panics, or the call is dropped with it: the permit is *)
(* released.                                                                    *)
InitFails(t) ==
  /\ running = NoTask /\ stage[t] = "init"
  /\ Initialising!Release(t)
  /\ Go(t, "none") /\ UNCHANGED cellValue

(* The initialiser calls get_or_try_init of its own cell: RefusingReentry       *)
(* panics, and the unwinding drops the permit.                                  *)
Reenter(t) == InitFails(t)

(* The value is published: close.                                               *)
Publish(t) ==
  /\ running = t /\ stage[t] = "close"
  /\ Initialising!Close
  /\ Go(t, "leave") /\ UNCHANGED cellValue

(* The permit is dropped at the end of the call.                                *)
LeaveCall(t) ==
  /\ running = t /\ stage[t] = "leave"
  /\ Initialising!Release(t)
  /\ Go(t, "none") /\ UNCHANGED cellValue

(* set: an error, and no change, without the permit.                            *)
Set(t) ==
  /\ running = NoTask /\ stage[t] = "none"
  /\ Initialising!TryAcquire(t, 1)
  /\ cellValue' = t /\ Go(t, "close")

(* take borrows the cell mutably, so that no call exists: a fresh cell.         *)
Take ==
  /\ running = NoTask /\ \A t \in Tasks : stage[t] = "none"
  /\ avail' = 1 /\ total' = 1 /\ closed' = FALSE /\ cellValue' = NoTask
  /\ UNCHANGED <<waiters, phase, units, woken, ready, amounts, stage, running>>

Next ==
  \/ \E t \in Tasks :
       \/ GetOrTryInit(t) \/ PollPermit(t) \/ DropCall(t) \/ Initialise(t) \/ InitFails(t)
       \/ Reenter(t) \/ Publish(t) \/ LeaveCall(t) \/ Set(t)
  \/ Take

Spec == Init /\ [][Next]_onceVars

----------------------------------------------------------------------------------
(* Properties.                                                                  *)

(* A call that waits for the permit is not left behind by the initialiser       *)
(* before it failing, panicking, re-entering or being dropped: an initialiser   *)
(* is at work or a waiting call is about to be polled.  A call that finds the   *)
(* semaphore closed has a value to return (the expect in get_or_try_init).      *)
CallNotStranded ==
  /\ (\E t \in Tasks : stage[t] = "wait") =>
       \/ running # NoTask
       \/ \E u \in Tasks : stage[u] = "init" \/ (stage[u] = "wait" /\ ready[u])
  /\ closed => cellValue # NoTask
==================================================================================
