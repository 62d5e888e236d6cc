----------------------------------- MODULE Gate -----------------------------------
(* sync/gate.rs: a gate that closes when every pass has been given back.        *)
(*                                                                              *)
(* Each task holds at most one Pass, or one future of close().  The channel of  *)
(* capacity one between notify_closed and a closer is a flag.                   *)
EXTENDS Integers, FiniteSets

CONSTANTS Tasks

VARIABLES
  count,        \* GateInner.count
  gateState,    \* State: "Open", "Closing", "Closed"
  closers,      \* the tasks whose sender is in State::Closing
  notified,     \* the closers whose channel holds the message
  gateRole      \* of a task: "none", "pass", "closing" (awaits close), "closed" (close returned Ok)

gateVars == <<count, gateState, closers, notified, gateRole>>

Is(t, r) == gateRole[t] = r
Become(t, r) == gateRole' = [gateRole EXCEPT ![t] = r]

Init ==
  /\ count = 0 /\ gateState = "Open" /\ closers = {} /\ notified = {}
  /\ gateRole = [t \in Tasks |-> "none"]

----------------------------------------------------------------------------------
(* enter, and spawn, whose task owns the pass.                                  *)
Enter(t) ==
  /\ Is(t, "none") /\ gateState = "Open"
  /\ count' = count + 1 /\ Become(t, "pass")
  /\ UNCHANGED <<gateState, closers, notified>>

(* Pass::try_clone, for a task u: an error unless the gate is open.             *)
TryClone(t, u) == Is(t, "pass") /\ Enter(u)

(* Pass::clone_ignoring_gate_closure                                            *)
CloneIgnoringClosure(t, u) ==
  /\ Is(t, "pass") /\ Is(u, "none")
  /\ count' = count + 1 /\ Become(u, "pass")
  /\ UNCHANGED <<gateState, closers, notified>>

\* Fault seeded in Leave: the first closer only is told.
Leave_tellsOne(t) ==
  /\ Is(t, "pass") /\ Become(t, "none")
  /\ count' = count - 1
  /\ \/ /\ count' = 0 /\ gateState = "Closing"
        /\ gateState' = "Closed" /\ closers' = {}
        /\ \E c \in closers : notified' = notified \cup {c}
     \/ /\ count' # 0 \/ gateState = "Open"
        /\ UNCHANGED <<gateState, closers, notified>>

(* Pass::drop: leave, and notify_closed with the last pass of a closing gate.   *)
(* The message to a closer whose future was dropped is lost.                    *)
Leave(t) ==
  /\ Is(t, "pass") /\ Become(t, "none")
  /\ count' = count - 1
  /\ \/ /\ count' = 0 /\ gateState = "Closing"
        /\ gateState' = "Closed" /\ closers' = {}
        /\ notified' = notified \cup {c \in closers : Is(c, "closing")}
     \/ /\ count' # 0 \/ gateState = "Open"
        /\ UNCHANGED <<gateState, closers, notified>>

(* close, and the first poll of the future it returns.  Closing a closed gate   *)
(* is an error and changes nothing.                                             *)
Close(t) ==
  /\ Is(t, "none") /\ gateState # "Closed"
  /\ \/ /\ gateState = "Open" /\ count = 0
        /\ gateState' = "Closed" /\ Become(t, "closed") /\ UNCHANGED closers
     \/ /\ gateState = "Open" => count # 0
        /\ gateState' = "Closing" /\ closers' = closers \cup {t} /\ Become(t, "closing")
  /\ UNCHANGED <<count, notified>>

(* wait_for_closure receives the message.                                       *)
CloseReturns(t) ==
  /\ t \in notified
  /\ notified' = notified \ {t} /\ Become(t, "closed")
  /\ UNCHANGED <<count, gateState, closers>>

(* The future of close is dropped (a timeout): its sender stays in the state,   *)
(* under the name of a task that does not wait any more.                        *)
DropCloser(t) ==
  /\ Is(t, "closing") /\ Become(t, "none")
  /\ notified' = notified \ {t}
  /\ UNCHANGED <<count, gateState, closers>>

Next ==
  \E t \in Tasks :
    \/ Enter(t) \/ Leave(t) \/ Close(t) \/ CloseReturns(t) \/ DropCloser(t)
    \/ \E u \in Tasks : TryClone(t, u) \/ CloneIgnoringClosure(t, u)

Spec == Init /\ [][Next]_gateVars

----------------------------------------------------------------------------------
(* Properties.                                                                  *)

(* Closing is graceful: the count is that of the passes, a gate is closed only  *)
(* when there are none, a closing gate has passes and a closer (what the three  *)
(* assertions of close and the unreachable of notify_closed take for granted).  *)
(* close() has returned Ok to nobody before, and a future of close() that still *)
(* waits will be told, or has been: also the second one, and also when the      *)
(* future of another closer was dropped meanwhile.                              *)
ClosedMeansNoPass ==
  /\ count = Cardinality({t \in Tasks : Is(t, "pass")})
  /\ gateState = "Closing" => count # 0 /\ closers # {} /\ notified = {}
  /\ gateState = "Closed" => count = 0
  /\ (\E t \in Tasks : Is(t, "closed")) => gateState = "Closed"
  /\ \A t \in Tasks : Is(t, "closing") => t \in closers \cup notified
==================================================================================
