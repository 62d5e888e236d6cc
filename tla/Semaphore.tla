-------------------------------- MODULE Semaphore --------------------------------
(* sync/semaphore.rs: a counting semaphore for the tasks of one executor.      *)
(*                                                                             *)
(* A step is what one task does between two suspension points, so each         *)
(* operation is atomic; what interleaves is the order in which woken tasks are *)
(* polled, new requests arrive, permits are released, and waiting futures are  *)
(* dropped.                                                                    *)
EXTENDS WaitList, FiniteSets

CONSTANTS Tasks,       \* the tasks that request units, one request each at a time
          InitUnits,   \* Semaphore::new(avail)
          Workloads,   \* the sets of amounts a program may request
          MaxSignal    \* bound on units signalled without being acquired

ASSUME TasksAssumption == IsFiniteSet(Tasks)
ASSUME UnitsAssumption == InitUnits \in Nat /\ MaxSignal \in Nat
ASSUME WorkloadsAssumption == \A w \in Workloads : IsFiniteSet(w) /\ w \subseteq Nat \ {0}

VARIABLES
  avail, closed,   \* SemaphoreState.avail, .closed
  waiters,         \* SemaphoreState.waiters_list
  phase,           \* of a task: "idle", "waiting" (owns a Waiter), "holding"
  units,           \* the units of its Waiter or Permit
  woken,           \* WaiterNode.woken
  ready,           \* the waker was called and the task was not polled since
  amounts,         \* the amounts this program requests
  total            \* the units there are: created with the semaphore, or signalled

vars == <<avail, closed, waiters, phase, units, woken, ready, amounts, total>>

Linked(t) == t \in Members(waiters)
Unlink(t) == Without(waiters, {t})

Init ==
  /\ avail = InitUnits /\ closed = FALSE /\ waiters = <<>>
  /\ phase = [t \in Tasks |-> "idle"] /\ units = [t \in Tasks |-> 0]
  /\ woken = [t \in Tasks |-> FALSE] /\ ready = [t \in Tasks |-> FALSE]
  /\ amounts \in Workloads /\ total = InitUnits

(* process_wakes(units): from the front of the list, every waiter whose        *)
(* request fits what the waiters woken before it leave is woken and unlinked.  *)
(* Left[i] is what is left after the first i waiters were looked at.           *)
Left(n) ==
  LET left[i \in 0 .. Len(waiters)] ==
        IF i = 0 THEN n
        ELSE IF units[waiters[i]] <= left[i - 1] THEN left[i - 1] - units[waiters[i]]
        ELSE left[i - 1]
  IN  left

Fit(n) ==
  {waiters[i] : i \in {j \in 1 .. Len(waiters) : units[waiters[j]] <= Left(n)[j - 1]}}

ProcessWakes(n) ==
  LET chosen == Fit(avail + n)
  IN /\ avail' = avail + n
     /\ waiters' = Without(waiters, chosen)
     /\ woken' = [t \in Tasks |-> t \in chosen \/ woken[t]]
     /\ ready' = [t \in Tasks |-> t \in chosen \/ ready[t]]

----------------------------------------------------------------------------------
(* acquire, acquire_permit: the fast path, or a Waiter polled at once.  A new  *)
(* Waiter may take units ahead of the ones in the list.                        *)
Acquire(t, n) ==
  /\ phase[t] = "idle" /\ ~closed
  /\ units' = [units EXCEPT ![t] = n]
  /\ \/ /\ avail >= n
        /\ avail' = avail - n /\ phase' = [phase EXCEPT ![t] = "holding"]
        /\ UNCHANGED waiters
     \/ /\ avail < n
        /\ waiters' = Append(waiters, t) /\ phase' = [phase EXCEPT ![t] = "waiting"]
        /\ UNCHANGED avail
  /\ UNCHANGED <<closed, woken, ready, amounts, total>>

(* try_acquire and its permit variants never pass the list.                    *)
TryAcquire(t, n) ==
  /\ phase[t] = "idle" /\ ~closed
  /\ waiters = <<>> /\ avail >= n
  /\ avail' = avail - n /\ phase' = [phase EXCEPT ![t] = "holding"]
  /\ units' = [units EXCEPT ![t] = n]
  /\ UNCHANGED <<closed, waiters, woken, ready, amounts, total>>

(* Waiter::poll, after a wake or spuriously.                                   *)
Poll(t) ==
  /\ phase[t] = "waiting"
  /\ woken' = [woken EXCEPT ![t] = FALSE] /\ ready' = [ready EXCEPT ![t] = FALSE]
  /\ \/ /\ closed
        /\ phase' = [phase EXCEPT ![t] = "idle"] /\ waiters' = Unlink(t)
        /\ UNCHANGED avail
     \/ /\ ~closed /\ avail >= units[t]
        /\ phase' = [phase EXCEPT ![t] = "holding"] /\ waiters' = Unlink(t)
        /\ avail' = avail - units[t]
     \/ /\ ~closed /\ avail < units[t]
        /\ waiters' = IF Linked(t) THEN waiters ELSE Append(waiters, t)
        /\ UNCHANGED <<phase, avail>>
  /\ UNCHANGED <<closed, units, amounts, total>>

\* Fault seeded in DropWaiter: swallows the wake it was given.
DropWaiter_silent(t) ==
  /\ phase[t] = "waiting"
  /\ phase' = [phase EXCEPT ![t] = "idle"]
  /\ waiters' = Unlink(t)
  /\ woken' = [woken EXCEPT ![t] = FALSE] /\ ready' = [ready EXCEPT ![t] = FALSE]
  /\ UNCHANGED <<avail, closed, units, amounts, total>>

(* The Waiter is dropped before it is ready (a timeout, a select): one that    *)
(* was woken passes the wake on.                                               *)
DropWaiter(t) ==
  LET chosen == IF woken[t] THEN Fit(avail) ELSE {}
  IN /\ phase[t] = "waiting"
     /\ phase' = [phase EXCEPT ![t] = "idle"]
     /\ waiters' = Without(waiters, chosen \cup {t})
     /\ woken' = [x \in Tasks |-> x # t /\ (x \in chosen \/ woken[x])]
     /\ ready' = [x \in Tasks |-> x # t /\ (x \in chosen \/ ready[x])]
     /\ UNCHANGED <<avail, closed, units, amounts, total>>

(* A Permit is dropped, or units taken with acquire are signalled back.        *)
Release(t) ==
  /\ phase[t] = "holding"
  /\ phase' = [phase EXCEPT ![t] = "idle"]
  /\ ProcessWakes(units[t])
  /\ UNCHANGED <<closed, units, amounts, total>>

(* signal: "we can signal to expand to more units than the original capacity". *)
Signal(n) ==
  /\ total + n <= InitUnits + MaxSignal /\ total' = total + n
  /\ ProcessWakes(n)
  /\ UNCHANGED <<closed, phase, units, amounts>>

(* close: every waiter is unlinked and its waker called.                       *)
Close ==
  /\ ~closed /\ closed' = TRUE
  /\ waiters' = <<>>
  /\ ready' = [t \in Tasks |-> Linked(t) \/ ready[t]]
  /\ UNCHANGED <<avail, phase, units, woken, amounts, total>>

Next ==
  \/ \E t \in Tasks :
       \/ \E n \in amounts : Acquire(t, n) \/ TryAcquire(t, n)
       \/ Poll(t) \/ DropWaiter(t) \/ Release(t)
  \/ \E n \in amounts : Signal(n)
  \/ Close

(* The executor polls a task whose waker was called.                           *)
Fairness == \A t \in Tasks : WF_vars(ready[t] /\ Poll(t))

Spec == Init /\ [][Next]_vars
FairSpec == Spec /\ Fairness

----------------------------------------------------------------------------------
(* Properties.                                                                 *)

(* Units do not lie idle next to a suspended task they would satisfy: if the   *)
(* units for a waiter in the list are there, some woken task is about to be    *)
(* polled.                                                                     *)
NotStranded ==
  \A t \in Tasks : Linked(t) /\ units[t] <= avail => \E x \in Tasks : woken[x]

(* No unit is lost, whatever the order of acquisitions, cancelled waits,       *)
(* releases and closing: units are conserved and, in a program whose requests  *)
(* are all of one amount, they do not lie idle next to a suspended task.       *)
Holding == {t \in Tasks : phase[t] = "holding"}
UnitsOf(S) == UNION {{t} \X (1 .. units[t]) : t \in S}
UnitsNotLost ==
  /\ avail + Cardinality(UnitsOf(Holding)) = total
  /\ Cardinality(amounts) = 1 => NotStranded

==================================================================================
