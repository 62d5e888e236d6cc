---------------------------------- MODULE RwLock ----------------------------------
(* sync/rwlock.rs: a reader-writer lock for the tasks of one executor.          *)
(*                                                                              *)
(* A step is what one task does between two suspension points.  The intrusive   *)
(* list is a sequence of tasks; a task owns at most one Waiter or guard.        *)
EXTENDS WaitList, FiniteSets, FiniteSetsExt

CONSTANTS Tasks,
          MaxQueuedWriters   \* bound on queued_writers, which only drifts upwards

VARIABLES
  writers, readers,   \* State.writers, .readers
  queuedWriters,      \* State.queued_writers
  rwWaiters,          \* State.waiters_queue
  rwClosed,           \* State.closed
  rwPhase,            \* of a task: "idle", "waiting" (owns a Waiter), "holding" (a guard)
  kind,               \* WaiterKind of its Waiter, or of its guard
  rwWoken             \* the tasks whose WaiterNode.woken is set; they are to be polled

rwVars == <<writers, readers, queuedWriters, rwWaiters, rwClosed, rwPhase, kind, rwWoken>>

Kinds == {"Reader", "Writer"}
Linked(t) == t \in Members(rwWaiters)
QueuedOf(k) == {i \in 1 .. Len(rwWaiters) : kind[rwWaiters[i]] = k}

Init ==
  /\ writers = 0 /\ readers = 0 /\ queuedWriters = 0 /\ rwWaiters = <<>> /\ rwClosed = FALSE
  /\ rwPhase = [t \in Tasks |-> "idle"] /\ kind = [t \in Tasks |-> "Reader"]
  /\ rwWoken = {}

(* State::try_read and State::try_write: what would be granted now.             *)
Grants(k) == writers = 0 /\ (k = "Writer" => readers = 0)
Grant(k) ==
  /\ readers' = readers + (IF k = "Reader" THEN 1 ELSE 0)
  /\ writers' = writers + (IF k = "Writer" THEN 1 ELSE 0)

(* How many waiters at the front of the list the three loops wake.              *)
All == Len(rwWaiters)
TillFirstWriter == (IF QueuedOf("Writer") = {} THEN All + 1 ELSE Min(QueuedOf("Writer"))) - 1
ThroughFirstWriter == IF QueuedOf("Writer") = {} THEN All ELSE TillFirstWriter + 1

(* The Waiters of gone are no more, and the first n of the list are woken.      *)
WakeFront(n, gone) ==
  /\ rwWaiters' = SubSeq(rwWaiters, n + 1, Len(rwWaiters))
  /\ rwWoken' = (rwWoken \ gone) \cup {rwWaiters[i] : i \in 1 .. n}

(* wake_up_fibers, when r readers and w writers hold the lock.                  *)
WakeUpFibers(r, w, gone) ==
  \/ /\ w = 0 /\ queuedWriters = 0
     /\ WakeFront(All, gone) /\ UNCHANGED queuedWriters
  \/ /\ w = 0 /\ r = 0 /\ queuedWriters > 0
     /\ WakeFront(ThroughFirstWriter, gone)
     /\ queuedWriters' = queuedWriters - (IF QueuedOf("Writer") = {} THEN 0 ELSE 1)
  \/ /\ w = 0 /\ r > 0 /\ queuedWriters > 0
     /\ WakeFront(TillFirstWriter, gone) /\ UNCHANGED queuedWriters
  \/ /\ w > 0
     /\ WakeFront(0, gone) /\ UNCHANGED queuedWriters

(* Waiter::register_in_waiting_queue                                            *)
Register(t, k) ==
  /\ k = "Writer" => queuedWriters < MaxQueuedWriters
  /\ rwWaiters' = IF Linked(t) THEN rwWaiters ELSE Append(rwWaiters, t)
  /\ queuedWriters' = queuedWriters + (IF k = "Writer" /\ ~Linked(t) THEN 1 ELSE 0)

----------------------------------------------------------------------------------
(* read, write: granted at once, or a Waiter that is polled at once.            *)
Request(t, k) ==
  /\ rwPhase[t] = "idle" /\ ~rwClosed
  /\ kind' = [kind EXCEPT ![t] = k]
  /\ \/ /\ Grants(k) /\ Grant(k)
        /\ rwPhase' = [rwPhase EXCEPT ![t] = "holding"]
        /\ UNCHANGED <<rwWaiters, queuedWriters>>
     \/ /\ ~Grants(k)
        /\ rwPhase' = [rwPhase EXCEPT ![t] = "waiting"]
        /\ Register(t, k) /\ UNCHANGED <<readers, writers>>
  /\ UNCHANGED <<rwClosed, rwWoken>>

(* try_read, try_write                                                          *)
TryLock(t, k) ==
  /\ rwPhase[t] = "idle" /\ ~rwClosed /\ Grants(k)
  /\ Grant(k)
  /\ kind' = [kind EXCEPT ![t] = k] /\ rwPhase' = [rwPhase EXCEPT ![t] = "holding"]
  /\ UNCHANGED <<queuedWriters, rwWaiters, rwClosed, rwWoken>>

(* Waiter::poll, after a wake or spuriously.                                    *)
PollWaiter(t) ==
  /\ rwPhase[t] = "waiting"
  /\ rwWoken' = rwWoken \ {t}
  /\ \/ /\ rwClosed
        /\ rwPhase' = [rwPhase EXCEPT ![t] = "idle"]
        /\ UNCHANGED <<readers, writers, rwWaiters, queuedWriters>>
     \/ /\ ~rwClosed /\ Grants(kind[t]) /\ Grant(kind[t])
        /\ rwPhase' = [rwPhase EXCEPT ![t] = "holding"]
        /\ rwWaiters' = Without(rwWaiters, {t})
        /\ UNCHANGED queuedWriters
     \/ /\ ~rwClosed /\ ~Grants(kind[t])
        /\ Register(t, kind[t]) /\ UNCHANGED <<rwPhase, readers, writers>>
  /\ UNCHANGED <<kind, rwClosed>>

\* Fault seeded in DropWaiter: swallows the wake it was given.
DropWaiter_silent(t) ==
  /\ rwPhase[t] = "waiting"
  /\ rwPhase' = [rwPhase EXCEPT ![t] = "idle"]
  /\ rwWaiters' = Without(rwWaiters, {t})
  /\ rwWoken' = rwWoken \ {t}
  /\ UNCHANGED <<readers, writers, queuedWriters, rwClosed, kind>>

(* Waiter::drop before it is ready.  A woken Waiter passes the wake on; one     *)
(* that is linked leaves the list, and stays counted in queued_writers.         *)
DropWaiter(t) ==
  /\ rwPhase[t] = "waiting"
  /\ rwPhase' = [rwPhase EXCEPT ![t] = "idle"]
  /\ \/ /\ t \in rwWoken /\ ~rwClosed
        /\ WakeUpFibers(readers, writers, {t})
     \/ /\ t \notin rwWoken \/ rwClosed
        /\ rwWaiters' = Without(rwWaiters, {t})
        /\ rwWoken' = rwWoken \ {t} /\ UNCHANGED queuedWriters
  /\ UNCHANGED <<readers, writers, rwClosed, kind>>

(* The drop of a guard.  close() refuses while guards exist, so the guard of a  *)
(* closed lock is never dropped.                                                *)
DropGuard(t) ==
  /\ rwPhase[t] = "holding" /\ ~rwClosed
  /\ rwPhase' = [rwPhase EXCEPT ![t] = "idle"]
  /\ readers' = readers - (IF kind[t] = "Reader" THEN 1 ELSE 0)
  /\ writers' = writers - (IF kind[t] = "Writer" THEN 1 ELSE 0)
  /\ WakeUpFibers(readers', writers', {})
  /\ UNCHANGED <<kind, rwClosed>>

\* Fault seeded in CloseLock: does not look for guards.
CloseLock_anyTime ==
  /\ ~rwClosed /\ rwClosed' = TRUE
  /\ WakeFront(All, {})
  /\ UNCHANGED <<readers, writers, queuedWriters, rwPhase, kind>>

(* close, into_inner, drop: refused while the lock is held.                     *)
CloseLock ==
  /\ ~rwClosed /\ readers = 0 /\ writers = 0
  /\ rwClosed' = TRUE
  /\ WakeFront(All, {})
  /\ UNCHANGED <<readers, writers, queuedWriters, rwPhase, kind>>

Next ==
  \/ \E t \in Tasks :
       \/ \E k \in Kinds : Request(t, k) \/ TryLock(t, k)
       \/ PollWaiter(t) \/ DropWaiter(t) \/ DropGuard(t)
  \/ CloseLock

Spec == Init /\ [][Next]_rwVars

----------------------------------------------------------------------------------
(* Properties.                                                                  *)

Holders(k) == {t \in Tasks : rwPhase[t] = "holding" /\ kind[t] = k}

(* The counters stand for the guards that exist, whatever waits were cancelled: *)
(* readers never share the lock with a writer, there is one writer at most, and *)
(* no guard outlives close() (try_read, try_write, close).                      *)
GuardsExclude ==
  /\ readers = Cardinality(Holders("Reader")) /\ writers = Cardinality(Holders("Writer"))
  /\ writers <= 1 /\ (writers > 0 => readers = 0)
  /\ rwClosed => readers + writers = 0

(* Nobody sleeps next to a free lock: some waiter has been woken and will be    *)
(* polled, or pass the wake on when it is dropped (Waiter::drop).  For that,    *)
(* queued_writers, which counts cancelled writers for ever and writers granted  *)
(* while linked, never falls short of the writers in the list: wake_up_fibers   *)
(* does not take a list with a writer for one of readers only.                  *)
FreeLockWakes ==
  /\ queuedWriters >= Cardinality(QueuedOf("Writer"))
  /\ readers = 0 /\ writers = 0 /\ rwWaiters # <<>> => rwWoken # {}
  /\ \A t \in Tasks : rwPhase[t] = "waiting" <=> (Linked(t) \/ t \in rwWoken)
  /\ \A t \in rwWoken : ~Linked(t)

(* "An `RwLock` will allow any number of readers to acquire the lock as long as *)
(* a writer is not holding the lock": a reader at the head of the list of a     *)
(* lock no writer holds is not left asleep.                                     *)
HeadReaderAdmitted ==
  writers = 0 /\ rwWaiters # <<>> /\ kind[rwWaiters[1]] = "Reader" => rwWoken # {}
==================================================================================
