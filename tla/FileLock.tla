--------------------------------- MODULE FileLock ---------------------------------
(* io/glommio_file.rs and the guards of io/dma_file.rs: the advisory lock of one *)
(* file instance, whose clones and lock guards are on several threads.           *)
(*                                                                               *)
(* A guard is an Arc<OwnedGlommioFile>, and it holds the file descriptor open as *)
(* a clone of the file does.  A thread converts a file that was sent to it with  *)
(* From<OwnedGlommioFile>; that changes nothing here.                            *)
EXTENDS Integers, FiniteSets

CONSTANTS Threads,
          MaxGuards    \* guards of one thread

Modes == {"shared", "exclusive"}
Free == "unlocked"

VARIABLES
  lockState,    \* AdvisoryLockStateHolder.state, shared by clones, dups and guards
  ours, other,  \* the lock the kernel grants this file instance, and another process
  files,        \* the threads that have a clone of the file
  guards,       \* of a thread: how many AdvisoryLockGuards it has
  at            \* of a thread: where it is in a call that is not atomic

flVars == <<lockState, ours, other, files, guards, at>>

(* Arc::strong_count of the guard: a failed try_unwrap gives the Arc back.       *)
Strong == Cardinality(UNION {{t} \X (1 .. guards[t]) : t \in Threads})
            + Cardinality({t \in Threads : at[t] = "stillLocked"})
(* The threads whose stack has the OwnedGlommioFile of the last guard.           *)
TookLast == {t \in Threads : at[t] \in {"funlock", "taking"}}

Init ==
  /\ lockState = "Unlocked" /\ ours = Free /\ other \in {Free} \cup Modes
  /\ files = Threads /\ guards = [t \in Threads |-> 0] /\ at = [t \in Threads |-> "idle"]

Goto(t, l) == at' = [at EXCEPT ![t] = l]
Count(t, n) == guards' = [guards EXCEPT ![t] = @ + n]

----------------------------------------------------------------------------------
(* flock: mark_locking, the system call, and commit or the drop that aborts.     *)
MarkLocking(t) ==
  /\ t \in files /\ at[t] = "idle" /\ lockState = "Unlocked"
  /\ lockState' = "Locking" /\ \E m \in Modes : Goto(t, m)
  /\ UNCHANGED <<ours, other, files, guards>>
Compatible(m) == other = Free \/ (m = "shared" /\ other = "shared")
Flock(t) ==
  /\ at[t] \in Modes
  /\ IF Compatible(at[t]) THEN ours' = at[t] /\ Goto(t, "commit")
                          ELSE Goto(t, "abort") /\ UNCHANGED ours
  /\ UNCHANGED <<lockState, other, files, guards>>
Commit(t) ==
  /\ \/ at[t] = "commit" /\ lockState' = "Locked" /\ Count(t, 1)
     \/ at[t] = "abort" /\ lockState' = "Unlocked" /\ UNCHANGED guards
  /\ Goto(t, "idle") /\ UNCHANGED <<ours, other, files>>

(* A clone of a guard, for a thread, or the upgrade of a WeakAdvisoryLockGuard.  *)
CloneGuard(t) ==
  /\ Strong > 0 /\ at[t] = "idle" /\ guards[t] < MaxGuards /\ Count(t, 1)
  /\ UNCHANGED <<lockState, ours, other, files, at>>

(* AdvisoryLockGuard::drop: Arc::into_inner gives the last one its content.      *)
DropGuard(t) ==
  /\ at[t] = "idle" /\ guards[t] > 0 /\ Count(t, -1)
  /\ Goto(t, IF Strong = 1 THEN "funlock" ELSE "idle")
  /\ UNCHANGED <<lockState, ours, other, files>>

(* AdvisoryLockGuard::unlock: Arc::try_unwrap, whose error holds the Arc until   *)
(* the match is left.                                                            *)
Unlock(t) ==
  /\ at[t] = "idle" /\ guards[t] > 0 /\ Count(t, -1)
  /\ Goto(t, IF Strong = 1 THEN "funlock" ELSE "stillLocked")
  /\ UNCHANGED <<lockState, ours, other, files>>

(* The last reference to the descriptor closes it, which unlocks it.             *)
CloseIfLast(fs, strong) == ours' = IF fs = {} /\ strong = 0 THEN Free ELSE ours

(* The Arc of a failed unlock is dropped: no AdvisoryLockGuard is, so nothing is *)
(* unlocked.                                                                     *)
UnlockFails(t) ==
  /\ at[t] = "stillLocked" /\ Goto(t, "idle")
  /\ CloseIfLast(files, Strong - 1)
  /\ UNCHANGED <<lockState, other, files, guards>>

(* try_take_last_clone_unlocking_guard: the guard and then the file must be the  *)
(* last clones; otherwise the guard is handed back.                              *)
TakeLast(t) ==
  /\ t \in files /\ at[t] = "idle" /\ guards[t] > 0 /\ Strong = 1
  /\ Count(t, -1) /\ Goto(t, "taking")
  /\ UNCHANGED <<lockState, ours, other, files>>
TakeFile(t) ==
  /\ at[t] = "taking"
  /\ IF files = {t} THEN Goto(t, "funlock") /\ UNCHANGED guards
                    ELSE Goto(t, "idle") /\ Count(t, 1)
  /\ UNCHANGED <<lockState, ours, other, files>>

\* Fault seeded in Funlock: the state is reset before the system call.
Funlock_stateFirst(t) ==
  /\ \/ /\ at[t] = "funlock" /\ lockState' = "Unlocked" /\ Goto(t, "unlocked") /\ UNCHANGED ours
     \/ /\ at[t] = "unlocked" /\ ours' = Free /\ Goto(t, "idle") /\ UNCHANGED lockState
  /\ UNCHANGED <<other, files, guards>>

(* funlock and funlock_immediately: the system call, then the state.             *)
Funlock(t) ==
  /\ \/ /\ at[t] = "funlock" /\ ours' = Free /\ Goto(t, "unlocked") /\ UNCHANGED lockState
     \/ /\ at[t] = "unlocked" /\ lockState' = "Unlocked" /\ Goto(t, "idle") /\ UNCHANGED ours
  /\ UNCHANGED <<other, files, guards>>

(* A clone of the file, for a thread that has none; a clone is closed or dropped *)
(* (discard): it closes the descriptor if it is the last reference.              *)
CloneFile(t) ==
  /\ files # {} /\ t \notin files /\ files' = files \cup {t}
  /\ UNCHANGED <<lockState, ours, other, guards, at>>
CloseFile(t) ==
  /\ t \in files /\ at[t] = "idle" /\ files' = files \ {t}
  /\ CloseIfLast(files \ {t}, Strong + Cardinality(TookLast))
  /\ UNCHANGED <<lockState, other, guards, at>>

(* Another process takes and releases its lock.  External.                       *)
OtherProcess ==
  /\ \E m \in {Free} \cup Modes :
       /\ m # other /\ other' = m
       /\ m = Free \/ ours = Free \/ (m = "shared" /\ ours = "shared")
  /\ UNCHANGED <<lockState, ours, files, guards, at>>

Next ==
  \/ OtherProcess
  \/ \E t \in Threads :
       \/ MarkLocking(t) \/ Flock(t) \/ Commit(t) \/ CloneGuard(t) \/ DropGuard(t)
       \/ Unlock(t) \/ UnlockFails(t) \/ TakeLast(t) \/ TakeFile(t) \/ Funlock(t)
       \/ CloneFile(t) \/ CloseFile(t)

Spec == Init /\ [][Next]_flVars

----------------------------------------------------------------------------------
(* Whoever has a guard, or is about to unlock with the last one, has the lock,   *)
(* and the assertions of funlock hold: no unlock takes a later lock away.        *)
GuardMeansLocked ==
  Strong > 0 \/ TookLast # {} => lockState = "Locked" /\ ours \in Modes

(* The lock is released when the last guard is gone: nobody holds or is changing *)
(* the lock of an open file, so it is free.                                      *)
LockReleased ==
  Strong = 0 /\ files # {} /\ (\A t \in Threads : at[t] = "idle") => ours = Free
==================================================================================
