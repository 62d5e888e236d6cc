------------------------------- MODULE ExecutorPool -------------------------------
(* LocalExecutorPoolBuilder::on_all_shards (executor/mod.rs) and the Latch of    *)
(* executor/latch.rs that holds every shard back until all threads exist.        *)
EXTENDS Integers, FiniteSets

CONSTANTS NrShards,         \* placement.executor_count()
          NotifierMayFail   \* whether new_sleep_notifier may return an error

VARIABLES
  spawned,      \* threads std::thread::Builder spawned, numbered from 1
  builderAt,    \* "spawning", "cancelling", "joining", "Ok" or "Err"
  shard,        \* of a thread: "none", "arriving", "setting", "waiting", "running",
                \* "ended" (its future returned), "failed" (LocalExecutor::new) or "gaveUp"
  latchCount,   \* LatchInner.count
  latchState    \* LatchInner.state

poolVars == <<spawned, builderAt, shard, latchCount, latchState>>

Shards == 1 .. NrShards
Over == {"ended", "failed", "gaveUp"}

(* Latch::new                                                                    *)
LatchNew == NrShards

Init ==
  /\ spawned = 0 /\ builderAt = "spawning" /\ shard = [s \in Shards |-> "none"]
  /\ latchCount = LatchNew /\ latchState = "Pending"

(* spawn_thread: an eventfd for the thread's notifier, then the thread.          *)
SpawnThread ==
  /\ builderAt = "spawning" /\ spawned < NrShards
  /\ spawned' = spawned + 1 /\ shard' = [shard EXCEPT ![spawned + 1] = "arriving"]
  /\ UNCHANGED <<builderAt, latchCount, latchState>>

(* The thread cannot be spawned: Latch::cancel, whose update zeroes the count    *)
(* and then sets the state.                                                      *)
SpawnFails ==
  /\ builderAt = "spawning" /\ spawned < NrShards
  /\ latchCount # 0 /\ latchCount' = 0 /\ builderAt' = "cancelling"
  /\ UNCHANGED <<spawned, shard, latchState>>
Cancel ==
  /\ builderAt = "cancelling" /\ builderAt' = "joining" /\ latchState' = "Canceled"
  /\ UNCHANGED <<spawned, shard, latchCount>>

(* new_sleep_notifier fails: the question mark returns before the match that     *)
(* would cancel the latch.                                                       *)
NotifierFails ==
  /\ NotifierMayFail /\ builderAt = "spawning" /\ spawned < NrShards
  /\ builderAt' = "joining"
  /\ UNCHANGED <<spawned, shard, latchCount, latchState>>

(* on_all_shards returns: the handles, or after join_all the error.              *)
BuilderReturns ==
  /\ \/ builderAt = "spawning" /\ spawned = NrShards /\ builderAt' = "Ok"
     \/ /\ builderAt = "joining" /\ \A s \in 1 .. spawned : shard[s] \in Over
        /\ builderAt' = "Err"
  /\ UNCHANGED <<spawned, shard, latchCount, latchState>>

(* arrive_and_wait: count_down(1), and the state when the count becomes zero.    *)
Arrive(s) ==
  /\ shard[s] = "arriving"
  /\ latchCount' = IF latchCount >= 1 THEN latchCount - 1 ELSE latchCount
  /\ shard' = [shard EXCEPT ![s] = IF latchCount = 1 THEN "setting" ELSE "waiting"]
  /\ UNCHANGED <<spawned, builderAt, latchState>>
SetState(s) ==
  /\ shard[s] = "setting" /\ shard' = [shard EXCEPT ![s] = "waiting"]
  /\ latchState' = "Ready"
  /\ UNCHANGED <<spawned, builderAt, latchCount>>

(* Latch::wait returns, and the closure of the thread goes on: LocalExecutor::new *)
(* may fail, and so may run, which ends the thread with an error.                *)
Go(s) ==
  /\ shard[s] = "waiting" /\ latchState # "Pending"
  /\ IF latchState = "Ready" THEN \E r \in {"running", "failed"} : shard' = [shard EXCEPT ![s] = r]
                             ELSE shard' = [shard EXCEPT ![s] = "gaveUp"]
  /\ UNCHANGED <<spawned, builderAt, latchCount, latchState>>
RunReturns(s) ==
  /\ shard[s] = "running" /\ shard' = [shard EXCEPT ![s] = "ended"]
  /\ UNCHANGED <<spawned, builderAt, latchCount, latchState>>

Next ==
  \/ SpawnThread \/ SpawnFails \/ Cancel \/ NotifierFails \/ BuilderReturns
  \/ \E s \in Shards : Arrive(s) \/ SetState(s) \/ Go(s) \/ RunReturns(s)

Spec == Init /\ [][Next]_poolVars

(* The builder and the threads are run by the operating system.                  *)
Fairness ==
  /\ WF_poolVars(SpawnThread \/ Cancel \/ BuilderReturns)
  /\ \A s \in Shards : WF_poolVars(Arrive(s) \/ SetState(s) \/ Go(s))
FairSpec == Spec /\ Fairness

----------------------------------------------------------------------------------
(* on_all_shards returns, with an error if a thread could not be spawned.        *)
BuilderAnswers == <>(builderAt \in {"Ok", "Err"})
==================================================================================
