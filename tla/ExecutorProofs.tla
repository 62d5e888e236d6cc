----------------------------- MODULE ExecutorProofs ------------------------------
(* No queue is forgotten and the order of the heap is kept, for any set of     *)
(* queues, latencies and run times.                                            *)
EXTENDS Executor, WellFoundedInduction, TLAPS

----------------------------------------------------------------------------------
(* The inductive invariant.                                                    *)

Running == pc \in {"running", "task"}

Types ==
  /\ status \in [Queues -> {"new", "available", "removed"}]
  /\ runnables \in [Queues -> 0 .. MaxRunnables]
  /\ active \in [Queues -> BOOLEAN] /\ yielded \in [Queues -> BOOLEAN]
  /\ vruntime \in [Queues -> Nat] /\ defaultVruntime \in Nat
  /\ heap \subseteq Queues /\ executing \in Queues \cup {None}
  /\ timer \in 1 .. PreemptTimer /\ unwound \in BOOLEAN
  /\ pc \in {"out", "react", "queues", "running", "task", "idle", "parked"}

(* Where the active queues are, whether or not a panic left run: those in the  *)
(* heap and the one that runs are active, and only inactive ones are removed.  *)
Places ==
  /\ \A q \in heap : active[q]
  /\ \A q \in Queues : active[q] => status[q] = "available"
  /\ Running => executing \in Queues /\ active[executing] /\ executing \notin heap
  /\ pc = "idle" => heap = {}

(* Until a panic leaves run, no active queue is anywhere else.                 *)
Accounted ==
  ~unwound =>
    /\ ~Running => executing = None
    /\ \A q \in Queues :
         /\ runnables[q] > 0 => active[q]
         /\ active[q] => q \in heap \/ q = executing

(* default_vruntime is a lower bound of the queues that compete, a queue that  *)
(* wakes up starts just above it, and neither comes near the limit.            *)
Runtimes ==
  /\ defaultVruntime < MaxVruntime - Headroom
  /\ \A q \in Queues : vruntime[q] <= MaxVruntime - Headroom
  /\ \A q \in heap : /\ defaultVruntime <= vruntime[q]
                     /\ vruntime[q] < MaxVruntime - Headroom \/ vruntime[q] <= defaultVruntime + 1
  /\ Running => defaultVruntime <= vruntime[executing]

IInv == Types /\ Places /\ Accounted /\ Runtimes

----------------------------------------------------------------------------------
(* The least element of a set of numbers.                                      *)
LEMMA MinNat ==
  ASSUME NEW S \in SUBSET Nat, S # {}
  PROVE  Min(S) \in S /\ \A y \in S : Min(S) <= y
  <1>1. PICK x \in S : \A y \in S : ~(<<y, x>> \in OpToRel(<, Nat))
    BY NatLessThanWellFounded, WFMin
  <1>2. \A y \in S : x <= y
    <2> SUFFICES ASSUME NEW y \in S, y < x PROVE FALSE
      BY SMT
    <2>1. <<y, x>> \in Nat \X Nat /\ <<y, x>>[1] < <<y, x>>[2]
      BY SMT
    <2>2. <<y, x>> \in OpToRel(<, Nat)
      BY <2>1 DEF OpToRel
    <2> QED BY <1>1, <2>2
  <1> QED BY <1>1, <1>2 DEF Min

(* reevaluate_preempt_timer yields a duration that some queue asks for, or the *)
(* default one.                                                                *)
LEMMA TimerInRange ==
  ASSUME NEW h \in SUBSET Queues
  PROVE  Reevaluated(h) \in 1 .. PreemptTimer
  <1> DEFINE S == {Latency[q] : q \in h} \cup {PreemptTimer}
  <1>1. S \subseteq 1 .. PreemptTimer /\ S # {}
    BY LatencyAssumption, SMT
  <1> HIDE DEF S
  <1>2. S \in SUBSET Nat
    BY <1>1, LatencyAssumption, SMT
  <1>3. Min(S) \in S
    BY <1>1, <1>2, MinNat
  <1> QED BY <1>1, <1>3 DEF Reevaluated, S

----------------------------------------------------------------------------------
(* The initial states.                                                         *)
LEMMA InitIInv == Init => IInv
  <1> SUFFICES ASSUME Init PROVE IInv
    OBVIOUS
  <1> USE DefaultAssumption, LatencyAssumption, BoundsAssumption DEF Init
  <1>1. Types
    <2>1. status \in [Queues -> {"new", "available", "removed"}]
      BY Zenon
    <2>2. timer \in 1 .. PreemptTimer /\ 0 \in 0 .. MaxRunnables
      BY SMT
    <2> QED BY <2>1, <2>2 DEF Types
  <1>2. Places /\ Accounted
    BY DEF Places, Accounted, Running
  <1>3. Runtimes
    BY DEF Runtimes, Running, Headroom
  <1> QED BY <1>1, <1>2, <1>3 DEF IInv

(* A runnable is pushed on a queue, which is activated if it was not.  An      *)
(* active queue is in the heap or runs already, so that the heap changes for   *)
(* an inactive one only.  The loop is not idle when this happens, or leaves    *)
(* that state.                                                                 *)
LEMMA ScheduleStep ==
  ASSUME IInv, NEW q \in Queues, Schedule(q),
         \/ pc \in {"out", "task", "react", "parked"} /\ pc' = pc
         \/ pc \in {"out", "idle"} /\ pc' = "react"
  PROVE  IInv'
  <1> USE DefaultAssumption, BoundsAssumption
  <1>1. PICK t \in Queues :
          /\ runnables[t] < MaxRunnables
          /\ runnables' = [runnables EXCEPT ![t] = @ + 1]
          /\ status' = [status EXCEPT ![t] = "available"]
          /\ MaybeActivate(t)
          /\ UNCHANGED <<yielded, executing, defaultVruntime, unwound>>
    BY DEF Schedule, CleanupQueues, Available
  <1>2. Types /\ Places /\ Accounted /\ Runtimes
    BY DEF IInv
  <1>3. runnables' \in [Queues -> 0 .. MaxRunnables]
    BY <1>1, <1>2 DEF Types
  <1>4. status' \in [Queues -> {"new", "available", "removed"}]
    BY <1>1, <1>2 DEF Types
  <1>5. CASE active[t]
    <2>1. UNCHANGED <<active, vruntime, heap, timer>>
      BY <1>1, <1>5 DEF MaybeActivate
    <2>2. Types'
      BY <1>1, <1>2, <1>3, <1>4, <2>1 DEF Types
    <2>3. Places' /\ Accounted'
      BY <1>1, <1>2, <1>3, <1>5, <2>1 DEF Types, Places, Accounted, Running
    <2>4. Runtimes'
      BY <1>1, <1>2, <2>1 DEF Runtimes, Running
    <2> QED BY <2>2, <2>3, <2>4 DEF IInv
  <1>6. CASE ~active[t]
    <2>1. /\ active' = [active EXCEPT ![t] = TRUE]
          /\ vruntime' = [vruntime EXCEPT ![t] = defaultVruntime + 1]
          /\ heap' = heap \cup {t} /\ timer' = Reevaluated(heap')
      BY <1>1, <1>6 DEF MaybeActivate
    <2>2. timer' \in 1 .. PreemptTimer
      BY <1>2, <2>1, TimerInRange DEF Types
    <2>3. Types'
      <3>1. active' \in [Queues -> BOOLEAN] /\ vruntime' \in [Queues -> Nat]
        BY <1>2, <2>1 DEF Types
      <3> QED BY <1>1, <1>2, <1>3, <1>4, <2>1, <2>2, <3>1 DEF Types
    <2>4. t \notin heap /\ (Running => t # executing)
      BY <1>2, <1>6 DEF Places
    <2>5. Places'
      BY <1>1, <1>2, <2>1, <2>4 DEF Types, Places, Running
    <2>6. Accounted'
      BY <1>1, <1>2, <1>3, <2>1 DEF Types, Accounted, Running
    <2>7. Runtimes'
      BY <1>1, <1>2, <2>1, <2>4 DEF Types, Runtimes, Places, Running, Headroom
    <2> QED BY <2>3, <2>5, <2>6, <2>7 DEF IInv
  <1> QED BY <1>5, <1>6

(* Creating and removing queues: only an inactive queue is removed.            *)
LEMMA RegistryStep ==
  ASSUME IInv, NEW q \in Queues, CreateTaskQueue(q) \/ RemoveTaskQueue(q)
  PROVE  IInv'
  <1> USE DEF CreateTaskQueue, RemoveTaskQueue, queue, sched
  <1>1. Types'
    BY DEF IInv, Types
  <1>2. Places' /\ Accounted'
    BY DEF IInv, Types, Places, Accounted, Running
  <1>3. Runtimes'
    BY DEF IInv, Types, Runtimes, Running
  <1> QED BY <1>1, <1>2, <1>3 DEF IInv

(* The steps that only move the loop: run becomes idle with an empty heap.     *)
LEMMA LoopStep ==
  ASSUME IInv,
         \/ RunEnd \/ React \/ Preempted \/ NoQueue \/ TaskReturns \/ TaskPanics
         \/ SpinFinds \/ Park \/ Unpark
  PROVE  IInv'
  <1> USE DEF RunEnd, React, Preempted, NoQueue, TaskReturns, TaskPanics, SpinFinds, Park, Unpark,
          queue, sched
  <1>1. Types'
    BY DEF IInv, Types
  <1>2. Places' /\ Accounted'
    BY DEF IInv, Types, Places, Accounted, Running
  <1>3. Runtimes'
    BY DEF IInv, Types, Runtimes, Running
  <1> QED BY <1>1, <1>2, <1>3 DEF IInv

(* The queue that is selected moves from the heap to active_executing.         *)
LEMMA SelectStep ==
  ASSUME IInv, NEW q \in Queues, SelectQueue(q)
  PROVE  IInv'
  <1> USE DefaultAssumption DEF SelectQueue, Popped
  <1>1. Types'
    BY DEF IInv, Types
  <1>2. Places' /\ Accounted'
    BY DEF IInv, Types, Places, Accounted, Running
  <1>3. Runtimes'
    BY DEF IInv, Types, Runtimes, Running
  <1> QED BY <1>1, <1>2, <1>3 DEF IInv

(* A task is taken off the queue that runs, or put back by a yield.            *)
LEMMA TaskStep ==
  ASSUME IInv, RunTask \/ Yield
  PROVE  IInv'
  <1> USE BoundsAssumption DEF RunTask, Yield, sched
  <1>0. Running /\ executing \in Queues /\ active[executing]
    BY DEF IInv, Places, Running
  <1>1. Types'
    <2>1. runnables' \in [Queues -> 0 .. MaxRunnables]
      BY <1>0 DEF IInv, Types
    <2> QED BY <1>0, <2>1 DEF IInv, Types
  <1>2. Places' /\ Accounted'
    BY <1>0 DEF IInv, Types, Places, Accounted, Running
  <1>3. Runtimes'
    BY <1>0 DEF IInv, Types, Runtimes, Running
  <1> QED BY <1>1, <1>2, <1>3 DEF IInv

(* The queue that ran goes back to the heap with its tasks, or is inactive.    *)
LEMMA EndStep ==
  ASSUME IInv, NEW d \in Deltas, EndQueue(d)
  PROVE  IInv'
  <1> DEFINE q == executing
             again == runnables[q] > 0
             S == {vruntime'[x] : x \in heap'}
  <1> USE DefaultAssumption, BoundsAssumption
  <1>0. Types /\ Places /\ Accounted /\ Runtimes
    BY DEF IInv
  <1>1. /\ pc = "running" /\ pc' = "queues" /\ Running
        /\ vruntime[q] + d \notin (MaxVruntime - Headroom) .. MaxVruntime
        /\ vruntime' = Vruntimes(q, d)
        /\ active' = [active EXCEPT ![q] = again]
        /\ executing' = None
        /\ heap' = IF again THEN heap \cup {q} ELSE heap
        /\ timer' = IF again THEN timer ELSE Reevaluated(heap')
        /\ defaultVruntime' = IF heap' = {} THEN vruntime'[q] ELSE Min(S)
        /\ UNCHANGED <<status, runnables, yielded, unwound>>
    BY DEF EndQueue, Running
  <1>2. q \in Queues /\ active[q] /\ q \notin heap /\ d \in Nat \ {0} /\ heap' \subseteq Queues
    BY <1>0, <1>1, DeltasAssumption DEF Types, Places
  <1>3. \A x \in heap \cup {q} : status[x] = "available"
    BY <1>0, <1>2 DEF Places, Types
  <1>4. vruntime' \in [Queues -> Nat] /\ \A x \in Queues : vruntime'[x] <= MaxVruntime - Headroom
    BY <1>0, <1>1, <1>2 DEF Types, Runtimes, Vruntimes, Headroom
  <1>5. timer' \in 1 .. PreemptTimer
    BY <1>0, <1>1, <1>2, TimerInRange DEF Types
  <1>6. /\ heap' # {} => S \in SUBSET Nat /\ S # {}
        /\ heap' # {} => Min(S) \in S /\ \A y \in S : Min(S) <= y
    <2>1. heap' # {} => S \in SUBSET Nat /\ S # {}
      BY <1>2, <1>4
    <2> HIDE DEF S
    <2> QED BY <2>1, MinNat
  <1>7. defaultVruntime' \in Nat /\ \A x \in heap' : defaultVruntime' <= vruntime'[x]
    BY <1>1, <1>2, <1>4, <1>6
  <1>8. Types'
    <2>1. active' \in [Queues -> BOOLEAN]
      BY <1>0, <1>1, <1>2 DEF Types
    <2> QED BY <1>0, <1>1, <1>2, <1>4, <1>5, <1>7, <2>1 DEF Types
  <1>9. Places'
    BY <1>0, <1>1, <1>2 DEF Types, Places, Running
  <1>10. Accounted'
    BY <1>0, <1>1, <1>2 DEF Types, Accounted, Running
  <1>11. Runtimes'
    <2>1. CASE vruntime[q] + d <= MaxVruntime
      <3>1. vruntime' = [vruntime EXCEPT ![q] = @ + d]
        BY <1>1, <2>1 DEF Vruntimes
      <3>2. vruntime[q] + d < MaxVruntime - Headroom /\ defaultVruntime <= vruntime[q]
        BY <1>0, <1>1, <1>2, <2>1 DEF Types, Runtimes, Headroom
      <3>3. \A x \in heap' \cup {q} : /\ vruntime'[x] < MaxVruntime - Headroom
                                      /\ defaultVruntime <= vruntime'[x]
        BY <1>0, <1>1, <1>2, <3>1, <3>2 DEF Types, Runtimes, Headroom
      <3>4. defaultVruntime' < MaxVruntime - Headroom
        BY <1>1, <1>2, <1>4, <1>6, <3>3
      <3> QED BY <1>1, <1>2, <1>4, <1>7, <3>3, <3>4 DEF Runtimes, Running
    <2>2. CASE ~(vruntime[q] + d <= MaxVruntime)
      <3>1. \A x \in heap' \cup {q} : vruntime'[x] = 0
        BY <1>1, <1>2, <1>3, <2>2 DEF Vruntimes, Available
      <3>2. defaultVruntime' = 0
        BY <1>1, <1>6, <3>1
      <3> QED BY <1>1, <1>2, <1>4, <1>7, <3>1, <3>2 DEF Runtimes, Running, Headroom
    <2> QED BY <2>1, <2>2
  <1> QED BY <1>8, <1>9, <1>10, <1>11 DEF IInv

(* The invariant is inductive.                                                 *)
LEMMA NextKeeps == IInv /\ [Next]_vars => IInv'
  <1> SUFFICES ASSUME IInv, [Next]_vars PROVE IInv'
    OBVIOUS
  <1>1. CASE Loop
    BY <1>1, LoopStep, SelectStep, TaskStep, EndStep DEF Loop
  <1>2. CASE RunStart \/ \E q \in Queues : UserSchedules(q) \/ ReactorWakes(q) \/ SpinWakes(q)
    BY <1>2, ScheduleStep, DefaultAssumption DEF RunStart, UserSchedules, ReactorWakes, SpinWakes
  <1>3. CASE RunEnd \/ TaskPanics \/ SpinFinds
    BY <1>3, LoopStep
  <1>4. CASE Yield
    BY <1>4, TaskStep
  <1>5. CASE \E q \in Queues : CreateTaskQueue(q) \/ RemoveTaskQueue(q)
    BY <1>5, RegistryStep
  <1>6. CASE UNCHANGED vars
    BY <1>6 DEF vars, queue, sched, IInv, Types, Places, Accounted, Runtimes, Running
  <1> QED BY <1>1, <1>2, <1>3, <1>4, <1>5, <1>6 DEF Next

LEMMA Invariance == Spec => []IInv
  BY InitIInv, NextKeeps, PTL DEF Spec

----------------------------------------------------------------------------------
(* The theorems.                                                               *)

(* Type correctness: account_vruntime and maybe_activate stay in a u64, and    *)
(* the preemption timer is a duration some queue asks for or the default one.  *)
THEOREM TypeCorrect == Spec => []TypeOK
  <1>1. ASSUME IInv PROVE TypeOK
    <2>1. vruntime \in [Queues -> 0 .. MaxVruntime] /\ defaultVruntime \in 0 .. MaxVruntime
      BY <1>1, BoundsAssumption DEF IInv, Types, Runtimes, Headroom
    <2> QED BY <1>1, <2>1 DEF IInv, Types, TypeOK
  <1> QED BY <1>1, Invariance, PTL

(* A queue with runnables is in the heap or runs, unless a panic has left run; *)
(* run never becomes idle next to a queue in the heap.                         *)
THEOREM NoneForgotten == Spec => []QueueNotForgotten
  <1>1. IInv => QueueNotForgotten
    BY DefaultAssumption DEF IInv, Types, Places, Accounted, Running, Available, QueueNotForgotten
  <1> QED BY <1>1, Invariance, PTL

(* No step reorders two queues that stay in the heap: what account_vruntime    *)
(* and maybe_activate write in place is the key of a queue outside the heap,   *)
(* or, on overflow, of all of them.                                            *)
THEOREM OrderKept == Spec => HeapOrderKept
  <1> DEFINE Kept == \A x, y \in heap \cap heap' :
                       vruntime[x] < vruntime[y] => vruntime'[x] <= vruntime'[y]
  <1>1. ASSUME IInv, [Next]_vars PROVE [Kept]_vars
    <2>0. Types /\ Places
      BY <1>1 DEF IInv
    <2>1. ASSUME vruntime' = vruntime PROVE Kept
      BY <2>0, <2>1 DEF Types
    <2>2. ASSUME NEW q \in Queues, Schedule(q) PROVE Kept
      <3>1. PICK t \in Queues : MaybeActivate(t)
        BY <2>2, DefaultAssumption DEF Schedule, CleanupQueues, Available
      <3>2. CASE active[t]
        BY <2>1, <3>1, <3>2 DEF MaybeActivate
      <3>3. CASE ~active[t]
        <4>1. t \notin heap /\ vruntime' = [vruntime EXCEPT ![t] = defaultVruntime + 1]
          BY <2>0, <3>1, <3>3 DEF Places, MaybeActivate
        <4> QED BY <2>0, <4>1 DEF Types
      <3> QED BY <3>2, <3>3
    <2>3. ASSUME NEW d \in Deltas, EndQueue(d) PROVE Kept
      <3>1. executing \notin heap /\ vruntime' = Vruntimes(executing, d)
        BY <2>0, <2>3 DEF EndQueue, Places, Running
      <3>2. CASE vruntime[executing] + d <= MaxVruntime
        BY <2>0, <3>1, <3>2 DEF Types, Vruntimes
      <3>3. CASE ~(vruntime[executing] + d <= MaxVruntime)
        <4>1. \A x \in heap : vruntime'[x] = 0
          BY <2>0, <3>1, <3>3 DEF Types, Places, Vruntimes, Available
        <4> QED BY <4>1
      <3> QED BY <3>2, <3>3
    <2>4. CASE Loop
      BY <2>1, <2>3, <2>4 DEF Loop, React, Preempted, NoQueue, SelectQueue, RunTask, TaskReturns,
         Park, Unpark, queue
    <2>5. CASE RunStart \/ \E q \in Queues : UserSchedules(q) \/ ReactorWakes(q) \/ SpinWakes(q)
      BY <2>2, <2>5, DefaultAssumption DEF RunStart, UserSchedules, ReactorWakes, SpinWakes
    <2>6. CASE RunEnd \/ Yield \/ TaskPanics \/ SpinFinds
      BY <2>1, <2>6 DEF RunEnd, Yield, TaskPanics, SpinFinds, queue
    <2>7. CASE \E q \in Queues : CreateTaskQueue(q) \/ RemoveTaskQueue(q)
      BY <2>1, <2>7 DEF CreateTaskQueue, RemoveTaskQueue, queue
    <2> QED BY <1>1, <2>4, <2>5, <2>6, <2>7 DEF Next
  <1> QED BY <1>1, Invariance, PTL DEF Spec, HeapOrderKept
==================================================================================
