-------------------------------- MODULE Executor ---------------------------------
(* The task queues of an executor (executor/mod.rs): which queue runs next by  *)
(* its virtual runtime, when queues become active, when the loop of            *)
(* LocalExecutor::run polls the reactor and when it parks.                     *)
(*                                                                             *)
(* A queue's runnables are a number: what a runnable is and does is            *)
(* TaskLifecycle.  One thread; what is not determined is the time a queue ran, *)
(* need_preempt(), the wakes of the reactor and what tasks do.                 *)
EXTENDS Integers, FiniteSets, FiniteSetsExt

CONSTANTS Queues,          \* all the queues that are ever created
          Default,         \* the default queue, index 0
          Latency,         \* the preemption period a queue asks for
          PreemptTimer,    \* default_preempt_timer_duration
          Deltas,          \* scaled runtimes of one selection
          MaxVruntime,     \* u64::MAX
          MaxRunnables,    \* bound on the runnables of a queue (not in the code)
          None

ASSUME DefaultAssumption == Default \in Queues /\ None \notin Queues
ASSUME LatencyAssumption ==
  PreemptTimer \in Nat \ {0} /\ Latency \in [Queues -> 1 .. PreemptTimer]
ASSUME DeltasAssumption == Deltas \subseteq Nat \ {0}
ASSUME BoundsAssumption == MaxVruntime \in Nat /\ MaxVruntime > 2 /\ MaxRunnables \in Nat

VARIABLES
  status,      \* of a queue: "new", "available" (in available_executors), "removed"
  runnables,   \* TaskQueue.runnables
  active, vruntime, yielded,   \* TaskQueue's fields
  heap,        \* ExecutorQueues.active_executors
  executing,   \* ExecutorQueues.active_executing
  defaultVruntime, timer,      \* default_vruntime, preempt_timer_duration
  pc,          \* where LocalExecutor::run is; "out": not entered
  unwound      \* a poll panicked, and the panic left run

Headroom == 2

queue == <<runnables, active, vruntime, yielded>>
sched == <<heap, executing, defaultVruntime, timer>>
vars == <<status, queue, sched, pc, unwound>>

Available == {q \in Queues : status[q] = "available"}

Init ==
  /\ status = [q \in Queues |-> IF q = Default THEN "available" ELSE "new"]
  /\ runnables = [q \in Queues |-> 0] /\ active = [q \in Queues |-> FALSE]
  /\ vruntime = [q \in Queues |-> 0] /\ yielded = [q \in Queues |-> FALSE]
  /\ heap = {} /\ executing = None
  /\ defaultVruntime = 0 /\ timer = PreemptTimer
  /\ pc = "out" /\ unwound = FALSE

(* reevaluate_preempt_timer, over the queues in the heap.                      *)
Reevaluated(h) == Min({Latency[q] : q \in h} \cup {PreemptTimer})

----------------------------------------------------------------------------------
\* Fault seeded in MaybeActivate: a queue that wakes up starts at zero.
MaybeActivate_atZero(q) ==
  IF active[q] THEN UNCHANGED <<active, vruntime, heap, timer>>
  ELSE /\ active' = [active EXCEPT ![q] = TRUE]
       /\ vruntime' = [vruntime EXCEPT ![q] = 0]
       /\ heap' = heap \cup {q} /\ timer' = Reevaluated(heap')

MaybeActivate(q) ==
  IF active[q] THEN UNCHANGED <<active, vruntime, heap, timer>>
  ELSE /\ active' = [active EXCEPT ![q] = TRUE]
       /\ vruntime' = [vruntime EXCEPT ![q] = defaultVruntime + 1]
       /\ heap' = heap \cup {q} /\ timer' = Reevaluated(heap')

(* cleanup_queue: where the runnable of a removed queue goes.  When no queue   *)
(* is left one is created, with Latency::NotImportant.                         *)
CleanupQueues ==
  CASE Default \in Available -> {Default}
    [] Default \notin Available /\ Available # {} -> Available
    [] OTHER -> {q \in Queues : status[q] = "new" /\ Latency[q] = PreemptTimer}

(* ExecutorContext::schedule, or schedule_cleanup.                             *)
Schedule(q) ==
  \E target \in IF q \in Available THEN {q} ELSE CleanupQueues :
    /\ status[q] # "new" /\ runnables[target] < MaxRunnables
    /\ runnables' = [runnables EXCEPT ![target] = @ + 1]
    /\ status' = [status EXCEPT ![target] = "available"]
    /\ MaybeActivate(target)
    /\ UNCHANGED <<yielded, executing, defaultVruntime, unwound>>

CreateTaskQueue(q) ==
  /\ pc \in {"out", "task"} /\ status[q] = "new"
  /\ status' = [status EXCEPT ![q] = "available"]
  /\ UNCHANGED <<queue, sched, pc, unwound>>

\* Fault seeded in RemoveTaskQueue: does not look at the queue's state.
RemoveTaskQueue_active(q) ==
  /\ pc \in {"out", "task"} /\ status[q] = "available" /\ executing # q
  /\ status' = [status EXCEPT ![q] = "removed"]
  /\ UNCHANGED <<queue, sched, pc, unwound>>

RemoveTaskQueue(q) ==
  /\ pc \in {"out", "task"} /\ status[q] = "available"
  /\ executing # q /\ ~active[q]
  /\ status' = [status EXCEPT ![q] = "removed"]
  /\ UNCHANGED <<queue, sched, pc, unwound>>

(* A wake from the task that is running, or outside run, where the runnable of *)
(* a removed queue is dropped instead (schedule_inactive).                     *)
UserSchedules(q) ==
  /\ pc = "task" \/ (pc = "out" /\ q \in Available)
  /\ Schedule(q) /\ UNCHANGED pc

----------------------------------------------------------------------------------
(* LocalExecutor::run.  The main future is a runnable of the default queue.    *)
RunStart ==
  /\ pc = "out" /\ Default \in Available /\ Schedule(Default) /\ pc' = "react"

(* The main future's handle is ready, before react or when the queues idle.    *)
RunEnd ==
  /\ pc \in {"react", "idle"} /\ pc' = "out"
  /\ UNCHANGED <<status, queue, sched, unwound>>

(* Completions, timers, channels and foreign wakes; then the timer is armed.   *)
ReactorWakes(q) == pc \in {"react", "parked"} /\ Schedule(q) /\ UNCHANGED pc

React ==
  /\ pc = "react" /\ pc' = "queues"
  /\ UNCHANGED <<status, queue, sched, unwound>>

(* run_task_queues, interrupted between two queues.                            *)
Preempted ==
  /\ pc = "queues" /\ pc' = IF heap = {} THEN "idle" ELSE "react"
  /\ UNCHANGED <<status, queue, sched, unwound>>

NoQueue ==
  /\ pc = "queues" /\ heap = {} /\ pc' = "idle"
  /\ UNCHANGED <<status, queue, sched, unwound>>

(* BinaryHeap::pop with TaskQueue's order: the least vruntime, ties anyhow.    *)
Popped == {q \in heap : \A x \in heap : vruntime[q] <= vruntime[x]}

(* run_one_task_queue, up to the first task.                                   *)
SelectQueue(q) ==
  /\ pc = "queues" /\ q \in Popped
  /\ heap' = heap \ {q} /\ executing' = q
  /\ yielded' = [yielded EXCEPT ![q] = FALSE] /\ pc' = "running"
  /\ UNCHANGED <<status, runnables, active, vruntime, defaultVruntime, timer, unwound>>

RunTask ==
  /\ pc = "running" /\ ~yielded[executing] /\ runnables[executing] > 0
  /\ runnables' = [runnables EXCEPT ![executing] = @ - 1] /\ pc' = "task"
  /\ UNCHANGED <<status, active, vruntime, yielded, sched, unwound>>

TaskReturns ==
  /\ pc = "task" /\ pc' = "running"
  /\ UNCHANGED <<status, queue, sched, unwound>>

(* yield_if_needed and yield_task_queue_now: mark_me_for_yield, then a wake.   *)
Yield ==
  /\ pc = "task" /\ runnables[executing] < MaxRunnables
  /\ yielded' = [yielded EXCEPT ![executing] = TRUE]
  /\ runnables' = [runnables EXCEPT ![executing] = @ + 1] /\ pc' = "running"
  /\ UNCHANGED <<status, active, vruntime, sched, unwound>>

(* The panic of a poll leaves run; nothing puts the queue back.                *)
TaskPanics ==
  /\ pc = "task" /\ pc' = "out" /\ unwound' = TRUE
  /\ UNCHANGED <<status, queue, sched>>

(* account_vruntime: on overflow every available queue starts again from zero. *)
Vruntimes(q, d) ==
  IF vruntime[q] + d <= MaxVruntime
    THEN [vruntime EXCEPT ![q] = @ + d]
    ELSE [x \in Queues |-> IF x \in Available THEN 0 ELSE vruntime[x]]

\* Fault seeded in EndQueue: an empty queue stays active.
EndQueue_staysActive(d) ==
  LET q == executing IN
  /\ pc = "running" /\ pc' = "queues"
  /\ vruntime[q] + d \notin (MaxVruntime - Headroom) .. MaxVruntime
  /\ vruntime' = Vruntimes(q, d)
  /\ executing' = None
  /\ heap' = IF runnables[q] > 0 THEN heap \cup {q} ELSE heap
  /\ timer' = IF runnables[q] > 0 THEN timer ELSE Reevaluated(heap')
  /\ defaultVruntime' = IF heap' = {} THEN vruntime'[q] ELSE Min({vruntime'[x] : x \in heap'})
  /\ UNCHANGED <<status, runnables, active, yielded, unwound>>

(* run_one_task_queue after the last task: preempted, yielded, or empty.  The  *)
(* sums that come within Headroom of u64::MAX are left out, so that the        *)
(* default_vruntime + 1 of maybe_activate does not overflow.                   *)
EndQueue(d) ==
  LET q == executing
      again == runnables[q] > 0
  IN /\ pc = "running" /\ pc' = "queues"
     /\ vruntime[q] + d \notin (MaxVruntime - Headroom) .. MaxVruntime
     /\ vruntime' = Vruntimes(q, d)
     /\ active' = [active EXCEPT ![q] = again]
     /\ executing' = None
     /\ heap' = IF again THEN heap \cup {q} ELSE heap
     /\ timer' = IF again THEN timer ELSE Reevaluated(heap')
     /\ defaultVruntime' = IF heap' = {} THEN vruntime'[q]
                           ELSE Min({vruntime'[x] : x \in heap'})
     /\ UNCHANGED <<status, runnables, yielded, unwound>>

(* Nothing to run: spin_poll_io goes back to the loop when it woke something   *)
(* (a task, or a waker that schedules nothing); otherwise, in time, react      *)
(* parks until there is an event.                                              *)
SpinWakes(q) == pc = "idle" /\ Schedule(q) /\ pc' = "react"

SpinFinds ==
  /\ pc = "idle" /\ pc' = "react"
  /\ UNCHANGED <<status, queue, sched, unwound>>

Park ==
  /\ pc = "idle" /\ pc' = "parked"
  /\ UNCHANGED <<status, queue, sched, unwound>>

Unpark ==
  /\ pc = "parked" /\ pc' = "react"
  /\ UNCHANGED <<status, queue, sched, unwound>>

----------------------------------------------------------------------------------
Loop ==
  \/ React \/ Preempted \/ NoQueue \/ (\E q \in Queues : SelectQueue(q))
  \/ RunTask \/ TaskReturns \/ (\E d \in Deltas : EndQueue(d)) \/ Park \/ Unpark

Next ==
  \/ Loop \/ RunStart \/ RunEnd \/ Yield \/ TaskPanics \/ SpinFinds
  \/ \E q \in Queues :
       \/ CreateTaskQueue(q) \/ RemoveTaskQueue(q) \/ UserSchedules(q)
       \/ ReactorWakes(q) \/ SpinWakes(q)

(* The thread runs, tasks return, the timer ends the run of a queue, and       *)
(* preemption does not come before every selection for ever: react consumes    *)
(* the events that need_preempt looks at.  A park whose event has woken a      *)
(* queue returns; nothing says that there is an event.                         *)
Fairness ==
  /\ WF_vars(React) /\ WF_vars(heap # {} /\ Unpark)
  /\ SF_vars(\E q \in Queues : SelectQueue(q))
  /\ SF_vars(TaskReturns) /\ SF_vars(\E d \in Deltas : EndQueue(d))

Spec == Init /\ [][Next]_vars
FairSpec == Spec /\ Fairness

----------------------------------------------------------------------------------
(* Properties.                                                                 *)

(* The types.  account_vruntime and maybe_activate keep the virtual runtimes   *)
(* in a u64.                                                                   *)
TypeOK ==
  /\ status \in [Queues -> {"new", "available", "removed"}]
  /\ runnables \in [Queues -> 0 .. MaxRunnables]
  /\ active \in [Queues -> BOOLEAN] /\ yielded \in [Queues -> BOOLEAN]
  /\ vruntime \in [Queues -> 0 .. MaxVruntime] /\ defaultVruntime \in 0 .. MaxVruntime
  /\ heap \subseteq Queues /\ executing \in Queues \cup {None}
  /\ timer \in 1 .. PreemptTimer /\ unwound \in BOOLEAN
  /\ pc \in {"out", "react", "queues", "running", "task", "idle", "parked"}

(* A queue with runnables is in the heap or is the one that runs, and nothing  *)
(* else is: a queue that is active but in neither would never run again.  Only *)
(* a panic that leaves run breaks this, for the queue that was running.  Nor   *)
(* does run park next to a queue in the heap, although preemption may come     *)
(* before the first queue: "parking with {} runnable task queues".             *)
QueueNotForgotten ==
  /\ ~unwound => \A q \in Queues :
       /\ runnables[q] > 0 => active[q]
       /\ active[q] <=> q \in heap \/ q = executing
       /\ ~(q \in heap /\ q = executing)
       /\ active[q] => q \in Available
  /\ pc = "idle" => heap = {}

(* The keys of a BinaryHeap may change only if their order does not: queues    *)
(* are shared with the map, and an overflow resets their vruntime in place.    *)
HeapOrderKept ==
  [][\A x, y \in heap \cap heap' : vruntime[x] < vruntime[y] => vruntime'[x] <= vruntime'[y]]_vars

(* No queue starves: one that is in the heap is selected while run goes on,    *)
(* whatever the other queues do and however often they sleep and wake up.      *)
QueueSelected ==
  \A q \in Queues : q \in heap ~> (executing = q \/ pc = "out")

(* "the Latency enum takes a duration parameter that determines for how long   *)
(* other tasks can run": when react arms the preemption timer, it is not       *)
(* longer than what any queue waiting in the heap asks for.                    *)
TimerHonoursLatency ==
  [][pc = "react" /\ pc' = "queues" => \A q \in heap' : timer' <= Latency[q]]_vars
==================================================================================
