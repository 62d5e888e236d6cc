---------------------------------- MODULE Spawning ----------------------------------
(* The tasks of one executor and the handles by which they hold each other: the       *)
(* spawn functions of executor/mod.rs, Task and ScopedTask, and the scheduler of      *)
(* executor/multitask.rs that brings a runnable to its queue, or to the default queue *)
(* for cleanup when its queue was removed.  spawn_local polls the new task at once,   *)
(* inside the poll of the one that spawns: polls form a stack.  What is abstracted:   *)
(* flags and references of a task (TaskLifecycle), the choice of a queue (Executor),  *)
(* panics.  A pending task has left a waker with someone; one that has not is dropped *)
(* by TaskLifecycle.                                                                  *)
EXTENDS Naturals, Sequences, SequencesExt, FiniteSets

CONSTANTS
  MaxTasks,       \* bound on the tasks that are spawned; they are numbered in that order
  MaxQueues,      \* bound on the task queues that are created
  None

VARIABLES
  future,         \* of a task: "none" before it is spawned, "alive", "dropped"
  completed, closed, scheduled,   \* the tasks with that flag
  scoped,         \* tasks spawned by spawn_scoped_local and spawn_scoped_local_into
  home,           \* task_queue_index of a task
  holder,         \* who has the handle: a task, all of them, or none
  awaiter,        \* the task whose waker is registered with the handle, or None
  runnables,      \* of a queue: its runnables
  available, active, executing,   \* available_executors, the active ones, active_executing
  executorIndex,  \* executor_index: the next queue
  polls           \* the tasks being polled, the innermost last

flags == <<completed, closed, scheduled>>
handles == <<scoped, holder, awaiter>>
queues == <<runnables, available, active, executing, executorIndex>>
spawnVars == <<future, flags, handles, home, queues, polls>>

Default == 0
TaskIds == 1 .. MaxTasks
Main == 1         \* the task of LocalExecutor::run
Shared == 0       \* the holder of a handle that all tasks can reach
Queues == 0 .. MaxQueues - 1
Running == Range(polls)
Current == Last(polls)
Finished(t) == t \in completed \/ (t \in closed /\ future[t] = "dropped" /\ t \notin Running)

(* LocalExecutor::run spawns its future into the default queue and detaches it.       *)
Init ==
  /\ future = [t \in TaskIds |-> IF t = Main THEN "alive" ELSE "none"]
  /\ completed = {} /\ closed = {} /\ scheduled = {Main} /\ scoped = {}
  /\ home = [t \in TaskIds |-> Default]
  /\ holder = [t \in TaskIds |-> None] /\ awaiter = [t \in TaskIds |-> None]
  /\ runnables = [q \in Queues |-> IF q = Default THEN <<Main>> ELSE <<>>]
  /\ available = {Default} /\ active = {Default} /\ executing = None /\ executorIndex = 1
  /\ polls = <<>>

---------------------------------------------------------------------------------------
\* Fault seeded in InPlace: the scoped tasks of a dropped task live on.
InPlace_shallow(dropped) == dropped

(* cancel_in_place drops a future that is not being polled.  Dropping a future drops  *)
(* the handles it holds: those of scoped tasks cancel in place in turn.               *)
InPlace(dropped) ==
  LET idle == scoped \ Running
  IN  dropped \cup {t \in idle : \A S \in SUBSET idle :
                       (\A u \in idle : holder[u] \in dropped \cup S => u \in S) => t \in S}

\* Fault seeded in QueueOf: a runnable goes to its queue, removed or not.
QueueOf_home(t) == home[t]

(* Scheduler::schedule: to the queue of the task, or to the default queue.            *)
QueueOf(t) == IF home[t] \in available THEN home[t] ELSE Default

(* do_wake schedules a task once.  If its queue is gone, schedule_cleanup cancels it, *)
(* and a task that awaits it is woken in turn, and so on.                             *)
Homeless(t) == t \notin Running /\ home[t] \notin available
Woken(told, deaf) ==
  LET hear == TaskIds \ deaf
  IN  {t \in hear : \A S \in SUBSET hear :
         told \cap hear \subseteq S
           /\ (\A u \in S : Homeless(u) => awaiter[u] \in S \cup deaf) => t \in S}

(* ExecutorContext::schedule: runnables are pushed behind those there are, each on    *)
(* its queue.  Futures drop what they hold in the order in which they declare it,     *)
(* which can be any.                                                                  *)
Behind(s, q, pushed) == {s \o new : new \in SetToSeqs({t \in pushed : QueueOf(t) = q})}
Push(there, pushed) ==
  /\ \E r \in [Queues -> UNION {Behind(there[q], q, pushed) : q \in Queues}] :
       (\A q \in Queues : r[q] \in Behind(there[q], q, pushed)) /\ runnables' = r
  /\ active' = active \cup {QueueOf(t) : t \in pushed}

(* Those in ended lose their futures, those in lost their handles, those in cut are   *)
(* cancelled; whoever is cancelled and idle is scheduled, to be cleaned up.           *)
Settled(there, left, ended, lost, cut, woken) ==
  LET homeless == {t \in woken : Homeless(t)}
  IN  /\ future' = [t \in TaskIds |-> IF t \in ended THEN "dropped" ELSE future[t]]
      /\ closed' = closed \cup cut \cup homeless
      /\ scheduled' = (scheduled \ left) \cup (cut \ Running) \cup woken
      /\ holder' = [t \in TaskIds |-> IF t \in lost THEN None ELSE holder[t]]
      /\ awaiter' = [t \in TaskIds |-> IF t \in cut \cup left \cup homeless THEN None
                                      ELSE awaiter[t]]
      /\ Push(there, (cut \cup woken) \ (scheduled \cup Running))

(* What happens at once when the tasks in left are neither scheduled nor running any  *)
(* more, those in dropped lose their futures, the handles of those in released are    *)
(* dropped and those in cancelled are cancelled: a handle that is dropped cancels,    *)
(* and the awaiters of all of them are woken.                                         *)
Settle(there, left, dropped, released, cancelled) ==
  \E ended \in {InPlace(dropped)} :
  \E lost \in {released \cup {t \in TaskIds : holder[t] \in ended}} :
  \E cut \in {(cancelled \cup lost) \ (closed \cup completed)} :
  \E deaf \in {{None} \cup left \cup ended \cup completed \cup closed \cup cut \cup scheduled} :
  \E woken \in {Woken({awaiter[t] : t \in cut \cup left}, deaf)} :
    Settled(there, left, ended, lost, cut, woken)

---------------------------------------------------------------------------------------
(* The run loop: a queue is selected, its runnables are run, it ends when it is empty *)
(* or preempted.                                                                      *)

RunOneTaskQueue(q) ==
  /\ executing = None /\ q \in active
  /\ executing' = q
  /\ UNCHANGED <<future, flags, handles, home, runnables, available, active, executorIndex,
                 polls>>

GetTask(t) ==
  executing # None /\ polls = <<>> /\ runnables[executing] # <<>>
    /\ t = Head(runnables[executing])
WithoutHead == [runnables EXCEPT ![executing] = Tail(@)]

RunTask(t) ==
  /\ GetTask(t) /\ t \notin closed
  /\ runnables' = WithoutHead /\ scheduled' = scheduled \ {t} /\ polls' = <<t>>
  /\ UNCHANGED <<future, completed, closed, handles, home, available, active, executing,
                 executorIndex>>

(* A closed task is not polled but dropped.                                           *)
DropTask(t) ==
  /\ GetTask(t) /\ t \in closed
  /\ Settle(WithoutHead, {t}, {t}, {}, {})
  /\ UNCHANGED <<completed, scoped, home, available, executing, executorIndex, polls>>

EndTaskQueue ==
  /\ executing # None /\ polls = <<>>
  /\ active' = IF runnables[executing] = <<>> THEN active \ {executing} ELSE active
  /\ executing' = None
  /\ UNCHANGED <<future, flags, handles, home, runnables, available, executorIndex, polls>>

---------------------------------------------------------------------------------------
(* The end of a poll.                                                                 *)

PollReady ==
  /\ polls # <<>>
  /\ Settle(runnables, {Current}, {Current}, {}, {})
  /\ completed' = completed \cup {Current} /\ polls' = Front(polls)
  /\ UNCHANGED <<scoped, home, available, executing, executorIndex>>

PollPendingClosed ==
  /\ polls # <<>> /\ Current \in closed
  /\ Settle(runnables, {Current}, {Current}, {}, {})
  /\ polls' = Front(polls)
  /\ UNCHANGED <<completed, scoped, home, available, executing, executorIndex>>

(* A task woken during its poll is scheduled again.                                   *)
PollPending ==
  /\ polls # <<>> /\ Current \notin closed
  /\ Push(runnables, {Current} \cap scheduled)
  /\ polls' = Front(polls)
  /\ UNCHANGED <<future, flags, handles, home, available, executing, executorIndex>>

(* A waker, called by a task that runs or by the reactor.                             *)
Wake(t) ==
  /\ future[t] = "alive" /\ t \notin completed \cup closed \cup scheduled
  /\ polls = <<>> => executing = None
  /\ LET deaf == {None} \cup completed \cup closed \cup scheduled
         woken == Woken({t}, deaf)
         homeless == {u \in woken : Homeless(u)}
     IN  /\ closed' = closed \cup homeless
         /\ scheduled' = scheduled \cup woken
         /\ awaiter' = [u \in TaskIds |-> IF u \in homeless THEN None ELSE awaiter[u]]
         /\ Push(runnables, woken \ Running)
  /\ UNCHANGED <<future, completed, scoped, holder, home, available, executing, executorIndex,
                 polls>>

---------------------------------------------------------------------------------------
(* What the task that runs does with tasks: it spawns them, and holds their handles.  *)

New(t, inScope, queue) ==
  /\ polls # <<>> /\ future[t] = "none" /\ \A u \in 1 .. t - 1 : future[u] # "none"
  /\ future' = [future EXCEPT ![t] = "alive"]
  /\ home' = [home EXCEPT ![t] = queue]
  /\ holder' = [holder EXCEPT ![t] = Current]
  /\ scoped' = IF inScope THEN scoped \cup {t} ELSE scoped

(* spawn_and_run, on the queue that executes.                                         *)
SpawnInternal(t, inScope) ==
  /\ New(t, inScope, executing)
  /\ polls' = Append(polls, t)
  /\ UNCHANGED <<flags, awaiter, queues>>
SpawnLocal(t) == SpawnInternal(t, FALSE)
SpawnScopedLocal(t) == SpawnInternal(t, TRUE)

(* spawn_and_schedule, on a queue that has not been removed.                          *)
SpawnInto(t, queue, inScope) ==
  /\ queue \in available
  /\ New(t, inScope, queue)
  /\ scheduled' = scheduled \cup {t}
  /\ runnables' = [runnables EXCEPT ![queue] = Append(@, t)] /\ active' = active \cup {queue}
  /\ UNCHANGED <<completed, closed, awaiter, available, executing, executorIndex, polls>>
SpawnLocalInto(t, queue) == SpawnInto(t, queue, FALSE)
SpawnScopedLocalInto(t, queue) == SpawnInto(t, queue, TRUE)

Holds(t) == polls # <<>> /\ holder[t] = Current
Reaches(t) == polls # <<>> /\ holder[t] \in {Current, Shared}

(* A handle is put where all tasks can reach it.                                      *)
Share(t) ==
  /\ Holds(t)
  /\ holder' = [holder EXCEPT ![t] = Shared]
  /\ UNCHANGED <<future, flags, scoped, awaiter, home, queues, polls>>

(* Task::detach, whose result is dropped: a scoped task has no such method.           *)
Detach(t) ==
  /\ Reaches(t) /\ t \notin scoped
  /\ holder' = [holder EXCEPT ![t] = None]
  /\ UNCHANGED <<future, flags, scoped, awaiter, home, queues, polls>>

(* JoinHandle::poll: a task that has ended gives its handle up, any other registers   *)
(* the waker of the one that runs.                                                    *)
AwaitReady(t) ==
  /\ Holds(t) /\ Finished(t)
  /\ holder' = [holder EXCEPT ![t] = None] /\ awaiter' = [awaiter EXCEPT ![t] = None]
  /\ UNCHANGED <<future, flags, scoped, home, queues, polls>>

AwaitPending(t) ==
  /\ Holds(t) /\ ~Finished(t)
  /\ awaiter' = [awaiter EXCEPT ![t] = Current]
  /\ UNCHANGED <<future, flags, scoped, holder, home, queues, polls>>

(* Task::cancel and ScopedTask::cancel, up to the wait for the end of the task.       *)
Scoped(t) == {t} \cap (scoped \ Running)
Cancel(t) ==
  /\ Reaches(t)
  /\ Settle(runnables, {}, Scoped(t), {}, {t})
  /\ UNCHANGED <<completed, scoped, home, available, executing, executorIndex, polls>>

TaskCancel(t) == t \notin scoped /\ Cancel(t)
ScopedCancel(t) == t \in scoped /\ Cancel(t)

(* Task::drop and ScopedTask::drop.                                                   *)
DropHandle(t) ==
  /\ Reaches(t)
  /\ Settle(runnables, {}, Scoped(t), {t}, {})
  /\ UNCHANGED <<completed, scoped, home, available, executing, executorIndex, polls>>

TaskDrop(t) == t \notin scoped /\ DropHandle(t)
ScopedDrop(t) == t \in scoped /\ DropHandle(t)

---------------------------------------------------------------------------------------
(* Queues are created by tasks, and removed by whoever has the executor.              *)

CreateTaskQueue ==
  /\ polls # <<>> /\ executorIndex < MaxQueues
  /\ available' = available \cup {executorIndex} /\ executorIndex' = executorIndex + 1
  /\ UNCHANGED <<future, flags, handles, home, runnables, active, executing, polls>>

(* The default queue is kept: run unwraps its handle.                                 *)
RemoveTaskQueue(q) ==
  /\ q \in available \ (active \cup {Default, executing})
  /\ available' = available \ {q}
  /\ UNCHANGED <<future, flags, handles, home, runnables, active, executing, executorIndex,
                 polls>>

Next ==
  \/ \E q \in Queues : RunOneTaskQueue(q) \/ RemoveTaskQueue(q)
  \/ EndTaskQueue \/ PollReady \/ PollPendingClosed \/ PollPending \/ CreateTaskQueue
  \/ \E t \in TaskIds :
       \/ RunTask(t) \/ DropTask(t) \/ Wake(t)
       \/ SpawnLocal(t) \/ SpawnScopedLocal(t)
       \/ \E q \in Queues : SpawnLocalInto(t, q) \/ SpawnScopedLocalInto(t, q)
       \/ Share(t) \/ Detach(t) \/ AwaitReady(t) \/ AwaitPending(t)
       \/ TaskCancel(t) \/ ScopedCancel(t) \/ TaskDrop(t) \/ ScopedDrop(t)

Spec == Init /\ [][Next]_spawnVars

---------------------------------------------------------------------------------------
TypeOK ==
  /\ future \in [TaskIds -> {"none", "alive", "dropped"}]
  /\ completed \subseteq TaskIds /\ closed \subseteq TaskIds /\ scheduled \subseteq TaskIds
  /\ scoped \subseteq TaskIds /\ home \in [TaskIds -> Queues]
  /\ holder \in [TaskIds -> TaskIds \cup {Shared, None}]
  /\ awaiter \in [TaskIds -> TaskIds \cup {None}]
  /\ runnables \in [Queues -> Seq(TaskIds)]
  /\ available \subseteq Queues /\ active \subseteq Queues /\ executing \in Queues \cup {None}
  /\ polls \in Seq(TaskIds)

(* A scope holds: once the handle of a scoped task is gone, with whatever held it,    *)
(* its future is dropped, so that what it borrows may go; if it is being polled at    *)
(* that time, it is closed and this poll is its last (ScopedTask::drop).              *)
ScopesHold ==
  \A t \in scoped : holder[t] = None /\ future[t] = "alive" => t \in Running \cap closed

Places(t) == {e \in Queues \X (1 .. MaxTasks) :
                e[2] \in DOMAIN runnables[e[1]] /\ runnables[e[1]][e[2]] = t}

(* Every task that has work, to run or to be dropped, will come to it: a scheduled    *)
(* task that does not run has one runnable, in a queue that is there and active, also *)
(* when its own queue was removed; a cancelled task whose future is left is scheduled *)
(* or running; a task is polled only on its own queue and whoever waits for it when   *)
(* it has ended has been told, or will be when its runnable is dropped                *)
(* (Scheduler::schedule, schedule_cleanup, cancel, close).                            *)
TasksAccounted ==
  /\ \A t \in TaskIds :
       /\ Cardinality(Places(t)) = IF t \in scheduled \ Running THEN 1 ELSE 0
       /\ t \in closed /\ future[t] = "alive" => t \in scheduled \cup Running
       /\ t \in Running => home[t] = executing
       /\ Finished(t) => awaiter[t] = None \/ t \in scheduled
  /\ \A q \in Queues : runnables[q] # <<>> => q \in available \cap active
=======================================================================================
