# TLA+ specifications of glommio

glommio is a thread-per-core asynchronous runtime: every `LocalExecutor` is one
thread with its own task queues, its own io_uring reactor and its own memory.
Almost everything runs on one thread without locks. What crosses threads does
so through a few hand-written structures: the ring between two executors, the
eventfd that wakes a sleeping executor, the reference count of a task whose
waker was sent away, the channels of the blocking pool, the latch of an executor
pool, the advisory lock of a file. These specifications are about those places,
and about the parts of one thread in which the order of calls decides whether
the program is right: the life of a task, of a timer and of an io_uring source,
the choice of the next task queue, the synchronisation primitives, the streams.

Every action translates code of this repository. `PROJECT.json` gives, for each
definition, the file and the lines it stands for (`map`), the hazards the
properties are aimed at (`hazards`), and for each property a seeded fault of
the code that TLC catches with it (`mutants`). A definition that carries a
fault has a suffix (`DropWaiter_silent`) and a comment "Fault seeded in"; no
specification uses it.

## Running

    tlc -workers 2 -config Channels_pass.cfg MCChannels
    tlapm SpscQueueProofs.tla

`PROJECT.json` (`runs`) pairs every `.cfg` with its module. The modules with
theorems end in `Proofs`; `tlapm` takes a minute or two for most of them and
about ten minutes for `RuntimeProofs`, `SyncProofs` and the two about tasks when
nothing is cached.

## The system

| Component | State | Operations | Interacts with |
|---|---|---|---|
| SPSC ring, `channels/spsc_queue.rs` | `head`, `tail`, `limit`, slots with `has_value`, ids of the two ends | `try_push`, `try_pop`, `free_space`, `size`, connect, disconnect, drop | shared channel, two threads |
| Shared channel, `channels/shared_channel.rs` | the ring, the task that waits on each side | `connect`, `send`, `try_send`, `recv`, `close`, drop | ring, reactor (registry of channel checks), sleep notifier |
| Mesh and sharding, `channels/` | peers, their channels; streams, forwarders | join, connect; handle, send, forward, close | shared channel |
| Sleep and wake-up, `sys/mod.rs`, `sys/uring.rs` | `should_notify`, eventfd, whether a read of it is installed | `notify`, `prepare_to_sleep`, `wake_up`, `wait` | channels, foreign wakes, blocking pool, membarrier |
| Spawning, `executor/` | handles of tasks, scoped tasks, the queue of each task | `spawn_local`, `spawn_scoped_local` and their `_into` forms, await, cancel, detach, drop | tasks, task queues |
| Tasks, `task/` | state flags, reference count, awaiter, `active`, registry links | `run`, `wake`, `schedule`, `cancel`, `close`, `drop_waker`, `shutdown`, JoinHandle | task queues, foreign wakes, user code that reenters |
| Foreign wakes, `sys/mod.rs` | a locked queue of wakers, closed flag | `queue_waker`, `process_foreign_wakes`, close | tasks, reactor |
| Task queues and run loop, `executor/` | available queues, heap of active ones, executing queue, virtual runtimes, preemption timer | create, remove, schedule, `run_task_queues`, `run_one_task_queue`, park | reactor, tasks |
| Executor pool and latch, `executor/` | threads, latch counter and state | `on_all_shards`, `arrive_and_wait`, `cancel`, `join_all` | threads |
| Semaphore, RwLock, Gate, OnceCell, `sync/` | units or counts, intrusive lists of waiters, closed | acquire, poll, drop, release, close; initialise | tasks |
| Local channel, `channels/local_channel.rs` | queue, lists of waiting senders and receivers | `try_send`, `send`, `recv`, drops | tasks |
| Deadline queue, `controllers/` | entries beside a local channel, shares | push, process, adjust | local channel, task queues |
| Timers, `timer/`, `reactor.rs` | ordered map of timers and their wakers; the tasks of timer actions | insert, reset, expire; rearm, cancel, destroy, join | reactor, tasks |
| io_uring sources, `sys/uring.rs`, `sys/source.rs`, `free_list.rs` | source table, submission and cancellation queues, results | submit, consume, cancel, drop | reactor, tasks, kernel |
| Blocking pool, `sys/blocking.rs` | request and completion channels, sources by id | push, run, answer, flush, shutdown | sleep notifier |
| Read scheduler, `io/sched.rs` | tree of reads under way, by position | schedule, share, consume, drop | sources, files |
| File streams and bulk reads, `io/` | buffers, positions, flush state, merged requests | read, skip, seek, write, flush, sync, close; `read_many` | sources, tasks |
| Advisory lock, `io/glommio_file.rs`, `io/dma_file.rs` | lock state, guards | lock, clone, unlock, take the last clone | threads, kernel |
| File handles, `io/glommio_file.rs`, `io/dma_file.rs`, `io/immutable_file.rs` | the descriptor and its strong and weak owners | open, clone, dup, downgrade, upgrade, close, drop; operations by number | threads, reactor, kernel |
| Sockets, `net/` | receive buffer, sources, timeout; halves; the shared accept; `rx_yolo`, `tx_yolo` | connect, read, peek, write, split, unsplit, set timeout; accept; datagrams | reactor, timers, kernel |
| CPU placement, `executor/placement/` | policy, its sets of CPUs; tree of CPUs with counters | check and make a generator, next CPUs | executor pool |
| Stall detector, `executor/stall.rs` | timer, its thread, signal handler, channel of frames | enter and leave a task queue, signal, report, drop | run loop, kernel |
| Debugging, errors, buffers | diagnostics, or none that outlives a call | | |

What is hard in this code:

* **Concurrency.** The ring has no lock; its two threads share slots and are
  separated only by `has_value`. A task's count is atomic, its flags are not:
  a foreign thread that drops the last waker may not touch them. The kernel's
  file lock and the state that mirrors it are two words.
* **Lost wake-ups.** An executor stores `should_notify`, looks once more at
  its channels and sleeps; the sender pushes, then reads `should_notify`. The
  sender pays for no fence: the sleeper runs `membarrier`.
* **Futures that are dropped.** A waiter that was woken may be dropped before
  it is polled, a source while the kernel has its buffer, a flush with the
  handles it took, an accept that others share.
* **Reentrancy.** A future's destructor, a poll, a waker of the awaiter are
  user code. They may cancel, wake, drop the task that is being destroyed, or
  its executor.
* **Order.** Completions, writes and reads end in any order; executors that
  connect to each other wait for each other; a queue may be removed, or woken,
  while another runs; a panic leaves `run` in the middle.
* **Limits.** Indices that wrap, virtual runtimes that overflow, rings and
  channels that are full.

`hazards` in `PROJECT.json` lists the places, each with the properties that would
catch it; [further hazards](#further-hazards) are below.

## The modules

| Module | Models |
|---|---|
| `SpscQueue`, `BoundedFifo`, `SpscQueueProofs` | the ring, what it promises, and the proofs |
| `SharedChannel`, `SharedChannelProofs` | two executors, their channel, their sleep |
| `Mesh`, `Sharding` | joining a mesh; forwarding and closing over one |
| `TaskLifecycle`, `TaskLifecycleProofs`, `TaskSoundProofs` | one task, its owner's thread and foreign threads |
| `Executor`, `ExecutorProofs` | task queues and the run loop |
| `ExecutorPool` | `on_all_shards` and the latch |
| `WaitList` | what the intrusive lists of waiters have in common |
| `Semaphore`, `OnceCell` (on `Semaphore`), `RwLock`, `Gate` | `sync/` |
| `LocalChannel`, `DeadlineQueue` (extends `LocalChannel`) | the local channel and the queue built on it |
| `Spawning` | the tasks of an executor, their handles and queues |
| `Timers`, `TimerActions` (on `Timers`), `UringRing`, `BlockingPool` | the parts of the reactor |
| `DmaStreamWriter`, `DmaStreamReader`, `StreamWriter`, `StreamReader` | the streams over files |
| `BulkRead`, `IoSched`, `FileLock`, `FileHandles` | `read_many`, shared reads, the advisory lock, the owners of descriptors |
| `NetStream`, `StreamSocket`, `Listener`, `Datagram` | sockets: bytes, ownership, accepts, datagrams |
| `Placement` | the CPUs of a pool, or of one executor |
| `StallDetector` | the timer, the thread and the signal behind stall reports |
| `MCChannels`, `MCExecutor`, `MCSync`, `MCRuntime` | instances for TLC |
| `WaitListProofs` | counting, lists and induction, for the proofs below |
| `SyncProofs` | of `Semaphore`, and of `Gate`, `RwLock`, `LocalChannel`, `DeadlineQueue`, `OnceCell`, `Spawning`, each under its own specification, as instances of `MCSync` |
| `RuntimeProofs` | of `Timers`, `TimerActions`, `StreamReader`, `BlockingPool`, `FileLock`, `FileHandles`, as instances of `MCRuntime` |

`MCChannels`, `MCSync` and `MCRuntime` put several modules into one instance.
The modules of one instance share no state, so a variable `subject`, chosen in
the initial state, says which of them a behaviour is about; the others are off
(in `MCRuntime`, and for the sockets and `Spawning` of `MCSync`) or stay as they
start. Where a component is built of another (`OnceCell`, `DeadlineQueue`)
the two are composed in the module, not in the instance.

### `SpscQueue`, over `BoundedFifo`

The producer and the consumer are one program counter each, and **a step makes
at most one access to shared memory**: `try_push` is `PushStart`, `PushLook`
(the lookahead slot), `PushRecheck` (the slot itself), `PushWrite`,
`PushPublish` (the Release store of `has_value`), `PushAdvance` (`tail`);
`try_pop` is `PopStart`, `PopRead`, `PopClear`, `PopAdvance`. `SeeRoom` is the
`free_space() > 0` a sender relies on before it pushes (`promised`). `Size`
follows the code, which does not undo a wrap of `tail`; a 64-bit index does not
wrap in the life of a program, so `SeeRoom` is taken only while `tail >= head`.
Connecting, disconnecting and dropping the halves are actions; `FreeBuffer` is
`Buffer::drop`, run by the last half.

Indices are integers modulo `Word`, so that they wrap as `usize` does. The
acquire/release pair on `has_value` makes interleaving of these steps exact for
the values of the slots. It does not order the Relaxed index `head` after
`has_value`; that reordering is modelled in `SharedChannel`.

`BoundedFifo` is what the ring promises: a sequence `items` of at most
`Capacity` values, `Push` and `Pop`, and the value `taken` last. `Items` is the
refinement mapping: the values of the slots from the consumer's effective index
to the producer's. A
push takes effect at the Release store, a pop at the read of the value.

### `SharedChannel`

Two executors, `"tx"` and `"rx"`, each with the task that uses the channel and
the loop around it: `React` (which includes `ProcessChannels`), `ReapEventfd`,
`PrepareToSleep`, `MemBarrier`, `Recheck`, `Awake`, `WakeUp`. The task
connects, sends with `send` (`WaitForRoom`, `Push`) or `try_send`, receives
(`RecvPop`, `RecvEmpty`, then once more `RecvDisconnected` and `RecvAgain`),
closes, or is dropped; `CancelConnect` drops the `connect()` future. Each
operation ends in `Notify`.

The ring is a pair of counters here: that it is a FIFO queue is what
`SpscQueue` establishes. What matters instead is **when the other thread sees a
store**. A variable whose name ends in `Seen` is the peer's view, and a `See`
step catches it up. A Release store (`has_value`, an id) becomes visible only
after the stores before it; a Relaxed one (`head`, `tail`, `should_notify`) may
become visible in any order. `MemBarrier` publishes everything the two threads
have stored, which is what `membarrier(2)` does. Steps that touch no shared
state are merged into the next one that does. `AwakeByOther` stands for any
other completion that ends a sleep.

Not modelled: the branch of `Connector` for a peer whose executor is gone, and
an end that outlives its own reactor.

### `TaskLifecycle`

One task. Its owner thread is a **stack of frames**, one frame for each piece
of code still to be run, so that user code inside a poll or a destructor
(frames `poll`, `dtor`, `user`) may call any operation on the same task and
returns into the rest of the caller. An action is what a function does up to
the next call that may reenter: `run`, `poll_ready`, `poll_pending`,
`poll_panic`, `close`, `drop_future`, `do_wake`, `schedule`, `cancel`,
`drop_waker`, `shutdown` and so on keep the names of the source. A foreign
thread is a program counter with one atomic access per step:
`foreign_drop_load`, `foreign_drop_active`, `foreign_drop_queue`,
`foreign_drop_cas`. The count is a number, the flags are a set, the places that
own a reference (run queue, wakers, channel of foreign wakes, registry,
operations in progress) are counted apart from it, so that `RefsExact` can
compare them.

The executor's part of the life of a task is in the module too: entering and
leaving `run`, removing the queue, the steps of dropping the executor, closing
the channel of foreign wakes. An operation through `&JoinHandle` leaves an
`unborrow` frame: while it runs the handle is borrowed and cannot be dropped.

### `Executor`

The queues of one executor: status, number of runnables, `active`,
`vruntime`, `yielded`, the heap, `active_executing`, the preemption timer, and
where `run` is. `SelectQueue` pops the least virtual runtime, ties in any
order; `RunTask`, `Yield`, `TaskReturns`, `TaskPanics`, `EndQueue` are
`run_one_task_queue`; `Preempted` and `NoQueue` are the two ways
`run_task_queues` ends; `RunEnd`, `React`, `Park`, `Unpark` the loop of `run`.
What a queue ran, scaled by its shares, is an element of `Deltas`; a sum beyond
`MaxVruntime` takes the branch that starts all queues from zero. `Schedule`
includes `maybe_activate`, and, for a removed queue, the search for (or
creation of) a cleanup queue.

### `Semaphore`

Tasks that acquire, wait, are woken, polled, dropped, release and signal, over
a sequence that stands for the intrusive list. `ProcessWakes` is the loop
`process_wakes`: it unlinks and wakes from the head as long as the units
suffice, and reserves nothing. A waiter whose wake was delivered may be polled
late, or dropped.

### `OnceCell`, `RwLock`, `Gate`

As in `Semaphore`, a step is what a task does between two suspension points and
the intrusive lists are sequences. `OnceCell` is composed of `Semaphore` with
one unit: `GetOrTryInit`, `PollPermit`, `DropCall` take the semaphore's own
steps and do what the cell does around them; an initialiser may return, fail,
panic, be dropped or reenter. `RwLock` has the three loops of `wake_up_fibers`
(`All`, `TillFirstWriter`, `ThroughFirstWriter`) and keeps `queued_writers` as
the code counts it: a queued writer that is dropped stays counted, hence the
bound `MaxQueuedWriters`. `Gate` has passes that are cloned before and after
the closure and any number of closers; the channel of capacity one to a closer
is a flag.

### `LocalChannel`, `DeadlineQueue`

Several tasks send and receive; the items are a number, since what matters is
who is woken for which of them. `DeadlineQueue` extends it with the worker, the
requests in the channel and the entries kept beside it; `Withdraw` is the scope
guard of `push_work`, `ActionDone` the pop and the reply. `DropQueue` drops the
`DeadlineQueue` and with it the sender; the entries stay, because the task queue
has them too, as its `Shares::Dynamic` (`controllers/deadline_queue.rs:409`).
The worker therefore pops for every request it still finds in the channel, and
`PopFinds` is about those pops as well. The comment at line 423, "It is legal
for the queue not to be present anymore in case the DeadlineQueue itself was
destroyed", allows for a case that does not arise while the worker runs.

### `Mesh`, `Sharding`

`Mesh`: executors register under the mutex in any order and role, the last one
builds the channels (`Build`), all poll until the mesh is ready, then connect
one peer after the other; `connect` returns when both ends are there. A full
mesh and one of producers and consumers are both initial states. `Sharding`
starts when the mesh is joined: each shard's stream yields messages for any
shard, the forwarders deliver, `Close` waits for the streams, then closes the
senders, then waits for the forwarders.

### `ExecutorPool`

The builder starts threads one by one (`SpawnThread`, `SpawnFails`,
`NotifierFails`), each thread arrives at the latch and waits; `Cancel` is what
the builder does when a thread cannot be started. The latch's counter and state
are two words, as in the code.

### `Timers`

The two maps of the reactor, the clock, and for each id the state of its
`Timer`: new, polled, reset, dropped, destroyed by a `TimerActionOnce` or
`TimerActionRepeat`. `ProcessTimers` takes what has expired and wakes it.

### `TimerActions`

The two timer actions over the variables and the steps of `Timers`: a task that
sleeps on its timer, then acts, once or again and again, and the handle by which
it is rearmed, cancelled, destroyed or joined. The action is the program's and
may use any handle, its own too, while it is polled. `asked` is the time at
which the program last asked the action to start.

### `Spawning`

Tasks and the handles by which they hold each other. `spawn_local` polls the
new task inside the poll of the one that spawns it, so polls form a stack.
`Settle` is all that happens at once when futures end, handles are dropped or
tasks are cancelled: a dropped future drops the handles it holds, scoped ones
drop the futures of their tasks in place and so on down (`InPlace`, a least set
closed under holding; `Woken` is one under awaiting), others cancel, the
cancelled are scheduled to be cleaned up and awaiters are woken; a task whose
queue was removed goes to the default queue and is cancelled there. The flags
and references of each task are those of `TaskLifecycle`, the order of queues is
that of `Executor`.

### `UringRing`

One ring: a queue of submissions and one of cancellations, the submission ring,
the kernel, the completions, and the `SourceMap` over its free list. The
reactor's thread goes through `Begin`, `ConsumeCancellations`, `SubmitChain`,
`DispatchSubmissions`, `Reap`, `Back`; `Operation` and `PreemptTimer` queue a
source at either end, with or without a linked timeout; `DropSource` follows
the status of the source. The kernel (external) starts entries in order, and
completes in any order what it has started; a submission may be refused.

### `BlockingPool`

Two threads, channels of bounded depth in both directions, and a reactor that
flushes answers, prepares to sleep, looks once more and sleeps. Some calls run a
closure of the program (`Closures`, the `Fn` arm of `execute`), which may panic:
`ClosurePanics` ends the thread before it sends. That call is never answered and
its source stays in the map; `AnswerReachesTask` says that it is the only one to
suffer as long as a thread is left. When none is (`AllDown`), requests in the
channel stay there and whoever enqueues meets the `expect` of `push`
(`EnqueueFails`).

### The streams over files

Positions count units of data, a few of them to a buffer. `DmaStreamWriter`
has the writes it leaves behind, which complete in any order and may fail; a
padded write of a partial buffer followed by the write of the full one; the
task of `initiate_close`; and a file of which each block knows how many units
are data. `DmaStreamReader` has the read-ahead window, `skip`, dropped reads
and the wakers by buffer. `StreamReader` and `StreamWriter` are state machines
around one source; a task may give an operation up and begin another, and polls
again when the source has a result. `StreamWriter` numbers the units it accepts
and compares the file with what it should be.

### `IoSched`, `BulkRead`, `FileLock`, `FileHandles`

`IoSched`: the tree of reads, the search for one that covers a new read, and
`read_at` around it with its alignment; a kernel that reads to the end of the
file, or fails; other short reads are left out. `BulkRead`: the merger, the
window of reads in flight, the answers; the stream of requests yields, is
pending or ends at any time. What the stream gives it gives between polls: that
it is pending and then ready within one poll, in the loop at line 389, is left
out. `ReadAmplificationLimit::NoLimit` is a `Gap` as long as the file.
`FileLock`: one instance of a file, whose clones and guards are on several
threads, with the lock state and the kernel's lock as two words, and another
process that locks the same file; `TakeFile` has one guard, of the file it takes
(a guard on a duplicate, lines 326 to 338 of `io/glommio_file.rs`, is left out).
`FileHandles`: descriptors, their numbers, which the kernel gives to the next
file once they are free, and the handles of every form that share a descriptor.
An operation that is queued, on the ring or for the thread pool, has only the
number.

### `NetStream`, `StreamSocket`, `Listener`, `Datagram`

`NetStream` numbers the bytes of the peer. Reads bypass the buffer, fill it by a
call that does not block, or lend it to the kernel; they may be given up, and
time out. `StreamSocket` has no bytes; it follows two streams from connect,
accept or pair through split and reunion, a move to another executor and their
drop, with the descriptor, the sources and the timeouts each object takes along,
and the entries of the ring, which name sockets by number. `Datagram`: tasks
that share a socket, each operation first tried at once if the flag of its
direction (`rx_yolo`, `tx_yolo`) is set, then queued on the ring; sources that
are dropped may have taken a datagram. `Listener` has both families: accepts of
a `TcpListener` share one source, those of a `UnixListener` have their own.

### `Placement`, `StallDetector`

`Placement` has both generators, `CpuSetGenerator::pool` and `one`, with their
checks (`PoolAccepts`, `OneAccepts`), and what `next` returns under each policy.
For `MaxSpread` and `MaxPack` that is the tree of priority queues over a set of
locations; `SelectCpu` takes the next CPU by the policy's comparison at every
level. A CPU may go offline between the choice of the set and the check.

`StallDetector` has the executor's thread, which arms the timer for a run of a
task queue and, when the guard is dropped, disarms it and then empties the
channel; the timer's thread, which waits, looks at `terminated` and sends the
signal, each a step of its own; and the signal, which is handled at any later
step. The store of `terminated` is relaxed and becomes visible by a step.

## Runs

| Run | Instance | Shows |
|---|---|---|
| `channels` | ring of 4 slots, indices modulo 16 from 14, 2 values; 4 executors that ask to join 3 places; 2 shards, channels of one place, 3 messages each | The ring implements `BoundedFifo` (`ImplementsFifo`); slot accesses never meet (`SlotOwnership`); a refused push found a full ring (`RefusesOnlyWhenFull`); room that was seen stays (`RoomIsKept`); when both halves are gone the ring is emptied and freed (`DropFrees`). Whoever is among the peers of a complete mesh joins it (`EveryoneJoins`). Closing returns on every shard, after everything was handled (`ShardsClose`). |
| `shared_channel` | capacity 1, 2 items | No executor sleeps while its task has work that nobody will announce (`NoSleepOnWork`); a waiting task with work is released (`WorkReleases`); `None` means everything was received (`NoneMeansDrained`). |
| `shared_channel_panic` | same | Finding 1: `SendFindsRoom` is violated. |
| `shared_channel_cancelled` | same | Finding 2: `GoneSenderEndsRecv` is violated. |
| `task_liveness` | 1 foreign thread, 2 wakers | A task without handle and wakers is freed (`AbandonedIsFreed`); a scheduled task stops being scheduled (`ScheduledRuns`). |
| `executor` | 3 queues, one with latency 1 against 2, runtimes {1, 4}, overflow at 6, 2 runnables | No queue with work is out of the heap (`QueueNotForgotten`), keys keep their order in it (`HeapOrderKept`), every active queue is selected (`QueueSelected`). |
| `executor_latency` | same | Finding 4: `TimerHonoursLatency` is violated. |
| `pool_stuck` | 3 shards | Finding 5: `BuilderAnswers` is violated. |
| `sync` | 4 tasks and a worker; 3 units in amounts {1, 2} or only 2, 2 extra units; a channel of 2 places; sockets with 3 bytes or 2 datagrams, 3 connections, 2 streams; 3 tasks on 2 queues | `UnitsNotLost` (units are conserved and, when all requests are of one amount, do not lie next to a suspended task), `GuardsExclude`, `FreeLockWakes`, `WakesMatchItems`, `PopFinds`, `ClosedMeansNoPass`, `CallNotStranded`. Sockets (`StreamDelivers`): bytes and datagrams come in order and none is lost but to a future that was dropped, no accept waits for ever on another's source, and an operation reaches the socket it was made for, with the timeouts the program set. Spawning: a scoped task ends with its handle (`ScopesHold`); whoever is scheduled or cancelled comes to its run, and whoever waits for it is told (`TasksAccounted`). |
| `semaphore_stranded` | mixed amounts | Finding 3: `NotStranded` is violated. |
| `runtime` | a task with 2 foreign threads and 3 wakers, or one of the parts in `MCRuntime`, with the bounds given there | Tasks: `RefsExact`, `NoUseAfterFree`, `FutureExclusive`, `AwaiterNotStranded`, `ShutdownComplete`. Reactor: `TimerNotLost`; `ReactorServes` (the kernel never writes to a source that is gone, the reactor sleeps only when nothing is left for it to do, a timer action starts when it was asked for and leaves nothing behind, no more stalls are reported than there were and the stall detector's thread ends with it); `AnswerReachesTask`. Files: `FlushedReadable`, `WriterFinishes`, `ReaderNotStranded`, `ReadsAtPosition`, `GuardMeansLocked`; `FilesServed` (a shared read gives what a read of one's own would, `read_many` answers in order, a handle has its file open and operations reach the file they were made for). Placement: `EveryCpuInTurn` (no CPU is given out twice before each was once, and every executor gets the CPUs its policy promises). |
| `writer_abandoned` | buffers of 2 units, write-behind 2, 5 units | Finding 6: `FlushedReadable` is violated when flushes may be dropped. |

**Why the bounds are enough.** Four slots start two below the wrap of the index,
so pushes and pops cross it with the ring empty, full and in between. A channel
of one slot makes the sender wait after every item; two items let it wait, be
released and send again while the receiver drains. Three peers can form a
circle, and a fourth executor comes too late. Two shards with channels of one
place fill both directions. Two foreign threads with three wakers let two drops
race while the owner still holds one, and nobody's. Foreign threads are
interchangeable, and so are the timers, sources, handles and threads of the
other parts in `MCRuntime`, which have the same two names (symmetry); runs that
check liveness do not use it. Three queues are the executing one, one in the
heap and one that wakes or goes; the sums of 1 and 4 reach the overflow at 6
from several values. Four tasks are the fewest for a waiter that is overtaken
while another waits behind it, on a semaphore, a lock or a channel. Two sources
fill a ring of two entries and reuse each other's slots. Three calls, of which
two are closures, exceed a pool's depth of one with two threads. Two and a half
buffers, two of them behind the writer, let a full buffer follow a padded one
and leave a tail to truncate; the reader's file ends inside a buffer. The file
of the buffered reader is longer than its `end_pos`, and seeks go past both:
past `end_pos` the subtraction at `io/buffered_file_stream.rs:594` underflows,
and `ReadsAtPosition` says that this is the only way the reader panics. Three
readers whose ranges overlap share, start partway and outlive each other. Two
descriptors and two handles, or two sockets, are the fewest for a number that is
used again while an entry for its old owner is queued. Three tasks hold each
other in a chain, or two of them the third, and two queues are the default one
and one that is removed. Five requests merge, stay apart and are cut by either
limit. The machines for placement have nodes of different sizes, on each level.
Three runs of task queues are one that stalls, one that is blamed, and one after
it.

Bounds that the code does not have are named: `MaxWakers`, `MaxItems`,
`MaxRunnables`, `MaxSignal`, `MaxMessages`, `MaxQueued`, `MaxQueuedWriters`,
`MaxTime`, `MaxPos`, `MaxFailures`, `MaxReadErrors`, `MaxUnits`, `MaxEnd`,
`MaxGuards`, `MaxBytes`, `MaxConns`, `MaxDatagrams`, `MaxDrops`, `MaxSockets`,
`MaxTasks`, `MaxQueues`, `ActionTime`, `MaxFds`, `MaxRounds`, `MaxRuns`.
`Headroom` leaves out sums within 2 of `MaxVruntime`, for which
`default_vruntime + 1` would overflow in the code.

**Deadlock** is not checked in any run: programs may stop (all ends dropped,
`run` returned, all items sent). What must not stop is stated as a liveness
property, or as an invariant that a task which waits has someone who wakes it.

**Fairness.**

* Ring: weak fairness of `Buffer::drop` (the pops of the last half, then the
  release), which one thread performs without waiting for anybody. None for
  the users' decisions to push, pop or drop.
* Mesh: weak fairness of the steps of the executors that asked to join; their
  tasks are polled when they can go on. None for the asking.
* Sharding: weak fairness of streams ending, of sends that wait, of forwarders,
  and of `close` once it was called. The documentation of `close` asks the
  program to end its streams.
* Channel: weak fairness of each executor's loop (a thread that runs or is
  woken goes on) and of the `See` steps (a store becomes visible eventually).
  None for what the program chooses to do.
* Task: weak fairness of the frames of the owner (straight-line code), strong
  fairness of: polls and user code return, an executor that is not dropped is
  entered again and runs its queue, it processes foreign wakes, foreign threads
  finish the call they made. Strong, because wakes and reentrant calls may
  disable a step again and again.
* Executor: weak fairness of `React` and of `Unpark` with queues in the heap,
  strong fairness of selecting, of tasks returning and of ending a queue's
  turn. A task that never returns stops a cooperative scheduler; nothing is
  promised then.
* Executor pool: weak fairness of the builder's thread and of each shard's.
* `sync` and `runtime` check safety only: waits are covered by invariants that
  name who wakes the waiter.

## Findings

1. **`send` may panic on weakly ordered hardware** (`SendFindsRoom`).
   `try_pop` clears `has_value` (Release), then stores `head` (Relaxed). A
   Release store does not hold back the stores after it. A sender may see the
   new `head`, conclude that there is room, and find the slot occupied; `send`
   turns the refusal into a panic. With stores visible in program order (x86)
   `RoomIsKept` holds, and is proved.
2. **A cancelled `connect` is not a disconnect** (`GoneSenderEndsRecv`).
   `connect` takes the state out of the `SharedSender`; if its future is
   dropped, `Drop` finds nothing to disconnect, and the receiver waits for ever.
3. **Mixed requests strand a waiter of the semaphore** (`NotStranded`). A woken
   waiter that finds its units taken suspends again without passing the wake
   on. With one amount this cannot happen (part of `UnitsNotLost`).
4. **The preemption timer forgets the queue that runs**
   (`TimerHonoursLatency`). It is recomputed over a heap that lacks the
   executing queue, and not when that queue is put back.
5. **A pool whose notifier fails never returns** (`BuilderAnswers`). When
   `new_sleep_notifier` fails for a later shard, `spawn_thread` returns before
   anything cancels the latch, and `on_all_shards` joins the threads that wait
   at it.
6. **A dropped flush lets old data overwrite new** (`FlushedReadable`). A
   `flush` or `sync` of a partial buffer writes a padded copy; when its future is dropped nothing
   orders that write before the write of the full buffer to the same block. If
   the padded one lands last, zeros replace data that `current_flushed_pos`
   covers. The run gets there with `sync`.

**Other disagreements.** These are stated as definitions and refuted by TLC on
their own modules; no run of `PROJECT.json` checks them.

* `RwLock!HeadReaderAdmitted`: "An `RwLock` will allow any number of readers to
  acquire the lock as long as a writer is not holding the lock"
  (`sync/rwlock.rs:156`). A woken writer that is overtaken by a new reader
  queues again at the end, and the reader that is now first stays suspended
  until a guard is dropped.
* `LocalChannel!BlockedSenderErrorsOut`: a test says of a blocked producer that
  it "still errors out" when the receiver goes
  (`channels/local_channel.rs:1005`); there the receiver takes an item first.
  If it does not, the woken sender finds the channel full and suspends again.
* `DeadlineQueue!NoEntryLeft`: a test says that a cancelled push "leaves no
  entry" (`controllers/deadline_queue.rs:601`). A push that overtakes a waiting
  one makes the worker pop the other's entry; if the waiting push is dropped
  then, an entry stays.
* `UringRing!OnlyDroppedCancelled`: "if the operation is truly cancelled no one
  will check the result" (`sys/uring.rs:595`). A cancellation that waits while
  the ring is full may find another operation in the slot it names, which then
  reports a timeout.
* `UringRing!TimeoutGuardsOperation`: "half of one is a link timeout with no
  operation to guard" (`sys/uring.rs:710`). An operation that was cancelled
  while queued is left out of its chain, and its timeout is submitted alone.
* `FileLock!LockReleased`: "The lock will be released when the the last strong
  reference is dropped" (`io/dma_file.rs:93`). When two threads unlock at once,
  each may find that it is not the last.
* `NetStream!NoneBlocks`: "If the value specified is `None`, then read calls
  will block indefinitely" (`net/tcp_socket.rs:566`). A timer that was armed
  before stays armed.
* `BulkRead!PollReturns` (under `BulkRead!Fairness`): "To avoid adding undo
  latency, we flush whatever is in the merger if the underlying stream returns
  `Poll::Pending`" (`io/bulk_io.rs:217`). With a pending stream and nothing to
  flush, the loop of `poll_next` goes round without returning.
* `StallDetector!ReportsOwnStall`: "Handler called when a task exceeds its
  budget" (`executor/stall.rs:81`). The detector's thread sends its signal some
  time after the timer expired (line 183). If the guard of the queue that
  stalled is dropped in between, the guard of the next one finds the frames, and
  that queue is reported although it kept its budget. `ReportsBacked`, a part of
  `ReactorServes`, says that there was a stall for each report.
* `StreamWriter!ClosedOnce`: "fd reuse is a real risk"
  (`io/buffered_file_stream.rs:454`). A writer dropped after the kernel closed
  its descriptor and before it polls closes it again. `StreamWritten` is also
  refuted with `ShortWrites = TRUE`: a short write counts as a whole one.

Seen while reading, without a formula: `yield_task_queue_now` is documented to
force the scheduler to another queue, but the same queue may be selected again
if its virtual runtime is still the least; `Sharded::send` to the own shard
succeeds after `close`, where the documentation says `Closed`. A scoped task
that, while it is polled, drops the shared handle of the task that holds its own
handle goes on to the end of its poll, although its scope has ended (the
exception in `ScopesHold`); the documentation of `ScopedTask` says that the
future is dropped before `drop` returns.
`QueueNotForgotten` is stated up to the first panic that leaves `run`
(`unwound`): the queue that ran is then active but in no heap.

### Further hazards

Places where the code is exposed and no run has a property, beside the
disagreements above:

* `channels/shared_channel.rs:476`: an end that is dropped after its reactor is
  gone disconnects but does not notify. `channels/shared_channel.rs:319`:
  `close()` leaves the entry of the channel in the reactor.
* `task/raw.rs:291`: the reference count is an `i32`; 2^31 clones abort.
* `executor/mod.rs:431`: `default_vruntime + 1` overflows if a virtual runtime
  is exactly `u64::MAX`. `executor/mod.rs:252`: the product of a runtime and
  `reciprocal_shares` is not checked.
* `sys/uring.rs:843`: while the ring is full, cancellations queue up without
  limit. `sys/uring.rs:1205`: a submission that fails after the eventfd source
  was added leaves it in the map. `sys/blocking.rs:248`: a call dropped while it
  waits for room leaves its entry in `sources`.
* `io/dma_file_stream.rs:994`: a writer whose `close()` was given up is dropped:
  `Drop` unwraps a file that the closing task has. `io/dma_file_stream.rs:222`:
  after a failed read the other reads of the read-ahead give up and stay
  pending, and a reader that asks for one of them waits for ever.
* `io/buffered_file_stream.rs:511` and `:387`, `:589`: a poll before the source
  has a result panics or takes the source's type away.
* `net/unix.rs:140`: a dropped accept that the kernel has completed loses the
  connection's descriptor.
* `io/glommio_file.rs:347`: `discard` gives up the lock state before the
  descriptor; a `WeakGlommioFile` that is upgraded between the two meets its
  `expect` (`FileHandles!UpgradePanics`). A `close()` that is dropped while its
  entry is queued, and an `open` that is dropped when the kernel has completed
  it, leave a descriptor open (`leaked`).
* `sys/blocking.rs:105`: `truncate` and `copy_file_range` go to the thread pool
  with a number and are carried out although their future was dropped. If the
  file is closed first and the number given to another, that one is truncated.
  `FileHandles!OwnFileOnly` leaves out exactly these requests.
* `sys/uring.rs:928`: when a submission fails, entries that were placed stay in
  the ring with their numbers; `StreamSocket` and `FileHandles` assume that an
  entry placed is submitted at once.
* `net/tcp_socket.rs`, `net/unix.rs`: an accepted stream is a number that can be
  copied: bound twice it is closed twice, not bound it is never closed.
* `reactor.rs:404`: `rushed_sendmsg` gives the kernel a vector of length 1
  whatever the buffer.
* `io/glommio_file.rs:86`: `compare_exchange_weak` is called once and may fail
  for no reason.
* `channels/channel_mesh.rs:347`: a second join panics with the mutex held.
* `controllers/deadline_queue.rs:121`: dropping one of two `PriorityBump`s
  resets `min_shares` for both.
* `sys/blocking.rs:182`: a closure that panics takes its thread with it. Its
  caller waits for ever, and its source stays in `sources`; when every thread
  is gone, calls in the channel are not answered and later ones panic
  (line 267).
* `io/sched.rs:250`: a read that several futures share stays queued, with the
  number of the handle that made it, when that one's future is dropped;
  `FileHandles!DropOp` takes it out of the ring. No number can be used again
  before it, since the rings are flushed in an order that submits the read
  before the close.
* `executor/placement/mod.rs`: `Fenced` for one executor, unlike for a pool,
  does not ask whether its CPUs are online.

## Proofs

What is proved, for every value of the constants that the assumptions allow, of
the specification each module names. Each theorem that stands beside a property
of a run is about the same definition.

| Theorem | States | The inductive invariant |
|---|---|---|
| `SpscQueueProofs!Typing`, `Invariance` | the ring's `TypeOK`, `IInv` | `Ring`, `LimitOK`, `ValuesOK`, `RoomOK` |
| `SlotsOwned`, `RefusalsJustified`, `RoomKept` | `SlotOwnership`, `RefusesOnlyWhenFull`, `RoomIsKept` | the same |
| `RingIsFifo` | `ImplementsFifo`: the ring refines `BoundedFifo` | `IInv`, and what a step does to `Items` |
| `SharedChannelProofs!TypeCorrect`, `NoLostWakeUp`, `NoneIsFinal` | `TypeOK`, `NoSleepOnWork`, `NoneMeansDrained` | `Counters`, `Kinds`, `Threads`, `Ids`, `Disconnected`, `Announced`, `Noticed` |
| `ExecutorProofs!TypeCorrect`, `NoneForgotten`, `OrderKept` | `TypeOK`, `QueueNotForgotten`, the action property `HeapOrderKept` | `Types`, `Places`, `Accounted`, `Runtimes` |
| `TaskLifecycleProofs!Invariance`, `RefsAreExact`, `FreedIsUntouched` | `TlInv`, `RefsExact`, `NoUseAfterFree` | `Exact`, `Relied`, `Stacked`, `Registered`, `Flagged`, `Finished` |
| `SyncProofs!NoUnitLost` | `UnitsNotLost` | `List`, `Conserved`, `Busy` |
| `TaskSoundProofs!FutureIsExclusive`, `AwaitersAreTold`, `ShutdownIsComplete` | `FutureExclusive`, `AwaiterNotStranded`, `ShutdownComplete` of `TaskLifecycle` | `SeatedIn`, `Sole`, `Dropped`, `Awaited`, `Shutting`, on top of `TlInv` |
| `SyncProofs!GateIsGraceful` | `ClosedMeansNoPass` of `Gate` | `GateTypes`, `GateTold` |
| `SyncProofs!GuardsDoExclude`, `FreeLockDoesWake` | `GuardsExclude`, `FreeLockWakes` of `RwLock` | `RwList`, `RwPlaces` |
| `SyncProofs!WakesDoMatch` | `WakesMatchItems` of `LocalChannel` | `LcLists`, `LcGone`, `LcCounts` |
| `SyncProofs!PopDoesFind` | `PopFinds` of `DeadlineQueue` | `DqChannel`, `DqEntries`, `DqEnough` |
| `SyncProofs!CallsAreServed` | `CallNotStranded` of `OnceCell` | `OcStages`, `OcTold` |
| `SyncProofs!ScopesDoHold`, `TasksAreAccounted` | `ScopesHold`, `TasksAccounted` of `Spawning` | `SpQueues`, `SpPlaced`, `SpPolls`, `SpUnborn`, `SpEnded`, `SpScopes` |
| `RuntimeProofs!NoTimerLost` | `TimerNotLost` of `Timers` | the property, and who is charged |
| `RuntimeProofs!ReaderReadsAtPosition` | `ReadsAtPosition` of `StreamReader` | the property, and its types |
| `RuntimeProofs!AnswersReachTasks` | `AnswerReachesTask` of `BlockingPool` | `OnePlace`, `Mapped`, `Told`, `Down` |
| `RuntimeProofs!GuardsMeanLocked` | `GuardMeansLocked` of `FileLock` | `OneAtWork`, `KernelAgrees` |
| `RuntimeProofs!ActionsAreKept` | `ReactorServes` of `TimerActions`, and `TimerNotLost` | `TmInv` of `Timers`, `TaTimer`, `TaTold` |
| `RuntimeProofs!FilesAreOwned` | `FilesServed` of `FileHandles` | `FhTable`, `FhOwners`, `FhBorrowed` |

Every inductive invariant was checked by TLC on a small instance before it was
proved. A proof that a step preserves it has one lemma, or one step, for each
action.

*Assumptions.* They are the `ASSUME`s of the modules, which TLC evaluates in the
runs. Ring: `Capacity` is a power of two (the constructor rounds up; the
proofs use that it is positive); `Word` is a multiple of it, at least four
times as large (an allocation is at most `isize::MAX` bytes and a slot is more
than one); the starting index is a word; the lookahead is positive; `NoValue`
is not a value. Shared channel: a positive capacity. Executor: latencies and
run times are positive numbers, and `MaxVruntime` leaves the headroom the model
names. Timer actions and files: delays are natural numbers, `None` is neither
an action nor a descriptor. Once cell: `NoTask` is not a task.
Spawning: there is a task and a queue at least, and `NoTask` is not a number.
Everywhere else:
sets of tasks, threads and calls are finite, sizes are natural numbers. The
bounds that the code does not have (`MaxItems`, `MaxRunnables`, `MaxWakers`,
`MaxGuards` and so on) are arbitrary numbers in the theorems: no theorem depends
on their size.

### Arguments

**The ring.** Let `Lo` be `head`, one further if the consumer has cleared the
slot and not advanced yet, and `Hi` be `tail`, one further if the producer has
published and not advanced yet. `Ring` says that the distance `Hi - Lo`, modulo
the word, is at most the capacity, and that a slot is occupied **exactly** if it
lies at less than that distance from `Lo`. `LimitOK`: `limit` is at most the
free room beyond `tail`, so the pushes that skip the test of `has_value` meet
empty slots. `ValuesOK`: a slot holds a value exactly while its flag is set, but
for the slot between the producer's write and its flag, or the consumer's read
and its flag. `RoomOK`: a promise of room is kept because only the producer
fills slots. The arithmetic is set apart in lemmas on addition and distance
modulo `Word` and on slots modulo `Capacity` (two indices at a distance below
the capacity are in different slots: here `Word` has to be a multiple of
`Capacity`). For the refinement, `Items` is shown to be unchanged by every step
but two: `PushPublish` appends the value of the slot at `Hi`, `PopRead` removes
the first one, at `Base` (`Lo`, counted as popped from the read on).

**The shared channel.** The state between two threads is `Noticed`: after the
barrier, work is visible to the sleeper's last look, or whoever made it is about
to notify, or has written the eventfd. It is kept because of `Announced` (from
the barrier on, `should_notify` is set for everyone or was taken by a peer that
has written the eventfd) and because `MemBarrier` publishes both threads'
stores; without the barrier the step `PrepareToSleep` would not preserve it.
`Disconnected` uses that the id is a Release store.

**The executor.** `Accounted` is not inductive without `Places`, which says
where the active queues are also after a panic left `run`, and the order of the
heap needs `Runtimes`: `default_vruntime` is a lower bound of whatever competes,
and a queue that the overflow resets in place was already among the least.

**The task.** `Exact` (the count is the sum of the places that hold a reference)
is inductive only if no operation runs on a freed task and none releases a
reference that is not there. For the owner, that is a fact about the **stack**.
`Protecting` frames hold a reference, or run while the registry or a borrowed
handle does. A `Bare` frame touches the task without one. `Stacked` says that
every `Bare` frame has a `Protecting` one below it, with one exception: the
running frame may lean on the registry's reference (`finish`, `schedule`,
`shutdown`) or on a waker the caller borrows (`do_wake`), and such a frame calls
nothing before it is done with it. So a reentrant call, however deep, always
returns to a live task. `Registered` ties the registry's reference to
`SCHEDULE_DROPPED` and says that it outlives the schedule closure that runs;
`Flagged` ties `RUNNING` to the one frame that polls or destroys;
`Finished` says what is gone when the closure is. For foreign threads,
`Relied` says that the compare-and-swap of `drop_waker` never takes a count
below two to the owner's queue. `FreedIsUntouched` follows: a count of zero makes
every summand zero, so no frame protects, none leans, no `Bare` frame is left,
and no foreign thread is inside an operation.

The other three properties of the task rest on a second invariant, `TlSound`,
proved on top of the first (`SoundInvariance`). `SeatedIn` says what may lie
below each frame: `run`, `schedule`, `close` and the like call user code only
after they have given way to other frames; `push` is only ever below `cancel`; a
destructor runs above one of the frames that end a task; below the end of a
cleanup context nothing polls or drops. `Sole` counts the runnable: in a queue,
or as one of the frames that stand for it, and never twice, because whoever
makes one has set `SCHEDULED` and nobody clears that flag but the frame that
takes the runnable or ends the task. `Dropped` does the same for the future and
its flag, with `RUNNING`, which `Flagged` ties to one frame. `Awaited`: an
awaiter that registers while a destructor runs is told by the frame below it,
except below `cancel_in_place`, which does not notify; there a runnable is still
queued. `Shutting`: once `exec` is gone no runnable is left and the task is
unlinked, and an unlinked task has lost its schedule closure or there is a frame
that will drop it. A step that touches none of this is covered by one lemma
(`Alike`), so that only the frames that set flags need one of their own for each
part.

**Lists of waiters.** The intrusive lists are sequences without repetition.
`WaitListProofs` has what the others need: counting (`CountAdd` and the rest),
removing from a list, and **induction up to n over a set** (`InductionUpTo`: a
counterexample has a least one, by the well-foundedness of the naturals), which
replaces the induction schemes of the library, whose operator parameters the
provers cannot instantiate. With it `SyncProofs` proves what the loop
`process_wakes` leaves (`Left`, a recursive function over the list) for a list
of any length. `Busy` is the point of the semaphore: with requests of one amount,
the units that the woken waiters leave are not enough for anyone in the list.
`DqEnough` is the one of the deadline queue: there are at least as many entries
as pushes that still send, requests in the channel and the request at work,
before and after the `DeadlineQueue` is dropped.
The once cell runs over a semaphore of one permit: `OcStages` says that at most
one call initialises and that the permit is gone exactly then; `OcTold`, that
every call that waits is in the list or was woken, and that a free permit next
to a list is promised to one that was woken.

**Spawning.** All endings go through `Settle`, so one lemma (`SettleHolds`)
carries the five actions that end, drop or cancel; it rests on three facts about
the operators: what `InPlace` adds are idle scoped tasks whose holder is in the
set, and none is left out (`InPlaceFacts`, by leastness); whoever `Woken` names
can hear it and was told or awaits (`WokenFacts`); and a push puts every task
once behind the others of its queue (`PushFacts`, in whatever order).
`SpPlaced` makes the runnables of all queues the tasks that are scheduled and
not being polled, each once, and says that a runnable away from its queue is of
a closed task, so that only tasks of the queue that executes are polled on it.
`SpEnded` ties the flags to the future: a future that is gone has its task
completed or closed, and a closed task whose future is left is on its way to be
dropped. `SpPolls` is why dropping in place never meets a future that is being
polled further down the stack. The number of tasks and the depth to which they
hold each other do not matter.

**Blocking pool and lock.** A call is in one channel once or with one thread
(`OnePlace`), or its closure panicked, and its source is mapped. `Down` ties the
threads that are gone to closures that panicked and to the drop of the pool. The
state of the lock names who is at work (`OneAtWork`), so that the two words, the
state and the kernel's lock, are never changed by two threads at once.

**Timer actions.** `TimerActions` composes `Timers`, and its proof uses the
lemmas about the steps of `Timers` as they are: `TmInv` is a part of the
invariant. On top of it, `TaTimer` says that a task has a timer exactly while it
sleeps, set to the time asked for, and `TaTold` that a task that sleeps has been
scheduled or has its key in the timers, so that neither a rearm nor a cancel
between two polls is missed.

**Files.** `FilesOwned` is not inductive: that a handle has its file open says
nothing of the numbers. `FhTable` makes table and numbers inverse to each other
on the open descriptors, so that the close of one leaves the others alone, and
with the pigeonhole principle (`OneIsFree`) a descriptor that is not open yet
always finds a free number. `FhOwners` gives every open descriptor to handles,
to exactly one queued close, or to a future that was dropped; from it the last
handle has the descriptor alone (`LastHasItAlone`), although an open that is in
flight does not count as a handle. `FhBorrowed`: a queued operation has its
future, which borrows the file, or is an abandoned request of the thread pool.

### Only model-checked

* Liveness (`DropFrees`, `EveryoneJoins`, `ShardsClose`, `WorkReleases`,
  `AbandonedIsFreed`, `ScheduledRuns`, `QueueSelected`): fairness is beyond the
  prover.
* `ReactorServes` of `UringRing` and of `StallDetector`; `FlushedReadable`,
  `WriterFinishes`, `ReaderNotStranded` of the streams; `FilesServed` of `IoSched` and `BulkRead`;
  `StreamDelivers` of the four socket modules.
* `EveryCpuInTurn`: what the recursive tree computes is induction over data.

## Not modelled

* Task debugging: diagnostics. Of the stall detector: durations, the frames of a
  backtrace, and signals that come from elsewhere.
* Directories, renaming, removing: each is one request to the thread pool whose
  life is that of a call (`BlockingPool`). What `truncate`, `fallocate` and the
  like do to a file.
* Options and addresses of sockets.
* `Stdin`, vectored variants of the streams.
* Reading the hardware topology from sysfs, the filters of `CpuSet`.
* The arithmetic of the deadline queue's controller (floating-point).
* Errors, buffers, macros, formatting, tests and examples.
* Of the modelled components: statistics, tracing, the builders' options, the
  reference count's limit at 2^31 (the code aborts), the unchecked product of a
  runtime and its shares, filling in ring entries, registered buffers, the
  choice among the three rings, an end of a shared channel that outlives its
  executor, spurious polls of the streams' futures (they panic).

Unit tests, which sit in the same files as the code, are more than a quarter of
their lines, documentation comments and examples much of the rest; they stand
for nothing in a model.

## Plan

1. Proofs: `ReactorServes` of `UringRing` (the slots of the source map, the
   queues and the kernel as the places of a source); `StreamDelivers` of
   `NetStream`.
2. `SharedChannel`: the peer whose executor is gone; an abstract channel that
   `LocalChannel` and `SharedChannel` both implement.
3. `ReportsBacked` of `StallDetector`: a proof that charges each report to a
   stall of its own.
