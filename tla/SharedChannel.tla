------------------------------ MODULE SharedChannel ------------------------------
(* channels/shared_channel.rs between two executors, with the part of the      *)
(* reactor that puts an executor to sleep and the SleepNotifier that wakes it. *)
(*                                                                             *)
(* Each side is a thread.  What it stores becomes visible to the other side    *)
(* later: a variable named ...Seen is what the other side can read by now.     *)
(* Under the ordering of the code a has_value flag and an id are Release       *)
(* stores, head, tail and should_notify are Relaxed ones; only                 *)
(* membarrier::heavy makes everything visible at once.  The ring itself is     *)
(* counters here: SpscQueue shows that it is a bounded queue.                  *)
EXTENDS Integers

CONSTANTS Capacity,   \* of the channel
          MaxItems    \* bound on the items ever sent (not in the code)

ASSUME CapacityAssumption == Capacity \in Nat \ {0}
ASSUME MaxItemsAssumption == MaxItems \in Nat

VARIABLES
  tail, flagSeen, tailSeen,    \* items pushed; their flags, and tail, as rx sees them
  head, clearSeen, headSeen,   \* items popped; their flags, and head, as tx sees them
  id, idSeen,                  \* producer_id, consumer_id: "none", "up", "gone"
  task,                        \* the task that uses the end, see TypeOK
  pc,                          \* where the thread is
  flag, flagStored,            \* should_notify: visible; {v} if its owner's store of v is not
  eventfd, installed           \* eventfd was written; a read of it is in the ring

ring == <<tail, flagSeen, tailSeen, head, clearSeen, headSeen>>
sleep == <<flag, flagStored, eventfd, installed>>
vars == <<ring, id, idSeen, task, pc, sleep>>

Sides == {"tx", "rx"}
Peer(e) == IF e = "tx" THEN "rx" ELSE "tx"

Set(f, e, x) == [f EXCEPT ![e] = x]
At(e, p) == pc[e] = p
Goto(e, p) == pc' = Set(pc, e, p)

(* free_space() on the sender's thread, size() on the receiver's.              *)
FreeSpace == IF tail > headSeen THEN Capacity - (tail - headSeen) ELSE Capacity
Size == IF tailSeen > head THEN tailSeen - head ELSE 0

Init ==
  /\ tail = 0 /\ flagSeen = 0 /\ tailSeen = 0
  /\ head = 0 /\ clearSeen = 0 /\ headSeen = 0
  /\ id = [e \in Sides |-> "none"] /\ idSeen = id
  /\ task = [e \in Sides |-> "new"] /\ pc = [e \in Sides |-> "task"]
  /\ flag = [e \in Sides |-> FALSE] /\ flagStored = [e \in Sides |-> {}]
  /\ eventfd = [e \in Sides |-> FALSE] /\ installed = [e \in Sides |-> TRUE]

----------------------------------------------------------------------------------
(* The ends, used by tasks of their executors (pc is "task").                  *)

Connect(e) ==
  /\ At(e, "task") /\ task[e] = "new"
  /\ id' = Set(id, e, "up") /\ task' = Set(task, e, "connecting")
  /\ UNCHANGED <<ring, idSeen, pc, sleep>>

(* Connector::poll: until the peer has an id, the waker is called every time   *)
(* round the reactor.                                                          *)
ConnectorPoll(e) ==
  /\ At(e, "task") /\ task[e] = "connecting" /\ idSeen[Peer(e)] # "none"
  /\ task' = Set(task, e, "idle")
  /\ UNCHANGED <<ring, id, idSeen, pc, sleep>>

(* The connect() future is dropped: neither end is left to disconnect.         *)
CancelConnect(e) ==
  /\ At(e, "task") /\ task[e] = "connecting"
  /\ task' = Set(task, e, "gone")
  /\ UNCHANGED <<ring, id, idSeen, pc, sleep>>

(* An end is dropped, connected or not, its pending operation with it.         *)
DropEnd(e) ==
  /\ At(e, "task") /\ task[e] \notin {"connecting", "gone"}
  /\ task' = Set(task, e, "gone") /\ id' = Set(id, e, "gone")
  /\ Goto(e, IF \/ id[e] = "gone" \/ (task[e] = "new" /\ idSeen[Peer(e)] # "up")
              THEN "task" ELSE "notify")
  /\ UNCHANGED <<ring, idSeen, sleep>>

(* ConnectedSender::close, by this task or by another one of the executor.     *)
Close ==
  /\ At("tx", "task") /\ task["tx"] \in {"idle", "waiting", "woken"} /\ id["tx"] = "up"
  /\ id' = Set(id, "tx", "gone") /\ Goto("tx", "notify")
  /\ task' = IF task["tx"] = "waiting" THEN Set(task, "tx", "woken") ELSE task
  /\ UNCHANGED <<ring, idSeen, sleep>>

(* ConnectedSender::send: wait_for_room, then try_send without suspending.     *)
WaitForRoom ==
  /\ At("tx", "task") /\ task["tx"] \in {"idle", "woken"} /\ tail < MaxItems
  /\ IF FreeSpace > 0 \/ id["tx"] = "gone" \/ idSeen["rx"] = "gone"
       THEN Goto("tx", "send") /\ task' = Set(task, "tx", "idle")
       ELSE task' = Set(task, "tx", "waiting") /\ UNCHANGED pc
  /\ UNCHANGED <<ring, id, idSeen, sleep>>

TrySend ==
  /\ At("tx", "task") /\ task["tx"] = "idle" /\ tail < MaxItems
  /\ Goto("tx", "try_send")
  /\ UNCHANGED <<ring, id, idSeen, task, sleep>>

(* The push.  Its slot is free when the flag of the item that was in it is     *)
(* seen cleared.  send() panics where try_send() returns WouldBlock.           *)
Push ==
  /\ pc["tx"] \in {"send", "try_send"}
  /\ \/ /\ id["tx"] = "gone" \/ idSeen["rx"] = "gone"
        /\ Goto("tx", "task") /\ UNCHANGED tail
     \/ /\ id["tx"] # "gone" /\ idSeen["rx"] # "gone" /\ tail - clearSeen < Capacity
        /\ tail' = tail + 1 /\ Goto("tx", "notify")
     \/ /\ id["tx"] # "gone" /\ idSeen["rx"] # "gone" /\ tail - clearSeen >= Capacity
        /\ Goto("tx", IF At("tx", "send") THEN "panic" ELSE "task") /\ UNCHANGED tail
  /\ UNCHANGED <<flagSeen, tailSeen, head, clearSeen, headSeen, id, idSeen, task, sleep>>

Pop(p) ==
  /\ At("rx", p) /\ flagSeen > head
  /\ head' = head + 1 /\ Goto("rx", "notify") /\ task' = Set(task, "rx", "idle")
  /\ UNCHANGED <<tail, flagSeen, tailSeen, clearSeen, headSeen, id, idSeen, sleep>>

(* do_recv_one: a pop; if there is nothing, whether the producer is gone; then *)
(* a second pop, or the waker is registered.                                   *)
RecvPop == task["rx"] \in {"idle", "woken"} /\ Pop("task")

RecvEmpty ==
  /\ At("rx", "task") /\ task["rx"] \in {"idle", "woken"} /\ flagSeen = head
  /\ Goto("rx", "empty")
  /\ UNCHANGED <<ring, id, idSeen, task, sleep>>

\* Fault seeded in RecvDisconnected: no second look at the queue.
RecvDisconnected_once ==
  /\ At("rx", "empty") /\ Goto("rx", "task")
  /\ task' = Set(task, "rx", IF idSeen["tx"] = "gone" THEN "ended" ELSE "waiting")
  /\ UNCHANGED <<ring, id, idSeen, sleep>>

RecvDisconnected ==
  /\ At("rx", "empty")
  /\ IF idSeen["tx"] = "gone" THEN Goto("rx", "again") /\ UNCHANGED task
     ELSE Goto("rx", "task") /\ task' = Set(task, "rx", "waiting")
  /\ UNCHANGED <<ring, id, idSeen, sleep>>

RecvAgain ==
  \/ Pop("again")
  \/ /\ At("rx", "again") /\ flagSeen = head
     /\ Goto("rx", "task") /\ task' = Set(task, "rx", "ended")
     /\ UNCHANGED <<ring, id, idSeen, sleep>>

\* Fault seeded in Notify: the eventfd is not written.
Notify_flagOnly(e) ==
  /\ At(e, "notify") /\ Goto(e, "task")
  /\ flag' = Set(flag, Peer(e), FALSE)
  /\ UNCHANGED <<ring, id, idSeen, task, flagStored, eventfd, installed>>

(* SleepNotifier::notify(false) on the peer's notifier.                        *)
Notify(e) ==
  /\ At(e, "notify") /\ Goto(e, "task")
  /\ flag' = Set(flag, Peer(e), FALSE)
  /\ eventfd' = Set(eventfd, Peer(e), eventfd[Peer(e)] \/ flag[Peer(e)])
  /\ UNCHANGED <<ring, id, idSeen, task, flagStored, installed>>

----------------------------------------------------------------------------------
(* When stores become visible.  A Release store (a flag, an id) follows all    *)
(* that came before it; the Relaxed store of an index may overtake the Release *)
(* store of the flag before it.                                                *)

SeeFlag ==
  \/ /\ flagSeen < tail /\ flagSeen <= tailSeen /\ flagSeen' = flagSeen + 1
     /\ UNCHANGED <<tail, tailSeen, head, clearSeen, headSeen, id, idSeen, task, pc, sleep>>
  \/ /\ clearSeen < head /\ clearSeen <= headSeen /\ clearSeen' = clearSeen + 1
     /\ UNCHANGED <<tail, flagSeen, tailSeen, head, headSeen, id, idSeen, task, pc, sleep>>

SeeIndex ==
  \/ /\ tailSeen < tail /\ tailSeen' = tailSeen + 1
     /\ UNCHANGED <<tail, flagSeen, head, clearSeen, headSeen, id, idSeen, task, pc, sleep>>
  \/ /\ headSeen < head /\ headSeen' = headSeen + 1
     /\ UNCHANGED <<tail, flagSeen, tailSeen, head, clearSeen, id, idSeen, task, pc, sleep>>

SeeId(e) ==
  /\ idSeen[e] # id[e]
  /\ IF e = "tx" THEN flagSeen = tail /\ tailSeen = tail
                 ELSE clearSeen = head /\ headSeen = head
  /\ idSeen' = Set(idSeen, e, id[e])
  /\ UNCHANGED <<ring, id, task, pc, sleep>>

SeeShouldNotify(e) ==
  /\ flagStored[e] # {}
  /\ flag' = Set(flag, e, TRUE \in flagStored[e]) /\ flagStored' = Set(flagStored, e, {})
  /\ UNCHANGED <<ring, id, idSeen, task, pc, eventfd, installed>>

----------------------------------------------------------------------------------
(* The executor's loop.                                                        *)

(* The test functions of register_shared_channel, for a task that registered   *)
(* its waker; a Connector's waker is always called.                            *)
Ready(e) ==
  \/ task[e] = "connecting"
  \/ /\ task[e] = "waiting"
     /\ \/ idSeen[Peer(e)] = "gone"
        \/ IF e = "tx" THEN FreeSpace > 0 ELSE Size > 0

(* process_shared_channels.                                                    *)
ProcessChannels(e) ==
  task' = IF Ready(e) /\ task[e] = "waiting" THEN Set(task, e, "woken") ELSE task

(* run_task_queues found nothing to run and installed the read of the eventfd; *)
(* react looks for external events, and a wake keeps the executor up.          *)
React(e) ==
  /\ At(e, "task") /\ task[e] # "woken"
  /\ ~(task[e] = "connecting" /\ idSeen[Peer(e)] # "none")
  /\ installed' = Set(installed, e, TRUE) /\ ProcessChannels(e)
  /\ Goto(e, IF Ready(e) THEN "task" ELSE "wait")
  /\ UNCHANGED <<ring, id, idSeen, flag, flagStored, eventfd>>

(* consume_rings: a completed read of the eventfd is reaped, which wakes no    *)
(* task and does not count as an event.                                        *)
ReapEventfd(e) ==
  LET done == eventfd[e] /\ installed[e]
  IN /\ eventfd' = Set(eventfd, e, eventfd[e] /\ ~done)
     /\ installed' = Set(installed, e, installed[e] /\ ~done)

(* The rings are consumed, and as nothing was woken, prepare_to_sleep.         *)
PrepareToSleep(e) ==
  /\ At(e, "wait") /\ Goto(e, "barrier") /\ ReapEventfd(e)
  /\ flagStored' = Set(flagStored, e, {TRUE})
  /\ UNCHANGED <<ring, id, idSeen, task, flag>>

\* Fault seeded in MemBarrier: no barrier.
MemBarrier_missing(e) ==
  /\ At(e, "barrier") /\ Goto(e, "recheck")
  /\ UNCHANGED <<ring, id, idSeen, task, sleep>>

(* membarrier::heavy: all that any thread of the process stored is visible.    *)
MemBarrier(e) ==
  /\ At(e, "barrier") /\ Goto(e, "recheck")
  /\ flagSeen' = tail /\ tailSeen' = tail /\ clearSeen' = head /\ headSeen' = head
  /\ idSeen' = id
  /\ flag' = [x \in Sides |-> IF flagStored[x] = {} THEN flag[x] ELSE TRUE \in flagStored[x]]
  /\ flagStored' = [x \in Sides |-> {}]
  /\ UNCHANGED <<tail, head, id, task, eventfd, installed>>

(* The channels once more, now that the peers know; should_notify stays set    *)
(* when there is an event.                                                     *)
Recheck(e) ==
  /\ At(e, "recheck") /\ ProcessChannels(e)
  /\ Goto(e, IF Ready(e) THEN "task" ELSE IF installed[e] THEN "asleep" ELSE "wake_up")
  /\ UNCHANGED <<ring, id, idSeen, sleep>>

(* The rings complete: the read of the eventfd, or something else.             *)
Awake(e) ==
  /\ At(e, "asleep") /\ eventfd[e] /\ installed[e]
  /\ Goto(e, "wake_up") /\ ReapEventfd(e)
  /\ UNCHANGED <<ring, id, idSeen, task, flag, flagStored>>

AwakeByOther(e) ==
  /\ At(e, "asleep") /\ Goto(e, "wake_up")
  /\ UNCHANGED <<ring, id, idSeen, task, sleep>>

(* SleepNotifier::wake_up, and the external events after the sleep.            *)
WakeUp(e) ==
  /\ At(e, "wake_up") /\ Goto(e, "task")
  /\ flagStored' = Set(flagStored, e, {FALSE})
  /\ ProcessChannels(e)
  /\ UNCHANGED <<ring, id, idSeen, flag, eventfd, installed>>

----------------------------------------------------------------------------------
(* What a thread does next by itself, and what its program may decide.         *)
Loop(e) ==
  \/ React(e) \/ PrepareToSleep(e) \/ MemBarrier(e)
  \/ Recheck(e) \/ Awake(e) \/ WakeUp(e) \/ Notify(e) \/ ConnectorPoll(e)
  \/ e = "tx" /\ (Push \/ (task["tx"] = "woken" /\ WaitForRoom))
  \/ e = "rx" /\ \/ RecvDisconnected \/ RecvAgain
                 \/ task["rx"] = "woken" /\ (RecvPop \/ RecvEmpty)

Program(e) ==
  \/ Connect(e) \/ CancelConnect(e) \/ DropEnd(e) \/ AwakeByOther(e)
  \/ e = "tx" /\ (Close \/ TrySend \/ (task["tx"] = "idle" /\ WaitForRoom))
  \/ e = "rx" /\ task["rx"] = "idle" /\ (RecvPop \/ RecvEmpty)

See == SeeFlag \/ SeeIndex \/ \E e \in Sides : SeeId(e) \/ SeeShouldNotify(e)

Next == See \/ \E e \in Sides : Loop(e) \/ Program(e)

(* Threads run, and stores become visible.                                     *)
Fairness ==
  /\ \A e \in Sides : WF_vars(Loop(e)) /\ WF_vars(SeeId(e)) /\ WF_vars(SeeShouldNotify(e))
  /\ WF_vars(SeeFlag) /\ WF_vars(SeeIndex)

Spec == Init /\ [][Next]_vars
FairSpec == Spec /\ Fairness

----------------------------------------------------------------------------------
(* Properties.                                                                 *)

(* The types.  What is seen is never ahead of what was stored, and no item is  *)
(* popped that was not pushed (try_pop, try_push).                             *)
TypeOK ==
  /\ tail \in 0 .. MaxItems /\ head \in 0 .. tail
  /\ {flagSeen, tailSeen} \subseteq 0 .. tail /\ {clearSeen, headSeen} \subseteq 0 .. head
  /\ id \in [Sides -> {"none", "up", "gone"}] /\ idSeen \in [Sides -> {"none", "up", "gone"}]
  /\ task \in [Sides -> {"new", "connecting", "idle", "waiting", "woken", "ended", "gone"}]
  /\ flag \in [Sides -> BOOLEAN] /\ eventfd \in [Sides -> BOOLEAN]
  /\ installed \in [Sides -> BOOLEAN] /\ flagStored \in [Sides -> {{}, {TRUE}, {FALSE}}]
  /\ pc["tx"] \in {"task", "send", "try_send", "notify", "panic", "wait", "barrier",
                   "recheck", "asleep", "wake_up"}
  /\ pc["rx"] \in {"task", "empty", "again", "notify", "wait", "barrier",
                   "recheck", "asleep", "wake_up"}

(* What there is for a waiting task, whether or not it is visible yet.         *)
Work(e) ==
  /\ task[e] = "waiting"
  /\ \/ id[Peer(e)] = "gone"
     \/ IF e = "tx" THEN tail - head < Capacity ELSE tail > head

(* An executor is not asleep next to work: whoever makes room, sends or        *)
(* disconnects sees should_notify, or was early enough for the last look at    *)
(* the channels, although should_notify is read and written with Relaxed.      *)
NoSleepOnWork ==
  \A e \in Sides :
    At(e, "asleep") /\ Work(e) => (eventfd[e] /\ installed[e]) \/ At(Peer(e), "notify")

(* recv() returns None only when everything that was sent has been received.   *)
NoneMeansDrained == task["rx"] = "ended" => head = tail

(* A task that waits is released once there is an item or room for it, or the  *)
(* other end has disconnected.                                                 *)
WorkReleases == \A e \in Sides : Work(e) ~> task[e] # "waiting"

(* send() never finds the room gone that wait_for_room saw: its panic          *)
(* "operation would block" is unreachable.                                     *)
SendFindsRoom == ~At("tx", "panic")

(* "If the sender is no longer available it returns None": a receiver does not *)
(* wait for ever once the sending end does not exist any more.                 *)
GoneSenderEndsRecv == (task["rx"] = "waiting" /\ task["tx"] = "gone") ~> task["rx"] # "waiting"
==================================================================================
