---------------------------------- MODULE MCSync ----------------------------------
(* What the tasks of an executor wait for each other or for a peer with: the    *)
(* primitives of sync/, the local channel, the deadline queue, the sockets of   *)
(* net/ and the handles of the tasks themselves.  They share no state, so each  *)
(* behaviour is about one of them, the subject.  The cell is built on the       *)
(* semaphore and the deadline queue on the channel, whose variables are theirs  *)
(* when they are the subject.                                                   *)
EXTENDS Semaphore

CONSTANTS MaxQueuedWriters, Capacity, NoTask, Worker, MaxTasks, MaxQueues

ASSUME CapacityAssumption == Capacity \in Nat
ASSUME NoTaskAssumption == NoTask \notin Tasks
ASSUME SpawnAssumption ==
         MaxTasks \in Nat \ {0} /\ MaxQueues \in Nat \ {0} /\ NoTask \notin Nat

VARIABLES
  subject,
  writers, readers, queuedWriters, rwWaiters, rwClosed, rwPhase, kind, rwWoken,
  queued, sendWaiters, recvWaiters, ends, lcWait, lcWoken, lcReady,
  count, gateState, closers, notified, gateRole,
  cellValue, stage, running,
  entries, requests, push, executing, queueAlive,
  arrived, taken, peerClosed, rxBuf, rxDone, rxSource, sourceRx, delivered, op,
  timeoutOn, timer, netNow, wrongTimeout, sourceTx, room, writer,
  family, came, backlog, currentSource, ownSource, accepter, given, orphans, lost, listening,
  sort, peer, dgCame, dgQueue, rxYolo, txYolo, dgCall, attempts, dgSource, received, drops,
  dgOrphans, dgLost, sendRoom, rxSpoiled, txSpoiled,
  ssStage, ssFamily, number, table, ssEnds, source, submissions, misdirected, timeouts,
  wanted,
  future, completed, spClosed, scheduled, scoped, home, holder, awaiter, runnables,
  available, active, spExecuting, executorIndex, polls

Rw == INSTANCE RwLock
Lc == INSTANCE LocalChannel
Gt == INSTANCE Gate
Oc == INSTANCE OnceCell
Dq == INSTANCE DeadlineQueue WITH Tasks <- Tasks \cup {Worker}, Capacity <- 1, NoPush <- NoTask
Nt == INSTANCE NetStream WITH
        BufferSize <- 2, MaxBytes <- 3, Duration <- 1, MaxTime <- 1, NoTimer <- NoTask,
        now <- netNow
Ls == INSTANCE Listener WITH Accepters <- {"p", "q"}, MaxConns <- 3
Dg == INSTANCE Datagram WITH
        Users <- {"p", "q"}, Addresses <- 2, MaxDatagrams <- 2, MaxDrops <- 1
Ss == INSTANCE StreamSocket WITH
        MaxSockets <- 2, None <- NoTask, stage <- ssStage, family <- ssFamily,
        ends <- ssEnds
Sp == INSTANCE Spawning WITH
        None <- NoTask, closed <- spClosed, executing <- spExecuting

(* One program requests units one or two at a time, the other always two.       *)
MCWorkloads == {{1, 2}, {2}}
MixedWorkload == {{1, 2}}

rwVars == <<writers, readers, queuedWriters, rwWaiters, rwClosed, rwPhase, kind, rwWoken>>
lcVars == <<queued, sendWaiters, recvWaiters, ends, lcWait, lcWoken, lcReady>>
gateVars == <<count, gateState, closers, notified, gateRole>>
cellVars == <<cellValue, stage, running>>
queueVars == <<entries, requests, push, executing, queueAlive>>
netVars == <<arrived, taken, peerClosed, rxBuf, rxDone, rxSource, sourceRx, delivered, op,
             timeoutOn, timer, netNow, wrongTimeout, sourceTx, room, writer>>
listenerVars == <<family, came, backlog, currentSource, ownSource, accepter, given, orphans,
                  lost, listening>>
datagramVars == <<sort, peer, dgCame, dgQueue, rxYolo, txYolo, dgCall, attempts, dgSource,
                  received, drops, dgOrphans, dgLost, sendRoom, rxSpoiled, txSpoiled>>
socketVars == <<ssStage, ssFamily, number, table, ssEnds, source, submissions, misdirected,
                timeouts, wanted>>
spawnVars == <<future, completed, spClosed, scheduled, scoped, home, holder, awaiter, runnables,
               available, active, spExecuting, executorIndex, polls>>

Subjects == {"Semaphore", "OnceCell", "RwLock", "LocalChannel", "DeadlineQueue", "Gate",
             "NetStream", "Listener", "Datagram", "StreamSocket", "Spawning"}
Primitives == <<vars, cellVars, rwVars, lcVars, gateVars, queueVars>>
Sockets == <<netVars, listenerVars, datagramVars, socketVars>>

(* Sockets and tasks that are not the subject are off.                          *)
MCInit ==
  /\ subject \in Subjects
  /\ IF subject = "OnceCell" THEN Oc!Initialising!Init ELSE Init
  /\ Oc!CellInit /\ Rw!Init /\ Gt!Init /\ Dq!QueueInit
  /\ IF subject = "DeadlineQueue" THEN Dq!Init ELSE Lc!Init
  /\ IF subject = "NetStream" THEN Nt!Init
     ELSE /\ arrived = NoTask /\ taken = NoTask /\ peerClosed = NoTask
          /\ rxBuf = NoTask /\ rxDone = NoTask /\ rxSource = NoTask
          /\ sourceRx = NoTask /\ delivered = NoTask /\ op = NoTask
          /\ timeoutOn = NoTask /\ timer = NoTask /\ netNow = NoTask
          /\ wrongTimeout = NoTask /\ sourceTx = NoTask /\ room = NoTask
          /\ writer = NoTask
  /\ IF subject = "Listener" THEN Ls!Init
     ELSE /\ family = NoTask /\ came = NoTask /\ backlog = NoTask
          /\ currentSource = NoTask /\ ownSource = NoTask /\ accepter = NoTask
          /\ given = NoTask /\ orphans = NoTask /\ lost = NoTask /\ listening = NoTask
  /\ IF subject = "Datagram" THEN Dg!Init
     ELSE /\ sort = NoTask /\ peer = NoTask /\ dgCame = NoTask /\ dgQueue = NoTask
          /\ rxYolo = NoTask /\ txYolo = NoTask /\ dgCall = NoTask
          /\ attempts = NoTask /\ dgSource = NoTask /\ received = NoTask
          /\ drops = NoTask /\ dgOrphans = NoTask /\ dgLost = NoTask
          /\ sendRoom = NoTask /\ rxSpoiled = NoTask /\ txSpoiled = NoTask
  /\ IF subject = "StreamSocket" THEN Ss!Init
     ELSE /\ ssStage = NoTask /\ ssFamily = NoTask /\ number = NoTask
          /\ table = NoTask /\ ssEnds = NoTask /\ source = NoTask
          /\ submissions = NoTask /\ misdirected = NoTask /\ timeouts = NoTask
          /\ wanted = NoTask
  /\ IF subject = "Spawning" THEN Sp!Init
     ELSE /\ future = NoTask /\ completed = NoTask /\ spClosed = NoTask
          /\ scheduled = NoTask /\ scoped = NoTask /\ home = NoTask /\ holder = NoTask
          /\ awaiter = NoTask /\ runnables = NoTask /\ available = NoTask
          /\ active = NoTask /\ spExecuting = NoTask /\ executorIndex = NoTask
          /\ polls = NoTask
  /\ subject \notin {"Semaphore", "OnceCell"} => amounts = CHOOSE w \in Workloads : TRUE

MCNext ==
  \/ /\ subject = "Semaphore" /\ Next
     /\ UNCHANGED <<subject, cellVars, rwVars, lcVars, gateVars, queueVars, Sockets, spawnVars>>
  \/ /\ subject = "OnceCell" /\ Oc!Next
     /\ UNCHANGED <<subject, rwVars, lcVars, gateVars, queueVars, Sockets, spawnVars>>
  \/ /\ subject = "RwLock" /\ Rw!Next
     /\ UNCHANGED <<subject, vars, cellVars, lcVars, gateVars, queueVars, Sockets, spawnVars>>
  \/ /\ subject = "LocalChannel" /\ Lc!Next
     /\ UNCHANGED <<subject, vars, cellVars, rwVars, gateVars, queueVars, Sockets, spawnVars>>
  \/ /\ subject = "DeadlineQueue" /\ Dq!DqNext
     /\ UNCHANGED <<subject, vars, cellVars, rwVars, gateVars, Sockets, spawnVars>>
  \/ /\ subject = "Gate" /\ Gt!Next
     /\ UNCHANGED <<subject, vars, cellVars, rwVars, lcVars, queueVars, Sockets, spawnVars>>
  \/ /\ subject = "NetStream" /\ Nt!Next
     /\ UNCHANGED <<subject, Primitives, listenerVars, datagramVars, socketVars, spawnVars>>
  \/ /\ subject = "Listener" /\ Ls!Next
     /\ UNCHANGED <<subject, Primitives, netVars, datagramVars, socketVars, spawnVars>>
  \/ /\ subject = "Datagram" /\ Dg!Next
     /\ UNCHANGED <<subject, Primitives, netVars, listenerVars, socketVars, spawnVars>>
  \/ /\ subject = "StreamSocket" /\ Ss!Next
     /\ UNCHANGED <<subject, Primitives, netVars, listenerVars, datagramVars, spawnVars>>
  \/ /\ subject = "Spawning" /\ Sp!Next
     /\ UNCHANGED <<subject, Primitives, Sockets>>

MCSpec == MCInit /\ [][MCNext]_<<subject, Primitives, Sockets, spawnVars>>

(* The specification of the semaphore alone.                                    *)
SemaphoreSpec == subject = "Semaphore" /\ MCSpec

----------------------------------------------------------------------------------
(* The properties of the modules, under their names; those of Semaphore are     *)
(* extended.                                                                    *)

(* RwLock: guards exclude each other and the counters stand for them.           *)
GuardsExclude == Rw!GuardsExclude
(* RwLock: nobody sleeps next to a free lock.                                   *)
FreeLockWakes == Rw!FreeLockWakes
(* LocalChannel: wakes match the items and the room there are.                  *)
WakesMatchItems == subject = "LocalChannel" => Lc!WakesMatchItems
(* DeadlineQueue: the pop after an action finds its entry.                      *)
PopFinds == Dq!PopFinds
(* Gate: closing is graceful.                                                   *)
ClosedMeansNoPass == Gt!ClosedMeansNoPass
(* OnceCell: a waiting call is not left behind.                                 *)
CallNotStranded == subject = "OnceCell" => Oc!CallNotStranded
(* NetStream: what arrives is delivered, in order.  Listener: so are the        *)
(* connections.  Datagram: so are the datagrams, each once.  StreamSocket: a    *)
(* socket is open as long as it is used, and operations reach their own.        *)
StreamDelivers ==
  /\ subject = "NetStream" => Nt!StreamDelivers
  /\ subject = "Listener" => Ls!AcceptServes
  /\ subject = "Datagram" => Dg!DatagramsServed
  /\ subject = "StreamSocket" => Ss!SocketsServe
(* Spawning: a scoped task does not outlive its scope.                          *)
ScopesHold == subject = "Spawning" => Sp!ScopesHold
(* Spawning: a task that has work to do comes to it.                            *)
TasksAccounted == subject = "Spawning" => Sp!TasksAccounted
==================================================================================
