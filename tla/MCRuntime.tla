-------------------------------- MODULE MCRuntime --------------------------------
(* What runs on the thread of an executor: a task, and the parts of the reactor, *)
(* of io/ and of placement that tasks use.  These parts share no state, so each  *)
(* behaviour is about one of them, the subject; the others stay as they start.   *)
EXTENDS TaskLifecycle, TLC

CONSTANTS None,                                     \* whatever a part uses for "nothing there"
          Pair,                                     \* two of whatever a part has two of
          MaxFailures,                              \* writes of a DmaStreamWriter that may fail
          Ids, Delays, MaxTime,                     \* of Timers
          ActionDelays, ActionTime,                 \* of TimerActions
          Calls, Urgent, Closures, Workers, PoolDepth,   \* of BlockingPool
          BufferUnits, FileUnits, EndPos, SeekTargets,   \* of StreamReader
          Threads, MaxGuards,                       \* of FileLock
          MaxFds                                    \* of FileHandles

ASSUME PoolAssumption == IsFiniteSet(Workers) /\ PoolDepth \in Nat
ASSUME ReaderAssumption ==
  BufferUnits \in Nat /\ FileUnits \in Nat /\ EndPos \in Nat /\ SeekTargets \subseteq Nat
ASSUME ActionAssumption == ActionDelays \subseteq Nat /\ ActionTime \in Nat /\ None \notin Ids
ASSUME FileAssumption == MaxFds \in Nat /\ None \notin 1 .. MaxFds
ASSUME LockAssumption == IsFiniteSet(Threads) /\ MaxGuards \in Nat

VARIABLES
  subject,
  now, timers, byId, tmState, when, charged, tmReady,
  taKind, taStage, taScheduled, taClosed, polled, taHandle, asked, early,
  alive, status, slots, freeSlots, submissions, cancellations, sq, ringPc, inKernel,
  entered, flying, cq,
  bpCall, bpSources, requests, responses, bpPc, job, bpReactor, shouldNotify, bpEventfd,
  caller, wStatus, flushes, pendingCount, flushedPos, alignedPos, bufferPos, syncedPos,
  hasBuffer, waker, wWoken, wError, target, closer, writes, disk, size, failures,
  aheadPos, pending, stuck, buffermap, cached, wakers, rError, currentPos, reading,
  rWoken, readErrors,
  srPos, srUnread, srFrom, ioSource, seekSource, srPanicked,
  swPos, swBuffer, swSource, swStatus, swOp, swTarget, fd, content, intended, userPos,
  accepted, swFailed,
  lockState, ours, other, lockFiles, guards, at,
  schedTree, longest, files, reads, dataOf,
  limit, offered, streamEnded, pulled, current, merged, last, inflight, terminated,
  bulkAt, popped, answering, answered, bulkDone,
  form, fdOf, rcs, fdNumber, fdTable, duplicates, weak, closes, ops, op, leaked, strayed,
  topology, offline, builder, policy, sets, shards, generator, handed, selected,
  stallAt, stallRun, over, stallTimer, trigger, stallEnds, signal, registered, frames, reported

tmVars == <<now, timers, byId, tmState, when, charged, tmReady>>
actionVars == <<taKind, taStage, taScheduled, taClosed, polled, taHandle, asked, early>>
urVars == <<alive, status, slots, freeSlots, submissions, cancellations, sq, ringPc,
            inKernel, entered, flying, cq>>
bpVars == <<bpCall, bpSources, requests, responses, bpPc, job, bpReactor, shouldNotify,
            bpEventfd>>
wVars == <<caller, wStatus, flushes, pendingCount, flushedPos, alignedPos, bufferPos,
           syncedPos, hasBuffer, waker, wWoken, wError, target, closer, writes, disk, size,
           failures>>
rVars == <<aheadPos, pending, stuck, buffermap, cached, wakers, rError, currentPos, reading,
           rWoken, readErrors>>
srVars == <<srPos, srUnread, srFrom, ioSource, seekSource, srPanicked>>
swVars == <<swPos, swBuffer, swSource, swStatus, swOp, swTarget, fd, content, intended,
            userPos, accepted, swFailed>>
flVars == <<lockState, ours, other, lockFiles, guards, at>>
ioSchedVars == <<schedTree, longest, files, reads, dataOf>>
bulkVars == <<limit, offered, streamEnded, pulled, current, merged, last, inflight,
              terminated, bulkAt, popped, answering, answered, bulkDone>>
fileVars == <<form, fdOf, rcs, fdNumber, fdTable, duplicates, weak, closes, ops, op, leaked,
              strayed>>
placementVars == <<topology, offline, builder, policy, sets, shards, generator, handed,
                   selected>>
stallVars == <<stallAt, stallRun, over, stallTimer, trigger, stallEnds, signal, registered,
               frames, reported>>
taskVars == vars

----------------------------------------------------------------------------------
(* The bounds, here and in the configuration, are chosen so that: two timers and  *)
(* a clock that passes all deadlines; a ring that both sources fill; one thread   *)
(* of the pool more than calls are answered at once; three buffers, two of them   *)
(* behind the writer; a file whose end is inside a buffer, and an end_pos past    *)
(* it; a file longer than the end_pos of its reader, and seeks past both; three   *)
(* readers whose requests overlap; a stream that gives the requests of a merge in *)
(* parts; handles that share a file and a number that is used again; machines     *)
(* that are not symmetric; and three runs of task queues, which stall or not.     *)
Tm == INSTANCE Timers WITH NoTime <- None
Ta == INSTANCE TimerActions WITH
        Delays <- ActionDelays, MaxTime <- ActionTime, NoTime <- None, kind <- taKind,
        stage <- taStage, scheduled <- taScheduled, closed <- taClosed, handle <- taHandle
Ur == INSTANCE UringRing WITH
        Sources <- Pair, RingSize <- 2, MaxQueued <- 2, Free <- None
Bp == INSTANCE BlockingPool WITH Idle <- None
Wr == INSTANCE DmaStreamWriter WITH
        BufferSize <- 2, WriteBehind <- 2, MayAbandon <- FALSE, MaxPos <- 5
Rd == INSTANCE DmaStreamReader WITH
        BufferLen <- 2, ReadAhead <- 2, FileLen <- 11, EndPos <- 12, MaxReadErrors <- 1,
        NoBuffer <- None
Sr == INSTANCE StreamReader
Sw == INSTANCE StreamWriter WITH
        MaxUnits <- 3, SwTargets <- {0, 3}, MaxEnd <- 5,
        ShortWrites <- FALSE, Hole <- None
Fl == INSTANCE FileLock WITH files <- lockFiles
Is == INSTANCE IoSched WITH
        Readers <- {"r1", "r2", "r3"}, Alignment <- 2, FileLen <- 5,
        Requests <- {<<3, 3>>, <<0, 1>>, <<4, 2>>}, NoSource <- None
Bk == INSTANCE BulkRead WITH
        Requests <- << <<0, 1>>, <<1, 1>>, <<5, 1>>, <<3, 2>>, <<2, 1>> >>, Alignment <- 2,
        Limits <- {1, 4}, Gap <- 1, ConcurrencyCap <- 2, MemoryCap <- 3, Nothing <- None
Fh == INSTANCE FileHandles WITH Handles <- Pair
OneCpu == {<<0, 0, 0, 0, 0>>}
Machines ==
  { OneCpu,
    OneCpu \cup {<<0, 0, 0, 0, 1>>, <<0, 0, 1, 1, 2>>, <<1, 1, 2, 2, 3>>, <<1, 1, 2, 2, 4>>,
                 <<1, 1, 2, 3, 5>>},
    OneCpu \cup {<<0, 0, 0, 1, 1>>, <<1, 0, 1, 2, 2>>},
    OneCpu \cup {<<0, 1, 1, 1, 1>>, <<0, 1, 1, 2, 2>>, <<0, 1, 1, 2, 3>>} }
Pl == INSTANCE Placement WITH Topologies <- Machines, MaxRounds <- 2
St == INSTANCE StallDetector WITH
        MaxRuns <- 3, at <- stallAt, run <- stallRun, timer <- stallTimer, terminated <- stallEnds

Subjects == {"Task", "Timers", "TimerActions", "UringRing", "BlockingPool",
             "DmaStreamWriter", "DmaStreamReader", "StreamReader", "StreamWriter", "FileLock",
             "IoSched", "BulkRead", "FileHandles", "Placement", "StallDetector"}

(* A part that is not the subject is off.                                        *)
MCInit ==
  /\ subject \in Subjects
  /\ Init
  /\ IF subject \in {"Timers", "TimerActions"} THEN Ta!Init
     ELSE /\ now = None /\ timers = None /\ byId = None /\ tmState = None /\ when = None
          /\ charged = None /\ tmReady = None /\ taKind = None /\ taStage = None
          /\ taScheduled = None /\ taClosed = None /\ polled = None /\ taHandle = None
          /\ asked = None /\ early = None
  /\ IF subject = "UringRing" THEN Ur!Init
     ELSE /\ alive = None /\ status = None /\ slots = None /\ freeSlots = None
          /\ submissions = None /\ cancellations = None /\ sq = None /\ ringPc = None
          /\ inKernel = None /\ entered = None /\ flying = None /\ cq = None
  /\ IF subject = "BlockingPool" THEN Bp!Init
     ELSE /\ bpCall = None /\ bpSources = None /\ requests = None /\ responses = None
          /\ bpPc = None /\ job = None /\ bpReactor = None /\ shouldNotify = None
          /\ bpEventfd = None
  /\ IF subject = "DmaStreamWriter" THEN Wr!Init
     ELSE /\ caller = None /\ wStatus = None /\ flushes = None /\ pendingCount = None
          /\ flushedPos = None /\ alignedPos = None /\ bufferPos = None
          /\ syncedPos = None /\ hasBuffer = None /\ waker = None /\ wWoken = None
          /\ wError = None /\ target = None /\ closer = None /\ writes = None
          /\ disk = None /\ size = None /\ failures = None
  /\ IF subject = "DmaStreamReader" THEN Rd!Init
     ELSE /\ aheadPos = None /\ pending = None /\ stuck = None /\ buffermap = None
          /\ cached = None /\ wakers = None /\ rError = None /\ currentPos = None
          /\ reading = None /\ rWoken = None /\ readErrors = None
  /\ IF subject = "StreamReader" THEN Sr!Init
     ELSE /\ srPos = None /\ srUnread = None /\ srFrom = None /\ ioSource = None
          /\ seekSource = None /\ srPanicked = None
  /\ IF subject = "StreamWriter" THEN Sw!Init
     ELSE /\ swPos = None /\ swBuffer = None /\ swSource = None /\ swStatus = None
          /\ swOp = None /\ swTarget = None /\ fd = None /\ content = None
          /\ intended = None /\ userPos = None /\ accepted = None /\ swFailed = None
  /\ IF subject = "FileLock" THEN Fl!Init
     ELSE /\ lockState = None /\ ours = None /\ other = None /\ lockFiles = None
          /\ guards = None /\ at = None
  /\ IF subject = "IoSched" THEN Is!Init
     ELSE /\ schedTree = None /\ longest = None /\ files = None /\ reads = None
          /\ dataOf = None
  /\ IF subject = "BulkRead" THEN Bk!Init
     ELSE /\ limit = None /\ offered = None /\ streamEnded = None /\ pulled = None
          /\ current = None /\ merged = None /\ last = None /\ inflight = None
          /\ terminated = None /\ bulkAt = None /\ popped = None /\ answering = None
          /\ answered = None /\ bulkDone = None
  /\ IF subject = "FileHandles" THEN Fh!Init
     ELSE /\ form = None /\ fdOf = None /\ rcs = None /\ fdNumber = None
          /\ fdTable = None /\ duplicates = None /\ weak = None /\ closes = None
          /\ ops = None /\ op = None /\ leaked = None /\ strayed = None
  /\ IF subject = "Placement" THEN Pl!Init
     ELSE /\ topology = None /\ offline = None /\ builder = None /\ policy = None
          /\ sets = None /\ shards = None /\ generator = None /\ handed = None
          /\ selected = None
  /\ IF subject = "StallDetector" THEN St!Init
     ELSE /\ stallAt = None /\ stallRun = None /\ over = None /\ stallTimer = None
          /\ trigger = None /\ stallEnds = None /\ signal = None /\ registered = None
          /\ frames = None /\ reported = None
  /\ subject # "Task" => exec = "idle" /\ stack = <<"run">>

Task == <<subject, taskVars>>
Reactor == <<tmVars, actionVars, urVars, bpVars>>
Streams == <<wVars, rVars, srVars, swVars>>
Files == <<flVars, ioSchedVars, bulkVars, fileVars>>
Machine == <<placementVars, stallVars>>

MCNext ==
  \/ /\ subject = "Task" /\ Next
     /\ UNCHANGED <<subject, Reactor, Streams, Files, Machine>>
  \/ /\ subject = "Timers" /\ Tm!Next
     /\ UNCHANGED <<Task, actionVars, urVars, bpVars, Streams, Files, Machine>>
  \/ /\ subject = "TimerActions" /\ Ta!Next
     /\ UNCHANGED <<Task, urVars, bpVars, Streams, Files, Machine>>
  \/ /\ subject = "UringRing" /\ Ur!Next
     /\ UNCHANGED <<Task, tmVars, actionVars, bpVars, Streams, Files, Machine>>
  \/ /\ subject = "BlockingPool" /\ Bp!Next
     /\ UNCHANGED <<Task, tmVars, actionVars, urVars, Streams, Files, Machine>>
  \/ /\ subject = "DmaStreamWriter" /\ Wr!Next
     /\ UNCHANGED <<Task, Reactor, rVars, srVars, swVars, Files, Machine>>
  \/ /\ subject = "DmaStreamReader" /\ Rd!Next
     /\ UNCHANGED <<Task, Reactor, wVars, srVars, swVars, Files, Machine>>
  \/ /\ subject = "StreamReader" /\ Sr!Next
     /\ UNCHANGED <<Task, Reactor, wVars, rVars, swVars, Files, Machine>>
  \/ /\ subject = "StreamWriter" /\ Sw!Next
     /\ UNCHANGED <<Task, Reactor, wVars, rVars, srVars, Files, Machine>>
  \/ /\ subject = "FileLock" /\ Fl!Next
     /\ UNCHANGED <<Task, Reactor, Streams, ioSchedVars, bulkVars, fileVars, Machine>>
  \/ /\ subject = "IoSched" /\ Is!Next
     /\ UNCHANGED <<Task, Reactor, Streams, flVars, bulkVars, fileVars, Machine>>
  \/ /\ subject = "BulkRead" /\ Bk!Next
     /\ UNCHANGED <<Task, Reactor, Streams, flVars, ioSchedVars, fileVars, Machine>>
  \/ /\ subject = "FileHandles" /\ Fh!Next
     /\ UNCHANGED <<Task, Reactor, Streams, flVars, ioSchedVars, bulkVars, Machine>>
  \/ /\ subject = "Placement" /\ Pl!Next
     /\ UNCHANGED <<Task, Reactor, Streams, Files, stallVars>>
  \/ /\ subject = "StallDetector" /\ St!Next
     /\ UNCHANGED <<Task, Reactor, Streams, Files, placementVars>>

MCSpec == MCInit /\ [][MCNext]_<<Task, Reactor, Streams, Files, Machine>>

(* Foreign threads are interchangeable, and so are the timers, sources, threads  *)
(* and handles of the other subjects, which have the same two names.             *)
Symmetry == Permutations(Pair)

----------------------------------------------------------------------------------
(* The properties of the parts, under their names; those of the task are         *)
(* extended.                                                                     *)

(* Timers: a timer fires at its present deadline.                                *)
TimerNotLost == subject \in {"Timers", "TimerActions"} => Tm!TimerNotLost
(* UringRing: a source lives as long as its operation, and a ring that can sleep *)
(* has nothing left to complete.  TimerActions: an action is carried out when it *)
(* was last asked for, or its task is ended.  StallDetector: no more stalls are  *)
(* reported than there were, and its thread ends with it.                        *)
ReactorServes ==
  /\ subject = "UringRing" => Ur!SourceKeptAlive /\ Ur!SleepsOnlyIdle
  /\ subject = "TimerActions" => Ta!ActionsKept
  /\ subject = "StallDetector" => St!ReportsBacked
(* BlockingPool: a call is answered once and its answer is not slept on.         *)
AnswerReachesTask == subject = "BlockingPool" => Bp!AnswerReachesTask
(* DmaStreamWriter: what is called flushed can be read.                          *)
FlushedReadable == subject = "DmaStreamWriter" => Wr!FlushedReadable
(* DmaStreamWriter: a writer gets to its end.  StreamWriter: with everything in  *)
(* the file.                                                                     *)
WriterFinishes ==
  /\ subject = "DmaStreamWriter" => Wr!WriterFinishes
  /\ subject = "StreamWriter" => Sw!StreamWritten
(* DmaStreamReader: a reader that waits is woken.                                *)
ReaderNotStranded == subject = "DmaStreamReader" => Rd!ReaderNotStranded
(* StreamReader: what is read is what is at the position.                        *)
ReadsAtPosition == subject = "StreamReader" => Sr!ReadsAtPosition
(* FileLock: whoever has a guard has the lock.                                   *)
GuardMeansLocked == subject = "FileLock" => Fl!GuardMeansLocked
(* IoSched: reads are shared when they can be, and readers cannot tell.          *)
(* BulkRead: every request is answered, in the order of the stream.              *)
(* FileHandles: a file is open while a handle is left, and operations reach it.  *)
FilesServed ==
  /\ subject = "IoSched" => Is!SharingUnseen
  /\ subject = "BulkRead" => Bk!ReadsInOrder
  /\ subject = "FileHandles" => Fh!FilesOwned
(* Placement: no CPU is returned twice before every other once.                  *)
EveryCpuInTurn == subject = "Placement" => Pl!EveryCpuInTurn
==================================================================================
