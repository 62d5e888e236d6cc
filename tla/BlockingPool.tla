------------------------------- MODULE BlockingPool -------------------------------
(* sys/blocking.rs: the threads that run blocking calls for one executor, the    *)
(* two bounded channels between them and the reactor, and the reactor that may   *)
(* be asleep when an answer comes.                                               *)
EXTENDS Naturals, Sequences, FiniteSets, SequencesExt

CONSTANTS Calls,      \* requests, named by their id
          Urgent,     \* those whose source is latency_sensitive
          Closures,   \* those of spawn_blocking: they run a closure of the program
          Workers, PoolDepth, Idle

VARIABLES
  bpCall,      \* "none", "enqueueing", "waiting", "woken", "dropped", "panicked"
  bpSources,   \* BlockingThreadPool.sources: the ids with an entry
  requests,    \* the channel to the threads
  responses,   \* the channel from them
  bpPc, job,   \* of each thread: "recv", "send", "notify", "ended", "panicked"; its request
  bpReactor,   \* "run", "quiet", "prepared", "asleep", "gone"
  shouldNotify, bpEventfd   \* SleepNotifier

bpVars == <<bpCall, bpSources, requests, responses, bpPc, job, bpReactor, shouldNotify,
            bpEventfd>>
threads == <<bpPc, job>>
notifier == <<shouldNotify, bpEventfd>>

Init ==
  /\ bpCall = [c \in Calls |-> "none"] /\ bpSources = {}
  /\ requests = <<>> /\ responses = <<>>
  /\ bpPc = [w \in Workers |-> "recv"] /\ job = [w \in Workers |-> Idle]
  /\ bpReactor = "run" /\ shouldNotify = FALSE /\ bpEventfd = FALSE

Set(c, x) == bpCall' = [bpCall EXCEPT ![c] = x]

(* The threads hold the receiver of the requests: with the last one it is gone.  *)
AllDown == \A w \in Workers : bpPc[w] \in {"ended", "panicked"}

----------------------------------------------------------------------------------
(* A task of the executor.                                                       *)

(* push: the source is in the map before its request can be in the channel.      *)
Push(c) ==
  /\ bpReactor = "run" /\ bpCall[c] = "none" /\ c \notin bpSources
  /\ bpSources' = bpSources \cup {c} /\ Set(c, "enqueueing")
  /\ UNCHANGED <<requests, responses, threads, bpReactor, notifier>>

(* the future of push: send_async waits for room; when nobody is left to receive *)
(* it fails, and the caller panics with its source in the map.                   *)
Enqueue(c) ==
  /\ bpReactor = "run" /\ bpCall[c] = "enqueueing"
  /\ ~AllDown /\ Len(requests) < PoolDepth
  /\ requests' = Append(requests, c) /\ Set(c, "waiting")
  /\ UNCHANGED <<bpSources, responses, threads, bpReactor, notifier>>
EnqueueFails(c) ==
  /\ bpReactor = "run" /\ bpCall[c] = "enqueueing" /\ AllDown
  /\ Set(c, "panicked")
  /\ UNCHANGED <<bpSources, requests, responses, threads, bpReactor, notifier>>

(* The task reads its result (Source::collect_rw), or the call is dropped; the   *)
(* id of a later call is another one.                                            *)
Collect(c) ==
  /\ bpReactor = "run" /\ bpCall[c] = "woken" /\ Set(c, "none")
  /\ UNCHANGED <<bpSources, requests, responses, threads, bpReactor, notifier>>
DropCall(c) ==
  /\ bpReactor = "run" /\ bpCall[c] \in {"enqueueing", "waiting"} /\ Set(c, "dropped")
  /\ UNCHANGED <<bpSources, requests, responses, threads, bpReactor, notifier>>

----------------------------------------------------------------------------------
(* The threads (BlockingThread::new).                                            *)

Recv(w) ==
  /\ bpPc[w] = "recv"
  /\ \/ /\ requests # <<>> /\ requests' = Tail(requests)
        /\ job' = [job EXCEPT ![w] = Head(requests)]
        /\ bpPc' = [bpPc EXCEPT ![w] = "send"]
     \/ /\ requests = <<>> /\ bpReactor = "gone"
        /\ bpPc' = [bpPc EXCEPT ![w] = "ended"] /\ UNCHANGED <<requests, job>>
  /\ UNCHANGED <<bpCall, bpSources, responses, bpReactor, notifier>>

(* The closure panics, and the thread with it: there is no answer, and the       *)
(* source stays in the map.                                                      *)
ClosurePanics(w) ==
  /\ bpPc[w] = "send" /\ job[w] \in Closures
  /\ bpPc' = [bpPc EXCEPT ![w] = "panicked"]
  /\ UNCHANGED <<bpCall, bpSources, requests, responses, job, bpReactor, notifier>>

(* The call was executed; a full channel blocks, a closed one ends the thread.   *)
Send(w) ==
  /\ bpPc[w] = "send"
  /\ \/ /\ bpReactor # "gone" /\ Len(responses) < PoolDepth
        /\ responses' = Append(responses, job[w])
        /\ bpPc' = [bpPc EXCEPT ![w] = "notify"] /\ UNCHANGED job
     \/ /\ bpReactor = "gone" /\ bpPc' = [bpPc EXCEPT ![w] = "ended"]
        /\ job' = [job EXCEPT ![w] = Idle] /\ UNCHANGED responses
  /\ UNCHANGED <<bpCall, bpSources, requests, bpReactor, notifier>>

(* SleepNotifier::notify                                                         *)
Notify(w) ==
  /\ bpPc[w] = "notify" /\ bpPc' = [bpPc EXCEPT ![w] = "recv"]
  /\ job' = [job EXCEPT ![w] = Idle]
  /\ shouldNotify' = FALSE /\ bpEventfd' = (bpEventfd \/ shouldNotify \/ job[w] \in Urgent)
  /\ UNCHANGED <<bpCall, bpSources, requests, responses, bpReactor>>

----------------------------------------------------------------------------------
(* The reactor.                                                                  *)

(* flush: every answer finds its source in the map and wakes the task.           *)
Flush ==
  /\ responses' = <<>> /\ bpSources' = bpSources \ ToSet(responses)
  /\ bpCall' = [c \in Calls |->
                  IF c \notin ToSet(responses) THEN bpCall[c]
                  ELSE IF bpCall[c] = "waiting" THEN "woken" ELSE "none"]

FlushSyscallThread ==
  /\ bpReactor = "run" /\ responses # <<>> /\ Flush
  /\ UNCHANGED <<requests, threads, bpReactor, notifier>>

(* wait: the flush found nothing and no task can go on, so it will sleep.        *)
Wait ==
  /\ bpReactor = "run" /\ responses = <<>>
  /\ \A c \in Calls : bpCall[c] # "woken"
                      /\ (bpCall[c] = "enqueueing" => Len(requests) = PoolDepth /\ ~AllDown)
  /\ bpReactor' = "quiet"
  /\ UNCHANGED <<bpCall, bpSources, requests, responses, threads, notifier>>

PrepareToSleep ==
  /\ bpReactor = "quiet" /\ bpReactor' = "prepared" /\ shouldNotify' = TRUE
  /\ UNCHANGED <<bpCall, bpSources, requests, responses, threads, bpEventfd>>

\* Fault seeded in Sleep: the channel is not looked at again.
Sleep_unchecked ==
  /\ bpReactor = "prepared" /\ bpReactor' = "asleep"
  /\ UNCHANGED <<bpCall, bpSources, requests, responses, threads, notifier>>

(* the second look; events keep it awake, and the flag is not taken back.        *)
Sleep ==
  /\ bpReactor = "prepared"
  /\ \/ responses = <<>> /\ bpReactor' = "asleep" /\ UNCHANGED <<bpCall, bpSources, responses>>
     \/ responses # <<>> /\ bpReactor' = "run" /\ Flush
  /\ UNCHANGED <<requests, threads, notifier>>

(* The read of the eventfd completes, or something else ends the sleep.          *)
WakeUp ==
  /\ bpReactor = "asleep" /\ bpReactor' = "run" /\ shouldNotify' = FALSE
  /\ bpEventfd' = FALSE
  /\ UNCHANGED <<bpCall, bpSources, requests, responses, threads>>

(* The executor goes away with its tasks; both channels close.                   *)
DropPool ==
  /\ bpReactor = "run" /\ bpReactor' = "gone" /\ responses' = <<>> /\ bpSources' = {}
  /\ bpCall' = [c \in Calls |-> "none"]
  /\ UNCHANGED <<requests, threads, notifier>>

Next ==
  \/ \E c \in Calls : Push(c) \/ Enqueue(c) \/ EnqueueFails(c) \/ Collect(c) \/ DropCall(c)
  \/ \E w \in Workers : Recv(w) \/ ClosurePanics(w) \/ Send(w) \/ Notify(w)
  \/ FlushSyscallThread \/ Wait \/ PrepareToSleep \/ Sleep \/ WakeUp \/ DropPool

Fairness == \A w \in Workers : WF_bpVars(Recv(w)) /\ WF_bpVars(Send(w)) /\ WF_bpVars(Notify(w))
Spec == Init /\ [][Next]_bpVars /\ Fairness

----------------------------------------------------------------------------------
(* Properties.                                                                   *)

(* Where a call is: in a channel, or with a thread that runs it.                 *)
Places(c) ==
  Cardinality({k \in DOMAIN requests : requests[k] = c})
  + Cardinality({k \in DOMAIN responses : responses[k] = c})
  + Cardinality({w \in Workers : job[w] = c /\ bpPc[w] = "send"})

(* The thread that ran the closure of the call went down with it.                *)
Panicked(c) == \E w \in Workers : bpPc[w] = "panicked" /\ job[w] = c

(* A blocking call is answered once and its answer is not slept on: what a task  *)
(* waits for is in exactly one place on its way, unless it is a closure that     *)
(* panicked; the other calls have threads left to run them, and no task panics   *)
(* for want of one, until a closure has panicked on every thread; whatever is    *)
(* under way has its source in the map, where flush looks for it without a test; *)
(* and a reactor that sleeps over an answer has been told or is about to be.     *)
AnswerReachesTask ==
  bpReactor # "gone" =>
    /\ \A c \in Calls : /\ bpCall[c] = "waiting" => Places(c) = 1 \/ Panicked(c)
                        /\ Panicked(c) => c \in Closures /\ Places(c) = 0
                        /\ Places(c) <= 1 /\ (Places(c) = 1 => c \in bpSources)
                        /\ bpCall[c] = "panicked" => AllDown
    /\ AllDown => \A w \in Workers : bpPc[w] = "panicked"
    /\ bpReactor = "asleep" /\ responses # <<>> =>
         bpEventfd \/ \E w \in Workers : bpPc[w] = "notify" /\ (shouldNotify \/ job[w] \in Urgent)

==================================================================================
