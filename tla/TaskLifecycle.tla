------------------------------ MODULE TaskLifecycle ------------------------------
(* The life of one task: the counted references to its allocation, the state   *)
(* flags of its header, and the operations of task/raw.rs on them, called by   *)
(* the owning executor's thread and by foreign threads that hold wakers.       *)
(*                                                                             *)
(* The owner runs on one thread, but its operations reenter each other: a poll *)
(* or a destructor is user code, which may wake, cancel or drop the very task  *)
(* that is running.  The owner is therefore a stack of frames, the running one *)
(* first; a frame is the part of a function between two calls.  A foreign      *)
(* thread is a program counter whose steps are single atomic accesses.         *)
EXTENDS Integers, Sequences, FiniteSets

CONSTANTS Foreign,     \* threads other than the owner
          MaxWakers    \* bound on the wakers alive at once (not in the code)

ASSUME ForeignAssumption == IsFiniteSet(Foreign)
ASSUME MaxWakersAssumption == MaxWakers \in Nat

VARIABLES
  st,           \* Header.state, as the set of its flags
  refs,         \* Header.references
  active,       \* Header.active
  linked,       \* Header.prev_link is not null
  scheduling,   \* Header.scheduling
  awaiter,      \* Header.awaiter holds a waker
  freed,        \* the allocation was released (destroy)
  registryRef,  \* the registry's counted reference was not released yet
  handle,       \* the JoinHandle: "spawning", "held", "dropped"
  runq,         \* runnables of this task in the executor's queues
  ownerW,       \* wakers held by code on the owner's thread
  exec,         \* "running", "idle", "cleanup", "gone"
  queueGone,    \* the task's queue was removed
  shut,         \* TaskRegistry.shutting_down
  stack,        \* the owner's frames
  chanWake, chanCleanup,  \* wakers in foreign_wakes, by vtable
  closed,       \* foreign_wakes_closed
  foreignW,     \* wakers held by each foreign thread
  fpc,          \* where a foreign thread is
  seen          \* the reference count it loaded

header == <<st, active, linked, scheduling, awaiter, registryRef>>
places == <<handle, runq, ownerW>>
executor == <<exec, queueGone, shut>>
channel == <<chanWake, chanCleanup, closed>>
foreign == <<foreignW, fpc, seen>>
vars == <<header, refs, freed, places, executor, channel, foreign, stack>>

Flags == {"SCHEDULED", "RUNNING", "COMPLETED", "CLOSED", "HANDLE",
          "FUTURE_DROPPED", "SCHEDULE_DROPPED", "OUTPUT_PRESENT"}
Has(f) == f \in st

Bit(b) == IF b THEN 1 ELSE 0
ForeignHeld == Cardinality(UNION {{t} \X (1 .. foreignW[t]) : t \in Foreign})
Wakers == ownerW + ForeignHeld + chanWake + chanCleanup

(* The counted references the owner's frames have in their hands: one each,    *)
(* two before release_references(2).  And those of the foreign threads.        *)
Holding == {"run", "poll", "end_run", "release", "release2", "drop_waker",
            "drop_handle", "schedule_owned", "push"}
RefsOf(frames) == Cardinality({i \in 1 .. Len(frames) : frames[i] \in Holding})
                  + Cardinality({i \in 1 .. Len(frames) : frames[i] = "release2"})
InHand == Cardinality({t \in Foreign : fpc[t] \notin {"idle", "wake_find"}})
MayClone == Wakers + InHand < MaxWakers

Top == IF stack = <<>> THEN "none" ELSE Head(stack)
Frames == {stack[i] : i \in 1 .. Len(stack)}
Return(frames) == stack' = frames \o Tail(stack)
Call(frames) == stack' = frames \o stack

(* executor_id() is this executor's id on this thread.                         *)
Entered == exec \in {"running", "cleanup"}
(* get_sleep_notifier_for finds a notifier that accepts_foreign_wakes.         *)
Accepts == exec # "gone" /\ ~closed

----------------------------------------------------------------------------------
(* allocate: the runnable, the handle and the registry own a reference each.   *)
(* spawn_and_run polls in place, spawn_and_schedule queues; the executor need  *)
(* not be running.                                                             *)
Init ==
  /\ st = {"SCHEDULED", "HANDLE"} /\ refs = 3 /\ active = TRUE /\ linked = TRUE
  /\ scheduling = FALSE /\ awaiter = FALSE /\ freed = FALSE /\ registryRef = TRUE
  /\ handle = "spawning" /\ runq = 0 /\ ownerW = 0
  /\ exec \in {"running", "idle"} /\ queueGone = FALSE /\ shut = FALSE
  /\ stack \in {<<"run">>, <<"schedule_owned">>}
  /\ chanWake = 0 /\ chanCleanup = 0 /\ closed = FALSE
  /\ foreignW = [t \in Foreign |-> 0]
  /\ fpc = [t \in Foreign |-> "idle"] /\ seen = [t \in Foreign |-> 2]

----------------------------------------------------------------------------------
(* References.                                                                 *)

(* release_references: the last one destroys the allocation.                   *)
ReleaseRefs(n) == refs' = refs - n /\ freed' = (refs = n)

release ==
  /\ Top = "release" /\ ReleaseRefs(1) /\ Return(<<>>)
  /\ UNCHANGED <<header, places, executor, channel, foreign>>

release2 ==
  /\ Top = "release2" /\ ReleaseRefs(2) /\ Return(<<>>)
  /\ UNCHANGED <<header, places, executor, channel, foreign>>

(* drop_waker on the owner's thread.  Nobody else changes active, so the loop  *)
(* is one step: the compare-and-swap that succeeds saw this count.             *)
drop_waker ==
  /\ Top = "drop_waker"
  /\ \/ /\ refs = 2 /\ active /\ Entered
        /\ Return(<<"do_cleanup", "release">>)
        /\ UNCHANGED <<refs, freed, chanCleanup>>
     \/ /\ refs = 2 /\ active /\ ~Entered /\ Accepts
        /\ chanCleanup' = chanCleanup + 1 /\ Return(<<>>)
        /\ UNCHANGED <<refs, freed>>
     \/ /\ ~(refs = 2 /\ active /\ (Entered \/ Accepts))
        /\ ReleaseRefs(1) /\ Return(<<>>)
        /\ UNCHANGED chanCleanup
  /\ UNCHANGED <<header, places, executor, chanWake, closed, foreign>>

----------------------------------------------------------------------------------
(* Owner cleanup.                                                              *)

\* Fault seeded in CanCleanup: also while the schedule closure runs.
CanCleanup_unguarded ==
  ~Has("SCHEDULE_DROPPED") /\ Has("FUTURE_DROPPED") /\ ~Has("RUNNING")

(* cleanup_owner: the condition under which it acts, and what it does.         *)
CanCleanup ==
  /\ ~Has("SCHEDULE_DROPPED") /\ Has("FUTURE_DROPPED")
  /\ ~Has("RUNNING") /\ ~scheduling

CleanupOwner ==
  /\ active' = FALSE
  /\ st' = st \cup {"SCHEDULE_DROPPED"}
  /\ awaiter' = FALSE          \* Header::notify
  /\ linked' = FALSE
  /\ registryRef' = FALSE      \* the caller releases it

finish ==
  /\ Top = "finish"
  /\ \/ CanCleanup /\ CleanupOwner /\ Return(<<"release">>)
     \/ ~CanCleanup /\ Return(<<>>) /\ UNCHANGED <<st, active, linked, awaiter, registryRef>>
  /\ UNCHANGED <<scheduling, refs, freed, places, executor, channel, foreign>>

drop_future ==
  /\ Top = "drop_future"
  /\ Return(IF Has("FUTURE_DROPPED") THEN <<>> ELSE <<"dtor">>)
  /\ st' = st \cup {"FUTURE_DROPPED"}
  /\ UNCHANGED <<active, linked, scheduling, awaiter, registryRef, refs, freed,
                 places, executor, channel, foreign>>

close ==
  /\ Top = "close"
  /\ IF Has("RUNNING")
       THEN st' = st \cup {"CLOSED"} /\ Return(<<>>)
       ELSE /\ st' = (st \ {"SCHEDULED"}) \cup {"CLOSED", "RUNNING"}
            /\ Return(<<"drop_future", "close_end">>)
  /\ active' = FALSE
  /\ UNCHANGED <<linked, scheduling, awaiter, registryRef, refs, freed, places,
                 executor, channel, foreign>>

(* The future was dropped: RUNNING (and, after a poll, SCHEDULED) is cleared   *)
(* and the awaiter notified.  close, the closed end of run, the end of run     *)
(* after the output is stored, and PollGuard all finish this way.              *)
StopRunning(frame, flags) ==
  /\ Top = frame
  /\ st' = st \ flags /\ awaiter' = FALSE /\ Return(<<>>)
  /\ UNCHANGED <<active, linked, scheduling, registryRef, refs, freed, places,
                 executor, channel, foreign>>

close_end == StopRunning("close_end", {"RUNNING"})

pending_closed_end == StopRunning("pending_closed_end", {"RUNNING", "SCHEDULED"})

ready_end == StopRunning("ready_end", {"RUNNING"})

(* drop_task, and the tail of shutdown: the future goes, then the owner's part *)
(* of the task, then the reference.                                            *)
DropTask == <<"close", "finish", "release">>

\* Fault seeded in shutdown: does not count its own reference.
shutdown_uncounted ==
  /\ Top = "shutdown"
  /\ linked' = FALSE
  /\ Return(DropTask)
  /\ UNCHANGED <<st, active, scheduling, awaiter, registryRef, refs, freed, places,
                 executor, channel, foreign>>

(* TaskRegistry::shutdown_next, on this task.                                  *)
shutdown ==
  /\ Top = "shutdown"
  /\ refs' = refs + 1 /\ linked' = FALSE
  /\ Return(DropTask)
  /\ UNCHANGED <<st, active, scheduling, awaiter, registryRef, freed, places,
                 executor, channel, foreign>>

----------------------------------------------------------------------------------
(* Wakes, cancellation, scheduling.                                            *)

do_wake ==
  /\ Top = "do_wake"
  /\ \/ /\ ~active /\ Return(<<>>)
        /\ UNCHANGED <<st, refs, chanWake>>
     \/ /\ active /\ ~Entered          \* the clone goes through the notifier
        /\ Return(<<>>) /\ UNCHANGED st
        /\ IF Accepts THEN refs' = refs + 1 /\ chanWake' = chanWake + 1
                      ELSE UNCHANGED <<refs, chanWake>>
     \/ /\ active /\ Entered
        /\ IF st \cap {"COMPLETED", "CLOSED", "SCHEDULED"} = {}
             THEN /\ st' = st \cup {"SCHEDULED"}
                  /\ Return(IF Has("RUNNING") THEN <<>> ELSE <<"schedule">>)
             ELSE Return(<<>>) /\ UNCHANGED st
        /\ UNCHANGED <<refs, chanWake>>
  /\ UNCHANGED <<active, linked, scheduling, awaiter, registryRef, freed, places,
                 executor, chanCleanup, closed, foreign>>

\* Fault seeded in do_cleanup: does not destroy the future.
do_cleanup_asWake ==
  /\ Top = "do_cleanup"
  /\ Return(<<>>)
  /\ UNCHANGED <<header, refs, freed, places, executor, channel, foreign>>

do_cleanup ==
  /\ Top = "do_cleanup"
  /\ Return(IF /\ active /\ st \cap {"HANDLE", "SCHEDULED", "RUNNING"} = {}
               /\ refs = 2
              THEN <<"cancel">> ELSE <<>>)
  /\ UNCHANGED <<header, refs, freed, places, executor, channel, foreign>>

cancel ==
  /\ Top = "cancel"
  /\ IF st \cap {"COMPLETED", "CLOSED"} # {}
       THEN Return(<<>>) /\ UNCHANGED <<st, active, awaiter>>
       ELSE /\ active' = FALSE
            /\ IF st \cap {"SCHEDULED", "RUNNING"} = {}
                 THEN /\ st' = st \cup {"CLOSED", "SCHEDULED"}
                      /\ Return(<<"schedule", "notify">>) /\ UNCHANGED awaiter
                 ELSE /\ st' = st \cup {"CLOSED"} /\ awaiter' = FALSE
                      /\ Return(<<>>)
  /\ UNCHANGED <<linked, scheduling, registryRef, refs, freed, places, executor,
                 channel, foreign>>

notify ==
  /\ Top = "notify" /\ awaiter' = FALSE /\ Return(<<>>)
  /\ UNCHANGED <<st, active, linked, scheduling, registryRef, refs, freed, places,
                 executor, channel, foreign>>

cancel_in_place ==
  /\ Top = "cancel_in_place"
  /\ IF Has("RUNNING") THEN Return(<<>>) /\ UNCHANGED st
     ELSE st' = st \cup {"RUNNING"} /\ Return(<<"drop_future", "in_place_end">>)
  /\ UNCHANGED <<active, linked, scheduling, awaiter, registryRef, refs, freed,
                 places, executor, channel, foreign>>

in_place_end ==
  /\ Top = "in_place_end" /\ st' = st \ {"RUNNING"} /\ Return(<<>>)
  /\ UNCHANGED <<active, linked, scheduling, awaiter, registryRef, refs, freed,
                 places, executor, channel, foreign>>

\* Fault seeded in schedule: does not count the runnable.
schedule_uncounted ==
  /\ Top = "schedule"
  /\ Return(<<"schedule_owned">>)
  /\ UNCHANGED <<header, refs, freed, places, executor, channel, foreign>>

schedule ==
  /\ Top = "schedule"
  /\ refs' = refs + 1 /\ Return(<<"schedule_owned">>)
  /\ UNCHANGED <<header, freed, places, executor, channel, foreign>>

(* schedule_owned with Scheduler::schedule: the runnable goes to its queue; if *)
(* the queue was removed it is cancelled and queued for cleanup; if the        *)
(* executor is not entered, a cancelled one is dropped in a cleanup context;   *)
(* if the executor is gone, it is dropped.                                     *)
schedule_owned ==
  LET end == IF scheduling THEN "schedule_end_T" ELSE "schedule_end_F"
      enqueue == runq' = runq + 1 /\ Return(<<end>>) /\ UNCHANGED exec
      park(frames, e) == UNCHANGED runq /\ exec' = e /\ Return(frames \o <<end>>)
  IN /\ Top = "schedule_owned"
     /\ \/ /\ Has("SCHEDULE_DROPPED") /\ Return(<<"release">>)
           /\ UNCHANGED <<scheduling, runq, exec>>
        \/ /\ ~Has("SCHEDULE_DROPPED") /\ scheduling' = TRUE
           /\ \/ Entered /\ ~queueGone /\ enqueue
              \/ Entered /\ queueGone /\ park(<<"cancel", "push">>, exec)
              \/ exec = "idle" /\ ~queueGone /\ ~Has("CLOSED") /\ enqueue
              \/ /\ exec = "idle" /\ (queueGone \/ Has("CLOSED"))
                 /\ park(DropTask \o <<"leave">>, "cleanup")
              \/ exec = "gone" /\ park(DropTask, exec)
     /\ UNCHANGED <<st, active, linked, awaiter, registryRef, refs, freed, handle,
                    ownerW, queueGone, shut, channel, foreign>>

push ==
  /\ Top = "push" /\ runq' = runq + 1 /\ Return(<<>>)
  /\ UNCHANGED <<header, refs, freed, handle, ownerW, executor, channel, foreign>>

(* The guard of schedule_owned restores scheduling and finishes.               *)
schedule_end ==
  /\ Top \in {"schedule_end_T", "schedule_end_F"}
  /\ scheduling' = (Top = "schedule_end_T") /\ Return(<<"finish">>)
  /\ UNCHANGED <<st, active, linked, awaiter, registryRef, refs, freed, places,
                 executor, channel, foreign>>

----------------------------------------------------------------------------------
(* Running.                                                                    *)

run ==
  /\ Top = "run"
  /\ IF st \cap {"CLOSED", "COMPLETED"} # {}
       THEN Return(DropTask)         \* drop_task
             /\ UNCHANGED st
       ELSE st' = (st \ {"SCHEDULED"}) \cup {"RUNNING"} /\ Return(<<"poll">>)
  /\ UNCHANGED <<active, linked, scheduling, awaiter, registryRef, refs, freed,
                 places, executor, channel, foreign>>

(* The poll returns Ready: the future is dropped before the output is stored.  *)
poll_ready ==
  /\ Top = "poll"
  /\ active' = FALSE /\ Return(<<"drop_future", "completed", "end_run">>)
  /\ UNCHANGED <<st, linked, scheduling, awaiter, registryRef, refs, freed,
                 places, executor, channel, foreign>>

(* Without a handle, or when closed, the output is dropped here: user code.    *)
completed ==
  LET take == ~Has("HANDLE") \/ Has("CLOSED")
  IN /\ Top = "completed"
     /\ st' = (st \ {"SCHEDULED"}) \cup {"COMPLETED"}
              \cup (IF take THEN {"CLOSED"} ELSE {"OUTPUT_PRESENT"})
     /\ Return(IF take THEN <<"user", "ready_end">> ELSE <<"ready_end">>)
     /\ UNCHANGED <<active, linked, scheduling, awaiter, registryRef, refs, freed,
                    places, executor, channel, foreign>>

\* Fault seeded in poll_pending: loses a wake during the poll.
poll_pending_forgetsWake ==
  /\ Top = "poll"
  /\ st' = st \ {"RUNNING"} /\ Return(<<"end_run">>)
  /\ UNCHANGED <<active, linked, scheduling, awaiter, registryRef, refs, freed,
                 places, executor, channel, foreign>>

poll_pending ==
  /\ Top = "poll"
  /\ IF Has("CLOSED")
       THEN /\ Return(<<"drop_future", "pending_closed_end", "end_run">>)
            /\ UNCHANGED st
       ELSE /\ st' = st \ {"RUNNING"}
            /\ Return(IF Has("SCHEDULED") THEN <<"schedule_owned">>
                      ELSE IF ~Has("HANDLE") /\ refs = 2 THEN <<"close", "end_run">>
                      ELSE <<"end_run">>)
  /\ UNCHANGED <<active, linked, scheduling, awaiter, registryRef, refs, freed,
                 places, executor, channel, foreign>>

(* The poll panics: PollGuard closes the task and releases the runnable.       *)
poll_panic ==
  /\ Top = "poll"
  /\ st' = st \cup {"CLOSED", "RUNNING"} /\ active' = FALSE
  /\ Return(<<"drop_future", "pending_closed_end", "finish", "release">>)
  /\ UNCHANGED <<linked, scheduling, awaiter, registryRef, refs, freed,
                 places, executor, channel, foreign>>

end_run ==
  /\ Top = "end_run"
  /\ \/ CanCleanup /\ CleanupOwner /\ Return(<<"release2">>)
     \/ /\ ~CanCleanup /\ Return(<<"drop_waker">>)
        /\ UNCHANGED <<st, active, linked, awaiter, registryRef>>
  /\ UNCHANGED <<scheduling, refs, freed, places, executor, channel, foreign>>

----------------------------------------------------------------------------------
(* The handle, dropped: the output, if any, is moved out first and destroyed   *)
(* last.                                                                       *)
drop_handle ==
  LET out == IF Has("OUTPUT_PRESENT") THEN <<"user">> ELSE <<>>
  IN /\ Top = "drop_handle"
     /\ st' = IF Has("OUTPUT_PRESENT")
                THEN (st \ {"HANDLE", "OUTPUT_PRESENT"}) \cup {"CLOSED"}
                ELSE st \ {"HANDLE"}
     /\ IF Has("SCHEDULE_DROPPED") /\ refs = 1
          THEN refs' = 0 /\ freed' = TRUE /\ Return(out)
          ELSE /\ Return(<<"finish", "abandon", "drop_waker">> \o out)
               /\ UNCHANGED <<refs, freed>>
     /\ UNCHANGED <<active, linked, scheduling, awaiter, registryRef, places,
                    executor, channel, foreign>>

abandon ==
  /\ Top = "abandon"
  /\ Return(IF /\ st \cap {"SCHEDULED", "RUNNING", "CLOSED", "COMPLETED"} = {}
               /\ refs = 2
              THEN <<"cancel">> ELSE <<>>)
  /\ UNCHANGED <<header, refs, freed, places, executor, channel, foreign>>

----------------------------------------------------------------------------------
(* What user code on the owner's thread may do: between two steps of the       *)
(* executor, inside the poll, inside the future's destructor, inside the       *)
(* output's destructor.                                                        *)
UserCode == stack = <<>> \/ Top \in {"poll", "dtor", "user"}

spawned ==
  /\ handle = "spawning" /\ stack = <<>> /\ handle' = "held"
  /\ UNCHANGED <<header, refs, freed, runq, ownerW, executor, channel, foreign, stack>>

user_return ==
  /\ Top \in {"dtor", "user"} /\ Return(<<>>)
  /\ UNCHANGED <<header, refs, freed, places, executor, channel, foreign>>

(* cancel and cancel_in_place borrow the handle: it is not dropped meanwhile.  *)
HandleOp(frames) ==
  /\ UserCode /\ handle = "held" /\ Call(frames \o <<"unborrow">>)
  /\ UNCHANGED <<header, refs, freed, places, executor, channel, foreign>>

handle_cancel == HandleOp(<<"cancel">>)
handle_cancel_in_place == HandleOp(<<"cancel", "cancel_in_place">>)

unborrow ==
  /\ Top = "unborrow" /\ Return(<<>>)
  /\ UNCHANGED <<header, refs, freed, places, executor, channel, foreign>>

handle_drop ==
  /\ UserCode /\ handle = "held" /\ "unborrow" \notin Frames
  /\ handle' = "dropped" /\ Call(<<"drop_handle">>)
  /\ UNCHANGED <<header, refs, freed, runq, ownerW, executor, channel, foreign>>

\* Fault seeded in handle_poll: a closed task is awaited until it completes.
handle_poll_ignoresClosed ==
  /\ UserCode /\ handle = "held"
  /\ awaiter' = ~Has("COMPLETED")
  /\ st' = IF Has("COMPLETED") THEN (st \cup {"CLOSED"}) \ {"OUTPUT_PRESENT"} ELSE st
  /\ UNCHANGED <<active, linked, scheduling, registryRef, refs, freed, places,
                 executor, channel, foreign, stack>>

(* JoinHandle::poll.                                                           *)
handle_poll ==
  LET waiting == IF Has("CLOSED") THEN ~Has("FUTURE_DROPPED") \/ Has("RUNNING")
                                  ELSE ~Has("COMPLETED")
  IN /\ UserCode /\ handle = "held"
     /\ awaiter' = waiting
     /\ st' = IF ~waiting /\ ~Has("CLOSED")
                THEN (st \cup {"CLOSED"}) \ {"OUTPUT_PRESENT"} ELSE st
     /\ UNCHANGED <<active, linked, scheduling, registryRef, refs, freed, places,
                    executor, channel, foreign, stack>>

(* The poll lends the task's own waker; elsewhere one must be held.            *)
CanUseWaker == UserCode /\ (ownerW > 0 \/ Top = "poll")

waker_clone ==
  /\ CanUseWaker /\ MayClone
  /\ refs' = refs + 1 /\ ownerW' = ownerW + 1
  /\ UNCHANGED <<header, freed, handle, runq, executor, channel, foreign, stack>>

waker_wake_by_ref ==
  /\ CanUseWaker /\ MayClone /\ Call(<<"do_wake">>)
  /\ UNCHANGED <<header, refs, freed, places, executor, channel, foreign>>

waker_wake ==
  /\ UserCode /\ ownerW > 0 /\ MayClone
  /\ ownerW' = ownerW - 1 /\ Call(<<"do_wake", "drop_waker">>)
  /\ UNCHANGED <<header, refs, freed, handle, runq, executor, channel, foreign>>

waker_drop ==
  /\ UserCode /\ ownerW > 0
  /\ ownerW' = ownerW - 1 /\ Call(<<"drop_waker">>)
  /\ UNCHANGED <<header, refs, freed, handle, runq, executor, channel, foreign>>

waker_send(t) ==
  /\ UserCode /\ ownerW > 0
  /\ ownerW' = ownerW - 1 /\ foreignW' = [foreignW EXCEPT ![t] = @ + 1]
  /\ UNCHANGED <<header, refs, freed, handle, runq, executor, channel, fpc, seen, stack>>

----------------------------------------------------------------------------------
(* The executor.                                                               *)

run_one ==          \* run_one_task_queue takes a runnable
  /\ stack = <<>> /\ exec = "running" /\ runq > 0
  /\ runq' = runq - 1 /\ Call(<<"run">>)
  /\ UNCHANGED <<header, refs, freed, handle, ownerW, executor, channel, foreign>>

process_foreign_wakes ==
  /\ stack = <<>> /\ exec = "running"
  /\ \/ /\ chanWake > 0 /\ chanWake' = chanWake - 1
        /\ Call(<<"do_wake", "drop_waker">>) /\ UNCHANGED chanCleanup
     \/ /\ chanCleanup > 0 /\ chanCleanup' = chanCleanup - 1
        /\ Call(<<"do_cleanup", "drop_waker">>) /\ UNCHANGED chanWake
  /\ UNCHANGED <<header, refs, freed, places, executor, closed, foreign>>

enter_run ==        \* LocalExecutor::run enters the context ...
  /\ stack = <<>> /\ exec = "idle" /\ exec' = "running"
  /\ UNCHANGED <<header, refs, freed, places, queueGone, shut, channel, foreign, stack>>

leave_run ==        \* ... and returns (or unwinds)
  /\ stack = <<>> /\ exec = "running" /\ exec' = "idle"
  /\ UNCHANGED <<header, refs, freed, places, queueGone, shut, channel, foreign, stack>>

remove_task_queue ==
  /\ stack = <<>> /\ exec \in {"running", "idle"} /\ ~queueGone /\ runq = 0
  /\ queueGone' = TRUE
  /\ UNCHANGED <<header, refs, freed, places, exec, shut, channel, foreign, stack>>

(* LocalExecutor::drop, by the code that owns the executor or by a destructor  *)
(* that runs in a cleanup context: foreign wakes are closed and dropped, then  *)
(* shutdown is requested.  The outermost cleanup context carries it out.       *)
drop_executor ==
  /\ ~shut /\ ~closed
  /\ \/ /\ stack = <<>> /\ exec = "idle" /\ exec' = "cleanup"
        /\ Call(<<"close_foreign_wakes", "request_shutdown", "leave">>)
     \/ /\ exec = "cleanup" /\ Top \in {"dtor", "user"} /\ UNCHANGED exec
        /\ Call(<<"close_foreign_wakes", "request_shutdown">>)
  /\ closed' = TRUE
  /\ UNCHANGED <<header, refs, freed, places, queueGone, shut, chanWake,
                 chanCleanup, foreign>>

\* Fault seeded in close_foreign_wakes: what is in the channel stays there.
close_foreign_wakes_undrained ==
  /\ Top = "close_foreign_wakes" /\ Return(<<>>)
  /\ UNCHANGED <<chanWake, chanCleanup>>
  /\ UNCHANGED <<header, refs, freed, places, executor, closed, foreign>>

close_foreign_wakes ==
  /\ Top = "close_foreign_wakes"
  /\ \/ /\ chanWake > 0 /\ chanWake' = chanWake - 1 /\ UNCHANGED chanCleanup
        /\ Return(<<"drop_waker", "close_foreign_wakes">>)
     \/ /\ chanCleanup > 0 /\ chanCleanup' = chanCleanup - 1 /\ UNCHANGED chanWake
        /\ Return(<<"drop_waker", "close_foreign_wakes">>)
     \/ /\ chanWake = 0 /\ chanCleanup = 0 /\ Return(<<>>)
        /\ UNCHANGED <<chanWake, chanCleanup>>
  /\ UNCHANGED <<header, refs, freed, places, executor, closed, foreign>>

request_shutdown ==
  /\ Top = "request_shutdown" /\ shut' = TRUE /\ Return(<<>>)
  /\ UNCHANGED <<header, refs, freed, places, exec, queueGone, channel, foreign>>

(* The end of the outermost with_cleanup.                                      *)
leave ==
  /\ Top = "leave"
  /\ IF shut THEN Return(<<"finish_shutdown">>) /\ UNCHANGED exec
             ELSE Return(<<>>) /\ exec' = "idle"
  /\ UNCHANGED <<header, refs, freed, places, queueGone, shut, channel, foreign>>

finish_shutdown ==
  /\ Top = "finish_shutdown"
  /\ \/ /\ linked /\ Return(<<"shutdown", "finish_shutdown">>)
        /\ UNCHANGED <<runq, exec>>
     \/ /\ ~linked /\ runq > 0 /\ runq' = runq - 1
        /\ Return(DropTask \o <<"finish_shutdown">>) /\ UNCHANGED exec
     \/ /\ ~linked /\ runq = 0 /\ exec' = "gone" /\ Return(<<>>) /\ UNCHANGED runq
  /\ UNCHANGED <<header, refs, freed, handle, ownerW, queueGone, shut, channel, foreign>>

----------------------------------------------------------------------------------
(* Foreign threads.                                                            *)

FGoto(t, pc) == fpc' = [fpc EXCEPT ![t] = pc]
ownerSide == <<header, places, executor, stack>>

foreign_clone(t) ==
  /\ fpc[t] = "idle" /\ foreignW[t] > 0 /\ MayClone
  /\ refs' = refs + 1 /\ foreignW' = [foreignW EXCEPT ![t] = @ + 1]
  /\ UNCHANGED <<ownerSide, freed, channel, fpc, seen>>

(* do_wake off the owner's thread: active is loaded, the notifier looked up, a *)
(* clone made and queued; queue_waker checks again under its lock.             *)
foreign_wake(t) ==
  /\ fpc[t] = "idle" /\ foreignW[t] > 0
  /\ FGoto(t, IF active THEN "wake_find" ELSE "idle")
  /\ UNCHANGED <<ownerSide, refs, freed, channel, foreignW, seen>>

foreign_wake_find(t) ==
  /\ fpc[t] = "wake_find"
  /\ IF exec = "gone" THEN FGoto(t, "idle") /\ UNCHANGED refs
     ELSE MayClone /\ refs' = refs + 1 /\ FGoto(t, "wake_queue")
  /\ UNCHANGED <<ownerSide, freed, channel, foreignW, seen>>

foreign_wake_queue(t) ==
  /\ fpc[t] = "wake_queue"
  /\ IF closed THEN FGoto(t, "drop_load") /\ UNCHANGED chanWake
               ELSE FGoto(t, "idle") /\ chanWake' = chanWake + 1
  /\ UNCHANGED <<ownerSide, refs, freed, chanCleanup, closed, foreignW, seen>>

(* drop_waker off the owner's thread, one atomic access a step.                *)
foreign_drop(t) ==
  /\ fpc[t] = "idle" /\ foreignW[t] > 0
  /\ foreignW' = [foreignW EXCEPT ![t] = @ - 1] /\ FGoto(t, "drop_load")
  /\ UNCHANGED <<ownerSide, refs, freed, channel, seen>>

(* The loop body on a loaded count: one reference is exclusive ownership.      *)
Inspect(t) ==
  /\ seen' = [seen EXCEPT ![t] = IF refs > 2 THEN refs ELSE 2]
  /\ IF refs = 1 THEN refs' = 0 /\ freed' = TRUE /\ FGoto(t, "idle")
     ELSE /\ FGoto(t, IF refs = 2 THEN "drop_active" ELSE "drop_cas")
          /\ UNCHANGED <<refs, freed>>

foreign_drop_load(t) ==
  /\ fpc[t] = "drop_load" /\ Inspect(t)
  /\ UNCHANGED <<ownerSide, channel, foreignW>>

foreign_drop_active(t) ==
  /\ fpc[t] = "drop_active"
  /\ FGoto(t, IF active THEN "drop_find" ELSE "drop_cas")
  /\ UNCHANGED <<ownerSide, refs, freed, channel, foreignW, seen>>

foreign_drop_find(t) ==
  /\ fpc[t] = "drop_find"
  /\ FGoto(t, IF Accepts THEN "drop_queue" ELSE "drop_cas")
  /\ UNCHANGED <<ownerSide, refs, freed, channel, foreignW, seen>>

(* queue_waker: under the lock the acceptance is checked again; a refused      *)
(* cleanup waker is dropped, which starts over.                                *)
foreign_drop_queue(t) ==
  /\ fpc[t] = "drop_queue"
  /\ IF closed THEN FGoto(t, "drop_load") /\ UNCHANGED chanCleanup
               ELSE FGoto(t, "idle") /\ chanCleanup' = chanCleanup + 1
  /\ UNCHANGED <<ownerSide, refs, freed, chanWake, closed, foreignW, seen>>

(* The compare-and-swap; a spurious failure would only repeat the loads.       *)
foreign_drop_cas(t) ==
  /\ fpc[t] = "drop_cas"
  /\ \/ /\ refs = seen[t] /\ refs' = refs - 1 /\ FGoto(t, "idle")
        /\ seen' = [seen EXCEPT ![t] = 2] /\ UNCHANGED freed
     \/ refs # seen[t] /\ Inspect(t)
  /\ UNCHANGED <<ownerSide, channel, foreignW>>

----------------------------------------------------------------------------------
Frame ==
  \/ release \/ release2 \/ drop_waker \/ finish \/ drop_future \/ close
  \/ close_end \/ pending_closed_end \/ ready_end \/ shutdown
  \/ do_wake \/ do_cleanup \/ cancel \/ notify \/ cancel_in_place \/ in_place_end
  \/ schedule \/ schedule_owned \/ push \/ schedule_end
  \/ run \/ completed \/ end_run \/ drop_handle \/ abandon \/ unborrow
  \/ close_foreign_wakes \/ request_shutdown \/ leave \/ finish_shutdown

PollReturns == poll_ready \/ poll_pending \/ poll_panic

User ==
  \/ spawned \/ handle_cancel \/ handle_cancel_in_place \/ handle_drop \/ handle_poll
  \/ waker_clone \/ waker_wake_by_ref \/ waker_wake \/ waker_drop
  \/ \E t \in Foreign : waker_send(t)

Executor ==
  \/ run_one \/ process_foreign_wakes \/ enter_run \/ leave_run
  \/ remove_task_queue \/ drop_executor

ForeignStep(t) ==
  \/ foreign_wake_find(t) \/ foreign_wake_queue(t) \/ foreign_drop_load(t)
  \/ foreign_drop_active(t) \/ foreign_drop_find(t) \/ foreign_drop_queue(t)
  \/ foreign_drop_cas(t)

ForeignCall(t) == foreign_clone(t) \/ foreign_wake(t) \/ foreign_drop(t)

Next ==
  \/ Frame \/ PollReturns \/ user_return \/ User \/ Executor
  \/ \E t \in Foreign : ForeignStep(t) \/ ForeignCall(t)

(* A call that began goes on; user code returns; an executor that is not       *)
(* dropped is entered again, and while entered runs its queues and its reactor *)
(* again and again.                                                            *)
Fairness ==
  /\ WF_vars(Frame) /\ SF_vars(PollReturns) /\ SF_vars(user_return)
  /\ SF_vars(enter_run) /\ SF_vars(run_one) /\ SF_vars(process_foreign_wakes)
  /\ \A t \in Foreign : SF_vars(ForeignStep(t))

Spec == Init /\ [][Next]_vars
FairSpec == Spec /\ Fairness

----------------------------------------------------------------------------------
(* Properties.                                                                 *)

(* The types.  runq and chanCleanup are at most one: no second runnable is     *)
(* queued (do_wake, cancel), no second cleanup notification (drop_waker).      *)
TypeOK ==
  /\ st \subseteq Flags /\ refs \in Nat
  /\ active \in BOOLEAN /\ linked \in BOOLEAN /\ scheduling \in BOOLEAN
  /\ awaiter \in BOOLEAN /\ freed \in BOOLEAN /\ registryRef \in BOOLEAN
  /\ handle \in {"spawning", "held", "dropped"} /\ runq \in 0 .. 1
  /\ ownerW \in 0 .. MaxWakers
  /\ exec \in {"running", "idle", "cleanup", "gone"}
  /\ queueGone \in BOOLEAN /\ shut \in BOOLEAN /\ closed \in BOOLEAN
  /\ chanWake \in Nat /\ chanCleanup \in 0 .. 1
  /\ foreignW \in [Foreign -> 0 .. MaxWakers]

(* Header.references: "Counts the registry, handle, runnable, wakers, and      *)
(* temporary callback guards" -- exactly, at every step of every interleaving. *)
(* A count that is too low frees a task in use; one too high leaks it.         *)
RefsExact ==
  ~freed =>
    refs = Bit(registryRef) + Bit(handle # "dropped") + runq + Wakers
           + RefsOf(stack) + InHand

(* Nobody can reach the allocation once it was released: no holder is left,    *)
(* and no frame of the owner's stack that would touch the header or the future *)
(* is still to run.  And it is released clean, as the debug assertions of      *)
(* destroy say: future and schedule closure are gone, the output was moved     *)
(* out, the task is unlinked and nobody awaits it.                             *)
NoUseAfterFree ==
  freed =>
    /\ handle = "dropped" /\ runq = 0 /\ Wakers = 0
    /\ \A t \in Foreign : fpc[t] = "idle"
    /\ Frames \subseteq {"user", "close_foreign_wakes", "request_shutdown",
                         "leave", "finish_shutdown"}
    /\ {"FUTURE_DROPPED", "SCHEDULE_DROPPED"} \subseteq st
    /\ st \cap {"OUTPUT_PRESENT", "HANDLE"} = {}
    /\ ~linked /\ ~awaiter /\ ~registryRef

(* The future is never dropped while it is being polled, and never polled or   *)
(* dropped again: RUNNING defers every reentrant cancel, close and shutdown.   *)
(* Nor is the schedule closure destroyed while it runs, although it may cancel *)
(* or drop the task it is given.  "At any moment in time, there is at most one *)
(* Task reference" (task_impl.rs) and, between two steps of the executor,      *)
(* SCHEDULED says exactly whether it exists, so that no wake is lost.          *)
FutureExclusive ==
  /\ "poll" \in Frames => ~Has("FUTURE_DROPPED") /\ Has("RUNNING")
  /\ "dtor" \in Frames => Has("RUNNING")
  /\ Cardinality({i \in 1 .. Len(stack) : stack[i] \in {"poll", "dtor"}}) <= 1
  /\ Frames \cap {"push", "schedule_end_T", "schedule_end_F"} # {}
       => ~Has("SCHEDULE_DROPPED")
  /\ runq + Cardinality({i \in 1 .. Len(stack) :
         stack[i] \in {"run", "poll", "end_run", "schedule_owned", "push"}}) <= 1
  /\ stack = <<>> => (Has("SCHEDULED") <=> runq = 1)

(* A registered awaiter is woken when the future goes away; what may delay it  *)
(* is a runnable that is still queued.                                         *)
AwaiterNotStranded ==
  stack = <<>> /\ awaiter => ~Has("FUTURE_DROPPED") \/ runq = 1

(* LocalExecutor::drop leaves nothing behind: the future and the schedule      *)
(* closure were destroyed on the owner's thread, no runnable is queued and no  *)
(* waker sits in the closed channel, whatever the foreign threads were doing.  *)
ShutdownComplete ==
  exec = "gone" =>
    /\ {"FUTURE_DROPPED", "SCHEDULE_DROPPED"} \subseteq st \/ stack # <<>>
    /\ chanWake = 0 /\ chanCleanup = 0 /\ runq = 0 /\ ~linked

(* A task without handle and wakers is freed, unless its future is polled once *)
(* more (it woke itself): the foreign thread that drops the last waker routes  *)
(* the future back to its owner, which destroys it.                            *)
Abandoned == handle = "dropped" /\ ownerW = 0 /\ \A t \in Foreign : foreignW[t] = 0
AbandonedIsFreed == Abandoned ~> (freed \/ ~Abandoned \/ Top = "poll")

(* A scheduled task is polled or closed.                                       *)
ScheduledRuns == Has("SCHEDULED") ~> ~Has("SCHEDULED")
==================================================================================
