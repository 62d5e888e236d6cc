--------------------------------- MODULE TimerActions ---------------------------------
(* TimerActionOnce and TimerActionRepeat of timer/timer_impl.rs: a task that sleeps on *)
(* a Timer (Timers) and then acts, and the handle by which it is rearmed, destroyed or *)
(* awaited.  One task is polled at a time; the action of a polled task is the          *)
(* program's and may use any handle, its own too.  Flags and references of the task    *)
(* are in TaskLifecycle, its queue is in Spawning.                                     *)
EXTENDS Integers

CONSTANTS Ids, Delays, MaxTime, NoTime, None

VARIABLES
  now, timers, byId, tmState, when, charged, tmReady,   \* of Timers
  kind,         \* "once" or "repeat"
  stage,        \* of the task of an id: "none", "sleeping", "acting", "ended"
  scheduled,    \* tasks with a runnable in their queue
  closed,       \* tasks that are cancelled
  polled,       \* the task that is being polled, or None
  handle,       \* "none", "held" or "joining"
  asked,        \* the time at which the program last asked the action to start
  early         \* an action has started before that time

timerVars == <<now, timers, byId, tmState, when, charged, tmReady>>
tasks == <<kind, stage, scheduled, closed, polled>>
actionVars == <<timerVars, tasks, handle, asked, early>>

T == INSTANCE Timers

Init ==
  /\ T!Init
  /\ kind = [i \in Ids |-> "once"] /\ stage = [i \in Ids |-> "none"]
  /\ scheduled = {} /\ closed = {} /\ polled = None
  /\ handle = [i \in Ids |-> "none"] /\ asked = [i \in Ids |-> 0] /\ early = FALSE

---------------------------------------------------------------------------------------
(* Making an action.  The queue is the current one or one that is given.               *)

(* The program runs: in a task of its own, or as the action of one that is polled.     *)
Free == \A i \in Ids : polled = i => stage[i] = "acting"
Until(w) == IF w > now THEN w - now ELSE 0
Ask(i, d) == asked' = [asked EXCEPT ![i] = T!After(d)]
At(i, st) == stage' = [stage EXCEPT ![i] = st]

Spawned(i, k, st) ==
  /\ Free /\ stage[i] = "none"
  /\ kind' = [kind EXCEPT ![i] = k] /\ At(i, st) /\ scheduled' = scheduled \cup {i}
  /\ handle' = [handle EXCEPT ![i] = "held"]
  /\ UNCHANGED <<closed, polled, early>>

DoInInto(i, d) == Spawned(i, "once", "sleeping") /\ T!New(i, d) /\ Ask(i, d)
DoAtInto(i, w) == DoInInto(i, Until(w))
DoIn(i, d) == DoInInto(i, d)
DoAt(i, w) == DoAtInto(i, w)

RepeatInto(i) == Spawned(i, "repeat", "acting") /\ UNCHANGED <<timerVars, asked>>
Repeat(i) == RepeatInto(i)

(* spawn_local_into fails: the id is spent, and its Timer was never polled.            *)
QueueNotFound(i) ==
  /\ Free /\ stage[i] = "none" /\ At(i, "ended")
  /\ UNCHANGED <<timerVars, kind, scheduled, closed, polled, handle, asked, early>>

---------------------------------------------------------------------------------------
(* The task.                                                                           *)

Run(i) ==
  /\ polled = None /\ i \in scheduled \ closed
  /\ scheduled' = scheduled \ {i} /\ polled' = i
  /\ UNCHANGED <<timerVars, kind, stage, closed, handle, asked, early>>

(* A runnable that is cancelled drops the future, and with it the Timer.               *)
DropTask(i) ==
  /\ polled = None /\ i \in scheduled \cap closed
  /\ scheduled' = scheduled \ {i} /\ At(i, "ended")
  /\ IF tmState[i] = "none" THEN UNCHANGED timerVars ELSE T!DropTimer(i)
  /\ UNCHANGED <<kind, closed, polled, handle, asked, early>>

(* timer.await.  The task that is polled may have been cancelled by its own action: it *)
(* sleeps again, and its future is dropped when the poll returns.                      *)
SleepPending(i) ==
  /\ polled = i /\ stage[i] = "sleeping" /\ (i \in closed => tmState[i] = "new")
  /\ T!Poll(i) /\ tmState'[i] = "waiting"
  /\ polled' = IF i \in closed THEN i ELSE None
  /\ UNCHANGED <<kind, stage, scheduled, closed, handle, asked, early>>

SleepCancelled(i) ==
  /\ polled = i /\ stage[i] = "sleeping" /\ i \in closed /\ tmState[i] = "waiting"
  /\ T!DropTimer(i) /\ At(i, "ended") /\ scheduled' = scheduled \ {i} /\ polled' = None
  /\ UNCHANGED <<kind, closed, handle, asked, early>>

SleepOver(i) ==
  /\ polled = i /\ stage[i] = "sleeping"
  /\ T!Poll(i) /\ tmState'[i] = "done"
  /\ UNCHANGED <<tasks, handle, asked, early>>

(* The Timer is dropped at the end of its await.                                       *)
ActionStarts(i) ==
  /\ polled = i /\ stage[i] = "sleeping" /\ tmState[i] = "done"
  /\ T!DropTimer(i) /\ At(i, "acting")
  /\ early' = (early \/ now < asked[i])
  /\ UNCHANGED <<kind, scheduled, closed, polled, handle, asked>>

ActionPending(i) ==
  /\ polled = i /\ stage[i] = "acting" /\ polled' = None
  /\ IF i \in closed THEN At(i, "ended") /\ scheduled' = scheduled \ {i}
     ELSE UNCHANGED <<stage, scheduled>>
  /\ UNCHANGED <<timerVars, kind, closed, handle, asked, early>>

(* The action is over; one that repeats gave no other period.                          *)
ActionReady(i) ==
  /\ polled = i /\ stage[i] = "acting"
  /\ At(i, "ended") /\ scheduled' = scheduled \ {i} /\ polled' = None
  /\ UNCHANGED <<timerVars, kind, closed, handle, asked, early>>

RepeatAgain(i, d) ==
  /\ polled = i /\ stage[i] = "acting" /\ kind[i] = "repeat"
  /\ T!New(i, d) /\ Ask(i, d) /\ At(i, "sleeping")
  /\ UNCHANGED <<kind, scheduled, closed, polled, handle, early>>

(* Whatever the action waits for has come.                                             *)
WakeAction(i) ==
  /\ stage[i] = "acting" /\ i \notin closed \cup scheduled
  /\ scheduled' = scheduled \cup {i}
  /\ UNCHANGED <<timerVars, kind, stage, closed, polled, handle, asked, early>>

ProcessTimers ==
  /\ polled = None /\ T!ProcessTimers
  /\ scheduled' = scheduled \cup ({k[2] : k \in T!Expired} \ closed)
  /\ UNCHANGED <<kind, stage, closed, polled, handle, asked, early>>

Tick == T!Tick /\ UNCHANGED <<tasks, handle, asked, early>>

---------------------------------------------------------------------------------------
(* The handle.                                                                         *)

Held(i) == Free /\ handle[i] = "held"
RemoveId(i) == T!Remove(i) /\ UNCHANGED <<now, tmState, when, charged, tmReady>>

(* Reactor::remove_timer, with or without a Timer of that id.                          *)
RemoveTimer(i) ==
  IF tmState[i] \in {"none", "cancelled"} THEN RemoveId(i) ELSE T!Destroy(i)

\* Fault seeded in CancelTask: the task is not scheduled to be cleaned up.
CancelTask_quiet(i) ==
  closed' = (IF stage[i] = "ended" THEN closed ELSE closed \cup {i}) /\ UNCHANGED scheduled

(* JoinHandle::cancel.                                                                 *)
CancelTask(i) ==
  IF stage[i] = "ended" \/ i \in closed THEN UNCHANGED <<closed, scheduled>>
  ELSE /\ closed' = closed \cup {i}
       /\ scheduled' = IF polled = i THEN scheduled ELSE scheduled \cup {i}

Destroy(i) ==
  /\ Held(i) /\ RemoveTimer(i) /\ CancelTask(i)
  /\ UNCHANGED <<kind, stage, polled, handle, asked, early>>

(* cancel and join consume the handle, and wait for the end of the task.               *)
Cancel(i) ==
  /\ Held(i) /\ RemoveTimer(i) /\ CancelTask(i)
  /\ handle' = [handle EXCEPT ![i] = "joining"]
  /\ UNCHANGED <<kind, stage, polled, asked, early>>

CancelOnce(i) == kind[i] = "once" /\ Cancel(i)
CancelRepeat(i) == kind[i] = "repeat" /\ Cancel(i)
DestroyOnce(i) == kind[i] = "once" /\ Destroy(i)
DestroyRepeat(i) == kind[i] = "repeat" /\ Destroy(i)

Join(i) ==
  /\ Held(i) /\ handle' = [handle EXCEPT ![i] = "joining"]
  /\ UNCHANGED <<timerVars, tasks, asked, early>>

JoinReady(i) ==
  /\ handle[i] = "joining" /\ stage[i] = "ended"
  /\ handle' = [handle EXCEPT ![i] = "none"]
  /\ UNCHANGED <<timerVars, tasks, asked, early>>

(* The task is detached, and goes on.                                                  *)
DropHandle(i) ==
  /\ Free /\ handle[i] # "none" /\ handle' = [handle EXCEPT ![i] = "none"]
  /\ UNCHANGED <<timerVars, tasks, asked, early>>

(* rearm_in: when the action has started its Timer is gone, and so is the key.         *)
RearmIn(i, d) ==
  /\ Held(i) /\ kind[i] = "once" /\ T!InTime(d)
  /\ IF tmState[i] = "none" THEN RemoveId(i) /\ UNCHANGED asked ELSE T!Reset(i, d) /\ Ask(i, d)
  /\ UNCHANGED <<tasks, handle, early>>
RearmAt(i, w) == RearmIn(i, Until(w))

Next ==
  \/ \E i \in Ids :
       \/ \E d \in Delays : DoIn(i, d) \/ DoInInto(i, d) \/ RepeatAgain(i, d) \/ RearmIn(i, d)
       \/ \E w \in 0 .. MaxTime - 1 : DoAt(i, w) \/ DoAtInto(i, w) \/ RearmAt(i, w)
       \/ Repeat(i) \/ RepeatInto(i) \/ QueueNotFound(i)
       \/ Run(i) \/ DropTask(i) \/ SleepPending(i) \/ SleepCancelled(i) \/ SleepOver(i)
       \/ ActionStarts(i) \/ ActionPending(i) \/ ActionReady(i) \/ WakeAction(i)
       \/ CancelOnce(i) \/ CancelRepeat(i) \/ DestroyOnce(i) \/ DestroyRepeat(i)
       \/ Join(i) \/ JoinReady(i) \/ DropHandle(i)
  \/ ProcessTimers \/ Tick

Spec == Init /\ [][Next]_actionVars

---------------------------------------------------------------------------------------
(* An action is carried out when the program last asked for it, not before and not     *)
(* never: while it sleeps, its task has a runnable or the reactor has its key, at that *)
(* time; whoever cancels it, its own action too, leaves nothing behind: the task comes *)
(* to its end, and when it has ended the reactor has no key of its id.                 *)
ActionsKept ==
  /\ ~early
  /\ \A i \in Ids :
       /\ stage[i] = "sleeping" /\ polled # i =>
            \/ i \in scheduled
            \/ i \notin closed /\ when[i] = asked[i] /\ <<asked[i], i>> \in timers
       /\ i \in closed /\ stage[i] # "ended" => i \in scheduled \/ polled = i
       /\ stage[i] = "ended" => byId[i] = NoTime /\ \A k \in timers : k[2] # i
=======================================================================================
