------------------------------ MODULE StallDetector ------------------------------
(* executor/stall.rs: a timer that is armed while a task queue runs, the thread  *)
(* that sends a signal to the executor when it expires, the handler of the       *)
(* signal, which leaves the frames of a backtrace in a channel, and the guard    *)
(* that reports a stall when it finds frames there.  Frames are not told apart.  *)
EXTENDS Naturals, FiniteSets

CONSTANTS MaxRuns     \* bound on the runs of task queues

VARIABLES
  at,           \* the executor's thread: "between" runs, "watched" or "unwatched" in one,
                \* "disarmed" (the guard's drop), then "closing", "terminating", "joining", "gone"
  run,          \* the runs of task queues so far; the last one may be going on
  over,         \* runs that went over their budget
  timer,        \* "off", "armed", "expired" and not waited for yet, "interval"
  trigger,      \* the timer's thread: "waiting", "woken", "killing", "ended"
  terminated,   \* the flag: "no", "stored", and "visible" to the other thread
  signal,       \* the signal is pending
  registered,   \* the handler is registered
  frames,       \* there are frames in the channel
  reported      \* the runs that were reported

stallVars == <<at, run, over, timer, trigger, terminated, signal, registered, frames, reported>>
signals == <<trigger, terminated, signal, registered>>

Init ==
  /\ at = "between" /\ run = 0 /\ over = {} /\ timer = "off" /\ trigger = "waiting"
  /\ terminated = "no" /\ signal = FALSE /\ registered = TRUE /\ frames = FALSE
  /\ reported = {}

----------------------------------------------------------------------------------
(* The executor's thread.                                                        *)

Arm == timer' = "armed"

(* StallDetectorGuard::new                                                       *)
NewGuard == at' = "watched" /\ Arm

(* enter_task_queue, for which the handler has a threshold or not.               *)
EnterTaskQueue ==
  /\ at = "between" /\ run < MaxRuns /\ run' = run + 1
  /\ NewGuard \/ (at' = "unwatched" /\ UNCHANGED timer)
  /\ UNCHANGED <<over, signals, frames, reported>>
LeaveUnwatched ==
  /\ at = "unwatched" /\ at' = "between"
  /\ UNCHANGED <<run, over, timer, signals, frames, reported>>

\* Fault seeded in Disarm: the timer goes on.
Disarm_left ==
  /\ at = "watched" /\ at' = "disarmed" /\ UNCHANGED timer
  /\ UNCHANGED <<run, over, signals, frames, reported>>

(* StallDetectorGuard::drop: the timer, with an expiry nobody waited for, is off; *)
(* then the channel is emptied.                                                  *)
Disarm ==
  /\ at = "watched" /\ at' = "disarmed" /\ timer' = "off"
  /\ UNCHANGED <<run, over, signals, frames, reported>>
DropGuard ==
  /\ at = "disarmed" /\ at' = "between" /\ frames' = FALSE
  /\ reported' = IF frames THEN reported \cup {run} ELSE reported
  /\ UNCHANGED <<run, over, timer, signals>>

(* The handler of the signal interrupts the thread wherever it is.               *)
HandleSignal ==
  /\ signal /\ signal' = FALSE /\ frames' = (frames \/ registered)
  /\ UNCHANGED <<at, run, over, timer, trigger, terminated, registered, reported>>

(* StallDetector::drop: unregister, the flag, the timer, join.                   *)
Unregister ==
  /\ at = "between" /\ at' = "closing" /\ registered' = FALSE
  /\ UNCHANGED <<run, over, timer, trigger, terminated, signal, frames, reported>>
Terminate ==
  /\ at = "closing" /\ at' = "terminating" /\ terminated' = "stored"
  /\ UNCHANGED <<run, over, timer, trigger, signal, registered, frames, reported>>
WakeTrigger ==
  /\ at = "terminating" /\ at' = "joining" /\ timer' = "interval"
  /\ UNCHANGED <<run, over, signals, frames, reported>>
Join ==
  /\ at = "joining" /\ trigger = "ended" /\ at' = "gone"
  /\ UNCHANGED <<run, over, timer, signals, frames, reported>>

----------------------------------------------------------------------------------
(* The clock, memory, and the thread of install_trigger.                         *)

Expire ==
  /\ timer = "armed" /\ timer' = "expired"
  /\ over' = IF at = "watched" THEN over \cup {run} ELSE over
  /\ UNCHANGED <<at, run, signals, frames, reported>>

(* A relaxed store becomes visible in time.                                      *)
StoreVisible ==
  /\ terminated = "stored" /\ terminated' = "visible"
  /\ UNCHANGED <<at, run, over, timer, trigger, signal, registered, frames, reported>>

TimerWait ==
  /\ trigger = "waiting" /\ timer \in {"expired", "interval"} /\ trigger' = "woken"
  /\ timer' = IF timer = "interval" THEN timer ELSE "off"
  /\ UNCHANGED <<at, run, over, terminated, signal, registered, frames, reported>>
LoadTerminated ==
  /\ trigger = "woken" /\ trigger' = IF terminated = "visible" THEN "ended" ELSE "killing"
  /\ UNCHANGED <<at, run, over, timer, terminated, signal, registered, frames, reported>>
PthreadKill ==
  /\ trigger = "killing" /\ trigger' = "waiting" /\ signal' = TRUE
  /\ UNCHANGED <<at, run, over, timer, terminated, registered, frames, reported>>

Next ==
  \/ EnterTaskQueue \/ LeaveUnwatched \/ Disarm \/ DropGuard \/ HandleSignal
  \/ Unregister \/ Terminate \/ WakeTrigger \/ Join
  \/ Expire \/ StoreVisible \/ TimerWait \/ LoadTerminated \/ PthreadKill

Spec == Init /\ [][Next]_stallVars

----------------------------------------------------------------------------------
(* A stall is reported for a run that went over its budget, and every such run   *)
(* at most once: there are never more reports than runs that did.  Whoever drops *)
(* the detector is not left waiting for its thread, which has been told or will  *)
(* be woken again, although the flag is stored without order.                    *)
ReportsBacked ==
  /\ Cardinality(reported) <= Cardinality(over)
  /\ at = "joining" => trigger # "waiting" \/ timer \in {"expired", "interval"}
  /\ at = "gone" => trigger = "ended"

(* "Handler called when a task exceeds its budget": the task queue that is       *)
(* reported is one that did.                                                     *)
ReportsOwnStall == reported \subseteq over
==================================================================================
