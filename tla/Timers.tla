---------------------------------- MODULE Timers ----------------------------------
(* timer/timer_impl.rs and the timers of reactor.rs: Timer, TimerActionOnce and  *)
(* TimerActionRepeat over the two maps of the reactor.                           *)
(*                                                                               *)
(* An id names one Timer at a time; TimerActionRepeat uses its id for one Timer  *)
(* after the other, so a Timer that was dropped may be followed by another.      *)
EXTENDS Integers

CONSTANTS Ids,        \* ids given out by register_timer
          Delays,     \* the durations a program asks for
          MaxTime,    \* the clock stops here
          NoTime      \* timers_by_id has no entry

VARIABLES
  now,          \* Instant::now()
  timers,       \* Timers.timers: the keys (when, id) that have a waker
  byId,         \* Timers.timers_by_id
  tmState,      \* of the Timer of an id: "none", "new", "waiting", "done", "cancelled"
  when,         \* Inner.when
  charged,      \* the ids whose Inner.is_charged is set
  tmReady       \* the ids whose task was woken and not polled since

tmVars == <<now, timers, byId, tmState, when, charged, tmReady>>

Init ==
  /\ now = 0 /\ timers = {} /\ byId = [i \in Ids |-> NoTime]
  /\ tmState = [i \in Ids |-> "none"] /\ when = [i \in Ids |-> 0]
  /\ charged = {} /\ tmReady = {}

(* Timers::remove: the key is found through timers_by_id, whose entry is stale   *)
(* when take_ready took the key.                                                 *)
Remove(i) ==
  /\ timers' = timers \ {<<byId[i], i>>}
  /\ byId' = [byId EXCEPT ![i] = NoTime]
Registered(i) == <<byId[i], i>> \in timers

\* Fault seeded in Insert: the previous key of the id stays.
Insert_keepsPrevious(i, w) ==
  /\ timers' = timers \cup {<<w, i>>}
  /\ byId' = [byId EXCEPT ![i] = w]

(* Timers::insert                                                                *)
Insert(i, w) ==
  /\ timers' = (timers \ {<<byId[i], i>>}) \cup {<<w, i>>}
  /\ byId' = [byId EXCEPT ![i] = w]

(* Instant::now() + dur, within the clock that is modelled.                      *)
After(d) == now + d
InTime(d) == After(d) < MaxTime

----------------------------------------------------------------------------------
(* Timer::new, and Timer::from_id for the actions.                               *)
New(i, d) ==
  /\ tmState[i] = "none" /\ InTime(d)
  /\ tmState' = [tmState EXCEPT ![i] = "new"] /\ when' = [when EXCEPT ![i] = After(d)]
  /\ charged' = charged \ {i}
  /\ UNCHANGED <<now, timers, byId, tmReady>>

(* Timer::poll, for the first time, after a wake, or spuriously.                 *)
Poll(i) ==
  /\ tmState[i] \in {"new", "waiting"} /\ tmReady' = tmReady \ {i}
  /\ \/ /\ now >= when[i]
        /\ Remove(i) /\ tmState' = [tmState EXCEPT ![i] = "done"] /\ UNCHANGED charged
     \/ /\ now < when[i]
        /\ Insert(i, when[i]) /\ tmState' = [tmState EXCEPT ![i] = "waiting"]
        /\ charged' = charged \cup {i}
  /\ UNCHANGED <<now, when>>

(* Timer::reset, rearm_in and rearm_at (Inner::reset): a waker that is found     *)
(* moves to the new key; after the timer fired there is none.                    *)
Reset(i, d) ==
  /\ tmState[i] # "none" /\ InTime(d)
  /\ when' = [when EXCEPT ![i] = After(d)]
  /\ \/ i \in charged /\ Registered(i) /\ Insert(i, After(d))
     \/ i \in charged /\ ~Registered(i) /\ Remove(i)
     \/ i \notin charged /\ UNCHANGED <<timers, byId>>
  /\ UNCHANGED <<now, tmState, charged, tmReady>>

(* destroy and cancel of the actions: remove_timer, and the task is cancelled.   *)
Destroy(i) ==
  /\ tmState[i] \in {"new", "waiting", "done"}
  /\ Remove(i) /\ tmState' = [tmState EXCEPT ![i] = "cancelled"]
  /\ tmReady' = tmReady \ {i}
  /\ UNCHANGED <<now, when, charged>>

(* Timer::drop, before or after it fired.                                        *)
DropTimer(i) ==
  /\ tmState[i] # "none" /\ tmState' = [tmState EXCEPT ![i] = "none"]
  /\ IF i \in charged THEN Remove(i) ELSE UNCHANGED <<timers, byId>>
  /\ tmReady' = tmReady \ {i} /\ charged' = charged \ {i}
  /\ UNCHANGED <<now, when>>

(* process_timers: take_ready splits off the keys before (now, 0), and their     *)
(* wakers are called.                                                            *)
Expired == {k \in timers : k[1] < now}
ProcessTimers ==
  /\ Expired # {}
  /\ timers' = timers \ Expired
  /\ tmReady' = tmReady \cup {k[2] : k \in Expired}
  /\ UNCHANGED <<now, byId, tmState, when, charged>>

(* external: the clock.                                                          *)
Tick == now < MaxTime /\ now' = now + 1 /\ UNCHANGED <<timers, byId, tmState, when, charged, tmReady>>

Next ==
  \/ \E i \in Ids :
       \/ \E d \in Delays : New(i, d) \/ Reset(i, d)
       \/ Poll(i) \/ Destroy(i) \/ DropTimer(i)
  \/ ProcessTimers \/ Tick

Spec == Init /\ [][Next]_tmVars

----------------------------------------------------------------------------------
(* Properties.                                                                   *)

(* A timer fires when it should, however it was reset, rearmed, cancelled or     *)
(* used again between its expiry and the next poll: while its task waits, the    *)
(* key of its present deadline is in the reactor or the task was woken; a key in *)
(* the reactor is that of a Timer that waits, and can be found by its id, so     *)
(* that no other deadline of the id is left behind; and no entry outlives the    *)
(* Timer.                                                                        *)
TimerNotLost ==
  /\ \A i \in Ids : tmState[i] = "waiting" => <<when[i], i>> \in timers \/ i \in tmReady
  /\ \A k \in timers : byId[k[2]] = k[1] /\ tmState[k[2]] = "waiting"
  /\ \A i \in Ids : byId[i] # NoTime => tmState[i] = "waiting"
==================================================================================
