------------------------------ MODULE RuntimeProofs ------------------------------
(* Proofs about the parts of the reactor and of io/ that tasks use, each under    *)
(* its own specification.                                                         *)
EXTENDS MCRuntime, WaitListProofs, TLAPS

----------------------------------------------------------------------------------
(* Timers.                                                                        *)

TmTypes ==
  /\ \A k \in timers : k = <<k[1], k[2]>> /\ k[2] \in Ids
  /\ DOMAIN byId = Ids /\ DOMAIN tmState = Ids /\ DOMAIN when = Ids
  /\ byId = [i \in Ids |-> byId[i]] /\ tmState = [i \in Ids |-> tmState[i]]
  /\ when = [i \in Ids |-> when[i]]

(* A Timer whose task waits is charged: otherwise a reset, or its drop, would not *)
(* look for its key.                                                              *)
TmInv == TmTypes /\ Tm!TimerNotLost /\ \A i \in Ids : tmState[i] = "waiting" => i \in charged

LEMMA TimersInit == Tm!Init => TmInv
BY DEF Tm!Init, TmInv, TmTypes, Tm!TimerNotLost

(* The keys of an id are gone once the one its entry leads to is.                 *)
LEMMA OneKey ==
  ASSUME TmInv, NEW i \in Ids, NEW k \in timers
  PROVE  /\ k = <<k[1], k[2]>> /\ k[2] \in Ids /\ byId[k[2]] = k[1]
         /\ tmState[k[2]] = "waiting"
         /\ k # <<byId[i], i>> => k[2] # i
BY DEF TmInv, TmTypes, Tm!TimerNotLost

(* What the invariant says of one id, in the form in which steps use it.          *)
LEMMA TimersFacts ==
  ASSUME TmInv
  PROVE  /\ byId = [i \in Ids |-> byId[i]] /\ tmState = [i \in Ids |-> tmState[i]]
         /\ when = [i \in Ids |-> when[i]]
         /\ \A i \in Ids : tmState[i] = "waiting" =>
              i \in charged /\ (<<when[i], i>> \in timers \/ i \in tmReady)
         /\ \A i \in Ids : byId[i] # None => tmState[i] = "waiting"
BY DEF TmInv, TmTypes, Tm!TimerNotLost

(* The steps of a Timer, of a program that uses timers or of a timer action.      *)
LEMMA TimersNew ==
  ASSUME TmInv, NEW i \in Ids, NEW d, Tm!New(i, d) \/ Ta!T!New(i, d) PROVE TmInv'
BY TimersFacts, OneKey DEF Tm!New, Ta!T!New, TmInv, TmTypes, Tm!TimerNotLost

LEMMA TimersReset ==
  ASSUME TmInv, NEW i \in Ids, NEW d, Tm!Reset(i, d) \/ Ta!T!Reset(i, d) PROVE TmInv'
<1>0. /\ when' = [when EXCEPT ![i] = Tm!After(d)] /\ UNCHANGED <<tmState, charged, tmReady>>
      /\ when'[i] = Tm!After(d) /\ \A j \in Ids \ {i} : when'[j] = when[j]
  BY TimersFacts DEF Tm!Reset, Ta!T!Reset, Tm!After, Ta!T!After
<1>1. CASE Tm!Registered(i) /\ Tm!Insert(i, Tm!After(d))
  <2>1. tmState[i] = "waiting"
    BY <1>1, OneKey DEF Tm!Registered
  <2>2. \A k \in timers' : k = <<Tm!After(d), i>> \/ (k \in timers /\ k[2] # i)
    BY <1>1, OneKey DEF Tm!Insert
  <2>3. byId'[i] = Tm!After(d) /\ \A j \in Ids \ {i} : byId'[j] = byId[j]
    BY <1>1, TimersFacts DEF Tm!Insert
  <2>4. /\ <<when'[i], i>> \in timers'
        /\ \A j \in Ids \ {i} : \A w : <<w, j>> \in timers => <<w, j>> \in timers'
    BY <1>0, <1>1 DEF Tm!Insert
  <2>5. TmTypes'
    <3>1. byId' = [byId EXCEPT ![i] = Tm!After(d)]
      BY <1>1 DEF Tm!Insert
    <3>2. \A k \in timers' : k = <<k[1], k[2]>> /\ k[2] \in Ids
      BY <2>2, OneKey
    <3>. QED
      BY <1>0, <3>1, <3>2, TimersFacts DEF TmInv, TmTypes
  <2>6. \A k \in timers' : byId'[k[2]] = k[1] /\ tmState'[k[2]] = "waiting"
    BY <1>0, <2>1, <2>2, <2>3, OneKey
  <2>7. \A j \in Ids : /\ tmState'[j] = "waiting" => <<when'[j], j>> \in timers' \/ j \in tmReady'
                       /\ byId'[j] # None => tmState'[j] = "waiting"
    BY <1>0, <2>1, <2>3, <2>4, TimersFacts
  <2>. QED
    BY <1>0, <2>5, <2>6, <2>7, TimersFacts DEF TmInv, Tm!TimerNotLost
<1>2. CASE ~Tm!Registered(i) /\ Tm!Remove(i)
  <2>1. tmState[i] = "waiting" => i \in tmReady
    BY <1>2, TimersFacts, OneKey DEF Tm!Registered
  <2>2. \A k \in timers' : k \in timers /\ k[2] # i
    BY <1>2, OneKey DEF Tm!Remove
  <2>3. /\ byId' = [byId EXCEPT ![i] = None] /\ byId'[i] = None
        /\ \A j \in Ids \ {i} : byId'[j] = byId[j]
    BY <1>2, TimersFacts DEF Tm!Remove
  <2>4. TmTypes'
    BY <1>0, <2>2, <2>3, TimersFacts, OneKey DEF TmInv, TmTypes
  <2>5. \A k \in timers' : byId'[k[2]] = k[1] /\ tmState'[k[2]] = "waiting"
    BY <1>0, <2>2, <2>3, OneKey
  <2>6. \A j \in Ids \ {i} : \A w : <<w, j>> \in timers => <<w, j>> \in timers'
    BY <1>2 DEF Tm!Remove
  <2>7. \A j \in Ids : /\ tmState'[j] = "waiting" => <<when'[j], j>> \in timers' \/ j \in tmReady'
                       /\ byId'[j] # None => tmState'[j] = "waiting"
    BY <1>0, <2>1, <2>3, <2>6, TimersFacts
  <2>. QED
    BY <1>0, <2>4, <2>5, <2>7, TimersFacts DEF TmInv, Tm!TimerNotLost
<1>3. CASE i \notin charged /\ UNCHANGED <<timers, byId>>
  BY <1>0, <1>3, TimersFacts, OneKey DEF TmInv, TmTypes, Tm!TimerNotLost
<1>. QED
  BY <1>1, <1>2, <1>3
     DEF Tm!Reset, Tm!Registered, Tm!Insert, Tm!Remove, Tm!After,
         Ta!T!Reset, Ta!T!Registered, Ta!T!Insert, Ta!T!Remove, Ta!T!After

LEMMA TimersPoll ==
  ASSUME TmInv, NEW i \in Ids, Tm!Poll(i) \/ Ta!T!Poll(i) PROVE TmInv'
<1>1. Tm!Poll(i)
  BY DEF Tm!Poll, Ta!T!Poll, Tm!Insert, Ta!T!Insert, Tm!Remove, Ta!T!Remove
<1>. QED
  BY <1>1, TimersFacts, OneKey DEF Tm!Poll, Tm!Insert, Tm!Remove, TmInv, TmTypes, Tm!TimerNotLost

LEMMA TimersDestroy ==
  ASSUME TmInv, NEW i \in Ids, Tm!Destroy(i) \/ Ta!T!Destroy(i) PROVE TmInv'
BY TimersFacts, OneKey
   DEF Tm!Destroy, Tm!Remove, Ta!T!Destroy, Ta!T!Remove, TmInv, TmTypes, Tm!TimerNotLost

LEMMA TimersDrop ==
  ASSUME TmInv, NEW i \in Ids, Tm!DropTimer(i) \/ Ta!T!DropTimer(i) PROVE TmInv'
BY TimersFacts, OneKey
   DEF Tm!DropTimer, Tm!Remove, Ta!T!DropTimer, Ta!T!Remove, TmInv, TmTypes, Tm!TimerNotLost

LEMMA TimersProcess ==
  ASSUME TmInv, Tm!ProcessTimers \/ Ta!T!ProcessTimers PROVE TmInv'
BY TimersFacts, OneKey
   DEF Tm!ProcessTimers, Tm!Expired, Ta!T!ProcessTimers, Ta!T!Expired, TmInv, TmTypes,
       Tm!TimerNotLost

LEMMA TimersStep == TmInv /\ [Tm!Next]_(Tm!tmVars) => TmInv'
<1>. SUFFICES ASSUME TmInv, [Tm!Next]_(Tm!tmVars) PROVE TmInv'
  OBVIOUS
<1>1. CASE Tm!Tick
  BY <1>1 DEF Tm!Tick, TmInv, TmTypes, Tm!TimerNotLost
<1>2. CASE UNCHANGED Tm!tmVars
  BY <1>2 DEF Tm!tmVars, TmInv, TmTypes, Tm!TimerNotLost
<1>. QED
  BY <1>1, <1>2, TimersNew, TimersReset, TimersPoll, TimersDestroy, TimersDrop, TimersProcess
     DEF Tm!Next

(* However timers are polled, reset, cancelled, dropped and used again around     *)
(* their expiry, one whose task waits has the key of its present deadline in the  *)
(* reactor or has woken the task, and nothing of a Timer outlives it.             *)
THEOREM NoTimerLost == Tm!Spec => []Tm!TimerNotLost /\ []TimerNotLost
<1>1. TmInv => Tm!TimerNotLost /\ TimerNotLost
  BY DEF TmInv, TimerNotLost
<1>. QED
  BY <1>1, TimersInit, TimersStep, PTL DEF Tm!Spec

----------------------------------------------------------------------------------
(* TimerActions.                                                                  *)

TaTypes ==
  /\ now \in Int /\ when \in [Ids -> Int] /\ asked \in [Ids -> Int]
  /\ taStage \in [Ids -> {"none", "sleeping", "acting", "ended"}]
  /\ tmState \in [Ids -> {"none", "new", "waiting", "done", "cancelled"}]

(* A task has a Timer exactly while it sleeps, set to the time asked for; if it is *)
(* over, the task is being polled, and if it is cancelled, so is the task.         *)
TaTimer ==
  \A i \in Ids :
    /\ taStage[i] = "sleeping" <=> tmState[i] # "none"
    /\ taStage[i] = "sleeping" => when[i] = asked[i]
    /\ tmState[i] = "cancelled" => i \in taClosed
    /\ tmState[i] = "done" => polled = i /\ when[i] <= now

(* Who sleeps and is not scheduled has its key with the reactor; who is cancelled  *)
(* is polled or scheduled.                                                         *)
TaTold ==
  \A i \in Ids :
    /\ taStage[i] = "sleeping" /\ polled # i =>
         i \in taScheduled \/ (i \notin taClosed /\ <<when[i], i>> \in timers)
    /\ i \in taClosed /\ taStage[i] # "ended" => i \in taScheduled \/ polled = i

TaInv == TmInv /\ TaTypes /\ TaTimer /\ TaTold /\ ~early

LEMMA ActionsInit == Ta!Init => TaInv
<1>. SUFFICES ASSUME Ta!Init PROVE TaInv
  OBVIOUS
<1>1. Tm!Init
  BY DEF Ta!Init, Ta!T!Init, Tm!Init
<1>2. TaTypes /\ TaTimer /\ TaTold /\ ~early
  BY DEF Ta!Init, Ta!T!Init, TaTypes, TaTimer, TaTold
<1>. QED
  BY <1>1, <1>2, TimersInit DEF TaInv


LEMMA SpawnSteps ==
  ASSUME TaInv, NEW i \in Ids, NEW d \in Nat,
         Ta!DoInInto(i, d) \/ Ta!RepeatAgain(i, d)
  PROVE  TaInv'
<1>1. /\ Ta!T!New(i, d) /\ Ta!Ask(i, d) /\ Ta!At(i, "sleeping")
      /\ taScheduled \subseteq taScheduled' /\ UNCHANGED <<taClosed, polled, early>>
      /\ i \in taScheduled' \/ polled = i
  BY DEF Ta!DoInInto, Ta!Spawned, Ta!RepeatAgain
<1>2. TmInv'
  BY <1>1, TimersNew DEF TaInv
<1>. QED
  BY <1>1, <1>2 DEF TaInv, TaTypes, TaTimer, TaTold, Ta!T!New, Ta!T!After, Ta!Ask, Ta!At

LEMMA RearmSteps ==
  ASSUME TaInv, NEW i \in Ids, NEW d \in Nat, Ta!RearmIn(i, d) PROVE TaInv'
<1>0. Ta!Free /\ UNCHANGED <<taKind, taStage, taScheduled, taClosed, polled, early>>
  BY DEF Ta!RearmIn, Ta!Held, Ta!tasks
<1>1. CASE tmState[i] = "none" /\ Ta!RemoveId(i) /\ UNCHANGED asked
  <2>1. byId[i] = None /\ \A k \in timers : k[2] # i
    BY <1>1, OneKey, TimersFacts DEF TaInv
  <2>2. UNCHANGED <<now, timers, byId, tmState, when, charged, tmReady>>
    BY <1>1, <2>1, TimersFacts DEF TaInv, Ta!RemoveId, Ta!T!Remove
  <2>. QED
    BY <1>0, <1>1, <2>2 DEF TaInv, TmInv, TmTypes, Tm!TimerNotLost, TaTypes, TaTimer, TaTold
<1>2. CASE Ta!T!Reset(i, d) /\ Ta!Ask(i, d)
  <2>1. TmInv'
    BY <1>2, TimersReset DEF TaInv
  <2>2. /\ when' = [when EXCEPT ![i] = now + d] /\ asked' = [asked EXCEPT ![i] = now + d]
        /\ UNCHANGED <<now, tmState>>
    BY <1>2 DEF Ta!T!Reset, Ta!Ask, Ta!T!After
  <2>3. TaTypes'
    BY <1>0, <2>2 DEF TaInv, TaTypes
  <2>4. polled = i => tmState[i] = "none"
    BY <1>0 DEF Ta!Free, TaInv, TaTimer
  <2>5. TaTimer'
    BY <1>0, <2>2, <2>4 DEF TaInv, TaTypes, TaTimer
  <2>6. \A j \in Ids \ {i} : \A w : <<w, j>> \in timers => <<w, j>> \in timers'
    BY <1>2 DEF Ta!T!Reset, Ta!T!Insert, Ta!T!Remove
  <2>7. <<when[i], i>> \in timers => <<when'[i], i>> \in timers'
    <3>1. <<when[i], i>> \in timers => byId[i] = when[i] /\ i \in charged
      BY OneKey, TimersFacts DEF TaInv
    <3>. QED
      BY <1>2, <2>2, <3>1 DEF TaInv, TaTypes, Ta!T!Reset, Ta!T!Insert, Ta!T!Registered, Ta!T!After
  <2>8. TaTold'
    BY <1>0, <2>2, <2>6, <2>7 DEF TaInv, TaTypes, TaTold
  <2>. QED
    BY <1>0, <2>1, <2>3, <2>5, <2>8 DEF TaInv
<1>. QED
  BY <1>1, <1>2 DEF Ta!RearmIn

(* cancel and destroy.                                                            *)
LEMMA CancelSteps ==
  ASSUME TaInv, NEW i \in Ids, Ta!Destroy(i) \/ Ta!Cancel(i) PROVE TaInv'
<1>0. /\ Ta!Free /\ Ta!RemoveTimer(i) /\ Ta!CancelTask(i)
      /\ UNCHANGED <<taStage, polled, asked, early>>
  BY DEF Ta!Destroy, Ta!Cancel, Ta!Held
<1>1. /\ taStage[i] # "ended" => i \in taClosed' /\ (polled = i \/ i \in taScheduled')
      /\ taStage[i] = "ended" => UNCHANGED <<taClosed, taScheduled>>
      /\ taClosed \subseteq taClosed' /\ taClosed' \subseteq taClosed \cup {i}
      /\ taScheduled \subseteq taScheduled'
  BY <1>0 DEF Ta!CancelTask, TaInv, TaTold
<1>2. polled = i => tmState[i] = "none"
  BY <1>0 DEF Ta!Free, TaInv, TaTimer
<1>3. CASE tmState[i] \in {"none", "cancelled"} /\ Ta!RemoveId(i)
  <2>1. byId[i] = None /\ \A k \in timers : k[2] # i
    BY <1>3, OneKey, TimersFacts DEF TaInv
  <2>2. UNCHANGED <<now, timers, byId, tmState, when, charged, tmReady>>
    BY <1>3, <2>1, TimersFacts DEF TaInv, Ta!RemoveId, Ta!T!Remove
  <2>3. TmInv' /\ TaTypes'
    BY <1>0, <2>2 DEF TaInv, TmInv, TmTypes, Tm!TimerNotLost, TaTypes
  <2>4. TaTimer' /\ TaTold'
    BY <1>0, <1>1, <2>2 DEF TaInv, TaTimer, TaTold
  <2>. QED
    BY <1>0, <2>3, <2>4 DEF TaInv
<1>4. CASE tmState[i] \notin {"none", "cancelled"} /\ Ta!T!Destroy(i)
  <2>1. TmInv'
    BY <1>4, TimersDestroy DEF TaInv
  <2>2. /\ tmState' = [tmState EXCEPT ![i] = "cancelled"] /\ UNCHANGED <<now, when>>
        /\ \A j \in Ids \ {i} : \A w : <<w, j>> \in timers => <<w, j>> \in timers'
    BY <1>4 DEF Ta!T!Destroy, Ta!T!Remove
  <2>3. taStage[i] = "sleeping" /\ polled # i
    BY <1>2, <1>4 DEF TaInv, TaTimer
  <2>4. TaTypes'
    BY <1>0, <2>2 DEF TaInv, TaTypes
  <2>5. TaTimer'
    BY <1>0, <1>1, <2>2, <2>3 DEF TaInv, TaTypes, TaTimer
  <2>6. TaTold'
    BY <1>0, <1>1, <2>2, <2>3 DEF TaInv, TaTypes, TaTold
  <2>. QED
    BY <1>0, <2>1, <2>4, <2>5, <2>6 DEF TaInv
<1>. QED
  BY <1>0, <1>3, <1>4 DEF Ta!RemoveTimer

(* Polls of the Timer, and its drop, by the task that has it.                     *)
LEMMA SleepSteps ==
  ASSUME TaInv, NEW i \in Ids,
         Ta!SleepPending(i) \/ Ta!SleepOver(i)
  PROVE  TaInv'
<1>0. /\ polled = i /\ taStage[i] = "sleeping" /\ Ta!T!Poll(i)
      /\ UNCHANGED <<taStage, taScheduled, taClosed, asked, early>>
      /\ \/ polled' = i
         \/ polled' = None /\ i \notin taClosed /\ tmState'[i] = "waiting"
  BY DEF Ta!SleepPending, Ta!SleepOver, Ta!tasks
<1>1. TmInv'
  BY <1>0, TimersPoll DEF TaInv
<1>2. /\ UNCHANGED <<now, when>>
      /\ \/ tmState' = [tmState EXCEPT ![i] = "done"] /\ now >= when[i]
         \/ tmState' = [tmState EXCEPT ![i] = "waiting"] /\ <<when[i], i>> \in timers'
      /\ \A j \in Ids \ {i} : \A w : <<w, j>> \in timers => <<w, j>> \in timers'
  BY <1>0 DEF Ta!T!Poll, Ta!T!Insert, Ta!T!Remove
<1>3. tmState'[i] = "done" => polled' = i
  BY <1>0
<1>4. TaTypes'
  BY <1>0, <1>2 DEF TaInv, TaTypes
<1>5. TaTimer'
  BY <1>0, <1>2, <1>3, ActionAssumption DEF TaInv, TaTypes, TaTimer
<1>6. TaTold'
  BY <1>0, <1>2, ActionAssumption DEF TaInv, TaTypes, TaTold
<1>. QED
  BY <1>0, <1>1, <1>4, <1>5, <1>6 DEF TaInv

(* The end of the Timer: with the task, or when the action starts.                *)
LEMMA TimerEnds ==
  ASSUME TaInv, NEW i \in Ids,
         Ta!SleepCancelled(i) \/ Ta!ActionStarts(i) \/ (Ta!DropTask(i) /\ tmState[i] # "none")
  PROVE  TaInv'
<1>0. /\ Ta!T!DropTimer(i) /\ UNCHANGED <<taClosed, asked>>
      /\ \/ Ta!At(i, "ended") /\ taScheduled' = taScheduled \ {i} /\ polled' = None
         \/ Ta!At(i, "acting") /\ UNCHANGED taScheduled /\ polled' = i
      /\ polled \in {None, i}
  BY DEF Ta!SleepCancelled, Ta!ActionStarts, Ta!DropTask
<1>1. ~early'
  <2>1. CASE UNCHANGED early
    BY <2>1 DEF TaInv
  <2>2. CASE Ta!ActionStarts(i)
    <3>1. ~(now < asked[i])
      BY <2>2 DEF Ta!ActionStarts, TaInv, TaTypes, TaTimer
    <3>. QED
      BY <2>2, <3>1, Zenon DEF Ta!ActionStarts, TaInv
  <2>. QED
    BY <2>1, <2>2 DEF Ta!SleepCancelled, Ta!DropTask
<1>2. TmInv'
  BY <1>0, TimersDrop DEF TaInv
<1>3. /\ tmState' = [tmState EXCEPT ![i] = "none"] /\ UNCHANGED <<now, when>>
      /\ \A j \in Ids \ {i} : \A w : <<w, j>> \in timers => <<w, j>> \in timers'
  BY <1>0 DEF Ta!T!DropTimer, Ta!T!Remove
<1>4. TaTypes'
  BY <1>0, <1>3 DEF TaInv, TaTypes, Ta!At
<1>5. TaTimer'
  BY <1>0, <1>3, ActionAssumption DEF TaInv, TaTypes, TaTimer, Ta!At
<1>6. TaTold'
  BY <1>0, <1>3, ActionAssumption DEF TaInv, TaTypes, TaTold, Ta!At
<1>. QED
  BY <1>1, <1>2, <1>4, <1>5, <1>6 DEF TaInv

(* Steps that leave the timers alone.                                             *)
LEMMA AloneSteps ==
  ASSUME TaInv, NEW i \in Ids,
         \/ Ta!RepeatInto(i) \/ Ta!QueueNotFound(i) \/ Ta!Run(i)
         \/ Ta!DropTask(i) /\ tmState[i] = "none"
         \/ Ta!ActionPending(i) \/ Ta!ActionReady(i) \/ Ta!WakeAction(i)
         \/ Ta!Join(i) \/ Ta!JoinReady(i) \/ Ta!DropHandle(i)
  PROVE  TaInv'
<1>0. /\ UNCHANGED <<now, timers, byId, tmState, when, charged, tmReady, asked, early>>
      /\ \/ UNCHANGED taStage
         \/ taStage[i] # "sleeping" /\ Ta!At(i, "acting")
         \/ taStage[i] # "sleeping" /\ Ta!At(i, "ended")
  BY DEF Ta!RepeatInto, Ta!QueueNotFound, Ta!Run, Ta!DropTask, Ta!ActionPending, Ta!ActionReady,
         Ta!WakeAction, Ta!Join, Ta!JoinReady, Ta!DropHandle, Ta!Spawned, Ta!At, Ta!timerVars,
         Ta!tasks, TaInv, TaTimer
<1>1. TmInv' /\ TaTypes' /\ ~early'
  BY <1>0 DEF TaInv, TmInv, TmTypes, Tm!TimerNotLost, TaTypes, Ta!At
<1>2. TaTimer'
  <2>1. UNCHANGED taClosed
    BY DEF Ta!RepeatInto, Ta!QueueNotFound, Ta!Run, Ta!DropTask, Ta!ActionPending, Ta!ActionReady,
           Ta!WakeAction, Ta!Join, Ta!JoinReady, Ta!DropHandle, Ta!Spawned, Ta!tasks
  <2>2. polled' = polled \/ \A j \in Ids : tmState[j] # "done"
    BY ActionAssumption
       DEF Ta!RepeatInto, Ta!QueueNotFound, Ta!Run, Ta!DropTask, Ta!ActionPending, Ta!ActionReady,
           Ta!WakeAction, Ta!Join, Ta!JoinReady, Ta!DropHandle, Ta!Spawned, Ta!tasks, TaInv, TaTimer
  <2>. QED
    BY <1>0, <2>1, <2>2 DEF TaInv, TaTypes, TaTimer, Ta!At
<1>3. TaTold'
  <2>1. CASE Ta!Run(i) \/ Ta!ActionPending(i) \/ Ta!ActionReady(i) \/ Ta!DropTask(i)
    BY <1>0, <2>1, ActionAssumption
       DEF Ta!Run, Ta!ActionPending, Ta!ActionReady, Ta!DropTask, TaInv, TaTypes, TaTimer, TaTold, Ta!At
  <2>2. CASE Ta!RepeatInto(i) \/ Ta!QueueNotFound(i) \/ Ta!WakeAction(i)
    BY <1>0, <2>2
       DEF Ta!RepeatInto, Ta!Spawned, Ta!QueueNotFound, Ta!WakeAction, TaInv, TaTypes, TaTold, Ta!At
  <2>3. CASE Ta!Join(i) \/ Ta!JoinReady(i) \/ Ta!DropHandle(i)
    BY <1>0, <2>3 DEF Ta!Join, Ta!JoinReady, Ta!DropHandle, Ta!tasks, TaInv, TaTold
  <2>. QED
    BY <2>1, <2>2, <2>3
<1>. QED
  BY <1>1, <1>2, <1>3 DEF TaInv

(* The reactor wakes whoever it takes the key of; the clock only goes on.         *)
LEMMA ReactorSteps ==
  ASSUME TaInv, Ta!ProcessTimers \/ Ta!Tick PROVE TaInv'
<1>1. CASE Ta!ProcessTimers
  <2>1. TmInv'
    BY <1>1, TimersProcess DEF TaInv, Ta!ProcessTimers
  <2>2. /\ timers' = timers \ Ta!T!Expired
        /\ taScheduled' = taScheduled \cup ({k[2] : k \in Ta!T!Expired} \ taClosed)
        /\ UNCHANGED <<now, tmState, when, taStage, taClosed, polled, asked, early>>
    BY <1>1 DEF Ta!ProcessTimers, Ta!T!ProcessTimers
  <2>3. TaTypes' /\ TaTimer' /\ ~early'
    BY <2>2 DEF TaInv, TaTypes, TaTimer
  <2>4. ASSUME NEW i \in Ids, <<when[i], i>> \in timers, i \notin taClosed
        PROVE  <<when[i], i>> \in timers' \/ i \in taScheduled'
    <3>1. CASE <<when[i], i>> \in Ta!T!Expired
      <4>1. <<when[i], i>>[2] \in {k[2] : k \in Ta!T!Expired}
        BY <3>1
      <4>. QED
        BY <2>2, <2>4, <4>1
    <3>. QED
      BY <2>2, <2>4, <3>1
  <2>5. TaTold'
    BY <2>2, <2>4 DEF TaInv, TaTold
  <2>. QED
    BY <2>1, <2>3, <2>5 DEF TaInv
<1>2. CASE Ta!Tick
  <2>1. /\ now' = now + 1 /\ UNCHANGED <<timers, byId, tmState, when, charged, tmReady>>
        /\ UNCHANGED <<taStage, taScheduled, taClosed, polled, asked, early>>
    BY <1>2 DEF Ta!Tick, Ta!T!Tick, Ta!tasks
  <2>. QED
    BY <2>1 DEF TaInv, TmInv, TmTypes, Tm!TimerNotLost, TaTypes, TaTimer, TaTold
<1>. QED
  BY <1>1, <1>2

LEMMA ActionsStep == TaInv /\ [Ta!Next]_(Ta!actionVars) => TaInv'
<1>. SUFFICES ASSUME TaInv, [Ta!Next]_(Ta!actionVars) PROVE TaInv'
  OBVIOUS
<1>0. ASSUME NEW w \in 0 .. ActionTime - 1 PROVE Ta!Until(w) \in Nat
  BY <1>0, ActionAssumption DEF Ta!Until, TaInv, TaTypes
<1>1. ASSUME NEW i \in Ids, NEW d \in ActionDelays,
             Ta!DoIn(i, d) \/ Ta!DoInInto(i, d) \/ Ta!RepeatAgain(i, d) \/ Ta!RearmIn(i, d)
      PROVE  TaInv'
  BY <1>1, SpawnSteps, RearmSteps, ActionAssumption DEF Ta!DoIn
<1>2. ASSUME NEW i \in Ids, NEW w \in 0 .. ActionTime - 1,
             Ta!DoAt(i, w) \/ Ta!DoAtInto(i, w) \/ Ta!RearmAt(i, w)
      PROVE  TaInv'
  BY <1>0, <1>2, SpawnSteps, RearmSteps DEF Ta!DoAt, Ta!DoAtInto, Ta!RearmAt
<1>3. ASSUME NEW i \in Ids,
             \/ Ta!Repeat(i) \/ Ta!RepeatInto(i) \/ Ta!QueueNotFound(i) \/ Ta!Run(i)
             \/ Ta!DropTask(i) \/ Ta!ActionPending(i) \/ Ta!ActionReady(i) \/ Ta!WakeAction(i)
             \/ Ta!Join(i) \/ Ta!JoinReady(i) \/ Ta!DropHandle(i)
      PROVE  TaInv'
  BY <1>3, AloneSteps, TimerEnds DEF Ta!Repeat
<1>4. ASSUME NEW i \in Ids,
             \/ Ta!SleepPending(i) \/ Ta!SleepCancelled(i) \/ Ta!SleepOver(i) \/ Ta!ActionStarts(i)
      PROVE  TaInv'
  BY <1>4, SleepSteps, TimerEnds
<1>5. ASSUME NEW i \in Ids,
             \/ Ta!CancelOnce(i) \/ Ta!CancelRepeat(i) \/ Ta!DestroyOnce(i) \/ Ta!DestroyRepeat(i)
      PROVE  TaInv'
  BY <1>5, CancelSteps DEF Ta!CancelOnce, Ta!CancelRepeat, Ta!DestroyOnce, Ta!DestroyRepeat
<1>6. CASE UNCHANGED Ta!actionVars
  BY <1>6 DEF Ta!actionVars, Ta!timerVars, Ta!tasks, TaInv, TmInv, TmTypes, Tm!TimerNotLost, TaTypes,
              TaTimer, TaTold
<1>. QED
  BY <1>1, <1>2, <1>3, <1>4, <1>5, <1>6, ReactorSteps DEF Ta!Next

(* However actions are made, rearmed, cancelled, destroyed, detached and awaited, *)
(* by whoever has the handle or by the action itself, an action starts no earlier *)
(* than the program last asked for; while it sleeps its task is scheduled or the  *)
(* reactor has its key, at that time; a cancelled task comes to its end, and one  *)
(* that has ended leaves no key.  The timers under it are not lost either.        *)
THEOREM ActionsAreKept ==
  Ta!Spec => /\ []Ta!ActionsKept /\ []TimerNotLost
             /\ [](subject = "TimerActions" => ReactorServes)
<1>1. ASSUME TaInv PROVE Ta!ActionsKept /\ Tm!TimerNotLost
  <2>1. ASSUME NEW i \in Ids, tmState[i] = "none"
        PROVE  byId[i] = None /\ \A k \in timers : k[2] # i
    BY <1>1, <2>1, OneKey, TimersFacts DEF TaInv
  <2>. QED
    BY <1>1, <2>1 DEF TaInv, TmInv, TaTimer, TaTold, Ta!ActionsKept
<1>2. TaInv => Ta!ActionsKept /\ TimerNotLost /\ (subject = "TimerActions" => ReactorServes)
  BY <1>1 DEF TimerNotLost, ReactorServes
<1>. QED
  BY <1>2, ActionsInit, ActionsStep, PTL DEF Ta!Spec

----------------------------------------------------------------------------------
(* StreamReader.                                                                  *)

(* A result is no larger than the buffer it is for.                               *)
SrTypes ==
  /\ srPos \in Nat /\ srUnread \in Nat /\ srFrom \in Nat
  /\ ioSource \in [state : {"none", "pending", "done", "failed"}, from : Nat, size : Nat]
  /\ srPanicked \in BOOLEAN

SrInv == SrTypes /\ Sr!ReadsAtPosition

LEMMA ReaderStep == SrInv /\ [Sr!Next]_(Sr!srVars) => SrInv'
<1>. SUFFICES ASSUME SrInv, [Sr!Next]_(Sr!srVars) PROVE SrInv'
  OBVIOUS
<1>. USE ReaderAssumption DEF SrInv, SrTypes, Sr!ReadsAtPosition
<1>1. CASE ~srPanicked /\ Sr!PollFillBuf
  <2>. DEFINE reached == srPos + ioSource.size
              newPos == IF reached < EndPos THEN reached ELSE EndPos
  <2>0. /\ ioSource.from \in Nat /\ ioSource.size \in Nat /\ srUnread = 0
        /\ ioSource.state # "none" => ioSource.from = srPos
    BY <1>1 DEF Sr!PollFillBuf
  <2>1. CASE ioSource' = [state |-> "pending", from |-> srPos, size |-> 0]
             /\ UNCHANGED <<srPos, srUnread, srFrom, srPanicked>>
    BY <2>0, <2>1
  <2>2. CASE ioSource' = Sr!NoSource /\ UNCHANGED <<srPos, srUnread, srFrom, srPanicked>>
    BY <2>0, <2>2 DEF Sr!NoSource
  <2>3. CASE /\ ioSource' = Sr!NoSource /\ newPos < srPos /\ srPanicked' = TRUE
             /\ UNCHANGED <<srPos, srUnread, srFrom>>
    <3>1. srPos > EndPos
      BY <2>0, <2>3
    <3>. QED
      BY <2>0, <2>3, <3>1 DEF Sr!NoSource
  <2>4. CASE /\ ioSource.state = "done" /\ ioSource' = Sr!NoSource /\ ~(newPos < srPos)
             /\ srPos' = newPos /\ srUnread' = newPos - srPos
             /\ srFrom' = ioSource.from /\ UNCHANGED srPanicked
    <3>1. newPos \in Nat /\ newPos <= EndPos /\ newPos - srPos \in Nat
      BY <2>0, <2>4
    <3>. HIDE DEF newPos
    <3>. QED
      BY <1>1, <2>0, <2>4, <3>1 DEF Sr!NoSource
  <2>. QED
    BY <1>1, <2>1, <2>2, <2>3, <2>4 DEF Sr!PollFillBuf
<1>2. ASSUME NEW n \in 1 .. BufferUnits, ~srPanicked, Sr!Consume(n) PROVE SrInv'
  BY <1>2 DEF Sr!Consume
<1>3. ASSUME NEW p \in SeekTargets, ~srPanicked, Sr!Seek(p) PROVE SrInv'
  BY <1>3 DEF Sr!Seek, Sr!Sought, Sr!NoSource
<1>4. ASSUME NEW b \in 0 .. FileUnits, ~srPanicked, Sr!SeekEnd(b) PROVE SrInv'
  BY <1>4 DEF Sr!SeekEnd, Sr!Sought, Sr!NoSource
<1>5. CASE ~srPanicked /\ Sr!ReadCompletes
  <2>1. /\ UNCHANGED <<srPos, srUnread, srFrom, srPanicked>> /\ ioSource.state # "none"
        /\ ioSource'.state \in {"done", "failed"} /\ ioSource'.from = ioSource.from
        /\ ioSource' \in [state : {"none", "pending", "done", "failed"}, from : Nat, size : Nat]
    <3>0. /\ UNCHANGED <<srPos, srUnread, srFrom, srPanicked>> /\ ioSource.state = "pending"
          /\ ioSource \in [state : {"none", "pending", "done", "failed"}, from : Nat, size : Nat]
      BY <1>5 DEF Sr!ReadCompletes
    <3>1. CASE \E n \in 0 .. BufferUnits :
                 ioSource' = [ioSource EXCEPT !.state = "done", !.size = n]
      <4>1. PICK n \in 0 .. BufferUnits :
                 ioSource' = [ioSource EXCEPT !.state = "done", !.size = n]
        BY <3>1
      <4>2. n \in Nat
        OBVIOUS
      <4>. QED
        BY <3>0, <4>1, <4>2
    <3>2. CASE ioSource' = [ioSource EXCEPT !.state = "failed"]
      BY <3>0, <3>2
    <3>. QED
      BY <1>5, <3>0, <3>1, <3>2 DEF Sr!ReadCompletes
  <2>. QED
    BY <2>1
<1>6. CASE ~srPanicked /\ Sr!StatCompletes
  BY <1>6 DEF Sr!StatCompletes
<1>7. CASE UNCHANGED Sr!srVars
  BY <1>7 DEF Sr!srVars
<1>. QED
  BY <1>1, <1>2, <1>3, <1>4, <1>5, <1>6, <1>7 DEF Sr!Next

(* For every file, buffer and end position, and every order of reads, seeks and   *)
(* reads dropped half-way, what a StreamReader hands out is what is at its        *)
(* position, up to the end position.                                              *)
THEOREM ReaderReadsAtPosition == Sr!Spec => []Sr!ReadsAtPosition /\ []ReadsAtPosition
<1>1. ASSUME Sr!Init PROVE SrInv
  <2>1. /\ ioSource \in [state : {"none", "pending", "done", "failed"}, from : Nat, size : Nat]
        /\ ioSource.state = "none"
    BY <1>1 DEF Sr!Init, Sr!NoSource
  <2>2. srPos = 0 /\ srUnread = 0 /\ srFrom = 0 /\ srPanicked = FALSE
    BY <1>1 DEF Sr!Init
  <2>3. SrTypes
    BY <2>1, <2>2 DEF SrTypes
  <2>4. Sr!ReadsAtPosition
    BY <2>1, <2>2 DEF Sr!ReadsAtPosition
  <2>. QED
    BY <2>3, <2>4 DEF SrInv
<1>2. SrInv => Sr!ReadsAtPosition /\ ReadsAtPosition
  BY DEF SrInv, ReadsAtPosition
<1>. QED
  BY <1>1, <1>2, ReaderStep, PTL DEF Sr!Spec

----------------------------------------------------------------------------------
(* BlockingPool.                                                                  *)

CallStates == {"none", "enqueueing", "waiting", "woken", "dropped", "panicked"}

(* A thread that took a call keeps it until it has sent the answer; one that      *)
(* panicked keeps it for ever.                                                    *)
HasCall(w) == bpPc[w] \in {"send", "panicked"}
Jobs == {job[w] : w \in {x \in Workers : HasCall(x)}}
UnderWay == Members(requests) \cup Members(responses) \cup Jobs

BpTypes ==
  /\ bpCall \in [Calls -> CallStates]
  /\ requests \in Seq(Calls) /\ responses \in Seq(Calls)
  /\ bpPc \in [Workers -> {"recv", "send", "notify", "ended", "panicked"}]
  /\ job = [w \in Workers |-> job[w]]
  /\ shouldNotify \in BOOLEAN /\ bpEventfd \in BOOLEAN

(* A call is under way in one place: in a channel once, or with one thread.       *)
OnePlace ==
  /\ Distinct(requests) /\ Distinct(responses) /\ Members(requests) \cap Members(responses) = {}
  /\ \A w \in Workers : HasCall(w) =>
       /\ job[w] \in Calls /\ job[w] \notin Members(requests) \cup Members(responses)
       /\ \A x \in Workers : HasCall(x) /\ job[x] = job[w] => x = w

(* What is under way, and what is not yet, has its source in the map.             *)
Mapped ==
  /\ UnderWay \subseteq bpSources
  /\ \A c \in Calls : /\ bpCall[c] = "waiting" => c \in UnderWay
                      /\ bpCall[c] = "enqueueing" => c \in bpSources \ UnderWay

(* A reactor that has told that it will sleep is told of an answer: the flag is   *)
(* still set and the thread with the answer will look at it, or the eventfd is.   *)
Told ==
  /\ bpReactor \in {"prepared", "asleep"} => shouldNotify \/ bpEventfd
  /\ bpReactor = "asleep" /\ responses # <<>> =>
       bpEventfd \/ \E w \in Workers : bpPc[w] = "notify"

(* As long as there is a pool a thread goes down only with its closure, and a     *)
(* call fails to be enqueued only when every thread has.                          *)
Down ==
  /\ \A w \in Workers : bpPc[w] = "panicked" => job[w] \in Closures
  /\ bpReactor # "gone" =>
       /\ \A w \in Workers : bpPc[w] # "ended"
       /\ \A c \in Calls : bpCall[c] = "panicked" => \A w \in Workers : bpPc[w] = "panicked"

BpInv == BpTypes /\ (bpReactor # "gone" => OnePlace /\ Mapped) /\ Told /\ Down

(* The steps that leave the channels and the threads as they are.                 *)
LEMMA CallsMove ==
  ASSUME BpInv, bpReactor = "run", UNCHANGED <<requests, responses, bpPc, job, bpReactor>>,
         UNCHANGED <<shouldNotify, bpEventfd>>,
         bpCall' \in [Calls -> CallStates],
         bpSources \subseteq bpSources',
         \A c \in Calls : /\ bpCall'[c] = "waiting" => bpCall[c] = "waiting"
                          /\ bpCall'[c] = "enqueueing" => c \in bpSources' \ UnderWay
                          /\ bpCall'[c] = "panicked" =>
                               bpCall[c] = "panicked" \/ \A w \in Workers : bpPc[w] = "panicked"
  PROVE  BpInv'
<1>1. UnderWay' = UnderWay
  BY DEF UnderWay, Jobs, HasCall
<1>2. BpTypes' /\ OnePlace' /\ Told'
  BY DEF BpInv, BpTypes, OnePlace, Told, HasCall
<1>4. Down'
  BY DEF BpInv, Down
<1>3. Mapped'
  <2>1. UnderWay \subseteq bpSources /\ \A c \in Calls : bpCall[c] = "waiting" => c \in UnderWay
    BY DEF BpInv, Mapped
  <2>2. \A c \in Calls : /\ bpCall'[c] = "waiting" => c \in UnderWay'
                         /\ bpCall'[c] = "enqueueing" => c \in bpSources' \ UnderWay'
    BY <1>1, <2>1
  <2>3. UnderWay' \subseteq bpSources'
    BY <1>1, <2>1
  <2>. QED
    BY <2>2, <2>3, Zenon DEF Mapped
<1>. QED
  BY <1>2, <1>3, <1>4 DEF BpInv

LEMMA EnqueueKeeps ==
  ASSUME BpInv, NEW c \in Calls, Bp!Enqueue(c)
  PROVE  BpInv'
<1>0. /\ BpTypes /\ OnePlace /\ Mapped /\ Told /\ Down /\ bpReactor = "run" /\ bpCall[c] = "enqueueing"
      /\ requests' = Append(requests, c) /\ bpCall' = [bpCall EXCEPT ![c] = "waiting"]
      /\ UNCHANGED <<bpSources, responses, bpPc, job, bpReactor, shouldNotify, bpEventfd>>
  BY DEF BpInv, Bp!Enqueue, Bp!Set, Bp!threads, Bp!notifier
<1>1. c \in bpSources /\ c \notin UnderWay
  BY <1>0 DEF Mapped
<1>2. /\ requests' \in Seq(Calls) /\ Members(requests') = Members(requests) \cup {c}
      /\ Distinct(requests')
  BY <1>0, <1>1, AppendFacts DEF BpTypes, OnePlace, UnderWay
<1>3. UnderWay' = UnderWay \cup {c}
  BY <1>0, <1>2 DEF UnderWay, Jobs, HasCall
<1>4. BpTypes'
  BY <1>0, <1>2 DEF BpTypes, CallStates
<1>5. OnePlace'
  BY <1>0, <1>1, <1>2 DEF OnePlace, UnderWay, Jobs, HasCall
<1>6. Mapped'
  BY <1>0, <1>1, <1>3 DEF Mapped, BpTypes
<1>7. Told'
  BY <1>0 DEF Told
<1>8. Down'
  BY <1>0 DEF Down, BpTypes
<1>. QED
  BY <1>4, <1>5, <1>6, <1>7, <1>8 DEF BpInv

LEMMA RecvKeeps ==
  ASSUME BpInv, NEW w \in Workers, Bp!Recv(w)
  PROVE  BpInv'
<1>0. /\ BpTypes /\ (bpReactor # "gone" => OnePlace /\ Mapped) /\ Told /\ Down /\ bpPc[w] = "recv"
      /\ UNCHANGED <<bpCall, bpSources, responses, bpReactor, shouldNotify, bpEventfd>>
  BY DEF BpInv, Bp!Recv, Bp!notifier
<1>1. CASE /\ requests # <<>> /\ requests' = Tail(requests)
           /\ job' = [job EXCEPT ![w] = Head(requests)] /\ bpPc' = [bpPc EXCEPT ![w] = "send"]
  <2>1. requests' \in Seq(Calls) /\ Head(requests) \in Calls
    BY <1>0, <1>1 DEF BpTypes
  <2>2. BpTypes'
    BY <1>0, <1>1, <2>1 DEF BpTypes
  <2>3. Told'
    BY <1>0, <1>1 DEF Told, BpTypes
  <2>4. ASSUME bpReactor # "gone" PROVE OnePlace' /\ Mapped'
    <3>1. /\ Head(requests) \in Members(requests) /\ Distinct(requests')
          /\ Members(requests') = Members(requests) \ {Head(requests)}
      BY <1>0, <1>1, <2>4, TailFacts DEF BpTypes, OnePlace
    <3>2. OnePlace /\ Mapped
      BY <1>0, <2>4
    <3>3. \A x \in Workers : /\ bpPc'[x] = (IF x = w THEN "send" ELSE bpPc[x])
                             /\ job'[x] = (IF x = w THEN Head(requests) ELSE job[x])
      BY <1>0, <1>1 DEF BpTypes
    <3>4. Jobs' = Jobs \cup {Head(requests)}
      BY <1>0, <3>3 DEF Jobs, HasCall
    <3>5. UnderWay' = UnderWay
      BY <1>0, <3>1, <3>4 DEF UnderWay
    <3>6. Mapped'
      BY <1>0, <3>2, <3>5 DEF Mapped
    <3>7. Distinct(requests') /\ Distinct(responses') /\ Members(requests') \cap Members(responses') = {}
      BY <1>0, <3>1, <3>2 DEF OnePlace
    <3>8. ASSUME NEW x \in Workers, HasCall(x)'
          PROVE  /\ job'[x] \in Calls /\ job'[x] \notin Members(requests') \cup Members(responses')
                 /\ \A y \in Workers : HasCall(y)' /\ job'[y] = job'[x] => y = x
      BY <1>0, <2>1, <3>1, <3>2, <3>3, <3>8 DEF OnePlace, HasCall
    <3>. QED
      BY <3>6, <3>7, <3>8 DEF OnePlace
  <2>5. Down'
    BY <1>0, <1>1 DEF Down, BpTypes
  <2>. QED
    BY <1>0, <2>2, <2>3, <2>4, <2>5 DEF BpInv
<1>2. CASE bpReactor = "gone" /\ bpPc' = [bpPc EXCEPT ![w] = "ended"] /\ UNCHANGED <<requests, job>>
  BY <1>0, <1>2 DEF BpInv, BpTypes, Told, Down
<1>. QED
  BY <1>1, <1>2 DEF Bp!Recv

LEMMA SendKeeps ==
  ASSUME BpInv, NEW w \in Workers, Bp!Send(w)
  PROVE  BpInv'
<1>0. /\ BpTypes /\ (bpReactor # "gone" => OnePlace /\ Mapped) /\ Told /\ Down /\ bpPc[w] = "send"
      /\ UNCHANGED <<bpCall, bpSources, requests, bpReactor, shouldNotify, bpEventfd>>
  BY DEF BpInv, Bp!Send, Bp!notifier
<1>1. CASE /\ bpReactor # "gone" /\ responses' = Append(responses, job[w])
           /\ bpPc' = [bpPc EXCEPT ![w] = "notify"] /\ UNCHANGED job
  <2>0. OnePlace /\ Mapped /\ job[w] \in Calls /\ job[w] \notin Members(requests) \cup Members(responses)
    BY <1>0, <1>1 DEF OnePlace, HasCall
  <2>1. /\ responses' \in Seq(Calls) /\ Members(responses') = Members(responses) \cup {job[w]}
        /\ Distinct(responses')
    BY <1>0, <1>1, <2>0, AppendFacts DEF BpTypes, OnePlace
  <2>2. \A x \in Workers : bpPc'[x] = (IF x = w THEN "notify" ELSE bpPc[x])
    BY <1>0, <1>1 DEF BpTypes
  <2>3. BpTypes'
    BY <1>0, <1>1, <2>1 DEF BpTypes
  <2>4. Jobs' = Jobs \ {job[w]} /\ job[w] \in Jobs
    BY <1>0, <1>1, <2>0, <2>2 DEF Jobs, OnePlace, HasCall
  <2>5. UnderWay' = UnderWay
    BY <1>0, <2>1, <2>4 DEF UnderWay
  <2>6. Mapped'
    BY <1>0, <2>0, <2>5 DEF Mapped
  <2>7. OnePlace'
    BY <1>0, <1>1, <2>0, <2>1, <2>2 DEF OnePlace, HasCall
  <2>8. Told'
    BY <1>0, <1>1, <2>2 DEF Told
  <2>9. Down'
    BY <1>0, <1>1, <2>2 DEF Down
  <2>. QED
    BY <2>3, <2>6, <2>7, <2>8, <2>9 DEF BpInv
<1>2. CASE /\ bpReactor = "gone" /\ bpPc' = [bpPc EXCEPT ![w] = "ended"]
           /\ job' = [job EXCEPT ![w] = None] /\ UNCHANGED responses
  BY <1>0, <1>2 DEF BpInv, BpTypes, Told, Down
<1>. QED
  BY <1>1, <1>2 DEF Bp!Send

LEMMA PanicKeeps ==
  ASSUME BpInv, NEW w \in Workers, Bp!ClosurePanics(w)
  PROVE  BpInv'
<1>0. /\ BpTypes /\ (bpReactor # "gone" => OnePlace /\ Mapped) /\ Told /\ Down
      /\ bpPc[w] = "send" /\ job[w] \in Closures /\ bpPc' = [bpPc EXCEPT ![w] = "panicked"]
      /\ UNCHANGED <<bpCall, bpSources, requests, responses, job, bpReactor, shouldNotify, bpEventfd>>
  BY DEF BpInv, Bp!ClosurePanics, Bp!notifier
<1>1. \A x \in Workers : bpPc'[x] = (IF x = w THEN "panicked" ELSE bpPc[x])
  BY <1>0 DEF BpTypes
<1>2. \A x \in Workers : HasCall(x)' <=> HasCall(x)
  BY <1>0, <1>1 DEF HasCall
<1>3. UnderWay' = UnderWay
  <2>1. {x \in Workers : HasCall(x)'} = {x \in Workers : HasCall(x)}
    BY <1>2
  <2>. QED
    BY <1>0, <2>1 DEF UnderWay, Jobs
<1>4. BpTypes'
  BY <1>0 DEF BpTypes
<1>5. bpReactor # "gone" => OnePlace' /\ Mapped'
  BY <1>0, <1>2, <1>3 DEF OnePlace, Mapped
<1>6. Told'
  BY <1>0, <1>1 DEF Told
<1>7. Down'
  BY <1>0, <1>1 DEF Down
<1>. QED
  BY <1>0, <1>4, <1>5, <1>6, <1>7 DEF BpInv

LEMMA NotifyKeeps ==
  ASSUME BpInv, NEW w \in Workers, Bp!Notify(w)
  PROVE  BpInv'
<1>0. /\ BpTypes /\ (bpReactor # "gone" => OnePlace /\ Mapped) /\ Told /\ Down /\ bpPc[w] = "notify"
      /\ bpPc' = [bpPc EXCEPT ![w] = "recv"] /\ job' = [job EXCEPT ![w] = None]
      /\ shouldNotify' = FALSE
      /\ bpEventfd' = (bpEventfd \/ shouldNotify \/ job[w] \in Urgent)
      /\ UNCHANGED <<bpCall, bpSources, requests, responses, bpReactor>>
  BY DEF BpInv, Bp!Notify
<1>1. bpEventfd' \in BOOLEAN
  BY <1>0, Zenon
<1>2. BpTypes'
  BY <1>0, <1>1 DEF BpTypes
<1>3. \A x \in Workers : /\ HasCall(x)' => HasCall(x)
                         /\ HasCall(x) => HasCall(x)' /\ job'[x] = job[x] /\ bpPc'[x] = bpPc[x]
  BY <1>0 DEF BpTypes, HasCall
<1>4. UnderWay' = UnderWay
  <2>1. {x \in Workers : HasCall(x)'} = {x \in Workers : HasCall(x)}
    BY <1>3
  <2>2. Jobs' = Jobs
    BY <1>3, <2>1 DEF Jobs
  <2>. QED
    BY <1>0, <2>2 DEF UnderWay
<1>5. bpReactor # "gone" => OnePlace' /\ Mapped'
  BY <1>0, <1>3, <1>4 DEF OnePlace, Mapped
<1>6. bpReactor \in {"prepared", "asleep"} => bpEventfd' = TRUE
  BY <1>0 DEF Told, BpTypes
<1>7. Told'
  BY <1>0, <1>6 DEF Told
<1>8. Down'
  BY <1>0 DEF Down, BpTypes
<1>. QED
  BY <1>0, <1>2, <1>5, <1>7, <1>8 DEF BpInv

LEMMA FlushKeeps ==
  ASSUME BpInv, bpReactor # "gone", Bp!Flush, bpReactor' = "run",
         UNCHANGED <<requests, bpPc, job, shouldNotify, bpEventfd>>
  PROVE  BpInv'
<1>0. /\ BpTypes /\ OnePlace /\ Mapped /\ Down /\ responses' = <<>>
      /\ bpSources' = bpSources \ Bp!ToSet(responses)
      /\ bpCall' = [c \in Calls |->
                      IF c \notin Bp!ToSet(responses) THEN bpCall[c]
                      ELSE IF bpCall[c] = "waiting" THEN "woken" ELSE "none"]
  BY DEF BpInv, Bp!Flush
<1>1. Bp!ToSet(responses) = Members(responses)
  BY <1>0, SMTT(60) DEF Bp!ToSet, Members, BpTypes
<1>2. Members(<<>>) = {} /\ Distinct(<<>>) /\ <<>> \in Seq(Calls)
  BY DEF Members, Distinct
<1>3. BpTypes'
  BY <1>0, <1>2 DEF BpTypes, CallStates
<1>4. Jobs' = Jobs /\ Jobs \cap Members(responses) = {}
  BY <1>0 DEF Jobs, OnePlace, HasCall
<1>5. UnderWay' = UnderWay \ Members(responses)
  BY <1>0, <1>2, <1>4 DEF UnderWay, OnePlace
<1>6. OnePlace'
  BY <1>0, <1>2 DEF OnePlace, HasCall
<1>7. Mapped'
  BY <1>0, <1>1, <1>5 DEF Mapped, BpTypes
<1>8. Told'
  BY DEF Told
<1>9. Down'
  BY <1>0 DEF Down
<1>. QED
  BY <1>3, <1>6, <1>7, <1>8, <1>9 DEF BpInv

LEMMA PoolStep == BpInv /\ [Bp!Next]_(Bp!bpVars) => BpInv'
<1>. SUFFICES ASSUME BpInv, [Bp!Next]_(Bp!bpVars) PROVE BpInv'
  OBVIOUS
<1>1. ASSUME NEW c \in Calls, Bp!Push(c) PROVE BpInv'
  <2>1. c \notin UnderWay
    BY <1>1 DEF Bp!Push, BpInv, Mapped
  <2>. QED
    BY <1>1, <2>1, CallsMove
       DEF Bp!Push, Bp!Set, Bp!threads, Bp!notifier, BpInv, BpTypes, CallStates, Mapped
<1>2. ASSUME NEW c \in Calls, Bp!Enqueue(c) PROVE BpInv'
  BY <1>2, EnqueueKeeps
<1>3. ASSUME NEW c \in Calls, Bp!Collect(c) \/ Bp!DropCall(c) PROVE BpInv'
  BY <1>3, CallsMove DEF Bp!Collect, Bp!DropCall, Bp!Set, Bp!threads, Bp!notifier,
                         BpInv, BpTypes, CallStates, Mapped
<1>12. ASSUME NEW c \in Calls, Bp!EnqueueFails(c) PROVE BpInv'
  <2>1. \A w \in Workers : bpPc[w] = "panicked"
    BY <1>12 DEF Bp!EnqueueFails, Bp!AllDown, BpInv, Down
  <2>. QED
    BY <1>12, <2>1, CallsMove DEF Bp!EnqueueFails, Bp!Set, Bp!threads, Bp!notifier,
                                  BpInv, BpTypes, CallStates, Mapped
<1>13. ASSUME NEW w \in Workers, Bp!ClosurePanics(w) PROVE BpInv'
  BY <1>13, PanicKeeps
<1>4. ASSUME NEW w \in Workers, Bp!Recv(w) PROVE BpInv'
  BY <1>4, RecvKeeps
<1>5. ASSUME NEW w \in Workers, Bp!Send(w) PROVE BpInv'
  BY <1>5, SendKeeps
<1>6. ASSUME NEW w \in Workers, Bp!Notify(w) PROVE BpInv'
  BY <1>6, NotifyKeeps
<1>7. CASE Bp!FlushSyscallThread
  BY <1>7, FlushKeeps DEF Bp!FlushSyscallThread, Bp!threads, Bp!notifier
<1>8. CASE Bp!Wait \/ Bp!PrepareToSleep \/ Bp!WakeUp \/ (Bp!Sleep /\ responses = <<>>)
  <2>1. /\ UNCHANGED <<bpCall, bpSources, requests, responses, bpPc, job>>
        /\ bpReactor # "gone" /\ bpReactor' # "gone"
    BY <1>8 DEF Bp!Wait, Bp!PrepareToSleep, Bp!WakeUp, Bp!Sleep, Bp!threads
  <2>2. shouldNotify' \in BOOLEAN /\ bpEventfd' \in BOOLEAN
    BY <1>8 DEF Bp!Wait, Bp!PrepareToSleep, Bp!WakeUp, Bp!Sleep, Bp!notifier, BpInv, BpTypes
  <2>3. Told'
    BY <1>8 DEF Bp!Wait, Bp!PrepareToSleep, Bp!WakeUp, Bp!Sleep, Bp!notifier, BpInv, Told
  <2>4. UnderWay' = UnderWay
    BY <2>1 DEF UnderWay, Jobs, HasCall
  <2>. QED
    BY <2>1, <2>2, <2>3, <2>4 DEF BpInv, BpTypes, OnePlace, Mapped, Down, HasCall
<1>9. CASE Bp!Sleep /\ responses # <<>>
  BY <1>9, FlushKeeps DEF Bp!Sleep, Bp!threads, Bp!notifier
<1>10. CASE Bp!DropPool
  BY <1>10 DEF Bp!DropPool, Bp!threads, Bp!notifier, BpInv, BpTypes, CallStates, Told, Down
<1>11. CASE UNCHANGED Bp!bpVars
  BY <1>11 DEF Bp!bpVars, BpInv, BpTypes, OnePlace, Mapped, UnderWay, Jobs, HasCall, Told, Down
<1>. QED
  BY <1>1, <1>2, <1>3, <1>4, <1>5, <1>6, <1>7, <1>8, <1>9, <1>10, <1>11, <1>12, <1>13
     DEF Bp!Next

(* Where a call is, counted.                                                      *)
LEMMA ChannelCounts ==
  ASSUME NEW ws \in Seq(Calls), Distinct(ws), NEW c
  PROVE  Cardinality({k \in DOMAIN ws : ws[k] = c}) = IF c \in Members(ws) THEN 1 ELSE 0
<1>1. {k \in DOMAIN ws : ws[k] = c} = {i \in 1 .. Len(ws) : ws[i] \in {c}}
  OBVIOUS
<1>2. Members(ws) \cap {c} = IF c \in Members(ws) THEN {c} ELSE {}
  OBVIOUS
<1>3. Cardinality({c}) = 1 /\ Cardinality({}) = 0
  BY FS_Singleton, FS_EmptySet
<1>4. Cardinality({i \in 1 .. Len(ws) : ws[i] \in {c}}) = Cardinality(Members(ws) \cap {c})
  BY PositionsCount
<1>. QED
  BY <1>1, <1>2, <1>3, <1>4

LEMMA PlacesCounted ==
  ASSUME BpTypes, OnePlace, NEW c \in Calls
  PROVE  /\ Bp!Places(c) = IF c \in UnderWay /\ ~Bp!Panicked(c) THEN 1 ELSE 0
         /\ Bp!Panicked(c) => c \in UnderWay
<1>. DEFINE W == {w \in Workers : job[w] = c /\ bpPc[w] = "send"}
<1>1. Cardinality({k \in DOMAIN requests : requests[k] = c}) = IF c \in Members(requests) THEN 1 ELSE 0
  BY ChannelCounts DEF BpTypes, OnePlace
<1>2. Cardinality({k \in DOMAIN responses : responses[k] = c}) = IF c \in Members(responses) THEN 1 ELSE 0
  BY ChannelCounts DEF BpTypes, OnePlace
<1>0. Bp!Panicked(c) => c \in Jobs
  BY DEF Bp!Panicked, Jobs, HasCall
<1>3. Cardinality(W) = IF c \in Jobs /\ ~Bp!Panicked(c) THEN 1 ELSE 0
  <2>1. CASE c \in Jobs /\ ~Bp!Panicked(c)
    <3>1. PICK w \in Workers : HasCall(w) /\ job[w] = c
      BY <2>1 DEF Jobs
    <3>2. bpPc[w] = "send"
      BY <2>1, <3>1 DEF HasCall, Bp!Panicked
    <3>3. W = {w}
      BY <3>1, <3>2 DEF OnePlace, HasCall
    <3>. QED
      BY <2>1, <3>3, FS_Singleton
  <2>2. CASE ~(c \in Jobs /\ ~Bp!Panicked(c))
    <3>1. W = {}
      BY <2>2 DEF Jobs, HasCall, OnePlace, Bp!Panicked
    <3>. QED
      BY <2>2, <3>1, FS_EmptySet
  <2>. QED
    BY <2>1, <2>2
<1>4. /\ c \in Members(requests) => c \notin Members(responses) \cup Jobs
      /\ c \in Members(responses) => c \notin Jobs
  BY DEF OnePlace, Jobs, HasCall
<1>5. Bp!Places(c) = Cardinality({k \in DOMAIN requests : requests[k] = c})
                      + Cardinality({k \in DOMAIN responses : responses[k] = c}) + Cardinality(W)
  BY Zenon DEF Bp!Places, Bp!Cardinality, Cardinality
<1>. HIDE DEF W
<1>. QED
  BY <1>0, <1>1, <1>2, <1>3, <1>4, <1>5 DEF UnderWay

(* For any number of calls and threads and any depth of the channels, a call that *)
(* a task waits for is in one place on its way or is a closure that panicked, no  *)
(* call wants a thread until closures have panicked on all of them, flush finds   *)
(* the source of an answer, and a reactor that sleeps over an answer has been     *)
(* told or is about to be.                                                        *)
THEOREM AnswersReachTasks == Bp!Spec => []Bp!AnswerReachesTask /\ []AnswerReachesTask
<1>1. ASSUME Bp!Init PROVE BpInv
  <2>1. Members(<<>>) = {} /\ Distinct(<<>>) /\ <<>> \in Seq(Calls)
    BY DEF Members, Distinct
  <2>2. BpTypes
    BY <1>1, <2>1 DEF Bp!Init, BpTypes, CallStates
  <2>3. OnePlace /\ Mapped
    BY <1>1, <2>1 DEF Bp!Init, OnePlace, Mapped, UnderWay, Jobs, HasCall
  <2>4. Told /\ Down
    BY <1>1 DEF Bp!Init, Told, Down
  <2>. QED
    BY <2>2, <2>3, <2>4 DEF BpInv
<1>2. ASSUME BpInv PROVE Bp!AnswerReachesTask /\ AnswerReachesTask
  <2>1. ASSUME bpReactor # "gone", NEW c \in Calls
        PROVE  /\ bpCall[c] = "waiting" => Bp!Places(c) = 1 \/ Bp!Panicked(c)
               /\ Bp!Panicked(c) => c \in Closures /\ Bp!Places(c) = 0
               /\ Bp!Places(c) <= 1 /\ (Bp!Places(c) = 1 => c \in bpSources)
               /\ bpCall[c] = "panicked" => Bp!AllDown
    <3>1. BpTypes /\ OnePlace /\ Mapped /\ Down
      BY <1>2, <2>1 DEF BpInv
    <3>2. /\ Bp!Places(c) = IF c \in UnderWay /\ ~Bp!Panicked(c) THEN 1 ELSE 0
          /\ bpCall[c] = "waiting" => c \in UnderWay
          /\ c \in UnderWay => c \in bpSources
      BY <3>1, PlacesCounted DEF Mapped
    <3>3. Bp!Panicked(c) => c \in Closures
      BY <3>1 DEF Bp!Panicked, Down
    <3>4. bpCall[c] = "panicked" => Bp!AllDown
      BY <2>1, <3>1 DEF Down, Bp!AllDown
    <3>. QED
      BY <3>2, <3>3, <3>4
  <2>3. bpReactor # "gone" /\ Bp!AllDown => \A w \in Workers : bpPc[w] = "panicked"
    BY <1>2 DEF BpInv, Down, Bp!AllDown
  <2>2. bpReactor = "asleep" /\ responses # <<>> =>
          bpEventfd \/ \E w \in Workers : bpPc[w] = "notify" /\ (shouldNotify \/ job[w] \in Urgent)
    BY <1>2 DEF BpInv, Told
  <2>. QED
    BY <2>1, <2>2, <2>3 DEF AnswerReachesTask, Bp!AnswerReachesTask
<1>. QED
  BY <1>1, <1>2, PoolStep, PTL DEF Bp!Spec

----------------------------------------------------------------------------------
(* FileLock.                                                                      *)

Still == {t \in Threads : at[t] = "stillLocked"}
Lockers == {t \in Threads : at[t] \in {"shared", "exclusive", "commit", "abort"}}
Enders == {t \in Threads : at[t] \in {"funlock", "taking", "unlocked"}}

FlTypes ==
  /\ lockState \in {"Unlocked", "Locking", "Locked"} /\ lockFiles \in SUBSET Threads
  /\ guards \in [Threads -> Nat]
  /\ at \in [Threads -> {"idle", "shared", "exclusive", "commit", "abort", "funlock",
                         "unlocked", "taking", "stillLocked"}]

(* The state names who is at work: one thread that locks, with a file; or guards; *)
(* or one thread that unlocks with the last of them.                              *)
OneAtWork ==
  /\ lockState = "Locking" <=> Lockers # {}
  /\ \A t, x \in Lockers : t = x
  /\ \A t, x \in Enders : t = x
  /\ Enders # {} => Fl!Strong = 0
  /\ lockState # "Locked" => Fl!Strong = 0 /\ Enders = {}
  /\ Lockers \subseteq lockFiles

(* The kernel agrees.                                                             *)
KernelAgrees ==
  /\ Fl!Strong > 0 \/ Fl!TookLast # {} => ours \in {"shared", "exclusive"}
  /\ \A t \in Threads : at[t] = "commit" => ours \in {"shared", "exclusive"}

FlInv == FlTypes /\ OneAtWork /\ KernelAgrees

(* The count of Arcs, as a sum of two sizes.                                      *)
LEMMA StrongIs ==
  /\ Fl!Strong = Cardinality(Pairs(Threads, guards)) + Cardinality(Still)
  /\ Fl!Strong' = Cardinality(Pairs(Threads, guards')) + Cardinality(Still')
BY Zenon DEF Fl!Strong, Fl!Cardinality, Cardinality, Pairs, Still

LEMMA GuardsMove ==
  ASSUME NEW g \in [Threads -> Nat], NEW t \in Threads, NEW n \in Int, g[t] + n \in Nat
  PROVE  /\ [g EXCEPT ![t] = g[t] + n] \in [Threads -> Nat]
         /\ Cardinality(Pairs(Threads, g)) \in Nat
         /\ Cardinality(Pairs(Threads, [g EXCEPT ![t] = g[t] + n])) = Cardinality(Pairs(Threads, g)) + n
<1>. DEFINE h == [g EXCEPT ![t] = g[t] + n]
            R == Threads \ {t}
<1>0. IsFiniteSet(Threads) /\ Threads \in SUBSET Threads /\ R \in SUBSET Threads
  BY LockAssumption
<1>1. h \in [Threads -> Nat] /\ h[t] = g[t] + n
  OBVIOUS
<1>2. Pairs(R, h) = Pairs(R, g)
  BY <1>0, PairsSame
<1>. HIDE DEF h
<1>3. Cardinality(Pairs(Threads, g)) = Cardinality(Pairs(R, g)) + g[t]
  BY <1>0, PairsRemove
<1>4. Cardinality(Pairs(Threads, h)) = Cardinality(Pairs(R, h)) + h[t]
  BY <1>0, <1>1, PairsRemove
<1>5. Cardinality(Pairs(R, g)) \in Nat /\ Cardinality(Pairs(Threads, g)) \in Nat
  BY <1>0, PairsFinite
<1>6. Cardinality(Pairs(Threads, h)) = Cardinality(Pairs(Threads, g)) + n
  BY <1>1, <1>2, <1>3, <1>4, <1>5
<1>. QED
  BY <1>1, <1>5, <1>6 DEF h

(* A thread goes on to l, with n guards more.                                     *)
LEMMA StrongMoves ==
  ASSUME FlTypes, NEW t \in Threads, NEW l, NEW n \in Int, guards[t] + n \in Nat,
         guards' = [guards EXCEPT ![t] = guards[t] + n], at' = [at EXCEPT ![t] = l]
  PROVE  /\ guards' \in [Threads -> Nat] /\ Fl!Strong \in Nat /\ Fl!Strong' \in Nat
         /\ Fl!Strong' = Fl!Strong + n + (IF l = "stillLocked" THEN 1 ELSE 0)
                                       - (IF at[t] = "stillLocked" THEN 1 ELSE 0)
         /\ \A x \in Threads : at'[x] = IF x = t THEN l ELSE at[x]
<1>1. /\ guards' \in [Threads -> Nat] /\ Cardinality(Pairs(Threads, guards)) \in Nat
      /\ Cardinality(Pairs(Threads, guards')) = Cardinality(Pairs(Threads, guards)) + n
  BY GuardsMove DEF FlTypes
<1>2. \A x \in Threads : at'[x] = IF x = t THEN l ELSE at[x]
  BY DEF FlTypes
<1>3. IsFiniteSet(Still) /\ Cardinality(Still) \in Nat
  BY LockAssumption, FS_Subset, FS_CardinalityType DEF Still
<1>4. Still' = IF l = "stillLocked" THEN Still \cup {t} ELSE Still \ {t}
  BY <1>2 DEF Still
<1>5. t \in Still <=> at[t] = "stillLocked"
  BY DEF Still
<1>6. /\ Cardinality(Still \cup {t}) = Cardinality(Still) + (IF t \in Still THEN 0 ELSE 1)
      /\ Cardinality(Still \ {t}) = Cardinality(Still) - (IF t \in Still THEN 1 ELSE 0)
  <2>. DEFINE S == Still
  <2>. HIDE DEF S
  <2>1. IsFiniteSet(S)
    BY <1>3 DEF S
  <2>2. t \in S => S \cup {t} = S
    OBVIOUS
  <2>3. t \notin S => Cardinality(S \cup {t}) = Cardinality(S) + 1
    BY <2>1, CountAdd
  <2>4. t \in S => Cardinality(S \ {t}) = Cardinality(S) - 1
    BY <2>1, CountRemove
  <2>5. t \notin S => S \ {t} = S
    OBVIOUS
  <2>6. Cardinality(S) \in Nat
    BY <1>3 DEF S
  <2>7. /\ Cardinality(S \cup {t}) = Cardinality(S) + (IF t \in S THEN 0 ELSE 1)
        /\ Cardinality(S \ {t}) = Cardinality(S) - (IF t \in S THEN 1 ELSE 0)
    <3>1. t \in S => Cardinality(S \cup {t}) = Cardinality(S)
      BY <2>2
    <3>2. t \notin S => Cardinality(S \ {t}) = Cardinality(S)
      BY <2>5
    <3>. DEFINE a == Cardinality(S)
                b == Cardinality(S \cup {t})
                c == Cardinality(S \ {t})
    <3>. HIDE DEF a, b, c
    <3>3. /\ b = a + (IF t \in S THEN 0 ELSE 1)
          /\ c = a - (IF t \in S THEN 1 ELSE 0)
      BY <2>3, <2>4, <2>6, <3>1, <3>2 DEF a, b, c
    <3>. QED
      BY <3>3 DEF a, b, c
  <2>. QED
    BY <2>7 DEF S
<1>7. Cardinality(Still') \in Nat
  BY <1>3, <1>4, FS_AddElement, FS_RemoveElement, FS_CardinalityType
<1>8. Cardinality(Still') = Cardinality(Still) + (IF l = "stillLocked" THEN 1 ELSE 0)
                                              - (IF at[t] = "stillLocked" THEN 1 ELSE 0)
  BY <1>3, <1>4, <1>5, <1>6
<1>9. Cardinality(Pairs(Threads, guards')) \in Nat
  BY <1>1, LockAssumption, PairsFinite
<1>. DEFINE a == Cardinality(Pairs(Threads, guards))
            b == Cardinality(Still)
            c == Cardinality(Pairs(Threads, guards'))
            d == Cardinality(Still')
<1>10. Fl!Strong = a + b /\ Fl!Strong' = c + d
  BY StrongIs
<1>. HIDE DEF a, b, c, d
<1>. QED
  BY <1>1, <1>2, <1>3, <1>7, <1>8, <1>9, <1>10 DEF a, b, c, d

LEMMA StrongNat ==
  ASSUME FlTypes
  PROVE  Fl!Strong \in Nat
<1>1. Cardinality(Pairs(Threads, guards)) \in Nat
  BY LockAssumption, PairsFinite DEF FlTypes
<1>2. Cardinality(Still) \in Nat
  BY LockAssumption, FS_Subset, FS_CardinalityType DEF Still
<1>. QED
  BY <1>1, <1>2, StrongIs

LEMMA StrongPositive ==
  ASSUME FlTypes, NEW t \in Threads, guards[t] > 0
  PROVE  Fl!Strong > 0
<1>1. Cardinality(Still) \in Nat
  BY LockAssumption, FS_Subset, FS_CardinalityType DEF Still
<1>2. Cardinality(Pairs(Threads, guards)) = Cardinality(Pairs(Threads \ {t}, guards)) + guards[t]
  BY LockAssumption, PairsRemove DEF FlTypes
<1>3. Cardinality(Pairs(Threads \ {t}, guards)) \in Nat /\ guards[t] \in Nat
  BY LockAssumption, PairsFinite DEF FlTypes
<1>. QED
  BY <1>1, <1>2, <1>3, StrongIs

(* A thread takes the last Arc with it, to unlock or to look whether the file can *)
(* be taken too; or one of several Arcs goes.                                     *)
LEMMA GuardLeaves ==
  ASSUME FlInv, NEW t \in Threads, NEW l, at[t] = "idle", guards[t] > 0,
         guards' = [guards EXCEPT ![t] = @ + -1], at' = [at EXCEPT ![t] = l],
         \/ l \in {"funlock", "taking"} /\ Fl!Strong = 1
         \/ l \in {"idle", "stillLocked"} /\ Fl!Strong # 1,
         UNCHANGED <<lockState, ours, lockFiles>>
  PROVE  FlInv'
<1>0. /\ FlTypes /\ OneAtWork /\ KernelAgrees /\ guards[t] + -1 \in Nat
      /\ guards' = [guards EXCEPT ![t] = guards[t] + -1] /\ -1 \in Int
  BY DEF FlInv, FlTypes
<1>1. /\ guards' \in [Threads -> Nat] /\ Fl!Strong \in Nat /\ Fl!Strong' \in Nat
      /\ Fl!Strong' = Fl!Strong + -1 + (IF l = "stillLocked" THEN 1 ELSE 0)
                                     - (IF at[t] = "stillLocked" THEN 1 ELSE 0)
      /\ \A x \in Threads : at'[x] = IF x = t THEN l ELSE at[x]
  BY <1>0, StrongMoves
<1>2. Fl!Strong > 0
  BY <1>0, StrongPositive
<1>3. lockState = "Locked" /\ Enders = {} /\ ours \in {"shared", "exclusive"}
  BY <1>0, <1>1, <1>2 DEF OneAtWork, KernelAgrees
<1>4. Lockers = {} /\ Lockers' = {}
  <2>1. Lockers = {}
    BY <1>0, <1>3 DEF OneAtWork
  <2>. QED
    BY <1>1, <2>1 DEF Lockers
<1>5. Enders' \subseteq {t} /\ (Enders' # {} => Fl!Strong' = 0)
  BY <1>1, <1>3 DEF Enders
<1>6. FlTypes'
  BY <1>0, <1>1 DEF FlTypes
<1>7. OneAtWork'
  BY <1>3, <1>4, <1>5 DEF OneAtWork
<1>8. KernelAgrees'
  BY <1>3 DEF KernelAgrees
<1>. QED
  BY <1>6, <1>7, <1>8 DEF FlInv

(* One guard more, from a thread that is alone at work or next to others.         *)
LEMMA GuardComes ==
  ASSUME FlTypes, NEW t \in Threads, at[t] # "stillLocked",
         guards' = [guards EXCEPT ![t] = @ + 1], at' = [at EXCEPT ![t] = "idle"],
         lockState' = "Locked", ours \in {"shared", "exclusive"},
         Lockers \subseteq {t}, Enders \subseteq {t},
         UNCHANGED <<ours, lockFiles>>
  PROVE  FlInv'
<1>0. guards[t] + 1 \in Nat /\ guards' = [guards EXCEPT ![t] = guards[t] + 1] /\ 1 \in Int
  BY DEF FlTypes
<1>1. /\ guards' \in [Threads -> Nat] /\ Fl!Strong' \in Nat
      /\ \A x \in Threads : at'[x] = IF x = t THEN "idle" ELSE at[x]
  BY <1>0, StrongMoves
<1>2. Lockers' = {} /\ Enders' = {}
  BY <1>1 DEF Lockers, Enders
<1>3. FlTypes'
  BY <1>1 DEF FlTypes
<1>4. OneAtWork'
  BY <1>2 DEF OneAtWork
<1>5. KernelAgrees'
  BY DEF KernelAgrees
<1>. QED
  BY <1>3, <1>4, <1>5 DEF FlInv

LEMMA LockSteps ==
  ASSUME FlInv, NEW t \in Threads, Fl!MarkLocking(t) \/ Fl!Flock(t) \/ Fl!Commit(t)
  PROVE  FlInv'
<1>0. FlTypes /\ OneAtWork /\ KernelAgrees
  BY DEF FlInv
<1>. DEFINE Moves(l) == /\ guards' = [guards EXCEPT ![t] = guards[t] + 0]
                        /\ at' = [at EXCEPT ![t] = l]
<1>1. ASSUME NEW l, Moves(l), at[t] # "stillLocked", l # "stillLocked"
      PROVE  /\ guards' \in [Threads -> Nat] /\ Fl!Strong' = Fl!Strong /\ Fl!Strong \in Nat
             /\ \A x \in Threads : at'[x] = IF x = t THEN l ELSE at[x]
  <2>1. guards[t] + 0 \in Nat /\ 0 \in Int
    BY <1>0 DEF FlTypes
  <2>2. /\ guards' \in [Threads -> Nat] /\ Fl!Strong \in Nat
        /\ Fl!Strong' = Fl!Strong + 0 + (IF l = "stillLocked" THEN 1 ELSE 0)
                                      - (IF at[t] = "stillLocked" THEN 1 ELSE 0)
        /\ \A x \in Threads : at'[x] = IF x = t THEN l ELSE at[x]
    BY <1>0, <1>1, <2>1, StrongMoves
  <2>. QED
    BY <1>1, <2>2
<1>2. UNCHANGED guards => guards' = [guards EXCEPT ![t] = guards[t] + 0]
  BY <1>0 DEF FlTypes
<1>3. CASE Fl!MarkLocking(t)
  <2>1. PICK m \in {"shared", "exclusive"} : at' = [at EXCEPT ![t] = m]
    BY <1>3 DEF Fl!MarkLocking, Fl!Goto, Fl!Modes
  <2>2. /\ t \in lockFiles /\ at[t] = "idle" /\ lockState = "Unlocked" /\ lockState' = "Locking"
        /\ UNCHANGED <<ours, lockFiles, guards>>
    BY <1>3 DEF Fl!MarkLocking
  <2>3. /\ guards' \in [Threads -> Nat] /\ Fl!Strong' = Fl!Strong
        /\ \A x \in Threads : at'[x] = IF x = t THEN m ELSE at[x]
    BY <1>1, <1>2, <2>1, <2>2
  <2>4. Lockers = {} /\ Enders = {} /\ Fl!Strong = 0
    BY <1>0, <2>2 DEF OneAtWork
  <2>5. Lockers' = {t} /\ Enders' = {}
    BY <2>3, <2>4 DEF Lockers, Enders
  <2>6. FlTypes'
    BY <1>0, <2>1, <2>2, <2>3 DEF FlTypes
  <2>7. OneAtWork'
    BY <2>2, <2>3, <2>4, <2>5 DEF OneAtWork
  <2>8. KernelAgrees'
    <3>1. Fl!TookLast' = {} /\ Fl!Strong' = 0
      BY <2>3, <2>4, <2>5 DEF Fl!TookLast, Enders
    <3>2. \A x \in Threads : at'[x] = "commit" => x \in Lockers' /\ x # t
      BY <2>1, <2>3 DEF Lockers
    <3>. QED
      BY <2>5, <3>1, <3>2 DEF KernelAgrees
  <2>. QED
    BY <2>6, <2>7, <2>8 DEF FlInv
<1>4. CASE Fl!Flock(t)
  <2>1. PICK l \in {"commit", "abort"} : at' = [at EXCEPT ![t] = l] /\ (l = "commit" => ours' = at[t])
    BY <1>4 DEF Fl!Flock, Fl!Goto
  <2>2. at[t] \in {"shared", "exclusive"} /\ UNCHANGED <<lockState, lockFiles, guards>>
    BY <1>4 DEF Fl!Flock, Fl!Modes
  <2>3. /\ guards' \in [Threads -> Nat] /\ Fl!Strong' = Fl!Strong
        /\ \A x \in Threads : at'[x] = IF x = t THEN l ELSE at[x]
    BY <1>1, <1>2, <2>1, <2>2
  <2>4. Lockers = {t} /\ lockState = "Locking" /\ Enders = {} /\ Fl!Strong = 0 /\ t \in lockFiles
    <3>1. t \in Lockers
      BY <2>2 DEF Lockers
    <3>. QED
      BY <1>0, <3>1 DEF OneAtWork
  <2>5. Lockers' = {t} /\ Enders' = {}
    BY <2>1, <2>3, <2>4 DEF Lockers, Enders
  <2>6. FlTypes'
    BY <1>0, <2>1, <2>2, <2>3 DEF FlTypes
  <2>7. OneAtWork'
    BY <2>2, <2>3, <2>4, <2>5 DEF OneAtWork
  <2>8. KernelAgrees'
    <3>1. Fl!TookLast' = {} /\ Fl!Strong' = 0
      BY <2>3, <2>4, <2>5 DEF Fl!TookLast, Enders
    <3>2. \A x \in Threads : at'[x] = "commit" => x \in Lockers'
      BY DEF Lockers
    <3>3. \A x \in Threads : at'[x] = "commit" => x = t /\ l = "commit"
      BY <2>3, <2>5, <3>2
    <3>. QED
      BY <2>1, <2>2, <3>1, <3>3 DEF KernelAgrees
  <2>. QED
    BY <2>6, <2>7, <2>8 DEF FlInv
<1>5. CASE Fl!Commit(t)
  <2>0. at' = [at EXCEPT ![t] = "idle"] /\ UNCHANGED <<ours, lockFiles>> /\ at[t] \in {"commit", "abort"}
    BY <1>5 DEF Fl!Commit, Fl!Goto
  <2>1. Lockers = {t} /\ lockState = "Locking" /\ Enders = {} /\ Fl!Strong = 0
    <3>1. t \in Lockers
      BY <2>0 DEF Lockers
    <3>. QED
      BY <1>0, <3>1 DEF OneAtWork
  <2>2. CASE at[t] = "commit"
    <3>1. lockState' = "Locked" /\ guards' = [guards EXCEPT ![t] = @ + 1]
      BY <1>5, <2>2 DEF Fl!Commit, Fl!Count
    <3>2. ours \in {"shared", "exclusive"}
      BY <1>0, <2>2 DEF KernelAgrees
    <3>. QED
      BY <1>0, <2>0, <2>1, <2>2, <3>1, <3>2, GuardComes
  <2>3. CASE at[t] = "abort"
    <3>1. lockState' = "Unlocked" /\ UNCHANGED guards
      BY <1>5, <2>3 DEF Fl!Commit
    <3>2. /\ guards' \in [Threads -> Nat] /\ Fl!Strong' = Fl!Strong
          /\ \A x \in Threads : at'[x] = IF x = t THEN "idle" ELSE at[x]
      BY <1>1, <1>2, <2>0, <2>3, <3>1
    <3>3. Lockers' = {} /\ Enders' = {}
      BY <2>1, <3>2 DEF Lockers, Enders
    <3>4. FlTypes'
      BY <1>0, <2>0, <3>1, <3>2 DEF FlTypes
    <3>5. OneAtWork'
      BY <2>1, <3>1, <3>2, <3>3 DEF OneAtWork
    <3>6. Fl!TookLast' = {} /\ Fl!Strong' = 0 /\ \A x \in Threads : at'[x] # "commit"
      BY <2>1, <3>2, <3>3 DEF Fl!TookLast, Enders, Lockers
    <3>7. KernelAgrees'
      BY <3>6 DEF KernelAgrees
    <3>. QED
      BY <3>4, <3>5, <3>7 DEF FlInv
  <2>. QED
    BY <2>0, <2>2, <2>3
<1>. QED
  BY <1>3, <1>4, <1>5

(* The calls that unlock, past the point where they have the last Arc.            *)
LEMMA UnlockSteps ==
  ASSUME FlInv, NEW t \in Threads, Fl!UnlockFails(t) \/ Fl!TakeFile(t) \/ Fl!Funlock(t)
  PROVE  FlInv'
<1>0. FlTypes /\ OneAtWork /\ KernelAgrees /\ Fl!Strong \in Nat
  BY StrongNat DEF FlInv
<1>1. ASSUME NEW l, at' = [at EXCEPT ![t] = l], UNCHANGED guards, l # "stillLocked"
      PROVE  /\ guards' \in [Threads -> Nat] /\ Fl!Strong' \in Nat
             /\ Fl!Strong' = Fl!Strong - (IF at[t] = "stillLocked" THEN 1 ELSE 0)
             /\ \A x \in Threads : at'[x] = IF x = t THEN l ELSE at[x]
  <2>1. guards[t] + 0 \in Nat /\ 0 \in Int /\ guards' = [guards EXCEPT ![t] = guards[t] + 0]
    BY <1>0, <1>1 DEF FlTypes
  <2>2. /\ guards' \in [Threads -> Nat] /\ Fl!Strong' \in Nat
        /\ Fl!Strong' = Fl!Strong + 0 + (IF l = "stillLocked" THEN 1 ELSE 0)
                                      - (IF at[t] = "stillLocked" THEN 1 ELSE 0)
        /\ \A x \in Threads : at'[x] = IF x = t THEN l ELSE at[x]
    BY <1>0, <1>1, <2>1, StrongMoves
  <2>. QED
    BY <1>0, <1>1, <2>2
<1>2. CASE Fl!UnlockFails(t)
  <2>0. /\ at[t] = "stillLocked" /\ at' = [at EXCEPT ![t] = "idle"]
        /\ ours' = (IF lockFiles = {} /\ Fl!Strong - 1 = 0 THEN Fl!Free ELSE ours)
        /\ UNCHANGED <<lockState, lockFiles, guards>>
    BY <1>2 DEF Fl!UnlockFails, Fl!Goto, Fl!CloseIfLast
  <2>1. /\ guards' \in [Threads -> Nat] /\ Fl!Strong' \in Nat /\ Fl!Strong' = Fl!Strong - 1
        /\ \A x \in Threads : at'[x] = IF x = t THEN "idle" ELSE at[x]
    BY <1>1, <2>0
  <2>2. lockState = "Locked" /\ Enders = {} /\ Fl!Strong > 0 /\ Lockers = {}
    <3>1. Fl!Strong > 0
      BY <1>0, <2>1
    <3>. QED
      BY <1>0, <3>1 DEF OneAtWork
  <2>3. Lockers' = {} /\ Enders' = {}
    BY <2>0, <2>1, <2>2 DEF Lockers, Enders
  <2>4. FlTypes'
    BY <1>0, <2>0, <2>1 DEF FlTypes
  <2>5. OneAtWork'
    BY <2>0, <2>2, <2>3 DEF OneAtWork
  <2>6. Fl!TookLast' = {} /\ \A x \in Threads : at'[x] # "commit"
    BY <2>3 DEF Fl!TookLast, Enders, Lockers
  <2>7. Fl!Strong' > 0 => ours' \in {"shared", "exclusive"}
    <3>1. ours \in {"shared", "exclusive"}
      BY <1>0, <2>2 DEF KernelAgrees
    <3>. QED
      BY <2>0, <2>1, <3>1
  <2>8. KernelAgrees'
    BY <2>6, <2>7 DEF KernelAgrees
  <2>. QED
    BY <2>4, <2>5, <2>8 DEF FlInv
<1>3. CASE Fl!TakeFile(t)
  <2>0. at[t] = "taking" /\ UNCHANGED <<lockState, ours, lockFiles>>
    BY <1>3 DEF Fl!TakeFile
  <2>1. /\ Enders = {t} /\ lockState = "Locked" /\ Lockers = {} /\ Fl!Strong = 0
        /\ ours \in {"shared", "exclusive"}
    <3>1. t \in Enders /\ t \in Fl!TookLast
      BY <2>0 DEF Enders, Fl!TookLast
    <3>. QED
      BY <1>0, <3>1 DEF OneAtWork, KernelAgrees
  <2>2. CASE at' = [at EXCEPT ![t] = "funlock"] /\ UNCHANGED guards
    <3>1. /\ guards' \in [Threads -> Nat] /\ Fl!Strong' = Fl!Strong
          /\ \A x \in Threads : at'[x] = IF x = t THEN "funlock" ELSE at[x]
      <4>1. /\ guards' \in [Threads -> Nat]
            /\ Fl!Strong' = Fl!Strong - (IF at[t] = "stillLocked" THEN 1 ELSE 0)
            /\ \A x \in Threads : at'[x] = IF x = t THEN "funlock" ELSE at[x]
        BY <1>1, <2>2
      <4>2. Fl!Strong' = Fl!Strong - 0
        BY <2>0, <4>1
      <4>. QED
        BY <1>0, <4>1, <4>2
    <3>2. Enders' = {t} /\ Lockers' = {}
      BY <2>1, <3>1 DEF Enders, Lockers
    <3>3. FlTypes'
      BY <1>0, <2>0, <2>2, <3>1 DEF FlTypes
    <3>4. OneAtWork'
      BY <2>0, <2>1, <3>1, <3>2 DEF OneAtWork
    <3>5. KernelAgrees'
      BY <2>0, <2>1 DEF KernelAgrees
    <3>. QED
      BY <3>3, <3>4, <3>5 DEF FlInv
  <2>3. CASE at' = [at EXCEPT ![t] = "idle"] /\ guards' = [guards EXCEPT ![t] = @ + 1]
    BY <1>0, <2>0, <2>1, <2>3, GuardComes
  <2>. QED
    BY <1>3, <2>2, <2>3 DEF Fl!TakeFile, Fl!Goto, Fl!Count
<1>4. CASE Fl!Funlock(t)
  <2>0. at[t] \in {"funlock", "unlocked"} /\ UNCHANGED <<lockFiles, guards>>
    BY <1>4 DEF Fl!Funlock
  <2>1. Enders = {t} /\ lockState = "Locked" /\ Lockers = {} /\ Fl!Strong = 0
    <3>1. t \in Enders
      BY <2>0 DEF Enders
    <3>. QED
      BY <1>0, <3>1 DEF OneAtWork
  <2>2. ASSUME NEW l \in {"unlocked", "idle"}, at' = [at EXCEPT ![t] = l]
        PROVE  /\ guards' \in [Threads -> Nat] /\ Fl!Strong' = 0 /\ Lockers' = {}
               /\ Enders' = (IF l = "idle" THEN {} ELSE {t}) /\ Fl!TookLast' = {}
               /\ \A x \in Threads : at'[x] # "commit"
               /\ at' \in [Threads -> {"idle", "shared", "exclusive", "commit", "abort", "funlock",
                                       "unlocked", "taking", "stillLocked"}]
    <3>1. /\ guards' \in [Threads -> Nat] /\ Fl!Strong' = 0
          /\ \A x \in Threads : at'[x] = IF x = t THEN l ELSE at[x]
      <4>1. /\ guards' \in [Threads -> Nat]
            /\ Fl!Strong' = Fl!Strong - (IF at[t] = "stillLocked" THEN 1 ELSE 0)
            /\ \A x \in Threads : at'[x] = IF x = t THEN l ELSE at[x]
        <5>1. l # "stillLocked"
          OBVIOUS
        <5>. QED
          BY <1>1, <2>0, <2>2, <5>1
      <4>2. Fl!Strong' = 0 - 0
        BY <2>0, <2>1, <4>1
      <4>. QED
        BY <4>1, <4>2
    <3>2. Lockers' = {} /\ Enders' = (IF l = "idle" THEN {} ELSE {t})
      BY <2>1, <2>2, <3>1 DEF Lockers, Enders
    <3>3. Fl!TookLast' = {}
      BY <2>1, <2>2, <3>1 DEF Fl!TookLast, Enders
    <3>4. \A x \in Threads : at'[x] # "commit"
      BY <3>2 DEF Lockers
    <3>5. at' \in [Threads -> {"idle", "shared", "exclusive", "commit", "abort", "funlock",
                               "unlocked", "taking", "stillLocked"}]
      BY <1>0, <2>2 DEF FlTypes
    <3>. QED
      BY <3>1, <3>2, <3>3, <3>4, <3>5
  <2>3. CASE at' = [at EXCEPT ![t] = "unlocked"] /\ UNCHANGED lockState
    <3>1. /\ guards' \in [Threads -> Nat] /\ Fl!Strong' = 0 /\ Lockers' = {} /\ Enders' = {t}
          /\ Fl!TookLast' = {} /\ \A x \in Threads : at'[x] # "commit"
      BY <2>2, <2>3
    <3>2. FlTypes'
      BY <1>0, <2>0, <2>2, <2>3 DEF FlTypes
    <3>3. OneAtWork' /\ KernelAgrees'
      BY <2>1, <2>3, <3>1 DEF OneAtWork, KernelAgrees
    <3>. QED
      BY <3>2, <3>3 DEF FlInv
  <2>4. CASE at' = [at EXCEPT ![t] = "idle"] /\ lockState' = "Unlocked"
    <3>1. /\ guards' \in [Threads -> Nat] /\ Fl!Strong' = 0 /\ Lockers' = {} /\ Enders' = {}
          /\ Fl!TookLast' = {} /\ \A x \in Threads : at'[x] # "commit"
      BY <2>2, <2>4
    <3>2. FlTypes'
      BY <1>0, <2>0, <2>2, <2>4 DEF FlTypes
    <3>3. OneAtWork' /\ KernelAgrees'
      BY <2>4, <3>1 DEF OneAtWork, KernelAgrees
    <3>. QED
      BY <3>2, <3>3 DEF FlInv
  <2>. QED
    BY <1>4, <2>3, <2>4 DEF Fl!Funlock, Fl!Goto
<1>. QED
  BY <1>2, <1>3, <1>4

(* The steps that only open and close files, or are those of another process.     *)
LEMMA FilesMove ==
  ASSUME FlInv, UNCHANGED <<lockState, guards, at>>, lockFiles' \in SUBSET Threads,
         Lockers \subseteq lockFiles',
         ours' = ours \/ (Fl!Strong = 0 /\ Fl!TookLast = {} /\ Lockers = {})
  PROVE  FlInv'
<1>0. FlTypes /\ OneAtWork /\ KernelAgrees
  BY DEF FlInv
<1>1. Lockers' = Lockers /\ Enders' = Enders /\ Fl!TookLast' = Fl!TookLast
  BY DEF Lockers, Enders, Fl!TookLast
<1>2. Fl!Strong' = Fl!Strong
  BY Zenon DEF Fl!Strong
<1>3. FlTypes'
  BY <1>0 DEF FlTypes
<1>4. OneAtWork'
  BY <1>0, <1>1, <1>2 DEF OneAtWork
<1>5. KernelAgrees'
  <2>1. CASE ours' = ours
    BY <1>0, <1>1, <1>2, <2>1 DEF KernelAgrees
  <2>2. CASE Fl!Strong = 0 /\ Fl!TookLast = {} /\ Lockers = {}
    <3>1. \A t \in Threads : at[t] # "commit"
      BY <2>2 DEF Lockers
    <3>. QED
      BY <1>1, <1>2, <2>2, <3>1 DEF KernelAgrees
  <2>. QED
    BY <2>1, <2>2
<1>. QED
  BY <1>3, <1>4, <1>5 DEF FlInv

LEMMA LockStep == FlInv /\ [Fl!Next]_(Fl!flVars) => FlInv'
<1>. SUFFICES ASSUME FlInv, [Fl!Next]_(Fl!flVars) PROVE FlInv'
  OBVIOUS
<1>0. FlTypes /\ OneAtWork /\ KernelAgrees /\ Fl!Strong \in Nat
  BY StrongNat DEF FlInv
<1>1. ASSUME NEW t \in Threads, Fl!MarkLocking(t) \/ Fl!Flock(t) \/ Fl!Commit(t) PROVE FlInv'
  BY <1>1, LockSteps
<1>2. ASSUME NEW t \in Threads, Fl!UnlockFails(t) \/ Fl!TakeFile(t) \/ Fl!Funlock(t) PROVE FlInv'
  BY <1>2, UnlockSteps
<1>3. ASSUME NEW t \in Threads, Fl!DropGuard(t) \/ Fl!Unlock(t) \/ Fl!TakeLast(t) PROVE FlInv'
  BY <1>3, GuardLeaves DEF Fl!DropGuard, Fl!Unlock, Fl!TakeLast, Fl!Count, Fl!Goto
<1>4. ASSUME NEW t \in Threads, Fl!CloneGuard(t) PROVE FlInv'
  <2>1. /\ Fl!Strong > 0 /\ at[t] = "idle" /\ guards' = [guards EXCEPT ![t] = @ + 1]
        /\ UNCHANGED <<lockState, ours, lockFiles, at>>
    BY <1>4 DEF Fl!CloneGuard, Fl!Count
  <2>2. at' = [at EXCEPT ![t] = "idle"]
    BY <1>0, <2>1 DEF FlTypes
  <2>3. lockState = "Locked" /\ Enders = {} /\ Lockers = {} /\ ours \in {"shared", "exclusive"}
    BY <1>0, <2>1 DEF OneAtWork, KernelAgrees
  <2>. QED
    BY <1>0, <2>1, <2>2, <2>3, GuardComes
<1>5. ASSUME NEW t \in Threads, Fl!CloneFile(t) PROVE FlInv'
  <2>1. lockFiles' \in SUBSET Threads /\ Lockers \subseteq lockFiles'
    BY <1>0, <1>5 DEF Fl!CloneFile, FlTypes, OneAtWork
  <2>. QED
    BY <1>5, <2>1, FilesMove DEF Fl!CloneFile
<1>6. ASSUME NEW t \in Threads, Fl!CloseFile(t) PROVE FlInv'
  <2>1. /\ at[t] = "idle" /\ lockFiles' = lockFiles \ {t} /\ UNCHANGED <<lockState, guards, at>>
        /\ ours' = (IF lockFiles \ {t} = {} /\ Fl!Strong + Fl!Cardinality(Fl!TookLast) = 0
                    THEN Fl!Free ELSE ours)
    BY <1>6 DEF Fl!CloseFile, Fl!CloseIfLast
  <2>2. lockFiles' \in SUBSET Threads /\ Lockers \subseteq lockFiles'
    BY <1>0, <2>1 DEF FlTypes, OneAtWork, Lockers
  <2>3. ASSUME ours' # ours PROVE Fl!Strong = 0 /\ Fl!TookLast = {} /\ Lockers = {}
    <3>1. Fl!Cardinality(Fl!TookLast) = Cardinality(Fl!TookLast)
      BY Zenon DEF Fl!Cardinality, Cardinality
    <3>2. IsFiniteSet(Fl!TookLast)
      BY LockAssumption, FS_Subset DEF Fl!TookLast
    <3>3. Cardinality(Fl!TookLast) \in Nat /\ (Cardinality(Fl!TookLast) = 0 <=> Fl!TookLast = {})
      BY <3>2, FS_CardinalityType, FS_EmptySet
    <3>4. lockFiles' = {} /\ Fl!Strong + Cardinality(Fl!TookLast) = 0
      BY <2>1, <2>3, <3>1
    <3>. QED
      <4>1. Fl!Strong = 0 /\ Cardinality(Fl!TookLast) = 0
        BY <1>0, <3>3, <3>4
      <4>. QED
        BY <2>2, <3>3, <3>4, <4>1
  <2>. QED
    BY <2>1, <2>2, <2>3, FilesMove
<1>7. CASE Fl!OtherProcess
  <2>1. UNCHANGED <<lockState, ours, lockFiles, guards, at>>
    BY <1>7 DEF Fl!OtherProcess
  <2>. QED
    BY <1>0, <2>1, FilesMove DEF FlTypes, OneAtWork
<1>8. CASE UNCHANGED Fl!flVars
  <2>1. UNCHANGED <<lockState, ours, lockFiles, guards, at>>
    BY <1>8 DEF Fl!flVars
  <2>. QED
    BY <1>0, <2>1, FilesMove DEF FlTypes, OneAtWork
<1>. QED
  BY <1>1, <1>2, <1>3, <1>4, <1>5, <1>6, <1>7, <1>8 DEF Fl!Next

(* However the clones of a file and of its guards are spread over threads, dropped *)
(* and used to unlock, whoever has a guard or is about to unlock with the last    *)
(* one has the lock.                                                              *)
THEOREM GuardsMeanLocked == Fl!Spec => []Fl!GuardMeansLocked /\ []GuardMeansLocked
<1>1. ASSUME Fl!Init PROVE FlInv
  <2>1. /\ lockState = "Unlocked" /\ lockFiles = Threads /\ guards = [t \in Threads |-> 0]
        /\ at = [t \in Threads |-> "idle"]
    BY <1>1 DEF Fl!Init
  <2>2. FlTypes
    BY <2>1 DEF FlTypes
  <2>3. Lockers = {} /\ Enders = {} /\ Fl!TookLast = {} /\ Still = {}
    BY <2>1 DEF Lockers, Enders, Fl!TookLast, Still
  <2>4. Fl!Strong = 0
    <3>1. Pairs(Threads, guards) = {}
      BY <2>1 DEF Pairs
    <3>. QED
      BY <2>3, <3>1, StrongIs, FS_EmptySet
  <2>5. \A t \in Threads : at[t] # "commit"
    BY <2>1
  <2>. QED
    BY <2>1, <2>2, <2>3, <2>4, <2>5 DEF FlInv, OneAtWork, KernelAgrees
<1>2. ASSUME FlInv PROVE Fl!GuardMeansLocked /\ GuardMeansLocked
  <2>1. Fl!TookLast \subseteq Enders
    BY DEF Fl!TookLast, Enders
  <2>2. Fl!Strong \in Nat
    BY <1>2, StrongNat DEF FlInv
  <2>3. Fl!Strong > 0 \/ Fl!TookLast # {} => lockState = "Locked" /\ ours \in {"shared", "exclusive"}
    BY <1>2, <2>1, <2>2 DEF FlInv, OneAtWork, KernelAgrees
  <2>. QED
    BY <2>3 DEF GuardMeansLocked, Fl!GuardMeansLocked, Fl!Modes
<1>. QED
  BY <1>1, <1>2, LockStep, PTL DEF Fl!Spec
----------------------------------------------------------------------------------
(* FileHandles.                                                                   *)

Handed == {"file", "owned", "discarding", "unwinding", "opening"}

FhTypes ==
  /\ form \in [Pair -> Handed \cup {"none", "given up"}]
  /\ fdOf \in [Pair -> Fh!Fds \cup {None}]
  /\ fdNumber \in [Fh!Fds -> Fh!Fds \cup {None}] /\ fdTable \in [Fh!Fds -> Fh!Fds \cup {None}]
  /\ op \in [Pair -> {"none", "ring", "pool"}] /\ rcs \in [Pair -> Int]
  /\ closes \subseteq Fh!Fds \X {"close", "drop"}

(* Table and numbers agree; a descriptor that a handle has, or of which a close is *)
(* queued, is open.                                                                *)
FhTable ==
  /\ \A n \in Fh!Fds : fdTable[n] # None => fdNumber[fdTable[n]] = n
  /\ \A h \in Pair : fdOf[h] # None => fdNumber[fdOf[h]] # None /\ fdTable[fdNumber[fdOf[h]]] = fdOf[h]
  /\ \A c \in closes : fdNumber[c[1]] # None /\ fdTable[fdNumber[c[1]]] = c[1]

(* Who has a descriptor: handles, or one close; while a file is being opened, only *)
(* the future that opens it.  Nobody else loses one but by a dropped future.       *)
FhOwners ==
  /\ \A h \in Pair : /\ form[h] \in Fh!Strong => fdOf[h] # None
                     /\ fdOf[h] # None => form[h] \in Handed
  /\ \A h, g \in Pair : form[h] = "opening" /\ fdOf[h] # None /\ fdOf[g] = fdOf[h] => g = h
  /\ \A c \in closes : /\ \A h \in Pair : fdOf[h] # c[1]
                       /\ \A e \in closes : e[1] = c[1] => e = c
  /\ \A d \in Fh!Fds : fdNumber[d] # None /\ fdTable[fdNumber[d]] = d =>
       \/ \E h \in Pair : fdOf[h] = d
       \/ Fh!Closing(d) \/ d \in leaked

(* An operation that is queued and not abandoned has its future, which borrows the *)
(* file.                                                                           *)
FhBorrowed ==
  /\ \A h \in Pair : op[h] # "none" => form[h] = "file"
  /\ \A e \in ops : /\ e = <<e[1], e[2], e[3]>> /\ e[1] \in Pair /\ e[2] \in Fh!Fds
                    /\ e[3] # "none"
                    /\ e[3] # "abandoned" => op[e[1]] = e[3] /\ fdOf[e[1]] = e[2]

FhInv == FhTypes /\ FhTable /\ FhOwners /\ FhBorrowed /\ ~strayed

LEMMA FilesInit == Fh!Init => FhInv
BY FileAssumption
   DEF Fh!Init, FhInv, FhTypes, FhTable, FhOwners, FhBorrowed, Fh!Fds, Fh!Numbers, Fh!Strong,
       Handed

(* The last handle has the descriptor alone: a future that opens it would have it *)
(* alone too.                                                                     *)
LEMMA LastHasItAlone ==
  ASSUME FhInv, NEW h \in Pair, form[h] \in Fh!Strong
  PROVE  /\ fdOf[h] \in Fh!Fds /\ fdOf[h] # None
         /\ Fh!IsLast(h) => \A g \in Pair : fdOf[g] = fdOf[h] => g = h
         /\ ~Fh!IsLast(h) => \E g \in Pair : g # h /\ fdOf[g] = fdOf[h]
<1>1. fdOf[h] \in Fh!Fds /\ fdOf[h] # None
  BY DEF FhInv, FhTypes, FhOwners
<1>2. h \in Fh!StrongOf(fdOf[h])
  BY DEF Fh!StrongOf
<1>3. ASSUME Fh!IsLast(h), NEW g \in Pair, fdOf[g] = fdOf[h] PROVE g = h
  <2>1. form[g] \in Handed
    BY <1>1, <1>3 DEF FhInv, FhOwners
  <2>2. form[g] = "opening" => h = g
    BY <1>1, <1>3 DEF FhInv, FhOwners
  <2>3. form[g] # "opening" => g \in Fh!StrongOf(fdOf[h])
    BY <1>3, <2>1 DEF Fh!StrongOf, Handed, Fh!Strong
  <2>. QED
    BY <1>3, <2>2, <2>3 DEF Fh!IsLast
<1>4. ~Fh!IsLast(h) => \E g \in Pair : g # h /\ fdOf[g] = fdOf[h]
  BY <1>2 DEF Fh!IsLast, Fh!StrongOf
<1>. QED
  BY <1>1, <1>3, <1>4

LEMMA CloseFacts ==
  ASSUME FhInv, NEW c \in closes
  PROVE  /\ c = <<c[1], c[2]>> /\ c[1] \in Fh!Fds /\ c[2] \in {"close", "drop"} /\ c[1] # None
         /\ fdNumber[c[1]] # None /\ fdTable[fdNumber[c[1]]] = c[1]
         /\ \A g \in Pair : fdOf[g] # c[1]
         /\ \A e \in closes : e[1] = c[1] => e = c
<1>1. c = <<c[1], c[2]>> /\ c[1] \in Fh!Fds /\ c[2] \in {"close", "drop"}
  <2>1. c \in Fh!Fds \X {"close", "drop"}
    BY DEF FhInv, FhTypes
  <2>. QED
    BY <2>1
<1>2. c[1] # None
  BY <1>1, FileAssumption DEF Fh!Fds
<1>. QED
  BY <1>1, <1>2 DEF FhInv, FhTable, FhOwners

Becoming(h, f, x) == \E n \in Int : Fh!Becomes(h, f, x, n)

LEMMA BecomesIs ==
  ASSUME NEW h \in Pair, NEW f, NEW x, NEW n \in Int, Fh!Becomes(h, f, x, n)
  PROVE  Becoming(h, f, x)
BY DEF Becoming

LEMMA BecomesFacts ==
  ASSUME FhInv, NEW h \in Pair, NEW f \in Handed \cup {"none", "given up"},
         NEW x \in Fh!Fds \cup {None}, Becoming(h, f, x)
  PROVE  /\ form' \in [Pair -> Handed \cup {"none", "given up"}]
         /\ fdOf' \in [Pair -> Fh!Fds \cup {None}] /\ rcs' \in [Pair -> Int]
         /\ form'[h] = f /\ fdOf'[h] = x
         /\ \A g \in Pair \ {h} : form'[g] = form[g] /\ fdOf'[g] = fdOf[g]
BY ZenonT(60) DEF FhInv, FhTypes, Becoming, Fh!Becomes

(* A handle h that nobody borrows gets the form f and the descriptor x, of which  *)
(* there is a handle already; the one it had is left to another handle, to a      *)
(* close or leaked.                                                               *)
Moves(h, f, x) ==
  /\ Becoming(h, f, x)
  /\ op[h] = "none" /\ UNCHANGED <<fdNumber, fdTable, strayed, op, ops>>
  /\ f \in Fh!Strong => x # None
  /\ x # None => f \in Handed /\ \E g \in Pair : fdOf[g] = x
  /\ \A g \in Pair : x # None /\ fdOf[g] = x /\ (f = "opening" \/ form[g] = "opening") => g = h

Leaves(h, x) ==
  /\ \/ closes' = closes
     \/ /\ x = None /\ fdOf[h] # None
        /\ \A g \in Pair : fdOf[g] = fdOf[h] => g = h
        /\ \E by \in {"close", "drop"} : closes' = closes \cup {<<fdOf[h], by>>}
  /\ leaked \subseteq leaked'
  /\ fdOf[h] \notin {None, x} => \/ \E g \in Pair : g # h /\ fdOf[g] = fdOf[h]
                                 \/ \E by \in {"close", "drop"} : <<fdOf[h], by>> \in closes'
                                 \/ fdOf[h] \in leaked'

LEMMA HandleMoves ==
  ASSUME FhInv, NEW h \in Pair, NEW f \in Handed \cup {"none", "given up"},
         NEW x \in Fh!Fds \cup {None}, Moves(h, f, x), Leaves(h, x)
  PROVE  FhInv'
<1>1. Becoming(h, f, x)
  BY DEF Moves
<1>2. /\ form' \in [Pair -> Handed \cup {"none", "given up"}]
      /\ fdOf' \in [Pair -> Fh!Fds \cup {None}] /\ rcs' \in [Pair -> Int]
  BY <1>1, BecomesFacts
<1>3. /\ form'[h] = f /\ fdOf'[h] = x
      /\ \A g \in Pair \ {h} : form'[g] = form[g] /\ fdOf'[g] = fdOf[g]
  BY <1>1, BecomesFacts
<1>4. op[h] = "none" /\ UNCHANGED <<fdNumber, fdTable, strayed, op, ops>>
  BY DEF Moves
<1>5. closes \subseteq closes' /\ leaked \subseteq leaked'
  BY DEF Leaves
<1>6. ASSUME NEW c \in closes', c \notin closes
      PROVE  /\ c = <<c[1], c[2]>> /\ c[2] \in {"close", "drop"} /\ c[1] = fdOf[h]
             /\ x = None /\ fdOf[h] # None /\ \A g \in Pair : fdOf[g] = fdOf[h] => g = h
             /\ \A e \in closes' : e \in closes \/ e = c
  <2>1. PICK by \in {"close", "drop"} : closes' = closes \cup {<<fdOf[h], by>>}
    BY <1>6 DEF Leaves
  <2>2. c = <<fdOf[h], by>> /\ \A e \in closes' : e \in closes \/ e = c
    BY <1>6, <2>1
  <2>3. x = None /\ fdOf[h] # None /\ \A g \in Pair : fdOf[g] = fdOf[h] => g = h
    BY <1>6 DEF Leaves
  <2>. QED
    BY <2>2, <2>3
<1>7. fdOf[h] \in Fh!Fds \cup {None}
  BY DEF FhInv, FhTypes
<1>8. FhTypes'
  <2>1. closes' \subseteq Fh!Fds \X {"close", "drop"}
    <3>1. ASSUME NEW c \in closes', c \notin closes PROVE c \in Fh!Fds \X {"close", "drop"}
      <4>1. c = <<c[1], c[2]>> /\ c[1] \in Fh!Fds /\ c[2] \in {"close", "drop"}
        BY <1>6, <1>7, <3>1
      <4>. QED
        BY <4>1
    <3>. QED
      BY <3>1 DEF FhInv, FhTypes
  <2>. QED
    BY <1>2, <1>4, <2>1 DEF FhInv, FhTypes
<1>9. FhTable'
  <2>1. \A g \in Pair : fdOf'[g] # None =>
          fdNumber[fdOf'[g]] # None /\ fdTable[fdNumber[fdOf'[g]]] = fdOf'[g]
    <3>1. x # None => \E g \in Pair : fdOf[g] = x
      BY DEF Moves
    <3>2. \A g \in Pair : fdOf[g] # None =>
            fdNumber[fdOf[g]] # None /\ fdTable[fdNumber[fdOf[g]]] = fdOf[g]
      BY DEF FhInv, FhTable
    <3>3. x # None => fdNumber[x] # None /\ fdTable[fdNumber[x]] = x
      BY <3>1, <3>2
    <3>. QED
      BY <1>3, <3>2, <3>3
  <2>2. \A c \in closes' : fdNumber[c[1]] # None /\ fdTable[fdNumber[c[1]]] = c[1]
    BY <1>6, CloseFacts, ZenonT(60) DEF FhInv, FhTable
  <2>3. \A m \in Fh!Fds : fdTable[m] # None => fdNumber[fdTable[m]] = m
    BY DEF FhInv, FhTable
  <2>. QED
    BY <1>4, <2>1, <2>2, <2>3 DEF FhTable
<1>10. FhOwners'
  <2>1. \A g \in Pair : /\ form'[g] \in Fh!Strong => fdOf'[g] # None
                        /\ fdOf'[g] # None => form'[g] \in Handed
    BY <1>3 DEF FhInv, FhOwners, Moves
  <2>2. \A a, b \in Pair : form'[a] = "opening" /\ fdOf'[a] # None /\ fdOf'[b] = fdOf'[a] => b = a
    <3>1. \A g \in Pair : x # None /\ fdOf[g] = x /\ (f = "opening" \/ form[g] = "opening") => g = h
      BY DEF Moves
    <3>2. \A a, b \in Pair : form[a] = "opening" /\ fdOf[a] # None /\ fdOf[b] = fdOf[a] => b = a
      BY DEF FhInv, FhOwners
    <3>. QED
      BY <1>3, <3>1, <3>2
  <2>3. ASSUME NEW c \in closes', NEW g \in Pair PROVE fdOf'[g] # c[1]
    <3>1. CASE c \in closes
      <4>1. x # c[1]
        <5>1. x # None => \E k \in Pair : fdOf[k] = x
          BY DEF Moves
        <5>. QED
          BY <3>1, <5>1, CloseFacts
      <4>. QED
        BY <1>3, <3>1, <4>1, CloseFacts, ZenonT(60)
    <3>2. CASE c \notin closes
      BY <1>3, <1>6, <3>2
    <3>. QED
      BY <3>1, <3>2
  <2>4. ASSUME NEW c \in closes', NEW e \in closes', e[1] = c[1] PROVE e = c
    <3>1. CASE c \in closes /\ e \in closes
      BY <2>4, <3>1, CloseFacts
    <3>2. CASE c \notin closes
      <4>1. c[1] = fdOf[h] /\ (e \in closes \/ e = c)
        BY <1>6, <3>2
      <4>2. e \in closes => e[1] # fdOf[h]
        BY CloseFacts
      <4>. QED
        BY <2>4, <4>1, <4>2
    <3>3. CASE e \notin closes
      <4>1. e[1] = fdOf[h] /\ (c \in closes \/ c = e)
        BY <1>6, <3>3
      <4>2. c \in closes => c[1] # fdOf[h]
        BY CloseFacts
      <4>. QED
        BY <2>4, <4>1, <4>2
    <3>. QED
      BY <3>1, <3>2, <3>3
  <2>5. ASSUME NEW d \in Fh!Fds, fdNumber[d] # None, fdTable[fdNumber[d]] = d
        PROVE  (\E g \in Pair : fdOf'[g] = d) \/ Fh!Closing(d)' \/ d \in leaked'
    <3>1. CASE fdOf[h] = d /\ x # d
      <4>1. d # None
        BY FileAssumption DEF Fh!Fds
      <4>2. (\E g \in Pair : g # h /\ fdOf[g] = d) \/ Fh!Closing(d)' \/ d \in leaked'
        BY <3>1, <4>1 DEF Leaves, Fh!Closing
      <4>. QED
        BY <1>3, <4>2
    <3>2. CASE ~(fdOf[h] = d /\ x # d)
      <4>1. Fh!Closing(d) => Fh!Closing(d)'
        BY <1>5 DEF Fh!Closing
      <4>2. (\E g \in Pair : fdOf[g] = d) => \E g \in Pair : fdOf'[g] = d
        BY <1>3, <3>2
      <4>. QED
        BY <1>5, <2>5, <4>1, <4>2 DEF FhInv, FhOwners
    <3>. QED
      BY <3>1, <3>2
  <2>. QED
    BY <1>4, <2>1, <2>2, <2>3, <2>4, <2>5 DEF FhOwners
<1>11. FhBorrowed'
  <2>1. \A e \in ops : e[3] # "abandoned" => e[1] # h
    BY <1>4 DEF FhInv, FhBorrowed
  <2>. QED
    BY <1>3, <1>4, <2>1 DEF FhInv, FhBorrowed
<1>. QED
  BY <1>4, <1>8, <1>9, <1>10, <1>11 DEF FhInv

(* A descriptor without a handle and without a queued close is closed: the number *)
(* of every other one stays its own.                                              *)
LEMMA TableCloses ==
  ASSUME FhInv, NEW d \in Fh!Fds, Fh!CloseNow(d), fdNumber[d] # None, fdTable[fdNumber[d]] = d,
         fdNumber' = fdNumber
  PROVE  /\ fdTable' \in [Fh!Fds -> Fh!Fds \cup {None}]
         /\ \A n \in Fh!Fds : fdTable'[n] # None => fdNumber[fdTable'[n]] = n
         /\ \A e \in Fh!Fds : e # d /\ fdNumber[e] # None /\ fdTable[fdNumber[e]] = e
                                => fdTable'[fdNumber[e]] = e
         /\ \A e \in Fh!Fds : fdNumber[e] # None /\ fdTable'[fdNumber[e]] = e
                                => e # d /\ fdTable[fdNumber[e]] = e
<1>1. fdTable' = [fdTable EXCEPT ![fdNumber[d]] = None]
  BY DEF Fh!CloseNow
<1>2. \A e \in Fh!Fds : e # None
  BY FileAssumption DEF Fh!Fds
<1>3. fdNumber[d] \in Fh!Fds
  BY DEF FhInv, FhTypes
<1>. QED
  BY <1>1, <1>2, <1>3 DEF FhInv, FhTypes, FhTable

(* OwnedGlommioFile::drop, and the unwinding of an upgrade.                       *)
LEMMA HandleCloses ==
  ASSUME FhInv, NEW h \in Pair, form[h] \in Fh!Strong, op[h] = "none",
         Becoming(h, "none", None),
         IF Fh!IsLast(h) THEN Fh!CloseNow(fdOf[h]) ELSE UNCHANGED fdTable,
         UNCHANGED <<fdNumber, strayed, op, ops, closes, leaked>>
  PROVE  FhInv'
<1>1. CASE ~Fh!IsLast(h)
  <2>1. Moves(h, "none", None)
    BY <1>1 DEF Moves, Fh!Strong
  <2>2. Leaves(h, None)
    BY <1>1, LastHasItAlone DEF Leaves
  <2>. QED
    BY <2>1, <2>2, HandleMoves
<1>2. CASE Fh!IsLast(h)
  <2>. DEFINE d == fdOf[h]
  <2>1. /\ d \in Fh!Fds /\ d # None /\ \A g \in Pair : fdOf[g] = d => g = h
    BY <1>2, LastHasItAlone
  <2>2. fdNumber[d] # None /\ fdTable[fdNumber[d]] = d
    BY <2>1 DEF FhInv, FhTable
  <2>3. /\ fdTable' \in [Fh!Fds -> Fh!Fds \cup {None}]
        /\ \A n \in Fh!Fds : fdTable'[n] # None => fdNumber[fdTable'[n]] = n
        /\ \A e \in Fh!Fds : e # d /\ fdNumber[e] # None /\ fdTable[fdNumber[e]] = e
                               => fdTable'[fdNumber[e]] = e
        /\ \A e \in Fh!Fds : fdNumber[e] # None /\ fdTable'[fdNumber[e]] = e
                               => e # d /\ fdTable[fdNumber[e]] = e
    BY <1>2, <2>1, <2>2, TableCloses
  <2>4. /\ form' \in [Pair -> Handed \cup {"none", "given up"}]
        /\ fdOf' \in [Pair -> Fh!Fds \cup {None}] /\ rcs' \in [Pair -> Int]
    BY BecomesFacts
  <2>5. /\ form'[h] = "none" /\ fdOf'[h] = None
        /\ \A g \in Pair \ {h} : form'[g] = form[g] /\ fdOf'[g] = fdOf[g]
    BY BecomesFacts
  <2>6. FhTypes'
    BY <2>3, <2>4 DEF FhInv, FhTypes
  <2>7. \A c \in closes : c[1] \in Fh!Fds /\ c[1] # d
    BY DEF FhInv, FhTypes, FhOwners
  <2>8. \A g \in Pair : fdOf'[g] # None => fdOf'[g] \in Fh!Fds /\ fdOf'[g] # d
    BY <2>1, <2>5 DEF FhInv, FhTypes
  <2>9. FhTable'
    BY <2>3, <2>5, <2>7, <2>8 DEF FhInv, FhTable
  <2>10. FhOwners'
    <3>1. \A g \in Pair : /\ form'[g] \in Fh!Strong => fdOf'[g] # None
                          /\ fdOf'[g] # None => form'[g] \in Handed
      BY <2>5 DEF FhInv, FhOwners, Fh!Strong
    <3>2. \A a, b \in Pair : form'[a] = "opening" /\ fdOf'[a] # None /\ fdOf'[b] = fdOf'[a] => b = a
      BY <2>5 DEF FhInv, FhOwners
    <3>3. \A c \in closes : /\ \A g \in Pair : fdOf'[g] # c[1]
                            /\ \A e \in closes : e[1] = c[1] => e = c
      <4>1. \A c \in closes : c[1] # None
        BY <2>7, FileAssumption DEF Fh!Fds
      <4>. QED
        BY <2>5, <4>1 DEF FhInv, FhOwners
    <3>4. ASSUME NEW e \in Fh!Fds, fdNumber[e] # None, fdTable'[fdNumber[e]] = e
          PROVE  (\E g \in Pair : fdOf'[g] = e) \/ Fh!Closing(e) \/ e \in leaked
      BY <2>3, <2>5, <3>4 DEF FhInv, FhOwners
    <3>. QED
      BY <3>1, <3>2, <3>3, <3>4 DEF FhOwners, Fh!Closing
  <2>11. FhBorrowed'
    <3>1. \A e \in ops : e[3] # "abandoned" => e[1] # h
      BY DEF FhInv, FhBorrowed
    <3>. QED
      BY <2>5, <3>1 DEF FhInv, FhBorrowed
  <2>. QED
    BY <2>6, <2>9, <2>10, <2>11 DEF FhInv
<1>. QED
  BY <1>1, <1>2

(* The kernel always has a number that is free, and nothing refers to it.         *)
LEMMA NumberedFacts ==
  ASSUME FhInv, NEW d \in Fh!Fds, Fh!Numbered(d)
  PROVE  /\ fdNumber' \in [Fh!Fds -> Fh!Fds \cup {None}]
         /\ fdTable' \in [Fh!Fds -> Fh!Fds \cup {None}]
         /\ fdNumber[d] = None /\ fdNumber'[d] # None /\ fdTable'[fdNumber'[d]] = d
         /\ \A n \in Fh!Fds : fdTable'[n] # None => fdNumber'[fdTable'[n]] = n
         /\ \A e \in Fh!Fds \ {d} : fdNumber'[e] = fdNumber[e]
         /\ \A e \in Fh!Fds \ {d} : fdNumber[e] # None =>
              (fdTable'[fdNumber[e]] = e <=> fdTable[fdNumber[e]] = e)
<1>. DEFINE n == Fh!FreeNumber
<1>1. /\ fdNumber[d] = None /\ fdNumber' = [fdNumber EXCEPT ![d] = n]
      /\ fdTable' = [fdTable EXCEPT ![n] = d]
  BY DEF Fh!Numbered, Fh!IsNext
<1>2. \A e \in Fh!Fds : e # None
  BY FileAssumption DEF Fh!Fds
<1>3. \A m \in Fh!Fds : fdTable[m] # d
  BY <1>1, <1>2 DEF FhInv, FhTable
<1>4. \A m, k \in Fh!Fds : fdTable[m] = fdTable[k] /\ fdTable[m] # None => m = k
  BY DEF FhInv, FhTable
<1>5. PICK k \in Fh!Fds : fdTable[k] = None /\ \A m \in Fh!Fds : fdTable[m] = None => k <= m
  <2>1. MaxFds \in Nat /\ None \notin 1 .. MaxFds
    BY FileAssumption
  <2>2. fdTable \in [1 .. MaxFds -> (1 .. MaxFds) \cup {None}] /\ d \in 1 .. MaxFds
    BY DEF FhInv, FhTypes, Fh!Fds
  <2>. QED
    BY <1>3, <1>4, <2>1, <2>2, OneIsFree, SMTT(60) DEF Fh!Fds
<1>6. n \in Fh!Fds /\ fdTable[n] = None
  BY <1>5 DEF Fh!FreeNumber, Fh!Min, Fh!Numbers
<1>. QED
  BY <1>1, <1>2, <1>6, ZenonT(60) DEF FhInv, FhTypes, FhTable

(* An open or a dup: the new descriptor is that of h, or is leaked.               *)
LEMMA FileNumbered ==
  ASSUME FhInv, NEW h \in Pair, NEW f \in Handed \cup {"none"}, NEW d \in Fh!Fds,
         NEW x \in {d, None}, Becoming(h, f, x), Fh!Numbered(d),
         fdOf[h] = None, op[h] = "none", UNCHANGED <<strayed, op, ops, closes>>,
         f = "none" <=> x = None,
         leaked' = IF x = None THEN leaked \cup {d} ELSE leaked
  PROVE  FhInv'
<1>1. /\ form' \in [Pair -> Handed \cup {"none", "given up"}]
      /\ fdOf' \in [Pair -> Fh!Fds \cup {None}] /\ rcs' \in [Pair -> Int]
  BY BecomesFacts
<1>2. /\ form'[h] = f /\ fdOf'[h] = x
      /\ \A g \in Pair \ {h} : form'[g] = form[g] /\ fdOf'[g] = fdOf[g]
  BY BecomesFacts
<1>3. \A e \in Fh!Fds : e # None
  BY FileAssumption DEF Fh!Fds
<1>4. /\ fdNumber' \in [Fh!Fds -> Fh!Fds \cup {None}]
      /\ fdTable' \in [Fh!Fds -> Fh!Fds \cup {None}]
      /\ fdNumber[d] = None /\ fdNumber'[d] # None /\ fdTable'[fdNumber'[d]] = d
      /\ \A m \in Fh!Fds : fdTable'[m] # None => fdNumber'[fdTable'[m]] = m
      /\ \A e \in Fh!Fds \ {d} : fdNumber'[e] = fdNumber[e]
      /\ \A e \in Fh!Fds \ {d} : fdNumber[e] # None =>
           (fdTable'[fdNumber[e]] = e <=> fdTable[fdNumber[e]] = e)
  BY NumberedFacts
<1>5. \A g \in Pair : fdOf[g] \in Fh!Fds \cup {None} /\ fdOf[g] # d
  <2>1. \A g \in Pair : fdOf[g] \in Fh!Fds \cup {None}
    BY DEF FhInv, FhTypes
  <2>2. \A g \in Pair : fdOf[g] # None => fdNumber[fdOf[g]] # None
    BY DEF FhInv, FhTable
  <2>. QED
    BY <1>3, <1>4, <2>1, <2>2
<1>6. \A c \in closes : c[1] \in Fh!Fds /\ c[1] # d
  BY <1>4, CloseFacts
<1>7. FhTypes'
  BY <1>1, <1>4 DEF FhInv, FhTypes
<1>8. FhTable'
  BY <1>2, <1>4, <1>5, <1>6 DEF FhInv, FhTable
<1>9. FhOwners'
  <2>1. \A g \in Pair : /\ form'[g] \in Fh!Strong => fdOf'[g] # None
                        /\ fdOf'[g] # None => form'[g] \in Handed
    BY <1>2, <1>3 DEF FhInv, FhOwners, Fh!Strong
  <2>2. \A a, b \in Pair : form'[a] = "opening" /\ fdOf'[a] # None /\ fdOf'[b] = fdOf'[a] => b = a
    BY <1>2, <1>5 DEF FhInv, FhOwners
  <2>3. \A c \in closes : /\ \A g \in Pair : fdOf'[g] # c[1]
                          /\ \A e \in closes : e[1] = c[1] => e = c
    BY <1>2, <1>3, <1>6 DEF FhInv, FhOwners
  <2>4. ASSUME NEW e \in Fh!Fds, fdNumber'[e] # None, fdTable'[fdNumber'[e]] = e
        PROVE  (\E g \in Pair : fdOf'[g] = e) \/ Fh!Closing(e) \/ e \in leaked'
    <3>1. CASE e = d
      BY <1>2, <3>1
    <3>2. CASE e # d
      <4>1. (\E g \in Pair : fdOf[g] = e) \/ Fh!Closing(e) \/ e \in leaked
        BY <1>4, <2>4, <3>2 DEF FhInv, FhOwners
      <4>. QED
        BY <1>2, <1>3, <4>1
    <3>. QED
      BY <3>1, <3>2
  <2>. QED
    BY <2>1, <2>2, <2>3, <2>4 DEF FhOwners, Fh!Closing
<1>10. FhBorrowed'
  <2>1. \A e \in ops : e[3] # "abandoned" => e[1] # h
    BY DEF FhInv, FhBorrowed
  <2>. QED
    BY <1>2, <2>1 DEF FhInv, FhBorrowed
<1>. QED
  BY <1>7, <1>8, <1>9, <1>10 DEF FhInv

(* A handle that is not there, or whose open was given up, has no descriptor; a   *)
(* descriptor that is being opened is that of one handle.                         *)
LEMMA HandleFacts ==
  ASSUME FhInv, NEW h \in Pair
  PROVE  /\ fdOf[h] \in Fh!Fds \cup {None} /\ rcs[h] \in Int
         /\ form[h] \notin Handed => fdOf[h] = None
         /\ form[h] # "file" => op[h] = "none"
         /\ form[h] \in Fh!Strong => /\ fdOf[h] \in Fh!Fds /\ fdOf[h] # None
                                     /\ \A g \in Pair : fdOf[g] = fdOf[h] => form[g] # "opening"
<1>1. /\ fdOf[h] \in Fh!Fds \cup {None} /\ rcs[h] \in Int
      /\ form[h] \notin Handed => fdOf[h] = None
      /\ form[h] # "file" => op[h] = "none"
  BY DEF FhInv, FhTypes, FhOwners, FhBorrowed
<1>2. ASSUME form[h] \in Fh!Strong, NEW g \in Pair, fdOf[g] = fdOf[h], form[g] = "opening"
      PROVE  FALSE
  <2>1. fdOf[h] # None /\ h = g
    BY <1>2 DEF FhInv, FhOwners
  <2>. QED
    BY <1>2, <2>1 DEF Fh!Strong
<1>. QED
  BY <1>1, <1>2 DEF FhInv, FhOwners

LEMMA OpenSteps ==
  ASSUME FhInv, NEW h \in Pair, Fh!Opens(h)
  PROVE  FhInv'
<1>0. /\ fdOf[h] \in Fh!Fds \cup {None} /\ rcs[h] \in Int
      /\ form[h] \notin Handed => fdOf[h] = None
      /\ form[h] # "file" => op[h] = "none"
  BY HandleFacts
<1>1. CASE Fh!OpenAt(h)
  <2>1. form[h] = "none" /\ Becoming(h, "opening", None)
    BY <1>1 DEF Fh!OpenAt, Fh!Unused, Becoming
  <2>2. UNCHANGED <<fdNumber, fdTable, strayed, op, ops, closes, leaked>>
    BY <1>1 DEF Fh!OpenAt, Fh!kernel
  <2>3. Moves(h, "opening", None) /\ Leaves(h, None)
    BY <1>0, <2>1, <2>2 DEF Moves, Leaves, Handed, Fh!Strong
  <2>. QED
    BY <2>3, HandleMoves DEF Handed
<1>2. CASE Fh!OpenReady(h)
  <2>1. form[h] = "opening" /\ fdOf[h] # None /\ Becoming(h, "file", fdOf[h])
    BY <1>2 DEF Fh!OpenReady, Becoming
  <2>2. UNCHANGED <<fdNumber, fdTable, strayed, op, ops, closes, leaked>>
    BY <1>2 DEF Fh!OpenReady, Fh!kernel
  <2>3. \A g \in Pair : fdOf[g] = fdOf[h] => g = h
    BY <2>1 DEF FhInv, FhOwners
  <2>4. Moves(h, "file", fdOf[h]) /\ Leaves(h, fdOf[h])
    BY <1>0, <2>1, <2>2, <2>3 DEF Moves, Leaves, Handed, Fh!Strong
  <2>. QED
    BY <1>0, <2>4, HandleMoves DEF Handed
<1>3. CASE Fh!OpenFails(h)
  <2>1. form[h] \in {"opening", "given up"} /\ fdOf[h] = None /\ Becoming(h, "none", None)
    <3>1. /\ form[h] \in {"opening", "given up"} /\ fdOf[h] = None
          /\ Fh!Becomes(h, "none", None, 0)
      BY <1>3 DEF Fh!OpenFails
    <3>2. Becoming(h, "none", None)
      <4>1. 0 \in Int
        OBVIOUS
      <4>. QED
        BY <3>1, <4>1, BecomesIs, Zenon
    <3>. QED
      BY <3>1, <3>2
  <2>2. UNCHANGED <<fdNumber, fdTable, strayed, op, ops, closes, leaked>>
    BY <1>3 DEF Fh!OpenFails, Fh!kernel
  <2>3. Moves(h, "none", None) /\ Leaves(h, None)
    BY <1>0, <2>1, <2>2 DEF Moves, Leaves, Fh!Strong
  <2>. QED
    BY <2>3, HandleMoves
<1>4. CASE Fh!GiveUpOpen(h)
  <2>. DEFINE f == IF fdOf[h] = None THEN "given up" ELSE "none"
  <2>1. /\ form[h] = "opening" /\ Becoming(h, f, None)
        /\ leaked' = leaked \cup ({fdOf[h]} \ {None})
    <3>1. /\ form[h] = "opening" /\ Fh!Becomes(h, f, None, 0)
          /\ leaked' = leaked \cup ({fdOf[h]} \ {None})
      BY <1>4 DEF Fh!GiveUpOpen
    <3>. HIDE DEF f
    <3>2. Becoming(h, f, None)
      BY <3>1, BecomesIs
    <3>. QED
      BY <3>1, <3>2
  <2>2. UNCHANGED <<fdNumber, fdTable, strayed, op, ops, closes>>
    BY <1>4 DEF Fh!GiveUpOpen, Fh!kernel
  <2>3. f \in {"none", "given up"}
    OBVIOUS
  <2>4. fdOf[h] # None => fdOf[h] \in leaked'
    BY <2>1
  <2>. HIDE DEF f
  <2>5. Moves(h, f, None) /\ Leaves(h, None)
    BY <1>0, <2>1, <2>2, <2>3, <2>4 DEF Moves, Leaves, Fh!Strong
  <2>. QED
    BY <2>3, <2>5, HandleMoves
<1>5. ASSUME NEW d \in Fh!Fds, Fh!KernelOpens(h, d) PROVE FhInv'
  <2>1. /\ form[h] = "opening" /\ fdOf[h] = None /\ Fh!Numbered(d)
        /\ fdOf' = [fdOf EXCEPT ![h] = d]
        /\ UNCHANGED <<form, rcs, strayed, closes, ops, op, leaked>>
    BY <1>5 DEF Fh!KernelOpens
  <2>2. Becoming(h, "opening", d)
    <3>1. Fh!Becomes(h, "opening", d, rcs[h])
      BY <2>1 DEF Fh!Becomes, FhInv, FhTypes
    <3>. QED
      BY <1>0, <3>1 DEF Becoming
  <2>3. d # None
    BY FileAssumption DEF Fh!Fds
  <2>. QED
    BY <1>0, <2>1, <2>2, <2>3, FileNumbered DEF Handed
<1>6. ASSUME NEW d \in Fh!Fds, Fh!KernelOpensAnyway(h, d) PROVE FhInv'
  <2>1. /\ form[h] = "given up" /\ Fh!Numbered(d) /\ Becoming(h, "none", None)
        /\ leaked' = leaked \cup {d} /\ UNCHANGED <<strayed, closes, ops, op>>
    <3>1. /\ form[h] = "given up" /\ Fh!Numbered(d) /\ Fh!Becomes(h, "none", None, 0)
          /\ leaked' = leaked \cup {d} /\ UNCHANGED <<strayed, closes, ops, op>>
      BY <1>6 DEF Fh!KernelOpensAnyway
    <3>2. Becoming(h, "none", None)
      <4>1. 0 \in Int
        OBVIOUS
      <4>. QED
        BY <3>1, <4>1, BecomesIs, Zenon
    <3>. QED
      BY <3>1, <3>2
  <2>. QED
    BY <1>0, <2>1, FileNumbered DEF Handed
<1>. QED
  BY <1>1, <1>2, <1>3, <1>4, <1>5, <1>6
     DEF Fh!Opens, Fh!DmaOpen, Fh!BufferedOpen, Fh!BuildSink, Fh!BuildExisting

(* A new handle g of the descriptor d that the handle h keeps open.               *)
LEMMA HandleAdded ==
  ASSUME FhInv, NEW h \in Pair, NEW g \in Pair, NEW f \in Fh!Strong,
         form[h] \in Fh!Strong, Fh!Unused(g), Becoming(g, f, fdOf[h]),
         UNCHANGED <<fdNumber, fdTable, strayed, op, ops, closes, leaked>>
  PROVE  FhInv'
<1>1. form[g] = "none" /\ fdOf[g] = None /\ op[g] = "none"
  BY HandleFacts DEF Fh!Unused, Handed
<1>2. /\ fdOf[h] \in Fh!Fds /\ fdOf[h] # None
      /\ \A k \in Pair : fdOf[k] = fdOf[h] => form[k] # "opening"
  BY HandleFacts
<1>3. f # "opening" /\ f \in Handed
  BY DEF Fh!Strong, Handed
<1>4. Moves(g, f, fdOf[h])
  BY <1>1, <1>2, <1>3 DEF Moves
<1>5. Leaves(g, fdOf[h])
  BY <1>1 DEF Leaves
<1>. QED
  BY <1>2, <1>3, <1>4, <1>5, HandleMoves

(* A handle changes its form and keeps its descriptor.                            *)
LEMMA HandleTurns ==
  ASSUME FhInv, NEW h \in Pair, NEW f \in Fh!Strong, form[h] \in Fh!Strong,
         op[h] = "none", Becoming(h, f, fdOf[h]),
         UNCHANGED <<fdNumber, fdTable, strayed, op, ops, closes, leaked>>
  PROVE  FhInv'
<1>1. /\ fdOf[h] \in Fh!Fds /\ fdOf[h] # None
      /\ \A k \in Pair : fdOf[k] = fdOf[h] => form[k] # "opening"
  BY HandleFacts
<1>2. f # "opening" /\ f \in Handed
  BY DEF Fh!Strong, Handed
<1>3. Moves(h, f, fdOf[h])
  BY <1>1, <1>2 DEF Moves
<1>4. Leaves(h, fdOf[h])
  BY DEF Leaves
<1>. QED
  BY <1>1, <1>2, <1>3, <1>4, HandleMoves

LEMMA MoreSteps ==
  ASSUME FhInv, NEW h \in Pair, Fh!Multiplies(h)
  PROVE  FhInv'
<1>1. ASSUME NEW g \in Pair, NEW f \in {"file", "owned"}, Fh!CloneOf(h, g, f) PROVE FhInv'
  <2>1. form[h] = f /\ Fh!Unused(g) /\ Becoming(g, f, fdOf[h])
    BY <1>1 DEF Fh!CloneOf, Becoming
  <2>2. UNCHANGED <<fdNumber, fdTable, strayed, op, ops, closes, leaked>>
    BY <1>1 DEF Fh!CloneOf, Fh!kernel
  <2>3. f \in Fh!Strong
    BY DEF Fh!Strong
  <2>. QED
    BY <2>1, <2>2, <2>3, HandleAdded
<1>2. ASSUME NEW g \in Pair, NEW d \in Fh!Fds, NEW f \in {"file", "owned"}, Fh!DupOf(h, g, d, f)
      PROVE  FhInv'
  <2>1. /\ Fh!Unused(g) /\ Fh!Numbered(d) /\ Becoming(g, f, d)
        /\ UNCHANGED <<strayed, closes, ops, op, leaked>>
    BY <1>2 DEF Fh!DupOf, Becoming
  <2>2. fdOf[g] = None /\ op[g] = "none"
    BY <2>1, HandleFacts DEF Fh!Unused, Handed
  <2>3. d # None
    BY FileAssumption DEF Fh!Fds
  <2>4. f \in Handed /\ f # "none"
    BY DEF Handed
  <2>. QED
    BY <2>1, <2>2, <2>3, <2>4, FileNumbered
<1>3. CASE Fh!CloneRc(h) \/ Fh!CloseRcUnreferenced(h)
  <2>1. /\ \E n \in Int : rcs' = [rcs EXCEPT ![h] = n]
        /\ UNCHANGED <<form, fdOf, fdNumber, fdTable, strayed, closes, ops, op, leaked>>
    BY <1>3, HandleFacts DEF Fh!CloneRc, Fh!CloseRcUnreferenced, Fh!kernel
  <2>2. FhTypes'
    BY <2>1 DEF FhInv, FhTypes
  <2>3. FhTable' /\ FhOwners' /\ FhBorrowed' /\ ~strayed'
    BY <2>1 DEF FhInv, FhTable, FhOwners, FhBorrowed, Fh!Closing
  <2>. QED
    BY <2>2, <2>3 DEF FhInv
<1>4. CASE Fh!IntoOwned(h) \/ Fh!IntoFile(h)
  <2>1. PICK f \in {"file", "owned"} : Becoming(h, f, fdOf[h])
    BY <1>4 DEF Fh!IntoOwned, Fh!IntoFile, Becoming
  <2>2. form[h] \in {"file", "owned"} /\ op[h] = "none"
    BY <1>4 DEF Fh!IntoOwned, Fh!IntoFile, Fh!Idle
  <2>3. UNCHANGED <<fdNumber, fdTable, strayed, op, ops, closes, leaked>>
    BY <1>4 DEF Fh!IntoOwned, Fh!IntoFile, Fh!kernel
  <2>4. f \in Fh!Strong /\ form[h] \in Fh!Strong
    BY <2>2 DEF Fh!Strong
  <2>. QED
    BY <2>1, <2>2, <2>3, <2>4, HandleTurns
<1>5. ASSUME NEW f, Fh!DowngradeOf(h, f) PROVE FhInv'
  <2>1. UNCHANGED <<form, fdOf, rcs, fdNumber, fdTable, strayed, closes, ops, op, leaked>>
    BY <1>5 DEF Fh!DowngradeOf, Fh!handles, Fh!kernel
  <2>. QED
    BY <2>1, ZenonT(60) DEF FhInv, FhTypes, FhTable, FhOwners, FhBorrowed, Fh!Closing
<1>. QED
  BY <1>1, <1>2, <1>3, <1>4, <1>5
     DEF Fh!Multiplies, Fh!Clone, Fh!CloneOwned, Fh!Dup, Fh!DupOwned, Fh!Downgrade,
         Fh!DowngradeOwned

LEMMA UpgradeSteps ==
  ASSUME FhInv, NEW d \in Fh!Fds, NEW g \in Pair, Fh!Upgrade(d, g) \/ Fh!UpgradePanics(d, g)
  PROVE  FhInv'
<1>1. PICK h \in Pair : form[h] \in Fh!Strong /\ fdOf[h] = d
  BY DEF Fh!Upgrade, Fh!UpgradePanics, Fh!StrongOf
<1>2. /\ Fh!Unused(g)
      /\ Becoming(g, "owned", d) \/ Becoming(g, "unwinding", d)
  BY DEF Fh!Upgrade, Fh!UpgradePanics, Becoming
<1>3. UNCHANGED <<fdNumber, fdTable, strayed, op, ops, closes, leaked>>
  BY DEF Fh!Upgrade, Fh!UpgradePanics, Fh!kernel
<1>4. PICK f \in Fh!Strong : Becoming(g, f, d)
  BY <1>2 DEF Fh!Strong
<1>. QED
  BY <1>1, <1>2, <1>3, <1>4, HandleAdded

LEMMA FewerSteps ==
  ASSUME FhInv, NEW h \in Pair, Fh!Goes(h)
  PROVE  FhInv'
<1>1. CASE Fh!DropFile(h) \/ Fh!CloseLast(h) \/ Fh!CanNotBeClosed(h)
  <2>1. /\ form[h] \in {"file", "discarding"} /\ Becoming(h, "none", None)
        /\ \/ Fh!IsLast(h) /\ \E by \in {"close", "drop"} : closes' = closes \cup {<<fdOf[h], by>>}
           \/ ~Fh!IsLast(h) /\ closes' = closes
    BY <1>1 DEF Fh!DropFile, Fh!CloseLast, Fh!CanNotBeClosed, Fh!Idle, Fh!CloseLater,
                Becoming
  <2>2. UNCHANGED <<fdNumber, fdTable, strayed, op, ops, leaked>>
    BY <1>1 DEF Fh!DropFile, Fh!CloseLast, Fh!CanNotBeClosed, Fh!kernel
  <2>3. op[h] = "none"
    BY <1>1, <2>1, HandleFacts DEF Fh!DropFile, Fh!CloseLast, Fh!CanNotBeClosed, Fh!Idle
  <2>4. form[h] \in Fh!Strong
    BY <2>1 DEF Fh!Strong
  <2>5. /\ fdOf[h] \in Fh!Fds /\ fdOf[h] # None
        /\ Fh!IsLast(h) => \A g \in Pair : fdOf[g] = fdOf[h] => g = h
        /\ ~Fh!IsLast(h) => \E g \in Pair : g # h /\ fdOf[g] = fdOf[h]
    BY <2>4, LastHasItAlone
  <2>6. Moves(h, "none", None)
    BY <2>1, <2>2, <2>3 DEF Moves, Fh!Strong
  <2>7. Leaves(h, None)
    BY <2>1, <2>2, <2>5 DEF Leaves
  <2>. QED
    BY <2>6, <2>7, HandleMoves
<1>2. CASE Fh!Discard(h)
  <2>1. form[h] = "file" /\ op[h] = "none" /\ Becoming(h, "discarding", fdOf[h])
    BY <1>2 DEF Fh!Discard, Fh!Idle, Becoming
  <2>2. UNCHANGED <<fdNumber, fdTable, strayed, op, ops, closes, leaked>>
    BY <1>2 DEF Fh!Discard, Fh!kernel
  <2>. QED
    BY <2>1, <2>2, HandleTurns DEF Fh!Strong
<1>3. CASE Fh!DropOwned(h) \/ Fh!Unwind(h)
  <2>1. /\ form[h] \in {"owned", "unwinding"} /\ Becoming(h, "none", None)
        /\ IF Fh!IsLast(h) THEN Fh!CloseNow(fdOf[h]) ELSE UNCHANGED fdTable
        /\ UNCHANGED <<fdNumber, strayed, op, ops, closes, leaked>>
    BY <1>3 DEF Fh!DropOwned, Fh!Unwind, Fh!Idle, Becoming
  <2>2. op[h] = "none"
    BY <2>1, HandleFacts
  <2>3. form[h] \in Fh!Strong
    BY <2>1 DEF Fh!Strong
  <2>. QED
    BY <2>1, <2>2, <2>3, HandleCloses
<1>. QED
  BY <1>1, <1>2, <1>3 DEF Fh!Goes, Fh!CloseFile, Fh!CloseBuffered, Fh!CloseImmutable

(* A queued close runs, on its own descriptor, or its future is dropped first.    *)
LEMMA CloseSteps ==
  ASSUME FhInv, NEW d \in Fh!Fds, NEW by \in {"close", "drop"},
         Fh!RunClose(d, by) \/ Fh!DropClose(d)
  PROVE  FhInv'
<1>1. PICK c \in closes : c[1] = d /\ closes' = closes \ {c}
  BY DEF Fh!RunClose, Fh!DropClose
<1>2. UNCHANGED <<form, fdOf, rcs, fdNumber, op, ops>>
  BY DEF Fh!RunClose, Fh!DropClose, Fh!handles, Fh!kernel
<1>3. /\ fdNumber[d] # None /\ fdTable[fdNumber[d]] = d
      /\ \A h \in Pair : fdOf[h] # d
      /\ \A e \in closes : e[1] \in Fh!Fds /\ (e[1] = d => e = c)
  BY <1>1 DEF FhInv, FhTypes, FhTable, FhOwners
<1>4. \A e \in Fh!Fds \ {d} : Fh!Closing(e)' <=> Fh!Closing(e)
  BY <1>1 DEF Fh!Closing
<1>5. CASE Fh!RunClose(d, by)
  <2>1. Fh!CloseNow(d) /\ strayed' = (strayed \/ fdTable[fdNumber[d]] # d) /\ leaked' = leaked
    BY <1>5 DEF Fh!RunClose
  <2>2. /\ fdTable' \in [Fh!Fds -> Fh!Fds \cup {None}]
        /\ \A n \in Fh!Fds : fdTable'[n] # None => fdNumber[fdTable'[n]] = n
        /\ \A e \in Fh!Fds : e # d /\ fdNumber[e] # None /\ fdTable[fdNumber[e]] = e
                               => fdTable'[fdNumber[e]] = e
        /\ \A e \in Fh!Fds : fdNumber[e] # None /\ fdTable'[fdNumber[e]] = e
                               => e # d /\ fdTable[fdNumber[e]] = e
    BY <1>2, <1>3, <2>1, TableCloses
  <2>3. FhTypes'
    BY <1>1, <1>2, <2>2 DEF FhInv, FhTypes
  <2>4. FhTable'
    <3>1. \A h \in Pair : fdOf[h] # None => /\ fdOf[h] \in Fh!Fds /\ fdOf[h] # d
                                            /\ fdNumber[fdOf[h]] # None
                                            /\ fdTable[fdNumber[fdOf[h]]] = fdOf[h]
      BY <1>3 DEF FhInv, FhTypes, FhTable
    <3>2. \A e \in closes' : /\ e[1] \in Fh!Fds /\ e[1] # d
                             /\ fdNumber[e[1]] # None /\ fdTable[fdNumber[e[1]]] = e[1]
      BY <1>1, <1>3, CloseFacts
    <3>. QED
      BY <1>2, <2>2, <3>1, <3>2 DEF FhTable
  <2>5. FhOwners'
    BY <1>1, <1>2, <1>3, <1>4, <2>1, <2>2 DEF FhInv, FhOwners
  <2>6. FhBorrowed' /\ ~strayed'
    BY <1>2, <1>3, <2>1 DEF FhInv, FhBorrowed
  <2>. QED
    BY <2>3, <2>4, <2>5, <2>6 DEF FhInv
<1>6. CASE Fh!DropClose(d)
  <2>1. leaked' = leaked \cup {d} /\ UNCHANGED <<fdTable, strayed>>
    BY <1>6 DEF Fh!DropClose, Fh!kernel
  <2>2. FhTypes' /\ FhTable'
    BY <1>1, <1>2, <2>1 DEF FhInv, FhTypes, FhTable
  <2>3. FhOwners'
    BY <1>1, <1>2, <1>4, <2>1 DEF FhInv, FhOwners
  <2>4. FhBorrowed' /\ ~strayed'
    BY <1>2, <2>1 DEF FhInv, FhBorrowed
  <2>. QED
    BY <2>2, <2>3, <2>4 DEF FhInv
<1>. QED
  BY <1>5, <1>6

(* An operation that is not abandoned has its future: the handle that it borrows  *)
(* keeps the file open until it has run.                                          *)
LEMMA OperationSteps ==
  ASSUME FhInv, NEW h \in Pair, Fh!Operates(h)
  PROVE  FhInv'
<1>1. ASSUME NEW where \in {"ring", "pool"}, Fh!StartOp(h, where) PROVE FhInv'
  <2>1. /\ form[h] = "file" /\ op[h] = "none" /\ op' = [op EXCEPT ![h] = where]
        /\ ops' = ops \cup {<<h, fdOf[h], where>>}
        /\ UNCHANGED <<form, fdOf, rcs, fdNumber, fdTable, strayed, closes, leaked>>
    BY <1>1 DEF Fh!StartOp, Fh!handles, Fh!kernel
  <2>2. fdOf[h] \in Fh!Fds
    BY <2>1, HandleFacts DEF Fh!Strong
  <2>3. \A e \in ops : e[3] # "abandoned" => e[1] # h
    BY <2>1 DEF FhInv, FhBorrowed
  <2>4. FhTypes' /\ FhTable' /\ FhOwners' /\ ~strayed'
    BY <2>1 DEF FhInv, FhTypes, FhTable, FhOwners, Fh!Closing
  <2>5. FhBorrowed'
    <3>1. op'[h] = where /\ \A g \in Pair \ {h} : op'[g] = op[g]
      BY <2>1 DEF FhInv, FhTypes
    <3>2. \A g \in Pair : op'[g] # "none" => form[g] = "file"
      BY <2>1, <3>1 DEF FhInv, FhBorrowed
    <3>3. ASSUME NEW e \in ops
          PROVE  /\ e = <<e[1], e[2], e[3]>> /\ e[1] \in Pair /\ e[2] \in Fh!Fds
                 /\ e[3] # "none"
                 /\ e[3] # "abandoned" => op'[e[1]] = e[3] /\ fdOf[e[1]] = e[2]
      BY <2>3, <3>1 DEF FhInv, FhBorrowed
    <3>. QED
      BY <2>1, <2>2, <3>1, <3>2, <3>3 DEF FhBorrowed
  <2>. QED
    BY <2>4, <2>5 DEF FhInv
<1>2. CASE Fh!OpEnds(h) \/ Fh!DropOp(h)
  <2>1. /\ op' = [op EXCEPT ![h] = "none"]
        /\ \A e \in ops' \ ops : e = <<h, fdOf[h], "abandoned">> /\ op[h] # "none"
        /\ <<h, fdOf[h], op[h]>> \notin ops'
        /\ UNCHANGED <<form, fdOf, rcs, fdNumber, fdTable, strayed, closes, leaked>>
    <3>1. op[h] # "abandoned"
      BY DEF FhInv, FhTypes
    <3>. QED
      BY <1>2, <3>1 DEF Fh!OpEnds, Fh!DropOp, Fh!handles, Fh!kernel
  <2>2. op[h] # "none" => fdOf[h] \in Fh!Fds
    BY HandleFacts DEF Fh!Strong
  <2>3. FhTypes' /\ FhTable' /\ FhOwners' /\ ~strayed'
    BY <2>1 DEF FhInv, FhTypes, FhTable, FhOwners, Fh!Closing
  <2>4. \A e \in ops' : e[3] # "abandoned" => e \in ops /\ e[1] # h
    <3>1. \A e \in ops : e[3] # "abandoned" /\ e[1] = h => e = <<h, fdOf[h], op[h]>>
      BY DEF FhInv, FhBorrowed
    <3>. QED
      BY <2>1, <3>1
  <2>5. FhBorrowed'
    <3>1. \A g \in Pair : op'[g] # "none" => form'[g] = "file"
      BY <2>1 DEF FhInv, FhTypes, FhBorrowed
    <3>2. \A e \in ops' : /\ e = <<e[1], e[2], e[3]>> /\ e[1] \in Pair /\ e[2] \in Fh!Fds
                          /\ e[3] # "none"
      BY <2>1, <2>2 DEF FhInv, FhBorrowed
    <3>3. \A e \in ops' : e[3] # "abandoned" => op'[e[1]] = e[3] /\ fdOf'[e[1]] = e[2]
      BY <2>1, <2>4, <3>2 DEF FhInv, FhTypes, FhBorrowed
    <3>. QED
      BY <3>1, <3>2, <3>3 DEF FhBorrowed
  <2>. QED
    BY <2>3, <2>5 DEF FhInv
<1>3. ASSUME NEW d \in Fh!Fds, NEW w \in {"ring", "pool", "abandoned"}, Fh!RunOp(h, d, w)
      PROVE  FhInv'
  <2>1. /\ <<h, d, w>> \in ops /\ ops' = ops \ {<<h, d, w>>}
        /\ strayed' = (strayed \/ (w # "abandoned" /\ fdTable[fdNumber[d]] # d))
        /\ UNCHANGED <<form, fdOf, rcs, fdNumber, fdTable, closes, op, leaked>>
    BY <1>3 DEF Fh!RunOp, Fh!handles
  <2>2. w # "abandoned" => fdTable[fdNumber[d]] = d
    <3>1. w # "abandoned" => fdOf[h] = d
      BY <2>1 DEF FhInv, FhBorrowed
    <3>2. d # None
      BY FileAssumption DEF Fh!Fds
    <3>. QED
      BY <3>1, <3>2 DEF FhInv, FhTable
  <2>3. FhTypes' /\ FhTable' /\ FhOwners'
    BY <2>1 DEF FhInv, FhTypes, FhTable, FhOwners, Fh!Closing
  <2>4. FhBorrowed' /\ ~strayed'
    BY <2>1, <2>2 DEF FhInv, FhBorrowed
  <2>. QED
    BY <2>3, <2>4 DEF FhInv
<1>. QED
  BY <1>1, <1>2, <1>3
     DEF Fh!Operates, Fh!WriteAt, Fh!ReadAt, Fh!BufferedReadWriteAt, Fh!Fallocate,
         Fh!Fdatasync, Fh!StatX, Fh!Truncate, Fh!CopyFileRange

LEMMA FilesStep == FhInv /\ [Fh!Next]_Fh!fileVars => FhInv'
<1>. SUFFICES ASSUME FhInv, [Fh!Next]_Fh!fileVars PROVE FhInv'
  OBVIOUS
<1>1. CASE Fh!Next
  BY <1>1, OpenSteps, MoreSteps, FewerSteps, OperationSteps, CloseSteps, UpgradeSteps
     DEF Fh!Next
<1>2. CASE UNCHANGED Fh!fileVars
  BY <1>2, ZenonT(60) DEF Fh!fileVars, Fh!handles, Fh!kernel, FhInv, FhTypes, FhTable, FhOwners,
              FhBorrowed, Fh!Closing
<1>. QED
  BY <1>1, <1>2

(* However the handles of a file are cloned, duplicated, sent to another thread,  *)
(* upgraded from a weak one, closed and dropped, and however the kernel uses its  *)
(* numbers again: whoever has a handle has its file open, a file without one is   *)
(* closed, about to be, or lost with a dropped future, and every operation and    *)
(* every close reaches the file it was made for.                                  *)
THEOREM FilesAreOwned ==
  Fh!Spec => []Fh!FilesOwned /\ [](subject = "FileHandles" => FilesServed)
<1>1. ASSUME FhInv PROVE Fh!FilesOwned /\ (subject = "FileHandles" => FilesServed)
  <2>1. Fh!OpenWhileHeld
    <3>. SUFFICES ASSUME NEW d \in Fh!Fds, fdNumber[d] # None
                  PROVE  IF Fh!StrongOf(d) # {}
                         THEN fdTable[fdNumber[d]] = d /\ ~Fh!Closing(d)
                         ELSE fdTable[fdNumber[d]] = d =>
                                \/ Fh!Closing(d) \/ d \in leaked
                                \/ \E h \in Pair : form[h] = "opening" /\ fdOf[h] = d
      BY DEF Fh!OpenWhileHeld
    <3>0. d # None
      BY FileAssumption DEF Fh!Fds
    <3>1. ASSUME NEW h \in Pair, fdOf[h] = d PROVE fdTable[fdNumber[d]] = d /\ ~Fh!Closing(d)
      <4>1. fdTable[fdNumber[d]] = d
        BY <1>1, <3>0, <3>1 DEF FhInv, FhTable
      <4>2. \A c \in closes : c[1] # d
        BY <1>1, <3>1 DEF FhInv, FhOwners
      <4>. QED
        BY <4>1, <4>2 DEF Fh!Closing
    <3>2. ASSUME NEW h \in Pair, fdOf[h] = d, Fh!StrongOf(d) = {} PROVE form[h] = "opening"
      <4>1. form[h] \in Handed
        BY <1>1, <3>0, <3>2 DEF FhInv, FhOwners
      <4>. QED
        BY <3>2, <4>1 DEF Fh!StrongOf, Fh!Strong, Handed
    <3>3. fdTable[fdNumber[d]] = d => \/ \E h \in Pair : fdOf[h] = d
                                      \/ Fh!Closing(d) \/ d \in leaked
      BY <1>1 DEF FhInv, FhOwners
    <3>4. Fh!StrongOf(d) # {} => \E h \in Pair : fdOf[h] = d
      BY DEF Fh!StrongOf
    <3>. QED
      BY <3>1, <3>2, <3>3, <3>4
  <2>2. Fh!FilesOwned
    BY <1>1, <2>1 DEF Fh!FilesOwned, Fh!OwnFileOnly, FhInv
  <2>. QED
    BY <2>2 DEF FilesServed
<1>. QED
  BY <1>1, FilesInit, FilesStep, PTL DEF Fh!Spec

==================================================================================
