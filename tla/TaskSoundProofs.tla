----------------------------- MODULE TaskSoundProofs -----------------------------
(* There is one runnable and one user of the future of a task, an awaiter is    *)
(* told and a shutdown is complete, for any number of foreign threads, wakers   *)
(* and reentrant calls.  Rests on the invariant of TaskLifecycleProofs.         *)
EXTENDS TaskLifecycleProofs

----------------------------------------------------------------------------------
(* One runnable, one user of the future, an awaiter that is told, a complete    *)
(* shutdown: what the frames and the flags say together, on top of TlInv.       *)

(* Frames that are only ever the running one, and frames between which the      *)
(* future is dropped.                                                           *)
Brief == {"run", "schedule", "schedule_owned", "close", "shutdown", "drop_future"}
Dropping == {"completed", "close_end", "in_place_end", "pending_closed_end"}
Telling == {"completed", "ready_end", "close_end", "pending_closed_end"}
FromRun == {"run", "poll", "end_run", "completed", "pending_closed_end", "ready_end"}

(* What the frame x may find below it.                                          *)
Seats(x, B) ==
  /\ B \cap Brief = {}
  /\ "push" \in B => x = "cancel"
  /\ "finish" \in B => x = "close" \/ x \in RunFrames \/ B \cap RunFrames # {}
  /\ x \in {"drop_future", "dtor"} => B \cap Dropping # {}
  /\ x = "push" => B \cap SchedEnds # {}
  /\ x \in {"leave", "finish_shutdown"} \cup SchedEnds => B \cap RunFrames = {}
  /\ x \in {"poll", "end_run"} => B = {}
  /\ x = "completed" => "end_run" \in B
  /\ x = "shutdown" => "finish_shutdown" \in B
  /\ x \in {"close", "close_end"} => B \cap {"finish", "end_run"} # {}
  /\ x = "in_place_end" => "finish_shutdown" \notin B
  /\ x \in {"user", "drop_handle"} /\ "in_place_end" \in B => "dtor" \in B
  /\ x = "request_shutdown" => "close_foreign_wakes" \notin B
  /\ x \in {"dtor", "user", "drop_handle", "unborrow", "cancel_in_place"} /\ "finish_shutdown" \in B
       => B \cap RunFrames # {}
SeatedIn(s) == \A i \in 1 .. Len(s) : Seats(s[i], From(s, i + 1))

(* The frames that stand for the runnable, and those that use the future.       *)
Runnable == {"run", "poll", "end_run", "schedule_owned", "push"}
Runs(s) == Cardinality(Places(s, Runnable))
Using == {"poll", "dtor"}
Uses(s) == Cardinality(Places(s, Using))
One(x, P) == IF x \in P THEN 1 ELSE 0

(* There is at most one runnable; a task that is not scheduled, running or      *)
(* closed has none, and between two steps of the executor SCHEDULED says        *)
(* whether there is one.                                                        *)
Queued == runq = 1 \/ "push" \in Frames \/ Top \in {"run", "schedule", "schedule_owned"}
Sole ==
  /\ runq + Runs(stack) <= 1
  /\ runq + Runs(stack) = 1 =>
       Has("SCHEDULED") \/ Has("RUNNING") \/ Ended \/ Top \in {"end_run", "close"}
  /\ Top = "schedule" => runq + Runs(stack) = 0 /\ Has("SCHEDULED")
  /\ Top \in {"schedule", "schedule_owned"} \/ "push" \in Frames => ~Has("RUNNING")
  /\ Top \in {"schedule", "schedule_owned"} => ~Has("SCHEDULE_DROPPED")
  /\ "end_run" \in Frames => Top \in {"end_run", "close"} \/ "completed" \in Frames \/ Ended
  /\ "end_run" \in Frames /\ Has("SCHEDULED") =>
       "completed" \in Frames \/ "pending_closed_end" \in Frames
  /\ Has("SCHEDULED") => \/ runq + Runs(stack) = 1 \/ Top = "schedule"
                         \/ "pending_closed_end" \in Frames
                         \/ (Top = "close" /\ ~Has("RUNNING"))
  /\ Queued => Has("SCHEDULED") \/ "finish_shutdown" \in Frames
  /\ Top = "close" => runq = 0 \/ "finish_shutdown" \in Frames
  /\ "pending_closed_end" \in Frames => runq = 0

(* The future is dropped once, by a frame that ends the task.                   *)
Dropped ==
  /\ Uses(stack) <= 1
  /\ "dtor" \in Frames => Has("FUTURE_DROPPED")
  /\ "poll" \in Frames => ~Has("FUTURE_DROPPED") /\ linked
  /\ Frames \cap {"pending_closed_end", "close_end", "in_place_end", "ready_end"} # {} => Ended
  /\ Frames \cap Dropping # {} => Has("FUTURE_DROPPED") \/ Top = "drop_future"
  /\ "ready_end" \in Frames => Has("FUTURE_DROPPED")
  /\ Has("COMPLETED") => Has("FUTURE_DROPPED")
  /\ Has("OUTPUT_PRESENT") => Has("COMPLETED")

(* A task that ended with its future has a runnable that will drop it; a        *)
(* registered awaiter of a dropped future is told by a frame or by the runnable.*)
Awaited ==
  /\ Ended /\ ~Has("FUTURE_DROPPED") => Queued \/ Has("RUNNING") \/ Top = "close"
  /\ "in_place_end" \in Frames /\ ("dtor" \in Frames \/ (Top = "drop_future" /\ ~Has("FUTURE_DROPPED")))
       => runq = 1
  /\ awaiter /\ Has("FUTURE_DROPPED") =>
       Queued \/ Frames \cap Telling # {} \/ (Top = "close" /\ ~Has("RUNNING"))

(* The channel is closed and emptied before the shutdown; a task that was       *)
(* unlinked has lost its schedule closure, or a frame is there to drop it.      *)
Shutting ==
  /\ "close_foreign_wakes" \in Frames \/ "request_shutdown" \in Frames => closed
  /\ closed => "close_foreign_wakes" \in Frames \/ (chanWake = 0 /\ chanCleanup = 0)
  /\ shut => closed /\ "close_foreign_wakes" \notin Frames
  /\ exec = "gone" \/ "finish_shutdown" \in Frames => shut
  /\ exec = "gone" => runq = 0 /\ ~linked /\ "push" \notin Frames
  /\ "leave" \in Frames \/ "finish_shutdown" \in Frames => Frames \cap FromRun = {}
  /\ "finish_shutdown" \in Frames => "in_place_end" \notin Frames
  /\ ~linked => Has("FUTURE_DROPPED") \/ Has("RUNNING") \/ Top = "close"
  /\ ~linked /\ ~Has("SCHEDULE_DROPPED") /\ Frames \cap SchedEnds = {} =>
       "finish" \in Frames /\ ("finish_shutdown" \in Frames \/ (Top = "finish" /\ ~Has("RUNNING")))

Sound == Sole /\ Dropped /\ Awaited /\ Shutting
TlSound == SeatedIn(stack) /\ Sound

----------------------------------------------------------------------------------
(* Pushing and popping a seated frame.                                          *)

LEMMA SeatOne ==
  ASSUME NEW x \in Names, NEW t \in Seq(Names), SeatedIn(t), Seats(x, Members(t))
  PROVE  /\ Push(x, t) \in Seq(Names) /\ SeatedIn(Push(x, t))
         /\ Members(Push(x, t)) = Members(t) \cup {x}
         /\ Runs(Push(x, t)) = Runs(t) + One(x, Runnable) /\ Runs(t) \in Nat
         /\ Uses(Push(x, t)) = Uses(t) + One(x, Using) /\ Uses(t) \in Nat
<1>. DEFINE s == Push(x, t)
<1>1. Len(s) = Len(t) + 1 /\ s[1] = x /\ s \in Seq(Names) /\ Len(t) \in Nat
  <2>1. <<x>> \in Seq(Names)
    OBVIOUS
  <2>2. s \in Seq(Names)
    BY <2>1 DEF Push
  <2>. QED
    BY <2>2 DEF Push
<1>2. \A i \in 2 .. Len(s) : i - 1 \in 1 .. Len(t) /\ s[i] = t[i - 1]
  BY DEF Push
<1>3. s = Push(x, t)
  OBVIOUS
<1>. HIDE DEF s
<1>4. From(s, 1 + 1) = Members(t) /\ Members(s) = Members(t) \cup {x}
  BY <1>3, FromPush
<1>5. ASSUME NEW i \in 2 .. Len(s) PROVE From(s, i + 1) = From(t, (i - 1) + 1)
  <2>1. i \in Nat \ {0} /\ (i - 1) + 1 = i
    BY <1>1
  <2>. QED
    BY <1>3, <2>1, FromShift
<1>6. ASSUME NEW i \in 1 .. Len(s) PROVE Seats(s[i], From(s, i + 1))
  <2>1. CASE i = 1
    BY <1>1, <1>4, <2>1
  <2>2. CASE i # 1
    <3>1. i \in 2 .. Len(s) /\ i - 1 \in 1 .. Len(t) /\ s[i] = t[i - 1]
      BY <1>1, <1>2, <2>2
    <3>2. Seats(t[i - 1], From(t, (i - 1) + 1))
      BY <3>1 DEF SeatedIn
    <3>. QED
      BY <1>5, <3>1, <3>2
  <2>. QED
    BY <2>1, <2>2
<1>7. SeatedIn(s)
  BY <1>6 DEF SeatedIn
<1>8. /\ Runs(s) = Runs(t) + One(x, Runnable) /\ Runs(t) \in Nat
      /\ Uses(s) = Uses(t) + One(x, Using) /\ Uses(t) \in Nat
  BY <1>3, CountPush DEF Runs, Uses, One
<1>. QED
  BY <1>1, <1>4, <1>7, <1>8 DEF s

LEMMA UnseatOne ==
  ASSUME NEW x \in Names, NEW t \in Seq(Names), SeatedIn(Push(x, t))
  PROVE  SeatedIn(t) /\ Seats(x, Members(t))
<1>. DEFINE s == Push(x, t)
<1>1. s = Push(x, t)
  OBVIOUS
<1>2. /\ Len(s) = Len(t) + 1 /\ s[1] = x /\ Len(t) \in Nat
      /\ \A i \in 1 .. Len(t) : t[i] = s[i + 1]
  BY DEF Push
<1>. HIDE DEF s
<1>3. From(s, 1 + 1) = Members(t)
  BY <1>1, FromPush
<1>4. \A k \in Nat \ {0} : From(s, k + 1) = From(t, k)
  BY <1>1, FromShift
<1>5. SeatedIn(s)
  BY <1>1
<1>6. Seats(x, Members(t))
  <2>1. 1 \in 1 .. Len(s)
    BY <1>2
  <2>2. Seats(s[1], From(s, 1 + 1))
    BY <1>5, <2>1 DEF SeatedIn
  <2>. QED
    BY <1>2, <1>3, <2>2
<1>7. ASSUME NEW i \in 1 .. Len(t) PROVE Seats(t[i], From(t, i + 1))
  <2>1. i + 1 \in 1 .. Len(s) /\ t[i] = s[i + 1] /\ i + 1 \in Nat \ {0}
    BY <1>2
  <2>2. Seats(s[i + 1], From(s, (i + 1) + 1))
    BY <1>5, <2>1 DEF SeatedIn
  <2>3. From(s, (i + 1) + 1) = From(t, i + 1)
    BY <1>4, <2>1
  <2>. QED
    BY <2>1, <2>2, <2>3
<1>. QED
  BY <1>6, <1>7 DEF SeatedIn

(* Frames that are not there are not counted.                                   *)
LEMMA NoneCounted ==
  ASSUME NEW t \in Seq(Names), NEW P
  PROVE  Members(t) \cap P = {} <=> Cardinality(Places(t, P)) = 0
<1>1. IsFiniteSet(Places(t, P))
  <2>1. Places(t, P) \in SUBSET (1 .. Len(t)) /\ Len(t) \in Int /\ 1 \in Int
    BY DEF Places
  <2>. QED
    BY <2>1, FS_Interval, FS_Subset
<1>2. Cardinality(Places(t, P)) = 0 <=> Places(t, P) = {}
  BY <1>1, FS_EmptySet
<1>3. Places(t, P) = {} <=> Members(t) \cap P = {}
  BY DEF Places, Members
<1>. QED
  BY <1>2, <1>3

(* What the frames ask of each other, wherever they lie.                        *)
Settled(B) ==
  /\ "close_end" \in B => B \cap {"finish", "end_run"} # {}
  /\ "dtor" \in B => B \cap Dropping # {}
  /\ "push" \in B => B \cap SchedEnds # {}
  /\ "completed" \in B => "end_run" \in B

LEMMA SeatedSettle ==
  ASSUME NEW s \in Seq(Names), SeatedIn(s) PROVE Settled(Members(s))
<1>1. ASSUME NEW y \in Members(s) PROVE \E B \in SUBSET Members(s) : Seats(y, B)
  <2>1. PICK i \in 1 .. Len(s) : s[i] = y
    BY DEF Members
  <2>2. Seats(y, From(s, i + 1))
    BY <2>1 DEF SeatedIn
  <2>3. From(s, i + 1) \subseteq Members(s)
    BY <2>1 DEF From, Members
  <2>. QED
    BY <2>2, <2>3
<1>2. "close_end" \in Members(s) => Members(s) \cap {"finish", "end_run"} # {}
  BY <1>1 DEF Seats
<1>3. "dtor" \in Members(s) => Members(s) \cap Dropping # {}
  BY <1>1 DEF Seats
<1>4. "push" \in Members(s) => Members(s) \cap SchedEnds # {}
  BY <1>1 DEF Seats
<1>5. "completed" \in Members(s) => "end_run" \in Members(s)
  BY <1>1 DEF Seats
<1>. QED
  BY <1>2, <1>3, <1>4, <1>5 DEF Settled

(* What is known of the stack s with the frames B.                              *)
Known(s, B) ==
  /\ Settled(B)
  /\ s \in Seq(Names) /\ SeatedIn(s) /\ Members(s) = B
  /\ Runs(s) \in Nat /\ (Runs(s) = 0 <=> B \cap Runnable = {})
  /\ Uses(s) \in Nat /\ (Uses(s) = 0 <=> B \cap Using = {})

LEMMA KnownStack ==
  ASSUME NEW s \in Seq(Names), SeatedIn(s) PROVE Known(s, Members(s))
<1>1. Runs(s) \in Nat /\ Uses(s) \in Nat
  <2>1. "run" \in Names
    BY DEF Names, Protecting, Holding
  <2>. QED
    BY <2>1, CountPush DEF Runs, Uses
<1>2. /\ (Runs(s) = 0 <=> Members(s) \cap Runnable = {})
      /\ (Uses(s) = 0 <=> Members(s) \cap Using = {})
  BY NoneCounted DEF Runs, Uses
<1>. QED
  BY <1>1, <1>2, SeatedSettle DEF Known

(* One frame at most has the task running.                                      *)
LEMMA OneRunFrame ==
  ASSUME TlInv, NEW a \in Frames \cap RunFrames, NEW b \in Frames \cap RunFrames PROVE a = b
<1>1. stack \in Seq(Names) /\ Stacked
  BY DEF TlInv, TlTypes
<1>2. ASSUME NEW s \in Seq(Names), Nested(s), NEW c \in Members(s) \cap RunFrames,
             NEW d \in Members(s) \cap RunFrames
      PROVE  c = d
  <2>1. PICK i \in 1 .. Len(s) : s[i] = c
    BY DEF Members
  <2>2. PICK j \in 1 .. Len(s) : s[j] = d
    BY DEF Members
  <2>3. ASSUME NEW k \in 1 .. Len(s), s[k] \in RunFrames, NEW l \in 1 .. Len(s), s[l] \in RunFrames
        PROVE  ~(k < l)
    <3>1. From(s, k + 1) \cap RunFrames = {}
      BY <1>2, <2>3 DEF Nested, Fits, Ordered
    <3>2. k < l => s[l] \in From(s, k + 1)
      BY <2>3 DEF From
    <3>. QED
      BY <2>3, <3>1, <3>2
  <2>. QED
    BY <1>2, <2>1, <2>2, <2>3
<1>3. stack # <<>>
  BY FramesAreMembers DEF Members
<1>. DEFINE x == Head(stack)
            t == Tail(stack)
<1>4. /\ t \in Seq(Names) /\ Nested(t) /\ Frames = Members(t) \cup {x}
      /\ (x \in RunFrames => Members(t) \cap RunFrames = {})
  <2>1. t \in Seq(Names) /\ Members(stack) = Members(t) \cup {x}
    BY <1>1, <1>3, PopOne
  <2>2. Nested(t) /\ Ordered(x, Members(t))
    BY <1>1, <1>3 DEF Stacked
  <2>. QED
    BY <2>1, <2>2, FramesAreMembers DEF Ordered
<1>. HIDE DEF x, t
<1>. QED
  BY <1>2, <1>4

(* The frame x runs on the stack t.                                             *)
OnTop(x, t) ==
  /\ t \in Seq(Names) /\ stack = Push(x, t) /\ Tail(stack) = t /\ Frames = Members(t) \cup {x}
  /\ Known(t, Members(t)) /\ Seats(x, Members(t)) /\ x \in Names
  /\ Runs(stack) = Runs(t) + One(x, Runnable) /\ Uses(stack) = Uses(t) + One(x, Using)

LEMMA TopSeat ==
  ASSUME TlInv, SeatedIn(stack), NEW x, Top = x, x # "none"
  PROVE  OnTop(x, Tail(stack))
<1>1. Running(x, Tail(stack))
  BY TopFacts DEF TlInv
<1>. DEFINE t == Tail(stack)
<1>2. t \in Seq(Names) /\ stack = Push(x, t) /\ Frames = Members(t) \cup {x} /\ x \in Names
  BY <1>1 DEF Running, Ordered
<1>. HIDE DEF t
<1>3. SeatedIn(t) /\ Seats(x, Members(t))
  BY <1>2, UnseatOne
<1>4. /\ Runs(Push(x, t)) = Runs(t) + One(x, Runnable)
      /\ Uses(Push(x, t)) = Uses(t) + One(x, Using)
  BY <1>2, <1>3, SeatOne
<1>. QED
  BY <1>2, <1>3, <1>4, KnownStack DEF OnTop, t

(* The next stack is seated, with the frames B and so many runnables and users. *)
Lies(B, n, u) ==
  /\ SeatedIn(stack') /\ Frames' = B /\ Runs(stack') = n /\ Uses(stack') = u

LEMMA Lie0 ==
  ASSUME NEW t, Known(t, Members(t)), stack' = t
  PROVE  Lies(Members(t), Runs(t), Uses(t)) /\ Top' \in Members(t) \cup {"none"}
<1>1. Frames' = Members(t)
  BY DEF Frames, Members
<1>2. CASE t = <<>>
  <2>1. Top' = "none"
    BY <1>2 DEF Top
  <2>. QED
    BY <1>1, <2>1 DEF Lies, Known
<1>3. CASE t # <<>>
  <2>1. Head(t) \in Members(t)
    <3>1. 1 \in 1 .. Len(t) /\ Head(t) = t[1]
      BY <1>3 DEF Known
    <3>. QED
      BY <3>1 DEF Members
  <2>2. Top' = Head(t)
    BY <1>3 DEF Top
  <2>. QED
    BY <1>1, <2>1, <2>2 DEF Lies, Known
<1>. QED
  BY <1>2, <1>3

LEMMA Lie1 ==
  ASSUME NEW t, Known(t, Members(t)), NEW a \in Names, stack' = Push(a, t), Seats(a, Members(t))
  PROVE  Lies(Members(t) \cup {a}, Runs(t) + One(a, Runnable), Uses(t) + One(a, Using)) /\ Top' = a
<1>1. /\ Push(a, t) \in Seq(Names) /\ SeatedIn(Push(a, t))
      /\ Members(Push(a, t)) = Members(t) \cup {a}
      /\ Runs(Push(a, t)) = Runs(t) + One(a, Runnable) /\ Uses(Push(a, t)) = Uses(t) + One(a, Using)
  BY SeatOne DEF Known
<1>2. Frames' = Members(stack')
  BY DEF Frames, Members
<1>3. Top' = a
  BY PushTop DEF Known
<1>. QED
  BY <1>1, <1>2, <1>3 DEF Lies

LEMMA Lie2 ==
  ASSUME NEW t, Known(t, Members(t)),
         NEW a \in Names, NEW b \in Names,
         stack' = Push(a, Push(b, t)),
         Seats(b, Members(t)), Seats(a, Members(t) \cup {b})
  PROVE  /\ Lies(Members(t) \cup {a, b},
                 Runs(t) + One(a, Runnable) + One(b, Runnable),
                 Uses(t) + One(a, Using) + One(b, Using))
         /\ Top' = a
<1>. DEFINE w == Push(b, t)
<1>1. /\ w \in Seq(Names) /\ SeatedIn(w) /\ Members(w) = Members(t) \cup {b}
      /\ Runs(w) = Runs(t) + One(b, Runnable) /\ Uses(w) = Uses(t) + One(b, Using)
  BY SeatOne DEF Known
<1>2. stack' = Push(a, w)
  OBVIOUS
<1>. HIDE DEF w
<1>3. Known(w, Members(w))
  BY <1>1, KnownStack
<1>4. /\ Members(w) \cup {a} = Members(t) \cup {a, b}
  BY <1>1
<1>5. /\ Seats(a, Members(w))
  BY <1>1, <1>4
<1>6. /\ Lies(Members(w) \cup {a},
              Runs(w) + One(a, Runnable),
              Uses(w) + One(a, Using))
      /\ Top' = a
  BY <1>2, <1>3, <1>5, Lie1
<1>7. /\ Runs(w) + One(a, Runnable)
         = Runs(t) + One(a, Runnable) + One(b, Runnable)
      /\ Uses(w) + One(a, Using)
         = Uses(t) + One(a, Using) + One(b, Using)
  BY <1>1 DEF Known, One
<1>. QED
  BY <1>4, <1>6, <1>7 DEF Lies

LEMMA Lie3 ==
  ASSUME NEW t, Known(t, Members(t)),
         NEW a \in Names, NEW b \in Names, NEW c \in Names,
         stack' = Push(a, Push(b, Push(c, t))),
         Seats(c, Members(t)), Seats(b, Members(t) \cup {c}),
         Seats(a, Members(t) \cup {b, c})
  PROVE  /\ Lies(Members(t) \cup {a, b, c},
                 Runs(t) + One(a, Runnable) + One(b, Runnable) + One(c, Runnable),
                 Uses(t) + One(a, Using) + One(b, Using) + One(c, Using))
         /\ Top' = a
<1>. DEFINE w == Push(c, t)
<1>1. /\ w \in Seq(Names) /\ SeatedIn(w) /\ Members(w) = Members(t) \cup {c}
      /\ Runs(w) = Runs(t) + One(c, Runnable) /\ Uses(w) = Uses(t) + One(c, Using)
  BY SeatOne DEF Known
<1>2. stack' = Push(a, Push(b, w))
  OBVIOUS
<1>. HIDE DEF w
<1>3. Known(w, Members(w))
  BY <1>1, KnownStack
<1>4. /\ Members(w) \cup {b} = Members(t) \cup {b, c}
      /\ Members(w) \cup {a, b} = Members(t) \cup {a, b, c}
  BY <1>1
<1>5. /\ Seats(b, Members(w))
      /\ Seats(a, Members(w) \cup {b})
  BY <1>1, <1>4
<1>6. /\ Lies(Members(w) \cup {a, b},
              Runs(w) + One(a, Runnable) + One(b, Runnable),
              Uses(w) + One(a, Using) + One(b, Using))
      /\ Top' = a
  BY <1>2, <1>3, <1>5, Lie2
<1>7. /\ Runs(w) + One(a, Runnable) + One(b, Runnable)
         = Runs(t) + One(a, Runnable) + One(b, Runnable) + One(c, Runnable)
      /\ Uses(w) + One(a, Using) + One(b, Using)
         = Uses(t) + One(a, Using) + One(b, Using) + One(c, Using)
  BY <1>1 DEF Known, One
<1>. QED
  BY <1>4, <1>6, <1>7 DEF Lies

LEMMA Lie4 ==
  ASSUME NEW t, Known(t, Members(t)),
         NEW a \in Names, NEW b \in Names, NEW c \in Names, NEW d \in Names,
         stack' = Push(a, Push(b, Push(c, Push(d, t)))),
         Seats(d, Members(t)), Seats(c, Members(t) \cup {d}),
         Seats(b, Members(t) \cup {c, d}), Seats(a, Members(t) \cup {b, c, d})
  PROVE  /\ Lies(Members(t) \cup {a, b, c, d},
                 Runs(t) + One(a, Runnable) + One(b, Runnable) + One(c, Runnable) + One(d, Runnable),
                 Uses(t) + One(a, Using) + One(b, Using) + One(c, Using) + One(d, Using))
         /\ Top' = a
<1>. DEFINE w == Push(d, t)
<1>1. /\ w \in Seq(Names) /\ SeatedIn(w) /\ Members(w) = Members(t) \cup {d}
      /\ Runs(w) = Runs(t) + One(d, Runnable) /\ Uses(w) = Uses(t) + One(d, Using)
  BY SeatOne DEF Known
<1>2. stack' = Push(a, Push(b, Push(c, w)))
  OBVIOUS
<1>. HIDE DEF w
<1>3. Known(w, Members(w))
  BY <1>1, KnownStack
<1>4. /\ Members(w) \cup {c} = Members(t) \cup {c, d}
      /\ Members(w) \cup {b, c} = Members(t) \cup {b, c, d}
      /\ Members(w) \cup {a, b, c} = Members(t) \cup {a, b, c, d}
  BY <1>1
<1>5. /\ Seats(c, Members(w))
      /\ Seats(b, Members(w) \cup {c})
      /\ Seats(a, Members(w) \cup {b, c})
  BY <1>1, <1>4
<1>6. /\ Lies(Members(w) \cup {a, b, c},
              Runs(w) + One(a, Runnable) + One(b, Runnable) + One(c, Runnable),
              Uses(w) + One(a, Using) + One(b, Using) + One(c, Using))
      /\ Top' = a
  BY <1>2, <1>3, <1>5, Lie3
<1>7. /\ Runs(w) + One(a, Runnable) + One(b, Runnable) + One(c, Runnable)
         = Runs(t) + One(a, Runnable) + One(b, Runnable) + One(c, Runnable) + One(d, Runnable)
      /\ Uses(w) + One(a, Using) + One(b, Using) + One(c, Using)
         = Uses(t) + One(a, Using) + One(b, Using) + One(c, Using) + One(d, Using)
  BY <1>1 DEF Known, One
<1>. QED
  BY <1>4, <1>6, <1>7 DEF Lies

LEMMA Lie5 ==
  ASSUME NEW t, Known(t, Members(t)),
         NEW a \in Names, NEW b \in Names, NEW c \in Names, NEW d \in Names, NEW e \in Names,
         stack' = Push(a, Push(b, Push(c, Push(d, Push(e, t))))),
         Seats(e, Members(t)), Seats(d, Members(t) \cup {e}),
         Seats(c, Members(t) \cup {d, e}), Seats(b, Members(t) \cup {c, d, e}),
         Seats(a, Members(t) \cup {b, c, d, e})
  PROVE  /\ Lies(Members(t) \cup {a, b, c, d, e},
                 Runs(t) + One(a, Runnable) + One(b, Runnable) + One(c, Runnable) + One(d, Runnable) + One(e, Runnable),
                 Uses(t) + One(a, Using) + One(b, Using) + One(c, Using) + One(d, Using) + One(e, Using))
         /\ Top' = a
<1>. DEFINE w == Push(e, t)
<1>1. /\ w \in Seq(Names) /\ SeatedIn(w) /\ Members(w) = Members(t) \cup {e}
      /\ Runs(w) = Runs(t) + One(e, Runnable) /\ Uses(w) = Uses(t) + One(e, Using)
  BY SeatOne DEF Known
<1>2. stack' = Push(a, Push(b, Push(c, Push(d, w))))
  OBVIOUS
<1>. HIDE DEF w
<1>3. Known(w, Members(w))
  BY <1>1, KnownStack
<1>4. /\ Members(w) \cup {d} = Members(t) \cup {d, e}
      /\ Members(w) \cup {c, d} = Members(t) \cup {c, d, e}
      /\ Members(w) \cup {b, c, d} = Members(t) \cup {b, c, d, e}
      /\ Members(w) \cup {a, b, c, d} = Members(t) \cup {a, b, c, d, e}
  BY <1>1
<1>5. /\ Seats(d, Members(w))
      /\ Seats(c, Members(w) \cup {d})
      /\ Seats(b, Members(w) \cup {c, d})
      /\ Seats(a, Members(w) \cup {b, c, d})
  BY <1>1, <1>4
<1>6. /\ Lies(Members(w) \cup {a, b, c, d},
              Runs(w) + One(a, Runnable) + One(b, Runnable) + One(c, Runnable) + One(d, Runnable),
              Uses(w) + One(a, Using) + One(b, Using) + One(c, Using) + One(d, Using))
      /\ Top' = a
  BY <1>2, <1>3, <1>5, Lie4
<1>7. /\ Runs(w) + One(a, Runnable) + One(b, Runnable) + One(c, Runnable) + One(d, Runnable)
         = Runs(t) + One(a, Runnable) + One(b, Runnable) + One(c, Runnable) + One(d, Runnable) + One(e, Runnable)
      /\ Uses(w) + One(a, Using) + One(b, Using) + One(c, Using) + One(d, Using)
         = Uses(t) + One(a, Using) + One(b, Using) + One(c, Using) + One(d, Using) + One(e, Using)
  BY <1>1 DEF Known, One
<1>. QED
  BY <1>4, <1>6, <1>7 DEF Lies

----------------------------------------------------------------------------------
(* Steps that leave alone what Sound speaks of.                                 *)

Noted == FromRun \cup Dropping \cup SchedEnds
           \cup {"push", "dtor", "leave", "finish_shutdown", "close_foreign_wakes", "request_shutdown"}

SameFlags ==
  /\ \A f \in {"SCHEDULED", "RUNNING", "COMPLETED", "FUTURE_DROPPED", "SCHEDULE_DROPPED"} :
       f \in st' <=> f \in st
  /\ ("CLOSED" \in st' \/ "COMPLETED" \in st') <=> Ended
  /\ "OUTPUT_PRESENT" \in st' => "OUTPUT_PRESENT" \in st

SameFrames ==
  /\ \A f \in Noted : f \in Frames' <=> f \in Frames
  /\ "finish" \in Frames => "finish" \in Frames'
  /\ Top' = Top \/ (Top \notin Brief \cup {"end_run", "finish"} /\ Top' \notin Brief)
  /\ Runs(stack') = Runs(stack) /\ Uses(stack') = Uses(stack)

SameRest ==
  /\ UNCHANGED <<runq, linked, closed, shut>> /\ (exec' = "gone" => exec = "gone")
  /\ closed /\ chanWake = 0 /\ chanCleanup = 0 => chanWake' = 0 /\ chanCleanup' = 0
  /\ awaiter' = TRUE => \/ awaiter = TRUE \/ ~Has("FUTURE_DROPPED") \/ runq = 1
                        \/ Frames \cap Telling # {}

LEMMA Alike ==
  ASSUME Sound, SameFlags, SameFrames, SameRest PROVE Sound'
<1>1. /\ \A f \in {"SCHEDULED", "RUNNING", "COMPLETED", "FUTURE_DROPPED", "SCHEDULE_DROPPED"} :
           Has(f)' <=> Has(f)
      /\ Ended' <=> Ended
      /\ Has("OUTPUT_PRESENT")' => Has("OUTPUT_PRESENT")
  BY DEF SameFlags, Has, Ended
<1>2. \A f \in Noted : f \in Frames' <=> f \in Frames
  BY DEF SameFrames
<1>3. Top' = Top \/ (Top \notin Brief \cup {"end_run", "finish"} /\ Top' \notin Brief)
  BY DEF SameFrames
<1>4. Queued' <=> Queued
  BY <1>2, <1>3 DEF Queued, Noted, Brief, SameRest
<1>5. Sole'
  BY <1>1, <1>2, <1>3, <1>4 DEF Sound, Sole, Noted, FromRun, Brief, SameFrames, SameRest
<1>6. Dropped'
  BY <1>1, <1>2, <1>3 DEF Sound, Dropped, Noted, FromRun, Dropping, Brief, SameFrames, SameRest
<1>7. Awaited'
  BY <1>1, <1>2, <1>3, <1>4
     DEF Sound, Awaited, Noted, FromRun, Dropping, Telling, Brief, SameFrames, SameRest, Queued
<1>8. Shutting'
  BY <1>1, <1>2, <1>3
     DEF Sound, Shutting, Noted, FromRun, Dropping, SchedEnds, Brief, SameFrames, SameRest
<1>. QED
  BY <1>5, <1>6, <1>7, <1>8 DEF Sound

(* User code, and what it may find on the stack.                                *)
UserSeats ==
  /\ Known(stack, Members(stack)) /\ Frames = Members(stack)
  /\ Members(stack) \cap Brief = {} /\ "push" \notin Members(stack)
  /\ "finish" \in Members(stack) \/ "finish_shutdown" \in Members(stack) =>
       Members(stack) \cap RunFrames # {}
  /\ "in_place_end" \in Members(stack) => "dtor" \in Members(stack)
  /\ Top \notin Brief \cup {"end_run", "finish"}

LEMMA UserSeated ==
  ASSUME TlInv, TlSound, UserCode PROVE UserSeats
<1>1. Known(stack, Members(stack)) /\ Frames = Members(stack)
  BY KnownStack, FramesAreMembers DEF TlInv, TlTypes, TlSound
<1>2. CASE stack = <<>>
  <2>1. Members(stack) = {} /\ Top = "none"
    BY <1>2 DEF Members, Top
  <2>. QED
    BY <1>1, <2>1 DEF UserSeats, Brief
<1>3. CASE Top \in {"poll", "dtor", "user"}
  <2>1. OnTop(Top, Tail(stack))
    BY <1>3, TopSeat DEF TlSound
  <2>. QED
    BY <1>1, <1>3, <2>1 DEF UserSeats, OnTop, Seats, Brief, Dropping, RunFrames
<1>. QED
  BY <1>2, <1>3 DEF UserCode

(* The steps of frames that only pass references on.                            *)
LEMMA Sound_release ==
  ASSUME TlInv, TlSound, release PROVE TlSound'
<1>. DEFINE t == Tail(stack)
<1>1. /\ TlTypes /\ Stacked /\ Registered /\ Flagged /\ Finished
      /\ SeatedIn(stack) /\ Sole /\ Dropped /\ Awaited /\ Shutting /\ Sound
  BY DEF TlInv, TlSound, Sound
<1>2. OnTop("release", t) /\ Top = "release"
  BY TopSeat DEF TlSound, release, ReleaseRefs
<1>3. Tail(stack) = t /\ t \in Seq(Names)
  BY <1>2 DEF OnTop
<1>4. stack' = t
  BY <1>3 DEF release, Has, Return
<1>5. /\ SeatedIn(stack') /\ Frames' = Members(t) /\ Top' \in Members(t) \cup {"none"}
      /\ Runs(stack') = Runs(t) /\ Uses(stack') = Uses(t)
  BY <1>1, <1>2, <1>4, Lie0 DEF OnTop, Lies
<1>6. SameFlags
  BY <1>1, <1>2 DEF SameFlags, Has, Ended, Dropped, release, ReleaseRefs, header, places,
     executor, channel, foreign
<1>7. SameFrames
  BY <1>1, <1>2, <1>5 DEF SameFrames, Noted, FromRun, Dropping, SchedEnds, RunFrames, Brief,
     Seats, One, Runnable, Using, Known, OnTop
<1>8. SameRest
  BY <1>1, <1>2 DEF SameRest, release, ReleaseRefs, header, places, executor, channel, foreign
<1>. QED
  BY <1>1, <1>2, <1>5, <1>6, <1>7, <1>8, Alike DEF TlSound

LEMMA Sound_release2 ==
  ASSUME TlInv, TlSound, release2 PROVE TlSound'
<1>. DEFINE t == Tail(stack)
<1>1. /\ TlTypes /\ Stacked /\ Registered /\ Flagged /\ Finished
      /\ SeatedIn(stack) /\ Sole /\ Dropped /\ Awaited /\ Shutting /\ Sound
  BY DEF TlInv, TlSound, Sound
<1>2. OnTop("release2", t) /\ Top = "release2"
  BY TopSeat DEF TlSound, release2, ReleaseRefs
<1>3. Tail(stack) = t /\ t \in Seq(Names)
  BY <1>2 DEF OnTop
<1>4. stack' = t
  BY <1>3 DEF release2, Has, Return
<1>5. /\ SeatedIn(stack') /\ Frames' = Members(t) /\ Top' \in Members(t) \cup {"none"}
      /\ Runs(stack') = Runs(t) /\ Uses(stack') = Uses(t)
  BY <1>1, <1>2, <1>4, Lie0 DEF OnTop, Lies
<1>6. SameFlags
  BY <1>1, <1>2 DEF SameFlags, Has, Ended, Dropped, release2, ReleaseRefs, header, places,
     executor, channel, foreign
<1>7. SameFrames
  BY <1>1, <1>2, <1>5 DEF SameFrames, Noted, FromRun, Dropping, SchedEnds, RunFrames, Brief,
     Seats, One, Runnable, Using, Known, OnTop
<1>8. SameRest
  BY <1>1, <1>2 DEF SameRest, release2, ReleaseRefs, header, places, executor, channel, foreign
<1>. QED
  BY <1>1, <1>2, <1>5, <1>6, <1>7, <1>8, Alike DEF TlSound

LEMMA Sound_drop_waker ==
  ASSUME TlInv, TlSound, drop_waker PROVE TlSound'
<1>. DEFINE t == Tail(stack)
<1>1. /\ TlTypes /\ Stacked /\ Registered /\ Flagged /\ Finished
      /\ SeatedIn(stack) /\ Sole /\ Dropped /\ Awaited /\ Shutting /\ Sound
  BY DEF TlInv, TlSound, Sound
<1>2. OnTop("drop_waker", t) /\ Top = "drop_waker"
  BY TopSeat DEF TlSound, drop_waker, ReleaseRefs, Accepts
<1>3. Tail(stack) = t /\ t \in Seq(Names)
  BY <1>2 DEF OnTop
<1>4. CASE refs = 2 /\ active /\ Entered
  <2>1. stack' = Push("do_cleanup", Push("release", t))
    BY <1>4, <1>3 DEF drop_waker, Has, Return, Push
  <2>2. /\ Seats("release", Members(t))
        /\ Seats("do_cleanup", Members(t) \cup {"release"})
    BY <1>1, <1>2, <1>4 DEF OnTop, Seats, Brief, Dropping, SchedEnds, RunFrames, FromRun, TlInv,
       Flagged, Registered, Has, Sole, Dropped, Awaited, Shutting, drop_waker, ReleaseRefs,
       Accepts
  <2>3. "do_cleanup" \in Names /\ "release" \in Names
    BY DEF Names, Protecting, Holding, Bare, Neutral, SchedEnds
  <2>4. /\ Lies(Members(t) \cup {"do_cleanup", "release"},
                Runs(t) + One("do_cleanup", Runnable) + One("release", Runnable),
                Uses(t) + One("do_cleanup", Using) + One("release", Using))
        /\ Top' = "do_cleanup"
    BY <1>1, <1>2, <1>4, <2>1, <2>2, <2>3, Lie2 DEF OnTop
  <2>5. /\ SeatedIn(stack') /\ Frames' = Members(t) \cup {"do_cleanup", "release"}
        /\ Runs(stack') = Runs(t) /\ Uses(stack') = Uses(t) /\ Top' = "do_cleanup"
    BY <1>1, <1>2, <1>4, <2>4 DEF Lies, One, Runnable, Using, Known, OnTop
  <2>6. SameFlags
    BY <1>1, <1>2, <1>4 DEF SameFlags, Has, Ended, Dropped, drop_waker, ReleaseRefs, Accepts,
       header, places, executor, channel, foreign
  <2>7. SameFrames
    BY <1>1, <1>2, <1>4, <2>5 DEF SameFrames, Noted, FromRun, Dropping, SchedEnds, RunFrames,
       Brief, Seats, One, Runnable, Using, Known, OnTop
  <2>8. SameRest
    BY <1>1, <1>2, <1>4 DEF SameRest, drop_waker, ReleaseRefs, Accepts, header, places, executor,
       channel, foreign
  <2>. QED
    BY <1>1, <1>2, <1>4, <2>5, <2>6, <2>7, <2>8, Alike DEF TlSound
<1>5. CASE refs = 2 /\ active /\ ~Entered /\ Accepts
  <2>1. stack' = t
    BY <1>5, <1>3 DEF drop_waker, Has, Return
  <2>2. /\ SeatedIn(stack') /\ Frames' = Members(t) /\ Top' \in Members(t) \cup {"none"}
        /\ Runs(stack') = Runs(t) /\ Uses(stack') = Uses(t)
    BY <1>1, <1>2, <1>5, <2>1, Lie0 DEF OnTop, Lies
  <2>3. SameFlags
    BY <1>1, <1>2, <1>5 DEF SameFlags, Has, Ended, Dropped, drop_waker, ReleaseRefs, Accepts,
       header, places, executor, channel, foreign
  <2>4. SameFrames
    BY <1>1, <1>2, <1>5, <2>2 DEF SameFrames, Noted, FromRun, Dropping, SchedEnds, RunFrames,
       Brief, Seats, One, Runnable, Using, Known, OnTop
  <2>5. SameRest
    BY <1>1, <1>2, <1>5 DEF SameRest, drop_waker, ReleaseRefs, Accepts, header, places, executor,
       channel, foreign
  <2>. QED
    BY <1>1, <1>2, <1>5, <2>2, <2>3, <2>4, <2>5, Alike DEF TlSound
<1>6. CASE ~(refs = 2 /\ active /\ (Entered \/ Accepts))
  <2>1. stack' = t
    BY <1>6, <1>3 DEF drop_waker, Has, Return
  <2>2. /\ SeatedIn(stack') /\ Frames' = Members(t) /\ Top' \in Members(t) \cup {"none"}
        /\ Runs(stack') = Runs(t) /\ Uses(stack') = Uses(t)
    BY <1>1, <1>2, <1>6, <2>1, Lie0 DEF OnTop, Lies
  <2>3. SameFlags
    BY <1>1, <1>2, <1>6 DEF SameFlags, Has, Ended, Dropped, drop_waker, ReleaseRefs, Accepts,
       header, places, executor, channel, foreign
  <2>4. SameFrames
    BY <1>1, <1>2, <1>6, <2>2 DEF SameFrames, Noted, FromRun, Dropping, SchedEnds, RunFrames,
       Brief, Seats, One, Runnable, Using, Known, OnTop
  <2>5. SameRest
    BY <1>1, <1>2, <1>6 DEF SameRest, drop_waker, ReleaseRefs, Accepts, header, places, executor,
       channel, foreign
  <2>. QED
    BY <1>1, <1>2, <1>6, <2>2, <2>3, <2>4, <2>5, Alike DEF TlSound
<1>. QED
  BY <1>4, <1>5, <1>6, <1>1, <1>2 DEF drop_waker, ReleaseRefs, Accepts

LEMMA Sound_do_cleanup ==
  ASSUME TlInv, TlSound, do_cleanup PROVE TlSound'
<1>. DEFINE t == Tail(stack)
<1>1. /\ TlTypes /\ Stacked /\ Registered /\ Flagged /\ Finished
      /\ SeatedIn(stack) /\ Sole /\ Dropped /\ Awaited /\ Shutting /\ Sound
  BY DEF TlInv, TlSound, Sound
<1>2. OnTop("do_cleanup", t) /\ Top = "do_cleanup"
  BY TopSeat DEF TlSound, do_cleanup
<1>3. Tail(stack) = t /\ t \in Seq(Names)
  BY <1>2 DEF OnTop
<1>4. CASE active /\ st \cap {"HANDLE", "SCHEDULED", "RUNNING"} = {} /\ refs = 2
  <2>1. stack' = Push("cancel", t)
    BY <1>4, <1>3 DEF do_cleanup, Has, Return, Push
  <2>2. Seats("cancel", Members(t))
    BY <1>1, <1>2, <1>4 DEF OnTop, Seats, Brief, Dropping, SchedEnds, RunFrames, FromRun, TlInv,
       Flagged, Registered, Has, Sole, Dropped, Awaited, Shutting, do_cleanup
  <2>3. "cancel" \in Names
    BY DEF Names, Protecting, Holding, Bare, Neutral, SchedEnds
  <2>4. /\ Lies(Members(t) \cup {"cancel"},
                Runs(t) + One("cancel", Runnable),
                Uses(t) + One("cancel", Using))
        /\ Top' = "cancel"
    BY <1>1, <1>2, <1>4, <2>1, <2>2, <2>3, Lie1 DEF OnTop
  <2>5. /\ SeatedIn(stack') /\ Frames' = Members(t) \cup {"cancel"}
        /\ Runs(stack') = Runs(t) /\ Uses(stack') = Uses(t) /\ Top' = "cancel"
    BY <1>1, <1>2, <1>4, <2>4 DEF Lies, One, Runnable, Using, Known, OnTop
  <2>6. SameFlags
    BY <1>1, <1>2, <1>4 DEF SameFlags, Has, Ended, Dropped, do_cleanup, header, places, executor,
       channel, foreign
  <2>7. SameFrames
    BY <1>1, <1>2, <1>4, <2>5 DEF SameFrames, Noted, FromRun, Dropping, SchedEnds, RunFrames,
       Brief, Seats, One, Runnable, Using, Known, OnTop
  <2>8. SameRest
    BY <1>1, <1>2, <1>4 DEF SameRest, do_cleanup, header, places, executor, channel, foreign
  <2>. QED
    BY <1>1, <1>2, <1>4, <2>5, <2>6, <2>7, <2>8, Alike DEF TlSound
<1>5. CASE ~(active /\ st \cap {"HANDLE", "SCHEDULED", "RUNNING"} = {} /\ refs = 2)
  <2>1. stack' = t
    BY <1>5, <1>3 DEF do_cleanup, Has, Return
  <2>2. /\ SeatedIn(stack') /\ Frames' = Members(t) /\ Top' \in Members(t) \cup {"none"}
        /\ Runs(stack') = Runs(t) /\ Uses(stack') = Uses(t)
    BY <1>1, <1>2, <1>5, <2>1, Lie0 DEF OnTop, Lies
  <2>3. SameFlags
    BY <1>1, <1>2, <1>5 DEF SameFlags, Has, Ended, Dropped, do_cleanup, header, places, executor,
       channel, foreign
  <2>4. SameFrames
    BY <1>1, <1>2, <1>5, <2>2 DEF SameFrames, Noted, FromRun, Dropping, SchedEnds, RunFrames,
       Brief, Seats, One, Runnable, Using, Known, OnTop
  <2>5. SameRest
    BY <1>1, <1>2, <1>5 DEF SameRest, do_cleanup, header, places, executor, channel, foreign
  <2>. QED
    BY <1>1, <1>2, <1>5, <2>2, <2>3, <2>4, <2>5, Alike DEF TlSound
<1>. QED
  BY <1>4, <1>5, <1>1, <1>2 DEF do_cleanup

LEMMA Sound_notify ==
  ASSUME TlInv, TlSound, notify PROVE TlSound'
<1>. DEFINE t == Tail(stack)
<1>1. /\ TlTypes /\ Stacked /\ Registered /\ Flagged /\ Finished
      /\ SeatedIn(stack) /\ Sole /\ Dropped /\ Awaited /\ Shutting /\ Sound
  BY DEF TlInv, TlSound, Sound
<1>2. OnTop("notify", t) /\ Top = "notify"
  BY TopSeat DEF TlSound, notify
<1>3. Tail(stack) = t /\ t \in Seq(Names)
  BY <1>2 DEF OnTop
<1>4. stack' = t
  BY <1>3 DEF notify, Has, Return
<1>5. /\ SeatedIn(stack') /\ Frames' = Members(t) /\ Top' \in Members(t) \cup {"none"}
      /\ Runs(stack') = Runs(t) /\ Uses(stack') = Uses(t)
  BY <1>1, <1>2, <1>4, Lie0 DEF OnTop, Lies
<1>6. SameFlags
  BY <1>1, <1>2 DEF SameFlags, Has, Ended, Dropped, notify, header, places, executor, channel,
     foreign
<1>7. SameFrames
  BY <1>1, <1>2, <1>5 DEF SameFrames, Noted, FromRun, Dropping, SchedEnds, RunFrames, Brief,
     Seats, One, Runnable, Using, Known, OnTop
<1>8. SameRest
  BY <1>1, <1>2 DEF SameRest, notify, header, places, executor, channel, foreign
<1>. QED
  BY <1>1, <1>2, <1>5, <1>6, <1>7, <1>8, Alike DEF TlSound

LEMMA Sound_unborrow ==
  ASSUME TlInv, TlSound, unborrow PROVE TlSound'
<1>. DEFINE t == Tail(stack)
<1>1. /\ TlTypes /\ Stacked /\ Registered /\ Flagged /\ Finished
      /\ SeatedIn(stack) /\ Sole /\ Dropped /\ Awaited /\ Shutting /\ Sound
  BY DEF TlInv, TlSound, Sound
<1>2. OnTop("unborrow", t) /\ Top = "unborrow"
  BY TopSeat DEF TlSound, unborrow
<1>3. Tail(stack) = t /\ t \in Seq(Names)
  BY <1>2 DEF OnTop
<1>4. stack' = t
  BY <1>3 DEF unborrow, Has, Return
<1>5. /\ SeatedIn(stack') /\ Frames' = Members(t) /\ Top' \in Members(t) \cup {"none"}
      /\ Runs(stack') = Runs(t) /\ Uses(stack') = Uses(t)
  BY <1>1, <1>2, <1>4, Lie0 DEF OnTop, Lies
<1>6. SameFlags
  BY <1>1, <1>2 DEF SameFlags, Has, Ended, Dropped, unborrow, header, places, executor, channel,
     foreign
<1>7. SameFrames
  BY <1>1, <1>2, <1>5 DEF SameFrames, Noted, FromRun, Dropping, SchedEnds, RunFrames, Brief,
     Seats, One, Runnable, Using, Known, OnTop
<1>8. SameRest
  BY <1>1, <1>2 DEF SameRest, unborrow, header, places, executor, channel, foreign
<1>. QED
  BY <1>1, <1>2, <1>5, <1>6, <1>7, <1>8, Alike DEF TlSound

LEMMA Sound_user_return ==
  ASSUME TlInv, TlSound, user_return, Top = "user" PROVE TlSound'
<1>. DEFINE t == Tail(stack)
<1>1. /\ TlTypes /\ Stacked /\ Registered /\ Flagged /\ Finished
      /\ SeatedIn(stack) /\ Sole /\ Dropped /\ Awaited /\ Shutting /\ Sound
  BY DEF TlInv, TlSound, Sound
<1>2. OnTop("user", t) /\ Top = "user"
  BY TopSeat DEF TlSound, user_return
<1>3. Tail(stack) = t /\ t \in Seq(Names)
  BY <1>2 DEF OnTop
<1>4. stack' = t
  BY <1>3 DEF user_return, Has, Return
<1>5. /\ SeatedIn(stack') /\ Frames' = Members(t) /\ Top' \in Members(t) \cup {"none"}
      /\ Runs(stack') = Runs(t) /\ Uses(stack') = Uses(t)
  BY <1>1, <1>2, <1>4, Lie0 DEF OnTop, Lies
<1>6. SameFlags
  BY <1>1, <1>2 DEF SameFlags, Has, Ended, Dropped, user_return, header, places, executor,
     channel, foreign
<1>7. SameFrames
  BY <1>1, <1>2, <1>5 DEF SameFrames, Noted, FromRun, Dropping, SchedEnds, RunFrames, Brief,
     Seats, One, Runnable, Using, Known, OnTop
<1>8. SameRest
  BY <1>1, <1>2 DEF SameRest, user_return, header, places, executor, channel, foreign
<1>. QED
  BY <1>1, <1>2, <1>5, <1>6, <1>7, <1>8, Alike DEF TlSound

LEMMA Sound_abandon ==
  ASSUME TlInv, TlSound, abandon PROVE TlSound'
<1>. DEFINE t == Tail(stack)
<1>1. /\ TlTypes /\ Stacked /\ Registered /\ Flagged /\ Finished
      /\ SeatedIn(stack) /\ Sole /\ Dropped /\ Awaited /\ Shutting /\ Sound
  BY DEF TlInv, TlSound, Sound
<1>2. OnTop("abandon", t) /\ Top = "abandon"
  BY TopSeat DEF TlSound, abandon
<1>3. Tail(stack) = t /\ t \in Seq(Names)
  BY <1>2 DEF OnTop
<1>4. CASE st \cap {"SCHEDULED", "RUNNING", "CLOSED", "COMPLETED"} = {} /\ refs = 2
  <2>1. stack' = Push("cancel", t)
    BY <1>4, <1>3 DEF abandon, Has, Return, Push
  <2>2. Seats("cancel", Members(t))
    BY <1>1, <1>2, <1>4 DEF OnTop, Seats, Brief, Dropping, SchedEnds, RunFrames, FromRun, TlInv,
       Flagged, Registered, Has, Sole, Dropped, Awaited, Shutting, abandon
  <2>3. "cancel" \in Names
    BY DEF Names, Protecting, Holding, Bare, Neutral, SchedEnds
  <2>4. /\ Lies(Members(t) \cup {"cancel"},
                Runs(t) + One("cancel", Runnable),
                Uses(t) + One("cancel", Using))
        /\ Top' = "cancel"
    BY <1>1, <1>2, <1>4, <2>1, <2>2, <2>3, Lie1 DEF OnTop
  <2>5. /\ SeatedIn(stack') /\ Frames' = Members(t) \cup {"cancel"}
        /\ Runs(stack') = Runs(t) /\ Uses(stack') = Uses(t) /\ Top' = "cancel"
    BY <1>1, <1>2, <1>4, <2>4 DEF Lies, One, Runnable, Using, Known, OnTop
  <2>6. SameFlags
    BY <1>1, <1>2, <1>4 DEF SameFlags, Has, Ended, Dropped, abandon, header, places, executor,
       channel, foreign
  <2>7. SameFrames
    BY <1>1, <1>2, <1>4, <2>5 DEF SameFrames, Noted, FromRun, Dropping, SchedEnds, RunFrames,
       Brief, Seats, One, Runnable, Using, Known, OnTop
  <2>8. SameRest
    BY <1>1, <1>2, <1>4 DEF SameRest, abandon, header, places, executor, channel, foreign
  <2>. QED
    BY <1>1, <1>2, <1>4, <2>5, <2>6, <2>7, <2>8, Alike DEF TlSound
<1>5. CASE ~(st \cap {"SCHEDULED", "RUNNING", "CLOSED", "COMPLETED"} = {} /\ refs = 2)
  <2>1. stack' = t
    BY <1>5, <1>3 DEF abandon, Has, Return
  <2>2. /\ SeatedIn(stack') /\ Frames' = Members(t) /\ Top' \in Members(t) \cup {"none"}
        /\ Runs(stack') = Runs(t) /\ Uses(stack') = Uses(t)
    BY <1>1, <1>2, <1>5, <2>1, Lie0 DEF OnTop, Lies
  <2>3. SameFlags
    BY <1>1, <1>2, <1>5 DEF SameFlags, Has, Ended, Dropped, abandon, header, places, executor,
       channel, foreign
  <2>4. SameFrames
    BY <1>1, <1>2, <1>5, <2>2 DEF SameFrames, Noted, FromRun, Dropping, SchedEnds, RunFrames,
       Brief, Seats, One, Runnable, Using, Known, OnTop
  <2>5. SameRest
    BY <1>1, <1>2, <1>5 DEF SameRest, abandon, header, places, executor, channel, foreign
  <2>. QED
    BY <1>1, <1>2, <1>5, <2>2, <2>3, <2>4, <2>5, Alike DEF TlSound
<1>. QED
  BY <1>4, <1>5, <1>1, <1>2 DEF abandon

LEMMA Sound_drop_handle ==
  ASSUME TlInv, TlSound, drop_handle PROVE TlSound'
<1>. DEFINE t == Tail(stack)
<1>1. /\ TlTypes /\ Stacked /\ Registered /\ Flagged /\ Finished
      /\ SeatedIn(stack) /\ Sole /\ Dropped /\ Awaited /\ Shutting /\ Sound
  BY DEF TlInv, TlSound, Sound
<1>2. OnTop("drop_handle", t) /\ Top = "drop_handle"
  BY TopSeat DEF TlSound, drop_handle
<1>3. Tail(stack) = t /\ t \in Seq(Names)
  BY <1>2 DEF OnTop
<1>4. CASE Has("OUTPUT_PRESENT") /\ Has("SCHEDULE_DROPPED") /\ refs = 1
  <2>1. stack' = Push("user", t)
    BY <1>4, <1>3 DEF drop_handle, Has, Return, Push
  <2>2. Seats("user", Members(t))
    BY <1>1, <1>2, <1>4 DEF OnTop, Seats, Brief, Dropping, SchedEnds, RunFrames, FromRun, TlInv,
       Flagged, Registered, Has, Sole, Dropped, Awaited, Shutting, drop_handle
  <2>3. "user" \in Names
    BY DEF Names, Protecting, Holding, Bare, Neutral, SchedEnds
  <2>4. /\ Lies(Members(t) \cup {"user"},
                Runs(t) + One("user", Runnable),
                Uses(t) + One("user", Using))
        /\ Top' = "user"
    BY <1>1, <1>2, <1>4, <2>1, <2>2, <2>3, Lie1 DEF OnTop
  <2>5. /\ SeatedIn(stack') /\ Frames' = Members(t) \cup {"user"}
        /\ Runs(stack') = Runs(t) /\ Uses(stack') = Uses(t) /\ Top' = "user"
    BY <1>1, <1>2, <1>4, <2>4 DEF Lies, One, Runnable, Using, Known, OnTop
  <2>6. SameFlags
    BY <1>1, <1>2, <1>4 DEF SameFlags, Has, Ended, Dropped, drop_handle, header, places, executor,
       channel, foreign
  <2>7. SameFrames
    BY <1>1, <1>2, <1>4, <2>5 DEF SameFrames, Noted, FromRun, Dropping, SchedEnds, RunFrames,
       Brief, Seats, One, Runnable, Using, Known, OnTop
  <2>8. SameRest
    BY <1>1, <1>2, <1>4 DEF SameRest, drop_handle, header, places, executor, channel, foreign
  <2>. QED
    BY <1>1, <1>2, <1>4, <2>5, <2>6, <2>7, <2>8, Alike DEF TlSound
<1>5. CASE ~Has("OUTPUT_PRESENT") /\ Has("SCHEDULE_DROPPED") /\ refs = 1
  <2>1. stack' = t
    BY <1>5, <1>3 DEF drop_handle, Has, Return
  <2>2. /\ SeatedIn(stack') /\ Frames' = Members(t) /\ Top' \in Members(t) \cup {"none"}
        /\ Runs(stack') = Runs(t) /\ Uses(stack') = Uses(t)
    BY <1>1, <1>2, <1>5, <2>1, Lie0 DEF OnTop, Lies
  <2>3. SameFlags
    BY <1>1, <1>2, <1>5 DEF SameFlags, Has, Ended, Dropped, drop_handle, header, places, executor,
       channel, foreign
  <2>4. SameFrames
    BY <1>1, <1>2, <1>5, <2>2 DEF SameFrames, Noted, FromRun, Dropping, SchedEnds, RunFrames,
       Brief, Seats, One, Runnable, Using, Known, OnTop
  <2>5. SameRest
    BY <1>1, <1>2, <1>5 DEF SameRest, drop_handle, header, places, executor, channel, foreign
  <2>. QED
    BY <1>1, <1>2, <1>5, <2>2, <2>3, <2>4, <2>5, Alike DEF TlSound
<1>6. CASE Has("OUTPUT_PRESENT") /\ ~(Has("SCHEDULE_DROPPED") /\ refs = 1)
  <2>1. stack' = Push("finish", Push("abandon", Push("drop_waker", Push("user", t))))
    BY <1>6, <1>3 DEF drop_handle, Has, Return, Push
  <2>2. /\ Seats("user", Members(t))
        /\ Seats("drop_waker", Members(t) \cup {"user"})
        /\ Seats("abandon", Members(t) \cup {"drop_waker", "user"})
        /\ Seats("finish", Members(t) \cup {"abandon", "drop_waker", "user"})
    BY <1>1, <1>2, <1>6 DEF OnTop, Seats, Brief, Dropping, SchedEnds, RunFrames, FromRun, TlInv,
       Flagged, Registered, Has, Sole, Dropped, Awaited, Shutting, drop_handle
  <2>3. "finish" \in Names /\ "abandon" \in Names /\ "drop_waker" \in Names /\ "user" \in Names
    BY DEF Names, Protecting, Holding, Bare, Neutral, SchedEnds
  <2>4. /\ Lies(Members(t) \cup {"finish", "abandon", "drop_waker", "user"},
                Runs(t) + One("finish", Runnable) + One("abandon", Runnable) + One("drop_waker", Runnable) + One("user", Runnable),
                Uses(t) + One("finish", Using) + One("abandon", Using) + One("drop_waker", Using) + One("user", Using))
        /\ Top' = "finish"
    BY <1>1, <1>2, <1>6, <2>1, <2>2, <2>3, Lie4 DEF OnTop
  <2>5. /\ SeatedIn(stack') /\ Frames' = Members(t) \cup {"finish", "abandon", "drop_waker", "user"}
        /\ Runs(stack') = Runs(t) /\ Uses(stack') = Uses(t) /\ Top' = "finish"
    BY <1>1, <1>2, <1>6, <2>4 DEF Lies, One, Runnable, Using, Known, OnTop
  <2>6. SameFlags
    BY <1>1, <1>2, <1>6 DEF SameFlags, Has, Ended, Dropped, drop_handle, header, places, executor,
       channel, foreign
  <2>7. SameFrames
    BY <1>1, <1>2, <1>6, <2>5 DEF SameFrames, Noted, FromRun, Dropping, SchedEnds, RunFrames,
       Brief, Seats, One, Runnable, Using, Known, OnTop
  <2>8. SameRest
    BY <1>1, <1>2, <1>6 DEF SameRest, drop_handle, header, places, executor, channel, foreign
  <2>. QED
    BY <1>1, <1>2, <1>6, <2>5, <2>6, <2>7, <2>8, Alike DEF TlSound
<1>7. CASE ~Has("OUTPUT_PRESENT") /\ ~(Has("SCHEDULE_DROPPED") /\ refs = 1)
  <2>1. stack' = Push("finish", Push("abandon", Push("drop_waker", t)))
    BY <1>7, <1>3 DEF drop_handle, Has, Return, Push
  <2>2. /\ Seats("drop_waker", Members(t))
        /\ Seats("abandon", Members(t) \cup {"drop_waker"})
        /\ Seats("finish", Members(t) \cup {"abandon", "drop_waker"})
    BY <1>1, <1>2, <1>7 DEF OnTop, Seats, Brief, Dropping, SchedEnds, RunFrames, FromRun, TlInv,
       Flagged, Registered, Has, Sole, Dropped, Awaited, Shutting, drop_handle
  <2>3. "finish" \in Names /\ "abandon" \in Names /\ "drop_waker" \in Names
    BY DEF Names, Protecting, Holding, Bare, Neutral, SchedEnds
  <2>4. /\ Lies(Members(t) \cup {"finish", "abandon", "drop_waker"},
                Runs(t) + One("finish", Runnable) + One("abandon", Runnable) + One("drop_waker", Runnable),
                Uses(t) + One("finish", Using) + One("abandon", Using) + One("drop_waker", Using))
        /\ Top' = "finish"
    BY <1>1, <1>2, <1>7, <2>1, <2>2, <2>3, Lie3 DEF OnTop
  <2>5. /\ SeatedIn(stack') /\ Frames' = Members(t) \cup {"finish", "abandon", "drop_waker"}
        /\ Runs(stack') = Runs(t) /\ Uses(stack') = Uses(t) /\ Top' = "finish"
    BY <1>1, <1>2, <1>7, <2>4 DEF Lies, One, Runnable, Using, Known, OnTop
  <2>6. SameFlags
    BY <1>1, <1>2, <1>7 DEF SameFlags, Has, Ended, Dropped, drop_handle, header, places, executor,
       channel, foreign
  <2>7. SameFrames
    BY <1>1, <1>2, <1>7, <2>5 DEF SameFrames, Noted, FromRun, Dropping, SchedEnds, RunFrames,
       Brief, Seats, One, Runnable, Using, Known, OnTop
  <2>8. SameRest
    BY <1>1, <1>2, <1>7 DEF SameRest, drop_handle, header, places, executor, channel, foreign
  <2>. QED
    BY <1>1, <1>2, <1>7, <2>5, <2>6, <2>7, <2>8, Alike DEF TlSound
<1>. QED
  BY <1>4, <1>5, <1>6, <1>7, <1>1, <1>2 DEF drop_handle

(* Calls of user code.                                                         *)
LEMMA Sound_handle_cancel ==
  ASSUME TlInv, TlSound, handle_cancel PROVE TlSound'
<1>1. /\ TlTypes /\ Stacked /\ Registered /\ Flagged /\ Finished
      /\ SeatedIn(stack) /\ Sole /\ Dropped /\ Awaited /\ Shutting /\ Sound
  BY DEF TlInv, TlSound, Sound
<1>2. UserSeats
  BY UserSeated DEF handle_cancel, HandleOp
<1>3. stack' = Push("cancel", Push("unborrow", stack))
  BY <1>2 DEF handle_cancel, HandleOp, Has, Call, Push, UserSeats, Known
<1>4. /\ Seats("unborrow", Members(stack))
      /\ Seats("cancel", Members(stack) \cup {"unborrow"})
  BY <1>1, <1>2 DEF UserSeats, OnTop, Seats, Brief, Dropping, SchedEnds, RunFrames, FromRun,
     TlInv, Flagged, Registered, Has, Sole, Dropped, Awaited, Shutting, handle_cancel, HandleOp
<1>5. "cancel" \in Names /\ "unborrow" \in Names
  BY DEF Names, Protecting, Holding, Bare, Neutral, SchedEnds
<1>6. /\ Lies(Members(stack) \cup {"cancel", "unborrow"},
              Runs(stack) + One("cancel", Runnable) + One("unborrow", Runnable),
              Uses(stack) + One("cancel", Using) + One("unborrow", Using))
      /\ Top' = "cancel"
  BY <1>1, <1>2, <1>3, <1>4, <1>5, Lie2 DEF UserSeats
<1>7. /\ SeatedIn(stack') /\ Frames' = Members(stack) \cup {"cancel", "unborrow"}
      /\ Runs(stack') = Runs(stack) /\ Uses(stack') = Uses(stack) /\ Top' = "cancel"
  BY <1>1, <1>2, <1>6 DEF Lies, One, Runnable, Using, Known, UserSeats
<1>8. SameFlags
  BY <1>1, <1>2 DEF SameFlags, Has, Ended, Dropped, handle_cancel, HandleOp, UserSeats, header,
     places, executor, channel, foreign
<1>9. SameFrames
  BY <1>1, <1>2, <1>7 DEF SameFrames, Noted, FromRun, Dropping, SchedEnds, RunFrames, Brief,
     Seats, One, Runnable, Using, Known, UserSeats
<1>10. SameRest
  BY <1>1, <1>2 DEF SameRest, handle_cancel, HandleOp, UserSeats, header, places, executor,
     channel, foreign
<1>. QED
  BY <1>1, <1>2, <1>7, <1>8, <1>9, <1>10, Alike DEF TlSound

LEMMA Sound_handle_cancel_in_place ==
  ASSUME TlInv, TlSound, handle_cancel_in_place PROVE TlSound'
<1>1. /\ TlTypes /\ Stacked /\ Registered /\ Flagged /\ Finished
      /\ SeatedIn(stack) /\ Sole /\ Dropped /\ Awaited /\ Shutting /\ Sound
  BY DEF TlInv, TlSound, Sound
<1>2. UserSeats
  BY UserSeated DEF handle_cancel_in_place, HandleOp
<1>3. stack' = Push("cancel", Push("cancel_in_place", Push("unborrow", stack)))
  BY <1>2 DEF handle_cancel_in_place, HandleOp, Has, Call, Push, UserSeats, Known
<1>4. /\ Seats("unborrow", Members(stack))
      /\ Seats("cancel_in_place", Members(stack) \cup {"unborrow"})
      /\ Seats("cancel", Members(stack) \cup {"cancel_in_place", "unborrow"})
  BY <1>1, <1>2 DEF UserSeats, OnTop, Seats, Brief, Dropping, SchedEnds, RunFrames, FromRun,
     TlInv, Flagged, Registered, Has, Sole, Dropped, Awaited, Shutting, handle_cancel_in_place,
     HandleOp
<1>5. "cancel" \in Names /\ "cancel_in_place" \in Names /\ "unborrow" \in Names
  BY DEF Names, Protecting, Holding, Bare, Neutral, SchedEnds
<1>6. /\ Lies(Members(stack) \cup {"cancel", "cancel_in_place", "unborrow"},
              Runs(stack) + One("cancel", Runnable) + One("cancel_in_place", Runnable) + One("unborrow", Runnable),
              Uses(stack) + One("cancel", Using) + One("cancel_in_place", Using) + One("unborrow", Using))
      /\ Top' = "cancel"
  BY <1>1, <1>2, <1>3, <1>4, <1>5, Lie3 DEF UserSeats
<1>7. /\ SeatedIn(stack') /\ Frames' = Members(stack) \cup {"cancel", "cancel_in_place", "unborrow"}
      /\ Runs(stack') = Runs(stack) /\ Uses(stack') = Uses(stack) /\ Top' = "cancel"
  BY <1>1, <1>2, <1>6 DEF Lies, One, Runnable, Using, Known, UserSeats
<1>8. SameFlags
  BY <1>1, <1>2 DEF SameFlags, Has, Ended, Dropped, handle_cancel_in_place, HandleOp, UserSeats,
     header, places, executor, channel, foreign
<1>9. SameFrames
  BY <1>1, <1>2, <1>7 DEF SameFrames, Noted, FromRun, Dropping, SchedEnds, RunFrames, Brief,
     Seats, One, Runnable, Using, Known, UserSeats
<1>10. SameRest
  BY <1>1, <1>2 DEF SameRest, handle_cancel_in_place, HandleOp, UserSeats, header, places,
     executor, channel, foreign
<1>. QED
  BY <1>1, <1>2, <1>7, <1>8, <1>9, <1>10, Alike DEF TlSound

LEMMA Sound_handle_drop ==
  ASSUME TlInv, TlSound, handle_drop PROVE TlSound'
<1>1. /\ TlTypes /\ Stacked /\ Registered /\ Flagged /\ Finished
      /\ SeatedIn(stack) /\ Sole /\ Dropped /\ Awaited /\ Shutting /\ Sound
  BY DEF TlInv, TlSound, Sound
<1>2. UserSeats
  BY UserSeated DEF handle_drop
<1>3. stack' = Push("drop_handle", stack)
  BY <1>2 DEF handle_drop, Has, Call, Push, UserSeats, Known
<1>4. Seats("drop_handle", Members(stack))
  BY <1>1, <1>2 DEF UserSeats, OnTop, Seats, Brief, Dropping, SchedEnds, RunFrames, FromRun,
     TlInv, Flagged, Registered, Has, Sole, Dropped, Awaited, Shutting, handle_drop
<1>5. "drop_handle" \in Names
  BY DEF Names, Protecting, Holding, Bare, Neutral, SchedEnds
<1>6. /\ Lies(Members(stack) \cup {"drop_handle"},
              Runs(stack) + One("drop_handle", Runnable),
              Uses(stack) + One("drop_handle", Using))
      /\ Top' = "drop_handle"
  BY <1>1, <1>2, <1>3, <1>4, <1>5, Lie1 DEF UserSeats
<1>7. /\ SeatedIn(stack') /\ Frames' = Members(stack) \cup {"drop_handle"}
      /\ Runs(stack') = Runs(stack) /\ Uses(stack') = Uses(stack) /\ Top' = "drop_handle"
  BY <1>1, <1>2, <1>6 DEF Lies, One, Runnable, Using, Known, UserSeats
<1>8. SameFlags
  BY <1>1, <1>2 DEF SameFlags, Has, Ended, Dropped, handle_drop, UserSeats, header, places,
     executor, channel, foreign
<1>9. SameFrames
  BY <1>1, <1>2, <1>7 DEF SameFrames, Noted, FromRun, Dropping, SchedEnds, RunFrames, Brief,
     Seats, One, Runnable, Using, Known, UserSeats
<1>10. SameRest
  BY <1>1, <1>2 DEF SameRest, handle_drop, UserSeats, header, places, executor, channel, foreign
<1>. QED
  BY <1>1, <1>2, <1>7, <1>8, <1>9, <1>10, Alike DEF TlSound

LEMMA Sound_waker_wake_by_ref ==
  ASSUME TlInv, TlSound, waker_wake_by_ref PROVE TlSound'
<1>1. /\ TlTypes /\ Stacked /\ Registered /\ Flagged /\ Finished
      /\ SeatedIn(stack) /\ Sole /\ Dropped /\ Awaited /\ Shutting /\ Sound
  BY DEF TlInv, TlSound, Sound
<1>2. UserSeats
  BY UserSeated DEF waker_wake_by_ref, CanUseWaker
<1>3. stack' = Push("do_wake", stack)
  BY <1>2 DEF waker_wake_by_ref, Has, Call, Push, UserSeats, Known
<1>4. Seats("do_wake", Members(stack))
  BY <1>1, <1>2 DEF UserSeats, OnTop, Seats, Brief, Dropping, SchedEnds, RunFrames, FromRun,
     TlInv, Flagged, Registered, Has, Sole, Dropped, Awaited, Shutting, waker_wake_by_ref,
     CanUseWaker
<1>5. "do_wake" \in Names
  BY DEF Names, Protecting, Holding, Bare, Neutral, SchedEnds
<1>6. /\ Lies(Members(stack) \cup {"do_wake"},
              Runs(stack) + One("do_wake", Runnable),
              Uses(stack) + One("do_wake", Using))
      /\ Top' = "do_wake"
  BY <1>1, <1>2, <1>3, <1>4, <1>5, Lie1 DEF UserSeats
<1>7. /\ SeatedIn(stack') /\ Frames' = Members(stack) \cup {"do_wake"}
      /\ Runs(stack') = Runs(stack) /\ Uses(stack') = Uses(stack) /\ Top' = "do_wake"
  BY <1>1, <1>2, <1>6 DEF Lies, One, Runnable, Using, Known, UserSeats
<1>8. SameFlags
  BY <1>1, <1>2 DEF SameFlags, Has, Ended, Dropped, waker_wake_by_ref, CanUseWaker, UserSeats,
     header, places, executor, channel, foreign
<1>9. SameFrames
  BY <1>1, <1>2, <1>7 DEF SameFrames, Noted, FromRun, Dropping, SchedEnds, RunFrames, Brief,
     Seats, One, Runnable, Using, Known, UserSeats
<1>10. SameRest
  BY <1>1, <1>2 DEF SameRest, waker_wake_by_ref, CanUseWaker, UserSeats, header, places, executor,
     channel, foreign
<1>. QED
  BY <1>1, <1>2, <1>7, <1>8, <1>9, <1>10, Alike DEF TlSound

LEMMA Sound_waker_wake ==
  ASSUME TlInv, TlSound, waker_wake PROVE TlSound'
<1>1. /\ TlTypes /\ Stacked /\ Registered /\ Flagged /\ Finished
      /\ SeatedIn(stack) /\ Sole /\ Dropped /\ Awaited /\ Shutting /\ Sound
  BY DEF TlInv, TlSound, Sound
<1>2. UserSeats
  BY UserSeated DEF waker_wake
<1>3. stack' = Push("do_wake", Push("drop_waker", stack))
  BY <1>2 DEF waker_wake, Has, Call, Push, UserSeats, Known
<1>4. /\ Seats("drop_waker", Members(stack))
      /\ Seats("do_wake", Members(stack) \cup {"drop_waker"})
  BY <1>1, <1>2 DEF UserSeats, OnTop, Seats, Brief, Dropping, SchedEnds, RunFrames, FromRun,
     TlInv, Flagged, Registered, Has, Sole, Dropped, Awaited, Shutting, waker_wake
<1>5. "do_wake" \in Names /\ "drop_waker" \in Names
  BY DEF Names, Protecting, Holding, Bare, Neutral, SchedEnds
<1>6. /\ Lies(Members(stack) \cup {"do_wake", "drop_waker"},
              Runs(stack) + One("do_wake", Runnable) + One("drop_waker", Runnable),
              Uses(stack) + One("do_wake", Using) + One("drop_waker", Using))
      /\ Top' = "do_wake"
  BY <1>1, <1>2, <1>3, <1>4, <1>5, Lie2 DEF UserSeats
<1>7. /\ SeatedIn(stack') /\ Frames' = Members(stack) \cup {"do_wake", "drop_waker"}
      /\ Runs(stack') = Runs(stack) /\ Uses(stack') = Uses(stack) /\ Top' = "do_wake"
  BY <1>1, <1>2, <1>6 DEF Lies, One, Runnable, Using, Known, UserSeats
<1>8. SameFlags
  BY <1>1, <1>2 DEF SameFlags, Has, Ended, Dropped, waker_wake, UserSeats, header, places,
     executor, channel, foreign
<1>9. SameFrames
  BY <1>1, <1>2, <1>7 DEF SameFrames, Noted, FromRun, Dropping, SchedEnds, RunFrames, Brief,
     Seats, One, Runnable, Using, Known, UserSeats
<1>10. SameRest
  BY <1>1, <1>2 DEF SameRest, waker_wake, UserSeats, header, places, executor, channel, foreign
<1>. QED
  BY <1>1, <1>2, <1>7, <1>8, <1>9, <1>10, Alike DEF TlSound

LEMMA Sound_waker_drop ==
  ASSUME TlInv, TlSound, waker_drop PROVE TlSound'
<1>1. /\ TlTypes /\ Stacked /\ Registered /\ Flagged /\ Finished
      /\ SeatedIn(stack) /\ Sole /\ Dropped /\ Awaited /\ Shutting /\ Sound
  BY DEF TlInv, TlSound, Sound
<1>2. UserSeats
  BY UserSeated DEF waker_drop
<1>3. stack' = Push("drop_waker", stack)
  BY <1>2 DEF waker_drop, Has, Call, Push, UserSeats, Known
<1>4. Seats("drop_waker", Members(stack))
  BY <1>1, <1>2 DEF UserSeats, OnTop, Seats, Brief, Dropping, SchedEnds, RunFrames, FromRun,
     TlInv, Flagged, Registered, Has, Sole, Dropped, Awaited, Shutting, waker_drop
<1>5. "drop_waker" \in Names
  BY DEF Names, Protecting, Holding, Bare, Neutral, SchedEnds
<1>6. /\ Lies(Members(stack) \cup {"drop_waker"},
              Runs(stack) + One("drop_waker", Runnable),
              Uses(stack) + One("drop_waker", Using))
      /\ Top' = "drop_waker"
  BY <1>1, <1>2, <1>3, <1>4, <1>5, Lie1 DEF UserSeats
<1>7. /\ SeatedIn(stack') /\ Frames' = Members(stack) \cup {"drop_waker"}
      /\ Runs(stack') = Runs(stack) /\ Uses(stack') = Uses(stack) /\ Top' = "drop_waker"
  BY <1>1, <1>2, <1>6 DEF Lies, One, Runnable, Using, Known, UserSeats
<1>8. SameFlags
  BY <1>1, <1>2 DEF SameFlags, Has, Ended, Dropped, waker_drop, UserSeats, header, places,
     executor, channel, foreign
<1>9. SameFrames
  BY <1>1, <1>2, <1>7 DEF SameFrames, Noted, FromRun, Dropping, SchedEnds, RunFrames, Brief,
     Seats, One, Runnable, Using, Known, UserSeats
<1>10. SameRest
  BY <1>1, <1>2 DEF SameRest, waker_drop, UserSeats, header, places, executor, channel, foreign
<1>. QED
  BY <1>1, <1>2, <1>7, <1>8, <1>9, <1>10, Alike DEF TlSound

LEMMA Sound_process_foreign_wakes ==
  ASSUME TlInv, TlSound, process_foreign_wakes PROVE TlSound'
<1>1. /\ TlTypes /\ Stacked /\ Registered /\ Flagged /\ Finished
      /\ SeatedIn(stack) /\ Sole /\ Dropped /\ Awaited /\ Shutting /\ Sound
  BY DEF TlInv, TlSound, Sound
<1>2. UserSeats
  BY UserSeated DEF process_foreign_wakes, UserCode
<1>3. CASE chanWake > 0 /\ chanWake' = chanWake - 1 /\ Call(<<"do_wake", "drop_waker">>)
  <2>1. stack' = Push("do_wake", Push("drop_waker", stack))
    BY <1>3, <1>2 DEF process_foreign_wakes, Has, Call, Push, UserSeats, Known
  <2>2. /\ Seats("drop_waker", Members(stack))
        /\ Seats("do_wake", Members(stack) \cup {"drop_waker"})
    BY <1>1, <1>2, <1>3 DEF UserSeats, OnTop, Seats, Brief, Dropping, SchedEnds, RunFrames,
       FromRun, TlInv, Flagged, Registered, Has, Sole, Dropped, Awaited, Shutting,
       process_foreign_wakes, UserCode
  <2>3. "do_wake" \in Names /\ "drop_waker" \in Names
    BY DEF Names, Protecting, Holding, Bare, Neutral, SchedEnds
  <2>4. /\ Lies(Members(stack) \cup {"do_wake", "drop_waker"},
                Runs(stack) + One("do_wake", Runnable) + One("drop_waker", Runnable),
                Uses(stack) + One("do_wake", Using) + One("drop_waker", Using))
        /\ Top' = "do_wake"
    BY <1>1, <1>2, <1>3, <2>1, <2>2, <2>3, Lie2 DEF UserSeats
  <2>5. /\ SeatedIn(stack') /\ Frames' = Members(stack) \cup {"do_wake", "drop_waker"}
        /\ Runs(stack') = Runs(stack) /\ Uses(stack') = Uses(stack) /\ Top' = "do_wake"
    BY <1>1, <1>2, <1>3, <2>4 DEF Lies, One, Runnable, Using, Known, UserSeats
  <2>6. SameFlags
    BY <1>1, <1>2, <1>3 DEF SameFlags, Has, Ended, Dropped, process_foreign_wakes, UserCode,
       UserSeats, header, places, executor, channel, foreign
  <2>7. SameFrames
    BY <1>1, <1>2, <1>3, <2>5 DEF SameFrames, Noted, FromRun, Dropping, SchedEnds, RunFrames,
       Brief, Seats, One, Runnable, Using, Known, UserSeats
  <2>8. SameRest
    BY <1>1, <1>2, <1>3 DEF SameRest, process_foreign_wakes, UserCode, UserSeats, header, places,
       executor, channel, foreign
  <2>. QED
    BY <1>1, <1>2, <1>3, <2>5, <2>6, <2>7, <2>8, Alike DEF TlSound
<1>4. CASE /\ chanCleanup > 0 /\ chanCleanup' = chanCleanup - 1
           /\ Call(<<"do_cleanup", "drop_waker">>)
  <2>1. stack' = Push("do_cleanup", Push("drop_waker", stack))
    BY <1>4, <1>2 DEF process_foreign_wakes, Has, Call, Push, UserSeats, Known
  <2>2. /\ Seats("drop_waker", Members(stack))
        /\ Seats("do_cleanup", Members(stack) \cup {"drop_waker"})
    BY <1>1, <1>2, <1>4 DEF UserSeats, OnTop, Seats, Brief, Dropping, SchedEnds, RunFrames,
       FromRun, TlInv, Flagged, Registered, Has, Sole, Dropped, Awaited, Shutting,
       process_foreign_wakes, UserCode
  <2>3. "do_cleanup" \in Names /\ "drop_waker" \in Names
    BY DEF Names, Protecting, Holding, Bare, Neutral, SchedEnds
  <2>4. /\ Lies(Members(stack) \cup {"do_cleanup", "drop_waker"},
                Runs(stack) + One("do_cleanup", Runnable) + One("drop_waker", Runnable),
                Uses(stack) + One("do_cleanup", Using) + One("drop_waker", Using))
        /\ Top' = "do_cleanup"
    BY <1>1, <1>2, <1>4, <2>1, <2>2, <2>3, Lie2 DEF UserSeats
  <2>5. /\ SeatedIn(stack') /\ Frames' = Members(stack) \cup {"do_cleanup", "drop_waker"}
        /\ Runs(stack') = Runs(stack) /\ Uses(stack') = Uses(stack) /\ Top' = "do_cleanup"
    BY <1>1, <1>2, <1>4, <2>4 DEF Lies, One, Runnable, Using, Known, UserSeats
  <2>6. SameFlags
    BY <1>1, <1>2, <1>4 DEF SameFlags, Has, Ended, Dropped, process_foreign_wakes, UserCode,
       UserSeats, header, places, executor, channel, foreign
  <2>7. SameFrames
    BY <1>1, <1>2, <1>4, <2>5 DEF SameFrames, Noted, FromRun, Dropping, SchedEnds, RunFrames,
       Brief, Seats, One, Runnable, Using, Known, UserSeats
  <2>8. SameRest
    BY <1>1, <1>2, <1>4 DEF SameRest, process_foreign_wakes, UserCode, UserSeats, header, places,
       executor, channel, foreign
  <2>. QED
    BY <1>1, <1>2, <1>4, <2>5, <2>6, <2>7, <2>8, Alike DEF TlSound
<1>. QED
  BY <1>3, <1>4, <1>1, <1>2 DEF process_foreign_wakes, UserCode

(* The frames of the owner.                                                    *)
LEMMA Sound_finish ==
  ASSUME TlInv, TlSound, finish PROVE TlSound'
<1>. DEFINE t == Tail(stack)
<1>1. /\ TlTypes /\ Stacked /\ Registered /\ Flagged /\ Finished
      /\ SeatedIn(stack) /\ Sole /\ Dropped /\ Awaited /\ Shutting /\ Sound
  BY DEF TlInv, TlSound, Sound
<1>2. OnTop("finish", t) /\ Top = "finish"
  BY TopSeat DEF TlSound, finish, CanCleanup, CleanupOwner
<1>3. Tail(stack) = t /\ t \in Seq(Names)
  BY <1>2 DEF OnTop
<1>4. CASE CanCleanup
  <2>1. Has("FUTURE_DROPPED") /\ ~Has("RUNNING") /\ Frames \cap SchedEnds = {}
    BY <1>1, <1>2, <1>4 DEF CanCleanup, Registered
  <2>2. stack' = Push("release", t)
    BY <1>4, <2>1, <1>3 DEF finish, CanCleanup, CleanupOwner, Has, Return, Push
  <2>3. Seats("release", Members(t))
    BY <1>1, <1>2, <1>4, <2>1 DEF OnTop, Seats, Brief, Dropping, SchedEnds, RunFrames, FromRun,
       Flagged, Registered, Has, Sole, Dropped, Awaited, Shutting, Known, Settled
  <2>4. "release" \in Names
    BY DEF Names, Protecting, Holding, Bare, Neutral, SchedEnds
  <2>5. /\ Lies(Members(t) \cup {"release"},
                Runs(t) + One("release", Runnable),
                Uses(t) + One("release", Using))
        /\ Top' = "release"
    BY <1>2, <2>2, <2>3, <2>4, Lie1 DEF OnTop
  <2>6. /\ SeatedIn(stack')
        /\ Frames' = Members(t) \cup {"release"}
        /\ Runs(stack') = Runs(t) /\ Uses(stack') = Uses(t) /\ Top' = "release"
    BY <1>2, <2>5 DEF Lies, One, Runnable, Using, Known, OnTop
  <2>7. /\ (Has("SCHEDULED")' <=> Has("SCHEDULED")) /\ (Has("RUNNING")' <=> Has("RUNNING"))
        /\ (Has("COMPLETED")' <=> Has("COMPLETED"))
        /\ (Has("FUTURE_DROPPED")' <=> Has("FUTURE_DROPPED")) /\ Has("SCHEDULE_DROPPED")'
        /\ (Has("OUTPUT_PRESENT")' <=> Has("OUTPUT_PRESENT")) /\ (Ended' <=> Ended)
    BY <1>1, <1>4, <2>1 DEF finish, CanCleanup, CleanupOwner, Has, Ended, header, Dropped
  <2>8. /\ UNCHANGED <<runq, exec, closed, shut, chanWake, chanCleanup>>
        /\ linked' = FALSE /\ awaiter' = FALSE
    BY <1>1, <1>4, <2>1 DEF finish, CanCleanup, CleanupOwner, header, places, executor, channel,
       TlTypes
  <2>9. Sole'
    BY <1>1, <1>2, <1>4, <2>1, <2>6, <2>7, <2>8 DEF Sole, Queued, Dropped, Shutting, Brief,
       Dropping, FromRun, SchedEnds, RunFrames, Runnable, Using, OnTop, Seats, One, Known,
       Settled, Flagged, TlTypes
  <2>10. Dropped'
    BY <1>1, <1>2, <1>4, <2>1, <2>6, <2>7, <2>8 DEF Dropped, Sole, Brief, Dropping, FromRun,
       SchedEnds, RunFrames, Runnable, Using, OnTop, Seats, One, Known, Settled, Flagged, TlTypes
  <2>11. Awaited'
    BY <1>1, <1>2, <1>4, <2>1, <2>6, <2>7, <2>8 DEF Awaited, Queued, Telling, Sole, Dropped,
       Brief, Dropping, FromRun, SchedEnds, RunFrames, Runnable, Using, OnTop, Seats, One, Known,
       Settled, Flagged, TlTypes
  <2>12. Shutting'
    BY <1>1, <1>2, <1>4, <2>1, <2>6, <2>7, <2>8 DEF Shutting, Dropped, Sole, Brief, Dropping,
       FromRun, SchedEnds, RunFrames, Runnable, Using, OnTop, Seats, One, Known, Settled, Flagged,
       TlTypes
  <2>. QED
    BY <2>6, <2>9, <2>10, <2>11, <2>12 DEF TlSound, Sound
<1>5. CASE ~CanCleanup
  <2>1. Has("SCHEDULE_DROPPED") \/ ~Has("FUTURE_DROPPED") \/ Has("RUNNING") \/ Frames \cap SchedEnds # {}
    BY <1>1, <1>2, <1>5 DEF CanCleanup, Registered
  <2>2. stack' = t
    BY <1>5, <2>1, <1>3 DEF finish, CanCleanup, CleanupOwner, Has, Return
  <2>3. /\ SeatedIn(stack') /\ Frames' = Members(t) /\ Top' \in Members(t) \cup {"none"}
        /\ Runs(stack') = Runs(t) /\ Uses(stack') = Uses(t)
    BY <1>2, <2>2, Lie0 DEF OnTop, Lies
  <2>4. /\ (Has("SCHEDULED")' <=> Has("SCHEDULED")) /\ (Has("RUNNING")' <=> Has("RUNNING"))
        /\ (Has("COMPLETED")' <=> Has("COMPLETED"))
        /\ (Has("FUTURE_DROPPED")' <=> Has("FUTURE_DROPPED"))
        /\ (Has("SCHEDULE_DROPPED")' <=> Has("SCHEDULE_DROPPED"))
        /\ (Has("OUTPUT_PRESENT")' <=> Has("OUTPUT_PRESENT")) /\ (Ended' <=> Ended)
    BY <1>1, <1>5, <2>1 DEF finish, CanCleanup, CleanupOwner, Has, Ended, header, Dropped
  <2>5. UNCHANGED <<runq, linked, awaiter, exec, closed, shut, chanWake, chanCleanup>>
    BY <1>1, <1>5, <2>1 DEF finish, CanCleanup, CleanupOwner, header, places, executor, channel,
       TlTypes
  <2>6. Sole'
    BY <1>1, <1>2, <1>5, <2>1, <2>3, <2>4, <2>5 DEF Sole, Queued, Dropped, Shutting, Brief,
       Dropping, FromRun, SchedEnds, RunFrames, Runnable, Using, OnTop, Seats, One, Known,
       Settled, Flagged, TlTypes
  <2>7. Dropped'
    BY <1>1, <1>2, <1>5, <2>1, <2>3, <2>4, <2>5 DEF Dropped, Sole, Brief, Dropping, FromRun,
       SchedEnds, RunFrames, Runnable, Using, OnTop, Seats, One, Known, Settled, Flagged, TlTypes
  <2>8. Awaited'
    BY <1>1, <1>2, <1>5, <2>1, <2>3, <2>4, <2>5 DEF Awaited, Queued, Telling, Sole, Dropped,
       Brief, Dropping, FromRun, SchedEnds, RunFrames, Runnable, Using, OnTop, Seats, One, Known,
       Settled, Flagged, TlTypes
  <2>9. Shutting'
    BY <1>1, <1>2, <1>5, <2>1, <2>3, <2>4, <2>5 DEF Shutting, Dropped, Sole, Brief, Dropping,
       FromRun, SchedEnds, RunFrames, Runnable, Using, OnTop, Seats, One, Known, Settled, Flagged,
       TlTypes
  <2>. QED
    BY <2>3, <2>6, <2>7, <2>8, <2>9 DEF TlSound, Sound
<1>. QED
  BY <1>4, <1>5, <1>1, <1>2 DEF finish, CanCleanup, CleanupOwner

LEMMA Sound_drop_future ==
  ASSUME TlInv, TlSound, drop_future PROVE TlSound'
<1>. DEFINE t == Tail(stack)
<1>1. /\ TlTypes /\ Stacked /\ Registered /\ Flagged /\ Finished
      /\ SeatedIn(stack) /\ Sole /\ Dropped /\ Awaited /\ Shutting /\ Sound
  BY DEF TlInv, TlSound, Sound
<1>2. OnTop("drop_future", t) /\ Top = "drop_future"
  BY TopSeat DEF TlSound, drop_future
<1>3. Tail(stack) = t /\ t \in Seq(Names)
  BY <1>2 DEF OnTop
<1>4. CASE Has("FUTURE_DROPPED")
  <2>1. stack' = t
    BY <1>4, <1>3 DEF drop_future, Has, Return
  <2>2. /\ SeatedIn(stack') /\ Frames' = Members(t) /\ Top' \in Members(t) \cup {"none"}
        /\ Runs(stack') = Runs(t) /\ Uses(stack') = Uses(t)
    BY <1>2, <2>1, Lie0 DEF OnTop, Lies
  <2>3. /\ (Has("SCHEDULED")' <=> Has("SCHEDULED")) /\ (Has("RUNNING")' <=> Has("RUNNING"))
        /\ (Has("COMPLETED")' <=> Has("COMPLETED"))
        /\ (Has("FUTURE_DROPPED")' <=> Has("FUTURE_DROPPED"))
        /\ (Has("SCHEDULE_DROPPED")' <=> Has("SCHEDULE_DROPPED"))
        /\ (Has("OUTPUT_PRESENT")' <=> Has("OUTPUT_PRESENT")) /\ (Ended' <=> Ended)
    BY <1>1, <1>4 DEF drop_future, Has, Ended, header, Dropped
  <2>4. UNCHANGED <<runq, linked, awaiter, exec, closed, shut, chanWake, chanCleanup>>
    BY <1>1, <1>4 DEF drop_future, header, places, executor, channel, TlTypes
  <2>5. Sole'
    BY <1>1, <1>2, <1>4, <2>2, <2>3, <2>4 DEF Sole, Queued, Dropped, Shutting, Brief, Dropping,
       FromRun, SchedEnds, RunFrames, Runnable, Using, OnTop, Seats, One, Known, Settled, Flagged,
       TlTypes
  <2>6. Dropped'
    BY <1>1, <1>2, <1>4, <2>2, <2>3, <2>4 DEF Dropped, Sole, Brief, Dropping, FromRun, SchedEnds,
       RunFrames, Runnable, Using, OnTop, Seats, One, Known, Settled, Flagged, TlTypes
  <2>7. Awaited'
    BY <1>1, <1>2, <1>4, <2>2, <2>3, <2>4 DEF Awaited, Queued, Telling, Sole, Dropped, Brief,
       Dropping, FromRun, SchedEnds, RunFrames, Runnable, Using, OnTop, Seats, One, Known,
       Settled, Flagged, TlTypes
  <2>8. Shutting'
    BY <1>1, <1>2, <1>4, <2>2, <2>3, <2>4 DEF Shutting, Dropped, Sole, Brief, Dropping, FromRun,
       SchedEnds, RunFrames, Runnable, Using, OnTop, Seats, One, Known, Settled, Flagged, TlTypes
  <2>. QED
    BY <2>2, <2>5, <2>6, <2>7, <2>8 DEF TlSound, Sound
<1>5. CASE ~Has("FUTURE_DROPPED")
  <2>1. "poll" \notin Members(t)
    BY <1>1, <1>2, <1>5, OneRunFrame DEF Dropping, RunFrames, OnTop, Seats
  <2>2. Uses(t) = 0
    BY <1>1, <1>2, <1>5, <2>1 DEF Using, Known, OnTop, Dropped
  <2>3. stack' = Push("dtor", t)
    BY <1>5, <2>1, <2>2, <1>3 DEF drop_future, Has, Return, Push
  <2>4. Seats("dtor", Members(t))
    BY <1>1, <1>2, <1>5, <2>1, <2>2 DEF OnTop, Seats, Brief, Dropping, SchedEnds, RunFrames,
       FromRun, Flagged, Registered, Has, Sole, Dropped, Awaited, Shutting, Known, Settled
  <2>5. "dtor" \in Names
    BY DEF Names, Protecting, Holding, Bare, Neutral, SchedEnds
  <2>6. /\ Lies(Members(t) \cup {"dtor"},
                Runs(t) + One("dtor", Runnable),
                Uses(t) + One("dtor", Using))
        /\ Top' = "dtor"
    BY <1>2, <2>3, <2>4, <2>5, Lie1 DEF OnTop
  <2>7. /\ SeatedIn(stack')
        /\ Frames' = Members(t) \cup {"dtor"}
        /\ Runs(stack') = Runs(t) /\ Uses(stack') = Uses(t) + 1 /\ Top' = "dtor"
    BY <1>2, <2>6 DEF Lies, One, Runnable, Using, Known, OnTop
  <2>8. /\ (Has("SCHEDULED")' <=> Has("SCHEDULED")) /\ (Has("RUNNING")' <=> Has("RUNNING"))
        /\ (Has("COMPLETED")' <=> Has("COMPLETED")) /\ Has("FUTURE_DROPPED")'
        /\ (Has("SCHEDULE_DROPPED")' <=> Has("SCHEDULE_DROPPED"))
        /\ (Has("OUTPUT_PRESENT")' <=> Has("OUTPUT_PRESENT")) /\ (Ended' <=> Ended)
    BY <1>1, <1>5, <2>1, <2>2 DEF drop_future, Has, Ended, header, Dropped
  <2>9. UNCHANGED <<runq, linked, awaiter, exec, closed, shut, chanWake, chanCleanup>>
    BY <1>1, <1>5, <2>1, <2>2 DEF drop_future, header, places, executor, channel, TlTypes
  <2>10. (runq + Runs(stack) <= 1)'
    BY <1>1, <1>2, <1>5, <2>1, <2>2, <2>7, <2>8, <2>9 DEF Sole, Queued, Dropped, Shutting, Brief,
       Dropping, FromRun, SchedEnds, RunFrames, Runnable, Using, OnTop, Seats, One, Known,
       Settled, Flagged, TlTypes
  <2>11. (runq + Runs(stack) = 1 =>
            Has("SCHEDULED") \/ Has("RUNNING") \/ Ended \/ Top \in {"end_run", "close"})'
    BY <1>1, <1>2, <1>5, <2>1, <2>2, <2>7, <2>8, <2>9 DEF Sole, Queued, Dropped, Shutting, Brief,
       Dropping, FromRun, SchedEnds, RunFrames, Runnable, Using, OnTop, Seats, One, Known,
       Settled, Flagged, TlTypes
  <2>12. (Top = "schedule" => runq + Runs(stack) = 0 /\ Has("SCHEDULED"))'
    BY <1>1, <1>2, <1>5, <2>1, <2>2, <2>7, <2>8, <2>9 DEF Sole, Queued, Dropped, Shutting, Brief,
       Dropping, FromRun, SchedEnds, RunFrames, Runnable, Using, OnTop, Seats, One, Known,
       Settled, Flagged, TlTypes
  <2>13. (Top \in {"schedule", "schedule_owned"} \/ "push" \in Frames => ~Has("RUNNING"))'
    BY <1>1, <1>2, <1>5, <2>1, <2>2, <2>7, <2>8, <2>9 DEF Sole, Queued, Dropped, Shutting, Brief,
       Dropping, FromRun, SchedEnds, RunFrames, Runnable, Using, OnTop, Seats, One, Known,
       Settled, Flagged, TlTypes
  <2>14. (Top \in {"schedule", "schedule_owned"} => ~Has("SCHEDULE_DROPPED"))'
    BY <1>1, <1>2, <1>5, <2>1, <2>2, <2>7, <2>8, <2>9 DEF Sole, Queued, Dropped, Shutting, Brief,
       Dropping, FromRun, SchedEnds, RunFrames, Runnable, Using, OnTop, Seats, One, Known,
       Settled, Flagged, TlTypes
  <2>15. ("end_run" \in Frames => Top \in {"end_run", "close"} \/ "completed" \in Frames \/ Ended)'
    BY <1>1, <1>2, <1>5, <2>1, <2>2, <2>7, <2>8, <2>9 DEF Sole, Queued, Dropped, Shutting, Brief,
       Dropping, FromRun, SchedEnds, RunFrames, Runnable, Using, OnTop, Seats, One, Known,
       Settled, Flagged, TlTypes
  <2>16. ("end_run" \in Frames /\ Has("SCHEDULED") =>
            "completed" \in Frames \/ "pending_closed_end" \in Frames)'
    BY <1>1, <1>2, <1>5, <2>1, <2>2, <2>7, <2>8, <2>9 DEF Sole, Queued, Dropped, Shutting, Brief,
       Dropping, FromRun, SchedEnds, RunFrames, Runnable, Using, OnTop, Seats, One, Known,
       Settled, Flagged, TlTypes
  <2>17. (Has("SCHEDULED") => \/ runq + Runs(stack) = 1 \/ Top = "schedule"
                              \/ "pending_closed_end" \in Frames
                              \/ (Top = "close" /\ ~Has("RUNNING")))'
    BY <1>1, <1>2, <1>5, <2>1, <2>2, <2>7, <2>8, <2>9 DEF Sole, Queued, Dropped, Shutting, Brief,
       Dropping, FromRun, SchedEnds, RunFrames, Runnable, Using, OnTop, Seats, One, Known,
       Settled, Flagged, TlTypes
  <2>18. (Queued => Has("SCHEDULED") \/ "finish_shutdown" \in Frames)'
    BY <1>1, <1>2, <1>5, <2>1, <2>2, <2>7, <2>8, <2>9 DEF Sole, Queued, Dropped, Shutting, Brief,
       Dropping, FromRun, SchedEnds, RunFrames, Runnable, Using, OnTop, Seats, One, Known,
       Settled, Flagged, TlTypes
  <2>19. (Top = "close" => runq = 0 \/ "finish_shutdown" \in Frames)'
    BY <1>1, <1>2, <1>5, <2>1, <2>2, <2>7, <2>8, <2>9 DEF Sole, Queued, Dropped, Shutting, Brief,
       Dropping, FromRun, SchedEnds, RunFrames, Runnable, Using, OnTop, Seats, One, Known,
       Settled, Flagged, TlTypes
  <2>20. ("pending_closed_end" \in Frames => runq = 0)'
    BY <1>1, <1>2, <1>5, <2>1, <2>2, <2>7, <2>8, <2>9 DEF Sole, Queued, Dropped, Shutting, Brief,
       Dropping, FromRun, SchedEnds, RunFrames, Runnable, Using, OnTop, Seats, One, Known,
       Settled, Flagged, TlTypes
  <2>21. Sole'
    BY <1>1, <1>2, <1>5, <2>1, <2>2, <2>7, <2>8, <2>9, <2>10, <2>11, <2>12, <2>13, <2>14, <2>15,
       <2>16, <2>17, <2>18, <2>19, <2>20 DEF Sole, Queued
  <2>22. (Uses(stack) <= 1)'
    BY <1>1, <1>2, <1>5, <2>1, <2>2, <2>7, <2>8, <2>9 DEF Dropped, Sole, Brief, Dropping, FromRun,
       SchedEnds, RunFrames, Runnable, Using, OnTop, Seats, One, Known, Settled, Flagged, TlTypes
  <2>23. ("dtor" \in Frames => Has("FUTURE_DROPPED"))'
    BY <1>1, <1>2, <1>5, <2>1, <2>2, <2>7, <2>8, <2>9 DEF Dropped, Sole, Brief, Dropping, FromRun,
       SchedEnds, RunFrames, Runnable, Using, OnTop, Seats, One, Known, Settled, Flagged, TlTypes
  <2>24. ("poll" \in Frames => ~Has("FUTURE_DROPPED") /\ linked)'
    BY <1>1, <1>2, <1>5, <2>1, <2>2, <2>7, <2>8, <2>9 DEF Dropped, Sole, Brief, Dropping, FromRun,
       SchedEnds, RunFrames, Runnable, Using, OnTop, Seats, One, Known, Settled, Flagged, TlTypes
  <2>25. (Frames \cap {"pending_closed_end", "close_end", "in_place_end", "ready_end"} # {} => Ended)'
    BY <1>1, <1>2, <1>5, <2>1, <2>2, <2>7, <2>8, <2>9 DEF Dropped, Sole, Brief, Dropping, FromRun,
       SchedEnds, RunFrames, Runnable, Using, OnTop, Seats, One, Known, Settled, Flagged, TlTypes
  <2>26. (Frames \cap Dropping # {} => Has("FUTURE_DROPPED") \/ Top = "drop_future")'
    BY <1>1, <1>2, <1>5, <2>1, <2>2, <2>7, <2>8, <2>9 DEF Dropped, Sole, Brief, Dropping, FromRun,
       SchedEnds, RunFrames, Runnable, Using, OnTop, Seats, One, Known, Settled, Flagged, TlTypes
  <2>27. ("ready_end" \in Frames => Has("FUTURE_DROPPED"))'
    BY <1>1, <1>2, <1>5, <2>1, <2>2, <2>7, <2>8, <2>9 DEF Dropped, Sole, Brief, Dropping, FromRun,
       SchedEnds, RunFrames, Runnable, Using, OnTop, Seats, One, Known, Settled, Flagged, TlTypes
  <2>28. (Has("COMPLETED") => Has("FUTURE_DROPPED"))'
    BY <1>1, <1>2, <1>5, <2>1, <2>2, <2>7, <2>8, <2>9 DEF Dropped, Sole, Brief, Dropping, FromRun,
       SchedEnds, RunFrames, Runnable, Using, OnTop, Seats, One, Known, Settled, Flagged, TlTypes
  <2>29. (Has("OUTPUT_PRESENT") => Has("COMPLETED"))'
    BY <1>1, <1>2, <1>5, <2>1, <2>2, <2>7, <2>8, <2>9 DEF Dropped, Sole, Brief, Dropping, FromRun,
       SchedEnds, RunFrames, Runnable, Using, OnTop, Seats, One, Known, Settled, Flagged, TlTypes
  <2>30. Dropped'
    BY <1>1, <1>2, <1>5, <2>1, <2>2, <2>7, <2>8, <2>9, <2>22, <2>23, <2>24, <2>25, <2>26, <2>27,
       <2>28, <2>29 DEF Dropped
  <2>31. Awaited'
    BY <1>1, <1>2, <1>5, <2>1, <2>2, <2>7, <2>8, <2>9 DEF Awaited, Queued, Telling, Sole, Dropped,
       Brief, Dropping, FromRun, SchedEnds, RunFrames, Runnable, Using, OnTop, Seats, One, Known,
       Settled, Flagged, TlTypes
  <2>32. Shutting'
    BY <1>1, <1>2, <1>5, <2>1, <2>2, <2>7, <2>8, <2>9 DEF Shutting, Dropped, Sole, Brief,
       Dropping, FromRun, SchedEnds, RunFrames, Runnable, Using, OnTop, Seats, One, Known,
       Settled, Flagged, TlTypes
  <2>. QED
    BY <2>7, <2>21, <2>30, <2>31, <2>32 DEF TlSound, Sound
<1>. QED
  BY <1>4, <1>5, <1>1, <1>2 DEF drop_future

LEMMA Sound_close ==
  ASSUME TlInv, TlSound, close PROVE TlSound'
<1>. DEFINE t == Tail(stack)
<1>1. /\ TlTypes /\ Stacked /\ Registered /\ Flagged /\ Finished
      /\ SeatedIn(stack) /\ Sole /\ Dropped /\ Awaited /\ Shutting /\ Sound
  BY DEF TlInv, TlSound, Sound
<1>2. OnTop("close", t) /\ Top = "close"
  BY TopSeat DEF TlSound, close
<1>3. Tail(stack) = t /\ t \in Seq(Names)
  BY <1>2 DEF OnTop
<1>4. CASE Has("RUNNING")
  <2>1. stack' = t
    BY <1>4, <1>3 DEF close, Has, Return
  <2>2. /\ SeatedIn(stack') /\ Frames' = Members(t) /\ Top' \in Members(t) \cup {"none"}
        /\ Runs(stack') = Runs(t) /\ Uses(stack') = Uses(t)
    BY <1>2, <2>1, Lie0 DEF OnTop, Lies
  <2>3. /\ (Has("SCHEDULED")' <=> Has("SCHEDULED")) /\ (Has("RUNNING")' <=> Has("RUNNING"))
        /\ (Has("COMPLETED")' <=> Has("COMPLETED"))
        /\ (Has("FUTURE_DROPPED")' <=> Has("FUTURE_DROPPED"))
        /\ (Has("SCHEDULE_DROPPED")' <=> Has("SCHEDULE_DROPPED"))
        /\ (Has("OUTPUT_PRESENT")' <=> Has("OUTPUT_PRESENT")) /\ Ended'
    BY <1>1, <1>4 DEF close, Has, Ended, header, Dropped
  <2>4. UNCHANGED <<runq, linked, awaiter, exec, closed, shut, chanWake, chanCleanup>>
    BY <1>1, <1>4 DEF close, header, places, executor, channel, TlTypes
  <2>5. Sole'
    BY <1>1, <1>2, <1>4, <2>2, <2>3, <2>4 DEF Sole, Queued, Dropped, Shutting, Brief, Dropping,
       FromRun, SchedEnds, RunFrames, Runnable, Using, OnTop, Seats, One, Known, Settled, Flagged,
       TlTypes
  <2>6. Dropped'
    BY <1>1, <1>2, <1>4, <2>2, <2>3, <2>4 DEF Dropped, Sole, Brief, Dropping, FromRun, SchedEnds,
       RunFrames, Runnable, Using, OnTop, Seats, One, Known, Settled, Flagged, TlTypes
  <2>7. Awaited'
    BY <1>1, <1>2, <1>4, <2>2, <2>3, <2>4 DEF Awaited, Queued, Telling, Sole, Dropped, Brief,
       Dropping, FromRun, SchedEnds, RunFrames, Runnable, Using, OnTop, Seats, One, Known,
       Settled, Flagged, TlTypes
  <2>8. Shutting'
    BY <1>1, <1>2, <1>4, <2>2, <2>3, <2>4 DEF Shutting, Dropped, Sole, Brief, Dropping, FromRun,
       SchedEnds, RunFrames, Runnable, Using, OnTop, Seats, One, Known, Settled, Flagged, TlTypes
  <2>. QED
    BY <2>2, <2>5, <2>6, <2>7, <2>8 DEF TlSound, Sound
<1>5. CASE ~Has("RUNNING")
  <2>1. stack' = Push("drop_future", Push("close_end", t))
    BY <1>5, <1>3 DEF close, Has, Return, Push
  <2>2. /\ Seats("close_end", Members(t))
        /\ Seats("drop_future", Members(t) \cup {"close_end"})
    BY <1>1, <1>2, <1>5 DEF OnTop, Seats, Brief, Dropping, SchedEnds, RunFrames, FromRun, Flagged,
       Registered, Has, Sole, Dropped, Awaited, Shutting, Known, Settled
  <2>3. "drop_future" \in Names /\ "close_end" \in Names
    BY DEF Names, Protecting, Holding, Bare, Neutral, SchedEnds
  <2>4. /\ Lies(Members(t) \cup {"drop_future", "close_end"},
                Runs(t) + One("drop_future", Runnable) + One("close_end", Runnable),
                Uses(t) + One("drop_future", Using) + One("close_end", Using))
        /\ Top' = "drop_future"
    BY <1>2, <2>1, <2>2, <2>3, Lie2 DEF OnTop
  <2>5. /\ SeatedIn(stack')
        /\ Frames' = Members(t) \cup {"drop_future", "close_end"}
        /\ Runs(stack') = Runs(t) /\ Uses(stack') = Uses(t) /\ Top' = "drop_future"
    BY <1>2, <2>4 DEF Lies, One, Runnable, Using, Known, OnTop
  <2>6. /\ ~Has("SCHEDULED")' /\ Has("RUNNING")' /\ (Has("COMPLETED")' <=> Has("COMPLETED"))
        /\ (Has("FUTURE_DROPPED")' <=> Has("FUTURE_DROPPED"))
        /\ (Has("SCHEDULE_DROPPED")' <=> Has("SCHEDULE_DROPPED"))
        /\ (Has("OUTPUT_PRESENT")' <=> Has("OUTPUT_PRESENT")) /\ Ended'
    BY <1>1, <1>5 DEF close, Has, Ended, header, Dropped
  <2>7. UNCHANGED <<runq, linked, awaiter, exec, closed, shut, chanWake, chanCleanup>>
    BY <1>1, <1>5 DEF close, header, places, executor, channel, TlTypes
  <2>8. Sole'
    BY <1>1, <1>2, <1>5, <2>5, <2>6, <2>7 DEF Sole, Queued, Dropped, Shutting, Brief, Dropping,
       FromRun, SchedEnds, RunFrames, Runnable, Using, OnTop, Seats, One, Known, Settled, Flagged,
       TlTypes
  <2>9. Dropped'
    BY <1>1, <1>2, <1>5, <2>5, <2>6, <2>7 DEF Dropped, Sole, Brief, Dropping, FromRun, SchedEnds,
       RunFrames, Runnable, Using, OnTop, Seats, One, Known, Settled, Flagged, TlTypes
  <2>10. Awaited'
    BY <1>1, <1>2, <1>5, <2>5, <2>6, <2>7 DEF Awaited, Queued, Telling, Sole, Dropped, Brief,
       Dropping, FromRun, SchedEnds, RunFrames, Runnable, Using, OnTop, Seats, One, Known,
       Settled, Flagged, TlTypes
  <2>11. Shutting'
    BY <1>1, <1>2, <1>5, <2>5, <2>6, <2>7 DEF Shutting, Dropped, Sole, Brief, Dropping, FromRun,
       SchedEnds, RunFrames, Runnable, Using, OnTop, Seats, One, Known, Settled, Flagged, TlTypes
  <2>. QED
    BY <2>5, <2>8, <2>9, <2>10, <2>11 DEF TlSound, Sound
<1>. QED
  BY <1>4, <1>5, <1>1, <1>2 DEF close

LEMMA Sound_close_end ==
  ASSUME TlInv, TlSound, close_end PROVE TlSound'
<1>. DEFINE t == Tail(stack)
<1>1. /\ TlTypes /\ Stacked /\ Registered /\ Flagged /\ Finished
      /\ SeatedIn(stack) /\ Sole /\ Dropped /\ Awaited /\ Shutting /\ Sound
  BY DEF TlInv, TlSound, Sound
<1>2. OnTop("close_end", t) /\ Top = "close_end"
  BY TopSeat DEF TlSound, close_end, StopRunning
<1>3. Tail(stack) = t /\ t \in Seq(Names)
  BY <1>2 DEF OnTop
<1>4. stack' = t
  BY <1>3 DEF close_end, StopRunning, Has, Return
<1>5. /\ SeatedIn(stack') /\ Frames' = Members(t) /\ Top' \in Members(t) \cup {"none"}
      /\ Runs(stack') = Runs(t) /\ Uses(stack') = Uses(t)
  BY <1>2, <1>4, Lie0 DEF OnTop, Lies
<1>6. /\ (Has("SCHEDULED")' <=> Has("SCHEDULED")) /\ ~Has("RUNNING")'
      /\ (Has("COMPLETED")' <=> Has("COMPLETED"))
      /\ (Has("FUTURE_DROPPED")' <=> Has("FUTURE_DROPPED"))
      /\ (Has("SCHEDULE_DROPPED")' <=> Has("SCHEDULE_DROPPED"))
      /\ (Has("OUTPUT_PRESENT")' <=> Has("OUTPUT_PRESENT")) /\ (Ended' <=> Ended)
  BY <1>1 DEF close_end, StopRunning, Has, Ended, header, Dropped
<1>7. /\ UNCHANGED <<runq, linked, exec, closed, shut, chanWake, chanCleanup>>
      /\ awaiter' = FALSE
  BY <1>1 DEF close_end, StopRunning, header, places, executor, channel, TlTypes
<1>8. Sole'
  BY <1>1, <1>2, <1>5, <1>6, <1>7 DEF Sole, Queued, Dropped, Shutting, Brief, Dropping, FromRun,
     SchedEnds, RunFrames, Runnable, Using, OnTop, Seats, One, Known, Settled, Flagged, TlTypes
<1>9. Dropped'
  BY <1>1, <1>2, <1>5, <1>6, <1>7 DEF Dropped, Sole, Brief, Dropping, FromRun, SchedEnds,
     RunFrames, Runnable, Using, OnTop, Seats, One, Known, Settled, Flagged, TlTypes
<1>10. Awaited'
  BY <1>1, <1>2, <1>5, <1>6, <1>7 DEF Awaited, Queued, Telling, Sole, Dropped, Brief, Dropping,
     FromRun, SchedEnds, RunFrames, Runnable, Using, OnTop, Seats, One, Known, Settled, Flagged,
     TlTypes
<1>11. Shutting'
  BY <1>1, <1>2, <1>5, <1>6, <1>7 DEF Shutting, Dropped, Sole, Brief, Dropping, FromRun,
     SchedEnds, RunFrames, Runnable, Using, OnTop, Seats, One, Known, Settled, Flagged, TlTypes
<1>. QED
  BY <1>5, <1>8, <1>9, <1>10, <1>11 DEF TlSound, Sound

LEMMA Sound_pending_closed_end ==
  ASSUME TlInv, TlSound, pending_closed_end PROVE TlSound'
<1>. DEFINE t == Tail(stack)
<1>1. /\ TlTypes /\ Stacked /\ Registered /\ Flagged /\ Finished
      /\ SeatedIn(stack) /\ Sole /\ Dropped /\ Awaited /\ Shutting /\ Sound
  BY DEF TlInv, TlSound, Sound
<1>2. OnTop("pending_closed_end", t) /\ Top = "pending_closed_end"
  BY TopSeat DEF TlSound, pending_closed_end, StopRunning
<1>3. Tail(stack) = t /\ t \in Seq(Names)
  BY <1>2 DEF OnTop
<1>4. stack' = t
  BY <1>3 DEF pending_closed_end, StopRunning, Has, Return
<1>5. /\ SeatedIn(stack') /\ Frames' = Members(t) /\ Top' \in Members(t) \cup {"none"}
      /\ Runs(stack') = Runs(t) /\ Uses(stack') = Uses(t)
  BY <1>2, <1>4, Lie0 DEF OnTop, Lies
<1>6. /\ ~Has("SCHEDULED")' /\ ~Has("RUNNING")'
      /\ (Has("COMPLETED")' <=> Has("COMPLETED"))
      /\ (Has("FUTURE_DROPPED")' <=> Has("FUTURE_DROPPED"))
      /\ (Has("SCHEDULE_DROPPED")' <=> Has("SCHEDULE_DROPPED"))
      /\ (Has("OUTPUT_PRESENT")' <=> Has("OUTPUT_PRESENT")) /\ (Ended' <=> Ended)
  BY <1>1 DEF pending_closed_end, StopRunning, Has, Ended, header, Dropped
<1>7. /\ UNCHANGED <<runq, linked, exec, closed, shut, chanWake, chanCleanup>>
      /\ awaiter' = FALSE
  BY <1>1 DEF pending_closed_end, StopRunning, header, places, executor, channel, TlTypes
<1>8. (runq + Runs(stack) <= 1)'
  BY <1>1, <1>2, <1>5, <1>6, <1>7 DEF Sole, Queued, Dropped, Shutting, Brief, Dropping, FromRun,
     SchedEnds, RunFrames, Runnable, Using, OnTop, Seats, One, Known, Settled, Flagged, TlTypes
<1>9. (runq + Runs(stack) = 1 =>
         Has("SCHEDULED") \/ Has("RUNNING") \/ Ended \/ Top \in {"end_run", "close"})'
  BY <1>1, <1>2, <1>5, <1>6, <1>7 DEF Sole, Queued, Dropped, Shutting, Brief, Dropping, FromRun,
     SchedEnds, RunFrames, Runnable, Using, OnTop, Seats, One, Known, Settled, Flagged, TlTypes
<1>10. (Top = "schedule" => runq + Runs(stack) = 0 /\ Has("SCHEDULED"))'
  BY <1>1, <1>2, <1>5, <1>6, <1>7 DEF Sole, Queued, Dropped, Shutting, Brief, Dropping, FromRun,
     SchedEnds, RunFrames, Runnable, Using, OnTop, Seats, One, Known, Settled, Flagged, TlTypes
<1>11. (Top \in {"schedule", "schedule_owned"} \/ "push" \in Frames => ~Has("RUNNING"))'
  BY <1>1, <1>2, <1>5, <1>6, <1>7 DEF Sole, Queued, Dropped, Shutting, Brief, Dropping, FromRun,
     SchedEnds, RunFrames, Runnable, Using, OnTop, Seats, One, Known, Settled, Flagged, TlTypes
<1>12. (Top \in {"schedule", "schedule_owned"} => ~Has("SCHEDULE_DROPPED"))'
  BY <1>1, <1>2, <1>5, <1>6, <1>7 DEF Sole, Queued, Dropped, Shutting, Brief, Dropping, FromRun,
     SchedEnds, RunFrames, Runnable, Using, OnTop, Seats, One, Known, Settled, Flagged, TlTypes
<1>13. ("end_run" \in Frames => Top \in {"end_run", "close"} \/ "completed" \in Frames \/ Ended)'
  BY <1>1, <1>2, <1>5, <1>6, <1>7 DEF Sole, Queued, Dropped, Shutting, Brief, Dropping, FromRun,
     SchedEnds, RunFrames, Runnable, Using, OnTop, Seats, One, Known, Settled, Flagged, TlTypes
<1>14. ("end_run" \in Frames /\ Has("SCHEDULED") =>
          "completed" \in Frames \/ "pending_closed_end" \in Frames)'
  BY <1>1, <1>2, <1>5, <1>6, <1>7 DEF Sole, Queued, Dropped, Shutting, Brief, Dropping, FromRun,
     SchedEnds, RunFrames, Runnable, Using, OnTop, Seats, One, Known, Settled, Flagged, TlTypes
<1>15. (Has("SCHEDULED") => \/ runq + Runs(stack) = 1 \/ Top = "schedule"
                            \/ "pending_closed_end" \in Frames
                            \/ (Top = "close" /\ ~Has("RUNNING")))'
  BY <1>1, <1>2, <1>5, <1>6, <1>7 DEF Sole, Queued, Dropped, Shutting, Brief, Dropping, FromRun,
     SchedEnds, RunFrames, Runnable, Using, OnTop, Seats, One, Known, Settled, Flagged, TlTypes
<1>16. (Queued => Has("SCHEDULED") \/ "finish_shutdown" \in Frames)'
  BY <1>1, <1>2, <1>5, <1>6, <1>7 DEF Sole, Queued, Dropped, Shutting, Brief, Dropping, FromRun,
     SchedEnds, RunFrames, Runnable, Using, OnTop, Seats, One, Known, Settled, Flagged, TlTypes
<1>17. (Top = "close" => runq = 0 \/ "finish_shutdown" \in Frames)'
  BY <1>1, <1>2, <1>5, <1>6, <1>7 DEF Sole, Queued, Dropped, Shutting, Brief, Dropping, FromRun,
     SchedEnds, RunFrames, Runnable, Using, OnTop, Seats, One, Known, Settled, Flagged, TlTypes
<1>18. ("pending_closed_end" \in Frames => runq = 0)'
  BY <1>1, <1>2, <1>5, <1>6, <1>7 DEF Sole, Queued, Dropped, Shutting, Brief, Dropping, FromRun,
     SchedEnds, RunFrames, Runnable, Using, OnTop, Seats, One, Known, Settled, Flagged, TlTypes
<1>19. Sole'
  BY <1>1, <1>2, <1>5, <1>6, <1>7, <1>8, <1>9, <1>10, <1>11, <1>12, <1>13, <1>14, <1>15, <1>16,
     <1>17, <1>18 DEF Sole, Queued
<1>20. Dropped'
  BY <1>1, <1>2, <1>5, <1>6, <1>7 DEF Dropped, Sole, Brief, Dropping, FromRun, SchedEnds,
     RunFrames, Runnable, Using, OnTop, Seats, One, Known, Settled, Flagged, TlTypes
<1>21. Awaited'
  BY <1>1, <1>2, <1>5, <1>6, <1>7 DEF Awaited, Queued, Telling, Sole, Dropped, Brief, Dropping,
     FromRun, SchedEnds, RunFrames, Runnable, Using, OnTop, Seats, One, Known, Settled, Flagged,
     TlTypes
<1>22. Shutting'
  BY <1>1, <1>2, <1>5, <1>6, <1>7 DEF Shutting, Dropped, Sole, Brief, Dropping, FromRun,
     SchedEnds, RunFrames, Runnable, Using, OnTop, Seats, One, Known, Settled, Flagged, TlTypes
<1>. QED
  BY <1>5, <1>19, <1>20, <1>21, <1>22 DEF TlSound, Sound

LEMMA Sound_ready_end ==
  ASSUME TlInv, TlSound, ready_end PROVE TlSound'
<1>. DEFINE t == Tail(stack)
<1>1. /\ TlTypes /\ Stacked /\ Registered /\ Flagged /\ Finished
      /\ SeatedIn(stack) /\ Sole /\ Dropped /\ Awaited /\ Shutting /\ Sound
  BY DEF TlInv, TlSound, Sound
<1>2. OnTop("ready_end", t) /\ Top = "ready_end"
  BY TopSeat DEF TlSound, ready_end, StopRunning
<1>3. Tail(stack) = t /\ t \in Seq(Names)
  BY <1>2 DEF OnTop
<1>4. stack' = t
  BY <1>3 DEF ready_end, StopRunning, Has, Return
<1>5. /\ SeatedIn(stack') /\ Frames' = Members(t) /\ Top' \in Members(t) \cup {"none"}
      /\ Runs(stack') = Runs(t) /\ Uses(stack') = Uses(t)
  BY <1>2, <1>4, Lie0 DEF OnTop, Lies
<1>6. /\ (Has("SCHEDULED")' <=> Has("SCHEDULED")) /\ ~Has("RUNNING")'
      /\ (Has("COMPLETED")' <=> Has("COMPLETED"))
      /\ (Has("FUTURE_DROPPED")' <=> Has("FUTURE_DROPPED"))
      /\ (Has("SCHEDULE_DROPPED")' <=> Has("SCHEDULE_DROPPED"))
      /\ (Has("OUTPUT_PRESENT")' <=> Has("OUTPUT_PRESENT")) /\ (Ended' <=> Ended)
  BY <1>1 DEF ready_end, StopRunning, Has, Ended, header, Dropped
<1>7. /\ UNCHANGED <<runq, linked, exec, closed, shut, chanWake, chanCleanup>>
      /\ awaiter' = FALSE
  BY <1>1 DEF ready_end, StopRunning, header, places, executor, channel, TlTypes
<1>8. (runq + Runs(stack) <= 1)'
  BY <1>1, <1>2, <1>5, <1>6, <1>7 DEF Sole, Queued, Dropped, Shutting, Brief, Dropping, FromRun,
     SchedEnds, RunFrames, Runnable, Using, OnTop, Seats, One, Known, Settled, Flagged, TlTypes
<1>9. (runq + Runs(stack) = 1 =>
         Has("SCHEDULED") \/ Has("RUNNING") \/ Ended \/ Top \in {"end_run", "close"})'
  BY <1>1, <1>2, <1>5, <1>6, <1>7 DEF Sole, Queued, Dropped, Shutting, Brief, Dropping, FromRun,
     SchedEnds, RunFrames, Runnable, Using, OnTop, Seats, One, Known, Settled, Flagged, TlTypes
<1>10. (Top = "schedule" => runq + Runs(stack) = 0 /\ Has("SCHEDULED"))'
  BY <1>1, <1>2, <1>5, <1>6, <1>7 DEF Sole, Queued, Dropped, Shutting, Brief, Dropping, FromRun,
     SchedEnds, RunFrames, Runnable, Using, OnTop, Seats, One, Known, Settled, Flagged, TlTypes
<1>11. (Top \in {"schedule", "schedule_owned"} \/ "push" \in Frames => ~Has("RUNNING"))'
  BY <1>1, <1>2, <1>5, <1>6, <1>7 DEF Sole, Queued, Dropped, Shutting, Brief, Dropping, FromRun,
     SchedEnds, RunFrames, Runnable, Using, OnTop, Seats, One, Known, Settled, Flagged, TlTypes
<1>12. (Top \in {"schedule", "schedule_owned"} => ~Has("SCHEDULE_DROPPED"))'
  BY <1>1, <1>2, <1>5, <1>6, <1>7 DEF Sole, Queued, Dropped, Shutting, Brief, Dropping, FromRun,
     SchedEnds, RunFrames, Runnable, Using, OnTop, Seats, One, Known, Settled, Flagged, TlTypes
<1>13. ("end_run" \in Frames => Top \in {"end_run", "close"} \/ "completed" \in Frames \/ Ended)'
  BY <1>1, <1>2, <1>5, <1>6, <1>7 DEF Sole, Queued, Dropped, Shutting, Brief, Dropping, FromRun,
     SchedEnds, RunFrames, Runnable, Using, OnTop, Seats, One, Known, Settled, Flagged, TlTypes
<1>14. ("end_run" \in Frames /\ Has("SCHEDULED") =>
          "completed" \in Frames \/ "pending_closed_end" \in Frames)'
  BY <1>1, <1>2, <1>5, <1>6, <1>7 DEF Sole, Queued, Dropped, Shutting, Brief, Dropping, FromRun,
     SchedEnds, RunFrames, Runnable, Using, OnTop, Seats, One, Known, Settled, Flagged, TlTypes
<1>15. (Has("SCHEDULED") => \/ runq + Runs(stack) = 1 \/ Top = "schedule"
                            \/ "pending_closed_end" \in Frames
                            \/ (Top = "close" /\ ~Has("RUNNING")))'
  BY <1>1, <1>2, <1>5, <1>6, <1>7 DEF Sole, Queued, Dropped, Shutting, Brief, Dropping, FromRun,
     SchedEnds, RunFrames, Runnable, Using, OnTop, Seats, One, Known, Settled, Flagged, TlTypes
<1>16. (Queued => Has("SCHEDULED") \/ "finish_shutdown" \in Frames)'
  BY <1>1, <1>2, <1>5, <1>6, <1>7 DEF Sole, Queued, Dropped, Shutting, Brief, Dropping, FromRun,
     SchedEnds, RunFrames, Runnable, Using, OnTop, Seats, One, Known, Settled, Flagged, TlTypes
<1>17. (Top = "close" => runq = 0 \/ "finish_shutdown" \in Frames)'
  BY <1>1, <1>2, <1>5, <1>6, <1>7 DEF Sole, Queued, Dropped, Shutting, Brief, Dropping, FromRun,
     SchedEnds, RunFrames, Runnable, Using, OnTop, Seats, One, Known, Settled, Flagged, TlTypes
<1>18. ("pending_closed_end" \in Frames => runq = 0)'
  BY <1>1, <1>2, <1>5, <1>6, <1>7 DEF Sole, Queued, Dropped, Shutting, Brief, Dropping, FromRun,
     SchedEnds, RunFrames, Runnable, Using, OnTop, Seats, One, Known, Settled, Flagged, TlTypes
<1>19. Sole'
  BY <1>1, <1>2, <1>5, <1>6, <1>7, <1>8, <1>9, <1>10, <1>11, <1>12, <1>13, <1>14, <1>15, <1>16,
     <1>17, <1>18 DEF Sole, Queued
<1>20. Dropped'
  BY <1>1, <1>2, <1>5, <1>6, <1>7 DEF Dropped, Sole, Brief, Dropping, FromRun, SchedEnds,
     RunFrames, Runnable, Using, OnTop, Seats, One, Known, Settled, Flagged, TlTypes
<1>21. Awaited'
  BY <1>1, <1>2, <1>5, <1>6, <1>7 DEF Awaited, Queued, Telling, Sole, Dropped, Brief, Dropping,
     FromRun, SchedEnds, RunFrames, Runnable, Using, OnTop, Seats, One, Known, Settled, Flagged,
     TlTypes
<1>22. Shutting'
  BY <1>1, <1>2, <1>5, <1>6, <1>7 DEF Shutting, Dropped, Sole, Brief, Dropping, FromRun,
     SchedEnds, RunFrames, Runnable, Using, OnTop, Seats, One, Known, Settled, Flagged, TlTypes
<1>. QED
  BY <1>5, <1>19, <1>20, <1>21, <1>22 DEF TlSound, Sound

LEMMA Sound_shutdown ==
  ASSUME TlInv, TlSound, shutdown PROVE TlSound'
<1>. DEFINE t == Tail(stack)
<1>1. /\ TlTypes /\ Stacked /\ Registered /\ Flagged /\ Finished
      /\ SeatedIn(stack) /\ Sole /\ Dropped /\ Awaited /\ Shutting /\ Sound
  BY DEF TlInv, TlSound, Sound
<1>2. OnTop("shutdown", t) /\ Top = "shutdown"
  BY TopSeat DEF TlSound, shutdown
<1>3. Tail(stack) = t /\ t \in Seq(Names)
  BY <1>2 DEF OnTop
<1>4. stack' = Push("close", Push("finish", Push("release", t)))
  BY <1>3 DEF shutdown, Has, Return, Push, DropTask
<1>5. /\ Seats("release", Members(t))
      /\ Seats("finish", Members(t) \cup {"release"})
      /\ Seats("close", Members(t) \cup {"finish", "release"})
  BY <1>1, <1>2 DEF OnTop, Seats, Brief, Dropping, SchedEnds, RunFrames, FromRun, Flagged,
     Registered, Has, Sole, Dropped, Awaited, Shutting, Known, Settled
<1>6. "close" \in Names /\ "finish" \in Names /\ "release" \in Names
  BY DEF Names, Protecting, Holding, Bare, Neutral, SchedEnds
<1>7. /\ Lies(Members(t) \cup {"close", "finish", "release"},
              Runs(t) + One("close", Runnable) + One("finish", Runnable)
                  + One("release", Runnable),
              Uses(t) + One("close", Using) + One("finish", Using) + One("release", Using))
      /\ Top' = "close"
  BY <1>2, <1>4, <1>5, <1>6, Lie3 DEF OnTop
<1>8. /\ SeatedIn(stack')
      /\ Frames' = Members(t) \cup {"close", "finish", "release"}
      /\ Runs(stack') = Runs(t) /\ Uses(stack') = Uses(t) /\ Top' = "close"
  BY <1>2, <1>7 DEF Lies, One, Runnable, Using, Known, OnTop
<1>9. /\ (Has("SCHEDULED")' <=> Has("SCHEDULED")) /\ (Has("RUNNING")' <=> Has("RUNNING"))
      /\ (Has("COMPLETED")' <=> Has("COMPLETED"))
      /\ (Has("FUTURE_DROPPED")' <=> Has("FUTURE_DROPPED"))
      /\ (Has("SCHEDULE_DROPPED")' <=> Has("SCHEDULE_DROPPED"))
      /\ (Has("OUTPUT_PRESENT")' <=> Has("OUTPUT_PRESENT")) /\ (Ended' <=> Ended)
  BY <1>1 DEF shutdown, Has, Ended, header, Dropped
<1>10. /\ UNCHANGED <<runq, awaiter, exec, closed, shut, chanWake, chanCleanup>>
       /\ linked' = FALSE
  BY <1>1 DEF shutdown, header, places, executor, channel, TlTypes
<1>11. Sole'
  BY <1>1, <1>2, <1>8, <1>9, <1>10 DEF Sole, Queued, Dropped, Shutting, Brief, Dropping, FromRun,
     SchedEnds, RunFrames, Runnable, Using, OnTop, Seats, One, Known, Settled, Flagged, TlTypes
<1>12. (Uses(stack) <= 1)'
  BY <1>1, <1>2, <1>8, <1>9, <1>10 DEF Dropped, Sole, Brief, Dropping, FromRun, SchedEnds,
     RunFrames, Runnable, Using, OnTop, Seats, One, Known, Settled, Flagged, TlTypes, Shutting
<1>13. ("dtor" \in Frames => Has("FUTURE_DROPPED"))'
  BY <1>1, <1>2, <1>8, <1>9, <1>10 DEF Dropped, Sole, Brief, Dropping, FromRun, SchedEnds,
     RunFrames, Runnable, Using, OnTop, Seats, One, Known, Settled, Flagged, TlTypes, Shutting
<1>14. ("poll" \in Frames => ~Has("FUTURE_DROPPED") /\ linked)'
  BY <1>1, <1>2, <1>8, <1>9, <1>10 DEF Dropped, Sole, Brief, Dropping, FromRun, SchedEnds,
     RunFrames, Runnable, Using, OnTop, Seats, One, Known, Settled, Flagged, TlTypes, Shutting
<1>15. (Frames \cap {"pending_closed_end", "close_end", "in_place_end", "ready_end"} # {} => Ended)'
  BY <1>1, <1>2, <1>8, <1>9, <1>10 DEF Dropped, Sole, Brief, Dropping, FromRun, SchedEnds,
     RunFrames, Runnable, Using, OnTop, Seats, One, Known, Settled, Flagged, TlTypes, Shutting
<1>16. (Frames \cap Dropping # {} => Has("FUTURE_DROPPED") \/ Top = "drop_future")'
  BY <1>1, <1>2, <1>8, <1>9, <1>10 DEF Dropped, Sole, Brief, Dropping, FromRun, SchedEnds,
     RunFrames, Runnable, Using, OnTop, Seats, One, Known, Settled, Flagged, TlTypes, Shutting
<1>17. ("ready_end" \in Frames => Has("FUTURE_DROPPED"))'
  BY <1>1, <1>2, <1>8, <1>9, <1>10 DEF Dropped, Sole, Brief, Dropping, FromRun, SchedEnds,
     RunFrames, Runnable, Using, OnTop, Seats, One, Known, Settled, Flagged, TlTypes, Shutting
<1>18. (Has("COMPLETED") => Has("FUTURE_DROPPED"))'
  BY <1>1, <1>2, <1>8, <1>9, <1>10 DEF Dropped, Sole, Brief, Dropping, FromRun, SchedEnds,
     RunFrames, Runnable, Using, OnTop, Seats, One, Known, Settled, Flagged, TlTypes, Shutting
<1>19. (Has("OUTPUT_PRESENT") => Has("COMPLETED"))'
  BY <1>1, <1>2, <1>8, <1>9, <1>10 DEF Dropped, Sole, Brief, Dropping, FromRun, SchedEnds,
     RunFrames, Runnable, Using, OnTop, Seats, One, Known, Settled, Flagged, TlTypes, Shutting
<1>20. Dropped'
  BY <1>1, <1>2, <1>8, <1>9, <1>10, <1>12, <1>13, <1>14, <1>15, <1>16, <1>17, <1>18, <1>19 DEF
     Dropped
<1>21. Awaited'
  BY <1>1, <1>2, <1>8, <1>9, <1>10 DEF Awaited, Queued, Telling, Sole, Dropped, Brief, Dropping,
     FromRun, SchedEnds, RunFrames, Runnable, Using, OnTop, Seats, One, Known, Settled, Flagged,
     TlTypes
<1>22. Shutting'
  BY <1>1, <1>2, <1>8, <1>9, <1>10 DEF Shutting, Dropped, Sole, Brief, Dropping, FromRun,
     SchedEnds, RunFrames, Runnable, Using, OnTop, Seats, One, Known, Settled, Flagged, TlTypes
<1>. QED
  BY <1>8, <1>11, <1>20, <1>21, <1>22 DEF TlSound, Sound

LEMMA Sound_do_wake ==
  ASSUME TlInv, TlSound, do_wake PROVE TlSound'
<1>. DEFINE t == Tail(stack)
<1>1. /\ TlTypes /\ Stacked /\ Registered /\ Flagged /\ Finished
      /\ SeatedIn(stack) /\ Sole /\ Dropped /\ Awaited /\ Shutting /\ Sound
  BY DEF TlInv, TlSound, Sound
<1>2. OnTop("do_wake", t) /\ Top = "do_wake"
  BY TopSeat DEF TlSound, do_wake, Accepts
<1>3. Tail(stack) = t /\ t \in Seq(Names)
  BY <1>2 DEF OnTop
<1>4. CASE ~active
  <2>1. stack' = t
    BY <1>4, <1>3 DEF do_wake, Has, Return
  <2>2. /\ SeatedIn(stack') /\ Frames' = Members(t) /\ Top' \in Members(t) \cup {"none"}
        /\ Runs(stack') = Runs(t) /\ Uses(stack') = Uses(t)
    BY <1>1, <1>2, <1>4, <2>1, Lie0 DEF OnTop, Lies
  <2>3. SameFlags
    BY <1>1, <1>2, <1>4 DEF SameFlags, Has, Ended, Dropped, do_wake, Accepts, header, places,
       executor, channel, foreign
  <2>4. SameFrames
    BY <1>1, <1>2, <1>4, <2>2 DEF SameFrames, Noted, FromRun, Dropping, SchedEnds, RunFrames,
       Brief, Seats, One, Runnable, Using, Known, OnTop
  <2>5. SameRest
    BY <1>1, <1>2, <1>4 DEF SameRest, do_wake, Accepts, header, places, executor, channel, foreign
  <2>. QED
    BY <1>1, <1>2, <1>4, <2>2, <2>3, <2>4, <2>5, Alike DEF TlSound
<1>5. CASE active /\ ~Entered
  <2>1. stack' = t
    BY <1>5, <1>3 DEF do_wake, Has, Return
  <2>2. /\ SeatedIn(stack') /\ Frames' = Members(t) /\ Top' \in Members(t) \cup {"none"}
        /\ Runs(stack') = Runs(t) /\ Uses(stack') = Uses(t)
    BY <1>1, <1>2, <1>5, <2>1, Lie0 DEF OnTop, Lies
  <2>3. SameFlags
    BY <1>1, <1>2, <1>5 DEF SameFlags, Has, Ended, Dropped, do_wake, Accepts, header, places,
       executor, channel, foreign
  <2>4. SameFrames
    BY <1>1, <1>2, <1>5, <2>2 DEF SameFrames, Noted, FromRun, Dropping, SchedEnds, RunFrames,
       Brief, Seats, One, Runnable, Using, Known, OnTop
  <2>5. SameRest
    BY <1>1, <1>2, <1>5 DEF SameRest, do_wake, Accepts, header, places, executor, channel, foreign
  <2>. QED
    BY <1>1, <1>2, <1>5, <2>2, <2>3, <2>4, <2>5, Alike DEF TlSound
<1>6. CASE active /\ Entered /\ st \cap {"COMPLETED", "CLOSED", "SCHEDULED"} # {}
  <2>1. stack' = t
    BY <1>6, <1>3 DEF do_wake, Has, Return
  <2>2. /\ SeatedIn(stack') /\ Frames' = Members(t) /\ Top' \in Members(t) \cup {"none"}
        /\ Runs(stack') = Runs(t) /\ Uses(stack') = Uses(t)
    BY <1>1, <1>2, <1>6, <2>1, Lie0 DEF OnTop, Lies
  <2>3. SameFlags
    BY <1>1, <1>2, <1>6 DEF SameFlags, Has, Ended, Dropped, do_wake, Accepts, header, places,
       executor, channel, foreign
  <2>4. SameFrames
    BY <1>1, <1>2, <1>6, <2>2 DEF SameFrames, Noted, FromRun, Dropping, SchedEnds, RunFrames,
       Brief, Seats, One, Runnable, Using, Known, OnTop
  <2>5. SameRest
    BY <1>1, <1>2, <1>6 DEF SameRest, do_wake, Accepts, header, places, executor, channel, foreign
  <2>. QED
    BY <1>1, <1>2, <1>6, <2>2, <2>3, <2>4, <2>5, Alike DEF TlSound
<1>7. CASE /\ active /\ Entered /\ st \cap {"COMPLETED", "CLOSED", "SCHEDULED"} = {}
           /\ Has("RUNNING")
  <2>1. ~Has("SCHEDULED") /\ ~Ended /\ ~Has("SCHEDULE_DROPPED")
    BY <1>1, <1>2, <1>7 DEF Has, Ended, Registered
  <2>2. stack' = t
    BY <1>7, <2>1, <1>3 DEF do_wake, Accepts, Has, Return
  <2>3. /\ SeatedIn(stack') /\ Frames' = Members(t) /\ Top' \in Members(t) \cup {"none"}
        /\ Runs(stack') = Runs(t) /\ Uses(stack') = Uses(t)
    BY <1>2, <2>2, Lie0 DEF OnTop, Lies
  <2>4. /\ Has("SCHEDULED")' /\ (Has("RUNNING")' <=> Has("RUNNING"))
        /\ (Has("COMPLETED")' <=> Has("COMPLETED"))
        /\ (Has("FUTURE_DROPPED")' <=> Has("FUTURE_DROPPED"))
        /\ (Has("SCHEDULE_DROPPED")' <=> Has("SCHEDULE_DROPPED"))
        /\ (Has("OUTPUT_PRESENT")' <=> Has("OUTPUT_PRESENT")) /\ (Ended' <=> Ended)
    BY <1>1, <1>7, <2>1 DEF do_wake, Accepts, Has, Ended, header, Dropped
  <2>5. UNCHANGED <<runq, linked, awaiter, exec, closed, shut, chanWake, chanCleanup>>
    BY <1>1, <1>7, <2>1 DEF do_wake, Accepts, header, places, executor, channel, TlTypes
  <2>6. Sole'
    BY <1>1, <1>2, <1>7, <2>1, <2>3, <2>4, <2>5 DEF Sole, Queued, Dropped, Shutting, Brief,
       Dropping, FromRun, SchedEnds, RunFrames, Runnable, Using, OnTop, Seats, One, Known,
       Settled, Flagged, TlTypes
  <2>7. Dropped'
    BY <1>1, <1>2, <1>7, <2>1, <2>3, <2>4, <2>5 DEF Dropped, Sole, Brief, Dropping, FromRun,
       SchedEnds, RunFrames, Runnable, Using, OnTop, Seats, One, Known, Settled, Flagged, TlTypes
  <2>8. Awaited'
    BY <1>1, <1>2, <1>7, <2>1, <2>3, <2>4, <2>5 DEF Awaited, Queued, Telling, Sole, Dropped,
       Brief, Dropping, FromRun, SchedEnds, RunFrames, Runnable, Using, OnTop, Seats, One, Known,
       Settled, Flagged, TlTypes
  <2>9. Shutting'
    BY <1>1, <1>2, <1>7, <2>1, <2>3, <2>4, <2>5 DEF Shutting, Dropped, Sole, Brief, Dropping,
       FromRun, SchedEnds, RunFrames, Runnable, Using, OnTop, Seats, One, Known, Settled, Flagged,
       TlTypes
  <2>. QED
    BY <2>3, <2>6, <2>7, <2>8, <2>9 DEF TlSound, Sound
<1>8. CASE /\ active /\ Entered /\ st \cap {"COMPLETED", "CLOSED", "SCHEDULED"} = {}
           /\ ~Has("RUNNING")
  <2>1. ~Has("SCHEDULED") /\ ~Ended /\ ~Has("SCHEDULE_DROPPED")
    BY <1>1, <1>2, <1>8 DEF Has, Ended, Registered
  <2>2. stack' = Push("schedule", t)
    BY <1>8, <2>1, <1>3 DEF do_wake, Accepts, Has, Return, Push
  <2>3. Seats("schedule", Members(t))
    BY <1>1, <1>2, <1>8, <2>1 DEF OnTop, Seats, Brief, Dropping, SchedEnds, RunFrames, FromRun,
       Flagged, Registered, Has, Sole, Dropped, Awaited, Shutting, Known, Settled
  <2>4. "schedule" \in Names
    BY DEF Names, Protecting, Holding, Bare, Neutral, SchedEnds
  <2>5. /\ Lies(Members(t) \cup {"schedule"},
                Runs(t) + One("schedule", Runnable),
                Uses(t) + One("schedule", Using))
        /\ Top' = "schedule"
    BY <1>2, <2>2, <2>3, <2>4, Lie1 DEF OnTop
  <2>6. /\ SeatedIn(stack')
        /\ Frames' = Members(t) \cup {"schedule"}
        /\ Runs(stack') = Runs(t) /\ Uses(stack') = Uses(t) /\ Top' = "schedule"
    BY <1>2, <2>5 DEF Lies, One, Runnable, Using, Known, OnTop
  <2>7. /\ Has("SCHEDULED")' /\ (Has("RUNNING")' <=> Has("RUNNING"))
        /\ (Has("COMPLETED")' <=> Has("COMPLETED"))
        /\ (Has("FUTURE_DROPPED")' <=> Has("FUTURE_DROPPED"))
        /\ (Has("SCHEDULE_DROPPED")' <=> Has("SCHEDULE_DROPPED"))
        /\ (Has("OUTPUT_PRESENT")' <=> Has("OUTPUT_PRESENT")) /\ (Ended' <=> Ended)
    BY <1>1, <1>8, <2>1 DEF do_wake, Accepts, Has, Ended, header, Dropped
  <2>8. UNCHANGED <<runq, linked, awaiter, exec, closed, shut, chanWake, chanCleanup>>
    BY <1>1, <1>8, <2>1 DEF do_wake, Accepts, header, places, executor, channel, TlTypes
  <2>9. Sole'
    BY <1>1, <1>2, <1>8, <2>1, <2>6, <2>7, <2>8 DEF Sole, Queued, Dropped, Shutting, Brief,
       Dropping, FromRun, SchedEnds, RunFrames, Runnable, Using, OnTop, Seats, One, Known,
       Settled, Flagged, TlTypes
  <2>10. Dropped'
    BY <1>1, <1>2, <1>8, <2>1, <2>6, <2>7, <2>8 DEF Dropped, Sole, Brief, Dropping, FromRun,
       SchedEnds, RunFrames, Runnable, Using, OnTop, Seats, One, Known, Settled, Flagged, TlTypes
  <2>11. Awaited'
    BY <1>1, <1>2, <1>8, <2>1, <2>6, <2>7, <2>8 DEF Awaited, Queued, Telling, Sole, Dropped,
       Brief, Dropping, FromRun, SchedEnds, RunFrames, Runnable, Using, OnTop, Seats, One, Known,
       Settled, Flagged, TlTypes
  <2>12. Shutting'
    BY <1>1, <1>2, <1>8, <2>1, <2>6, <2>7, <2>8 DEF Shutting, Dropped, Sole, Brief, Dropping,
       FromRun, SchedEnds, RunFrames, Runnable, Using, OnTop, Seats, One, Known, Settled, Flagged,
       TlTypes
  <2>. QED
    BY <2>6, <2>9, <2>10, <2>11, <2>12 DEF TlSound, Sound
<1>. QED
  BY <1>4, <1>5, <1>6, <1>7, <1>8, <1>1, <1>2 DEF do_wake, Accepts

LEMMA Sound_cancel ==
  ASSUME TlInv, TlSound, cancel PROVE TlSound'
<1>. DEFINE t == Tail(stack)
<1>1. /\ TlTypes /\ Stacked /\ Registered /\ Flagged /\ Finished
      /\ SeatedIn(stack) /\ Sole /\ Dropped /\ Awaited /\ Shutting /\ Sound
  BY DEF TlInv, TlSound, Sound
<1>2. OnTop("cancel", t) /\ Top = "cancel"
  BY TopSeat DEF TlSound, cancel
<1>3. Tail(stack) = t /\ t \in Seq(Names)
  BY <1>2 DEF OnTop
<1>4. CASE st \cap {"COMPLETED", "CLOSED"} # {}
  <2>1. stack' = t
    BY <1>4, <1>3 DEF cancel, Has, Return
  <2>2. /\ SeatedIn(stack') /\ Frames' = Members(t) /\ Top' \in Members(t) \cup {"none"}
        /\ Runs(stack') = Runs(t) /\ Uses(stack') = Uses(t)
    BY <1>1, <1>2, <1>4, <2>1, Lie0 DEF OnTop, Lies
  <2>3. SameFlags
    BY <1>1, <1>2, <1>4 DEF SameFlags, Has, Ended, Dropped, cancel, header, places, executor,
       channel, foreign
  <2>4. SameFrames
    BY <1>1, <1>2, <1>4, <2>2 DEF SameFrames, Noted, FromRun, Dropping, SchedEnds, RunFrames,
       Brief, Seats, One, Runnable, Using, Known, OnTop
  <2>5. SameRest
    BY <1>1, <1>2, <1>4 DEF SameRest, cancel, header, places, executor, channel, foreign
  <2>. QED
    BY <1>1, <1>2, <1>4, <2>2, <2>3, <2>4, <2>5, Alike DEF TlSound
<1>5. CASE st \cap {"COMPLETED", "CLOSED"} = {} /\ st \cap {"SCHEDULED", "RUNNING"} = {}
  <2>1. ~Has("SCHEDULED") /\ ~Ended /\ ~Has("RUNNING") /\ ~Has("SCHEDULE_DROPPED")
    BY <1>1, <1>2, <1>5 DEF Has, Ended, Finished, Flagged, RunFrames
  <2>2. "push" \notin Frames
    BY <1>1, <1>2, <1>5, <2>1 DEF Sole, OnTop, Known, One, Runnable, TlTypes
  <2>3. stack' = Push("schedule", Push("notify", t))
    BY <1>5, <2>1, <2>2, <1>3 DEF cancel, Has, Return, Push
  <2>4. /\ Seats("notify", Members(t))
        /\ Seats("schedule", Members(t) \cup {"notify"})
    BY <1>1, <1>2, <1>5, <2>1, <2>2 DEF OnTop, Seats, Brief, Dropping, SchedEnds, RunFrames,
       FromRun, Flagged, Registered, Has, Sole, Dropped, Awaited, Shutting, Known, Settled
  <2>5. "schedule" \in Names /\ "notify" \in Names
    BY DEF Names, Protecting, Holding, Bare, Neutral, SchedEnds
  <2>6. /\ Lies(Members(t) \cup {"schedule", "notify"},
                Runs(t) + One("schedule", Runnable) + One("notify", Runnable),
                Uses(t) + One("schedule", Using) + One("notify", Using))
        /\ Top' = "schedule"
    BY <1>2, <2>3, <2>4, <2>5, Lie2 DEF OnTop
  <2>7. /\ SeatedIn(stack')
        /\ Frames' = Members(t) \cup {"schedule", "notify"}
        /\ Runs(stack') = Runs(t) /\ Uses(stack') = Uses(t) /\ Top' = "schedule"
    BY <1>2, <2>6 DEF Lies, One, Runnable, Using, Known, OnTop
  <2>8. /\ Has("SCHEDULED")' /\ (Has("RUNNING")' <=> Has("RUNNING"))
        /\ (Has("COMPLETED")' <=> Has("COMPLETED"))
        /\ (Has("FUTURE_DROPPED")' <=> Has("FUTURE_DROPPED"))
        /\ (Has("SCHEDULE_DROPPED")' <=> Has("SCHEDULE_DROPPED"))
        /\ (Has("OUTPUT_PRESENT")' <=> Has("OUTPUT_PRESENT")) /\ Ended'
    BY <1>1, <1>5, <2>1, <2>2 DEF cancel, Has, Ended, header, Dropped
  <2>9. UNCHANGED <<runq, linked, awaiter, exec, closed, shut, chanWake, chanCleanup>>
    BY <1>1, <1>5, <2>1, <2>2 DEF cancel, header, places, executor, channel, TlTypes
  <2>10. Sole'
    BY <1>1, <1>2, <1>5, <2>1, <2>2, <2>7, <2>8, <2>9 DEF Sole, Queued, Dropped, Shutting, Brief,
       Dropping, FromRun, SchedEnds, RunFrames, Runnable, Using, OnTop, Seats, One, Known,
       Settled, Flagged, TlTypes
  <2>11. Dropped'
    BY <1>1, <1>2, <1>5, <2>1, <2>2, <2>7, <2>8, <2>9 DEF Dropped, Sole, Brief, Dropping, FromRun,
       SchedEnds, RunFrames, Runnable, Using, OnTop, Seats, One, Known, Settled, Flagged, TlTypes
  <2>12. Awaited'
    BY <1>1, <1>2, <1>5, <2>1, <2>2, <2>7, <2>8, <2>9 DEF Awaited, Queued, Telling, Sole, Dropped,
       Brief, Dropping, FromRun, SchedEnds, RunFrames, Runnable, Using, OnTop, Seats, One, Known,
       Settled, Flagged, TlTypes
  <2>13. Shutting'
    BY <1>1, <1>2, <1>5, <2>1, <2>2, <2>7, <2>8, <2>9 DEF Shutting, Dropped, Sole, Brief,
       Dropping, FromRun, SchedEnds, RunFrames, Runnable, Using, OnTop, Seats, One, Known,
       Settled, Flagged, TlTypes
  <2>. QED
    BY <2>7, <2>10, <2>11, <2>12, <2>13 DEF TlSound, Sound
<1>6. CASE st \cap {"COMPLETED", "CLOSED"} = {} /\ st \cap {"SCHEDULED", "RUNNING"} # {}
  <2>1. ~Ended /\ (Has("SCHEDULED") \/ Has("RUNNING"))
    BY <1>1, <1>2, <1>6 DEF Has, Ended
  <2>2. stack' = t
    BY <1>6, <2>1, <1>3 DEF cancel, Has, Return
  <2>3. /\ SeatedIn(stack') /\ Frames' = Members(t) /\ Top' \in Members(t) \cup {"none"}
        /\ Runs(stack') = Runs(t) /\ Uses(stack') = Uses(t)
    BY <1>2, <2>2, Lie0 DEF OnTop, Lies
  <2>4. /\ (Has("SCHEDULED")' <=> Has("SCHEDULED")) /\ (Has("RUNNING")' <=> Has("RUNNING"))
        /\ (Has("COMPLETED")' <=> Has("COMPLETED"))
        /\ (Has("FUTURE_DROPPED")' <=> Has("FUTURE_DROPPED"))
        /\ (Has("SCHEDULE_DROPPED")' <=> Has("SCHEDULE_DROPPED"))
        /\ (Has("OUTPUT_PRESENT")' <=> Has("OUTPUT_PRESENT")) /\ Ended'
    BY <1>1, <1>6, <2>1 DEF cancel, Has, Ended, header, Dropped
  <2>5. /\ UNCHANGED <<runq, linked, exec, closed, shut, chanWake, chanCleanup>>
        /\ awaiter' = FALSE
    BY <1>1, <1>6, <2>1 DEF cancel, header, places, executor, channel, TlTypes
  <2>6. Sole'
    BY <1>1, <1>2, <1>6, <2>1, <2>3, <2>4, <2>5 DEF Sole, Queued, Dropped, Shutting, Brief,
       Dropping, FromRun, SchedEnds, RunFrames, Runnable, Using, OnTop, Seats, One, Known,
       Settled, Flagged, TlTypes
  <2>7. Dropped'
    BY <1>1, <1>2, <1>6, <2>1, <2>3, <2>4, <2>5 DEF Dropped, Sole, Brief, Dropping, FromRun,
       SchedEnds, RunFrames, Runnable, Using, OnTop, Seats, One, Known, Settled, Flagged, TlTypes
  <2>8. Awaited'
    BY <1>1, <1>2, <1>6, <2>1, <2>3, <2>4, <2>5 DEF Awaited, Queued, Telling, Sole, Dropped,
       Brief, Dropping, FromRun, SchedEnds, RunFrames, Runnable, Using, OnTop, Seats, One, Known,
       Settled, Flagged, TlTypes
  <2>9. Shutting'
    BY <1>1, <1>2, <1>6, <2>1, <2>3, <2>4, <2>5 DEF Shutting, Dropped, Sole, Brief, Dropping,
       FromRun, SchedEnds, RunFrames, Runnable, Using, OnTop, Seats, One, Known, Settled, Flagged,
       TlTypes
  <2>. QED
    BY <2>3, <2>6, <2>7, <2>8, <2>9 DEF TlSound, Sound
<1>. QED
  BY <1>4, <1>5, <1>6, <1>1, <1>2 DEF cancel

LEMMA Sound_cancel_in_place ==
  ASSUME TlInv, TlSound, cancel_in_place PROVE TlSound'
<1>. DEFINE t == Tail(stack)
<1>1. /\ TlTypes /\ Stacked /\ Registered /\ Flagged /\ Finished
      /\ SeatedIn(stack) /\ Sole /\ Dropped /\ Awaited /\ Shutting /\ Sound
  BY DEF TlInv, TlSound, Sound
<1>2. OnTop("cancel_in_place", t) /\ Top = "cancel_in_place"
  BY TopSeat DEF TlSound, cancel_in_place
<1>3. Tail(stack) = t /\ t \in Seq(Names)
  BY <1>2 DEF OnTop
<1>4. CASE Has("RUNNING")
  <2>1. stack' = t
    BY <1>4, <1>3 DEF cancel_in_place, Has, Return
  <2>2. /\ SeatedIn(stack') /\ Frames' = Members(t) /\ Top' \in Members(t) \cup {"none"}
        /\ Runs(stack') = Runs(t) /\ Uses(stack') = Uses(t)
    BY <1>1, <1>2, <1>4, <2>1, Lie0 DEF OnTop, Lies
  <2>3. SameFlags
    BY <1>1, <1>2, <1>4 DEF SameFlags, Has, Ended, Dropped, cancel_in_place, header, places,
       executor, channel, foreign
  <2>4. SameFrames
    BY <1>1, <1>2, <1>4, <2>2 DEF SameFrames, Noted, FromRun, Dropping, SchedEnds, RunFrames,
       Brief, Seats, One, Runnable, Using, Known, OnTop
  <2>5. SameRest
    BY <1>1, <1>2, <1>4 DEF SameRest, cancel_in_place, header, places, executor, channel, foreign
  <2>. QED
    BY <1>1, <1>2, <1>4, <2>2, <2>3, <2>4, <2>5, Alike DEF TlSound
<1>5. CASE ~Has("RUNNING")
  <2>1. Ended
    BY <1>1, <1>2, <1>5 DEF Finished, OnTop
  <2>2. stack' = Push("drop_future", Push("in_place_end", t))
    BY <1>5, <2>1, <1>3 DEF cancel_in_place, Has, Return, Push
  <2>3. /\ Seats("in_place_end", Members(t))
        /\ Seats("drop_future", Members(t) \cup {"in_place_end"})
    BY <1>1, <1>2, <1>5, <2>1 DEF OnTop, Seats, Brief, Dropping, SchedEnds, RunFrames, FromRun,
       Flagged, Registered, Has, Sole, Dropped, Awaited, Shutting, Known, Settled
  <2>4. "drop_future" \in Names /\ "in_place_end" \in Names
    BY DEF Names, Protecting, Holding, Bare, Neutral, SchedEnds
  <2>5. /\ Lies(Members(t) \cup {"drop_future", "in_place_end"},
                Runs(t) + One("drop_future", Runnable) + One("in_place_end", Runnable),
                Uses(t) + One("drop_future", Using) + One("in_place_end", Using))
        /\ Top' = "drop_future"
    BY <1>2, <2>2, <2>3, <2>4, Lie2 DEF OnTop
  <2>6. /\ SeatedIn(stack')
        /\ Frames' = Members(t) \cup {"drop_future", "in_place_end"}
        /\ Runs(stack') = Runs(t) /\ Uses(stack') = Uses(t) /\ Top' = "drop_future"
    BY <1>2, <2>5 DEF Lies, One, Runnable, Using, Known, OnTop
  <2>7. /\ (Has("SCHEDULED")' <=> Has("SCHEDULED")) /\ Has("RUNNING")'
        /\ (Has("COMPLETED")' <=> Has("COMPLETED"))
        /\ (Has("FUTURE_DROPPED")' <=> Has("FUTURE_DROPPED"))
        /\ (Has("SCHEDULE_DROPPED")' <=> Has("SCHEDULE_DROPPED"))
        /\ (Has("OUTPUT_PRESENT")' <=> Has("OUTPUT_PRESENT")) /\ (Ended' <=> Ended)
    BY <1>1, <1>5, <2>1 DEF cancel_in_place, Has, Ended, header, Dropped
  <2>8. UNCHANGED <<runq, linked, awaiter, exec, closed, shut, chanWake, chanCleanup>>
    BY <1>1, <1>5, <2>1 DEF cancel_in_place, header, places, executor, channel, TlTypes
  <2>9. Sole'
    BY <1>1, <1>2, <1>5, <2>1, <2>6, <2>7, <2>8 DEF Sole, Queued, Dropped, Shutting, Brief,
       Dropping, FromRun, SchedEnds, RunFrames, Runnable, Using, OnTop, Seats, One, Known,
       Settled, Flagged, TlTypes
  <2>10. Dropped'
    BY <1>1, <1>2, <1>5, <2>1, <2>6, <2>7, <2>8 DEF Dropped, Sole, Brief, Dropping, FromRun,
       SchedEnds, RunFrames, Runnable, Using, OnTop, Seats, One, Known, Settled, Flagged, TlTypes
  <2>11. Awaited'
    BY <1>1, <1>2, <1>5, <2>1, <2>6, <2>7, <2>8 DEF Awaited, Queued, Telling, Sole, Dropped,
       Brief, Dropping, FromRun, SchedEnds, RunFrames, Runnable, Using, OnTop, Seats, One, Known,
       Settled, Flagged, TlTypes
  <2>12. Shutting'
    BY <1>1, <1>2, <1>5, <2>1, <2>6, <2>7, <2>8 DEF Shutting, Dropped, Sole, Brief, Dropping,
       FromRun, SchedEnds, RunFrames, Runnable, Using, OnTop, Seats, One, Known, Settled, Flagged,
       TlTypes
  <2>. QED
    BY <2>6, <2>9, <2>10, <2>11, <2>12 DEF TlSound, Sound
<1>. QED
  BY <1>4, <1>5, <1>1, <1>2 DEF cancel_in_place

LEMMA Sound_in_place_end ==
  ASSUME TlInv, TlSound, in_place_end PROVE TlSound'
<1>. DEFINE t == Tail(stack)
<1>1. /\ TlTypes /\ Stacked /\ Registered /\ Flagged /\ Finished
      /\ SeatedIn(stack) /\ Sole /\ Dropped /\ Awaited /\ Shutting /\ Sound
  BY DEF TlInv, TlSound, Sound
<1>2. OnTop("in_place_end", t) /\ Top = "in_place_end"
  BY TopSeat DEF TlSound, in_place_end
<1>3. Tail(stack) = t /\ t \in Seq(Names)
  BY <1>2 DEF OnTop
<1>4. stack' = t
  BY <1>3 DEF in_place_end, Has, Return
<1>5. /\ SeatedIn(stack') /\ Frames' = Members(t) /\ Top' \in Members(t) \cup {"none"}
      /\ Runs(stack') = Runs(t) /\ Uses(stack') = Uses(t)
  BY <1>2, <1>4, Lie0 DEF OnTop, Lies
<1>6. /\ (Has("SCHEDULED")' <=> Has("SCHEDULED")) /\ ~Has("RUNNING")'
      /\ (Has("COMPLETED")' <=> Has("COMPLETED"))
      /\ (Has("FUTURE_DROPPED")' <=> Has("FUTURE_DROPPED"))
      /\ (Has("SCHEDULE_DROPPED")' <=> Has("SCHEDULE_DROPPED"))
      /\ (Has("OUTPUT_PRESENT")' <=> Has("OUTPUT_PRESENT")) /\ (Ended' <=> Ended)
  BY <1>1 DEF in_place_end, Has, Ended, header, Dropped
<1>7. UNCHANGED <<runq, linked, awaiter, exec, closed, shut, chanWake, chanCleanup>>
  BY <1>1 DEF in_place_end, header, places, executor, channel, TlTypes
<1>8. (runq + Runs(stack) <= 1)'
  BY <1>1, <1>2, <1>5, <1>6, <1>7 DEF Sole, Queued, Dropped, Shutting, Brief, Dropping, FromRun,
     SchedEnds, RunFrames, Runnable, Using, OnTop, Seats, One, Known, Settled, Flagged, TlTypes
<1>9. (runq + Runs(stack) = 1 =>
         Has("SCHEDULED") \/ Has("RUNNING") \/ Ended \/ Top \in {"end_run", "close"})'
  BY <1>1, <1>2, <1>5, <1>6, <1>7 DEF Sole, Queued, Dropped, Shutting, Brief, Dropping, FromRun,
     SchedEnds, RunFrames, Runnable, Using, OnTop, Seats, One, Known, Settled, Flagged, TlTypes
<1>10. (Top = "schedule" => runq + Runs(stack) = 0 /\ Has("SCHEDULED"))'
  BY <1>1, <1>2, <1>5, <1>6, <1>7 DEF Sole, Queued, Dropped, Shutting, Brief, Dropping, FromRun,
     SchedEnds, RunFrames, Runnable, Using, OnTop, Seats, One, Known, Settled, Flagged, TlTypes
<1>11. (Top \in {"schedule", "schedule_owned"} \/ "push" \in Frames => ~Has("RUNNING"))'
  BY <1>1, <1>2, <1>5, <1>6, <1>7 DEF Sole, Queued, Dropped, Shutting, Brief, Dropping, FromRun,
     SchedEnds, RunFrames, Runnable, Using, OnTop, Seats, One, Known, Settled, Flagged, TlTypes
<1>12. (Top \in {"schedule", "schedule_owned"} => ~Has("SCHEDULE_DROPPED"))'
  BY <1>1, <1>2, <1>5, <1>6, <1>7 DEF Sole, Queued, Dropped, Shutting, Brief, Dropping, FromRun,
     SchedEnds, RunFrames, Runnable, Using, OnTop, Seats, One, Known, Settled, Flagged, TlTypes
<1>13. ("end_run" \in Frames => Top \in {"end_run", "close"} \/ "completed" \in Frames \/ Ended)'
  BY <1>1, <1>2, <1>5, <1>6, <1>7 DEF Sole, Queued, Dropped, Shutting, Brief, Dropping, FromRun,
     SchedEnds, RunFrames, Runnable, Using, OnTop, Seats, One, Known, Settled, Flagged, TlTypes
<1>14. ("end_run" \in Frames /\ Has("SCHEDULED") =>
          "completed" \in Frames \/ "pending_closed_end" \in Frames)'
  BY <1>1, <1>2, <1>5, <1>6, <1>7 DEF Sole, Queued, Dropped, Shutting, Brief, Dropping, FromRun,
     SchedEnds, RunFrames, Runnable, Using, OnTop, Seats, One, Known, Settled, Flagged, TlTypes
<1>15. (Has("SCHEDULED") => \/ runq + Runs(stack) = 1 \/ Top = "schedule"
                            \/ "pending_closed_end" \in Frames
                            \/ (Top = "close" /\ ~Has("RUNNING")))'
  BY <1>1, <1>2, <1>5, <1>6, <1>7 DEF Sole, Queued, Dropped, Shutting, Brief, Dropping, FromRun,
     SchedEnds, RunFrames, Runnable, Using, OnTop, Seats, One, Known, Settled, Flagged, TlTypes
<1>16. (Queued => Has("SCHEDULED") \/ "finish_shutdown" \in Frames)'
  BY <1>1, <1>2, <1>5, <1>6, <1>7 DEF Sole, Queued, Dropped, Shutting, Brief, Dropping, FromRun,
     SchedEnds, RunFrames, Runnable, Using, OnTop, Seats, One, Known, Settled, Flagged, TlTypes
<1>17. (Top = "close" => runq = 0 \/ "finish_shutdown" \in Frames)'
  BY <1>1, <1>2, <1>5, <1>6, <1>7 DEF Sole, Queued, Dropped, Shutting, Brief, Dropping, FromRun,
     SchedEnds, RunFrames, Runnable, Using, OnTop, Seats, One, Known, Settled, Flagged, TlTypes
<1>18. ("pending_closed_end" \in Frames => runq = 0)'
  BY <1>1, <1>2, <1>5, <1>6, <1>7 DEF Sole, Queued, Dropped, Shutting, Brief, Dropping, FromRun,
     SchedEnds, RunFrames, Runnable, Using, OnTop, Seats, One, Known, Settled, Flagged, TlTypes
<1>19. Sole'
  BY <1>1, <1>2, <1>5, <1>6, <1>7, <1>8, <1>9, <1>10, <1>11, <1>12, <1>13, <1>14, <1>15, <1>16,
     <1>17, <1>18 DEF Sole, Queued
<1>20. Dropped'
  BY <1>1, <1>2, <1>5, <1>6, <1>7 DEF Dropped, Sole, Brief, Dropping, FromRun, SchedEnds,
     RunFrames, Runnable, Using, OnTop, Seats, One, Known, Settled, Flagged, TlTypes
<1>21. Awaited'
  BY <1>1, <1>2, <1>5, <1>6, <1>7 DEF Awaited, Queued, Telling, Sole, Dropped, Brief, Dropping,
     FromRun, SchedEnds, RunFrames, Runnable, Using, OnTop, Seats, One, Known, Settled, Flagged,
     TlTypes
<1>22. Shutting'
  BY <1>1, <1>2, <1>5, <1>6, <1>7 DEF Shutting, Dropped, Sole, Brief, Dropping, FromRun,
     SchedEnds, RunFrames, Runnable, Using, OnTop, Seats, One, Known, Settled, Flagged, TlTypes
<1>. QED
  BY <1>5, <1>19, <1>20, <1>21, <1>22 DEF TlSound, Sound

LEMMA Sound_schedule ==
  ASSUME TlInv, TlSound, schedule PROVE TlSound'
<1>. DEFINE t == Tail(stack)
<1>1. /\ TlTypes /\ Stacked /\ Registered /\ Flagged /\ Finished
      /\ SeatedIn(stack) /\ Sole /\ Dropped /\ Awaited /\ Shutting /\ Sound
  BY DEF TlInv, TlSound, Sound
<1>2. OnTop("schedule", t) /\ Top = "schedule"
  BY TopSeat DEF TlSound, schedule
<1>3. Tail(stack) = t /\ t \in Seq(Names)
  BY <1>2 DEF OnTop
<1>4. stack' = Push("schedule_owned", t)
  BY <1>3 DEF schedule, Has, Return, Push
<1>5. Seats("schedule_owned", Members(t))
  BY <1>1, <1>2 DEF OnTop, Seats, Brief, Dropping, SchedEnds, RunFrames, FromRun, Flagged,
     Registered, Has, Sole, Dropped, Awaited, Shutting, Known, Settled
<1>6. "schedule_owned" \in Names
  BY DEF Names, Protecting, Holding, Bare, Neutral, SchedEnds
<1>7. /\ Lies(Members(t) \cup {"schedule_owned"},
              Runs(t) + One("schedule_owned", Runnable),
              Uses(t) + One("schedule_owned", Using))
      /\ Top' = "schedule_owned"
  BY <1>2, <1>4, <1>5, <1>6, Lie1 DEF OnTop
<1>8. /\ SeatedIn(stack')
      /\ Frames' = Members(t) \cup {"schedule_owned"}
      /\ Runs(stack') = Runs(t) + 1 /\ Uses(stack') = Uses(t) /\ Top' = "schedule_owned"
  BY <1>2, <1>7 DEF Lies, One, Runnable, Using, Known, OnTop
<1>9. /\ (Has("SCHEDULED")' <=> Has("SCHEDULED")) /\ (Has("RUNNING")' <=> Has("RUNNING"))
      /\ (Has("COMPLETED")' <=> Has("COMPLETED"))
      /\ (Has("FUTURE_DROPPED")' <=> Has("FUTURE_DROPPED"))
      /\ (Has("SCHEDULE_DROPPED")' <=> Has("SCHEDULE_DROPPED"))
      /\ (Has("OUTPUT_PRESENT")' <=> Has("OUTPUT_PRESENT")) /\ (Ended' <=> Ended)
  BY <1>1 DEF schedule, Has, Ended, header, Dropped
<1>10. UNCHANGED <<runq, linked, awaiter, exec, closed, shut, chanWake, chanCleanup>>
  BY <1>1 DEF schedule, header, places, executor, channel, TlTypes
<1>11. (runq + Runs(stack) <= 1)'
  BY <1>1, <1>2, <1>8, <1>9, <1>10 DEF Sole, Queued, Dropped, Shutting, Brief, Dropping, FromRun,
     SchedEnds, RunFrames, Runnable, Using, OnTop, Seats, One, Known, Settled, Flagged, TlTypes
<1>12. (runq + Runs(stack) = 1 =>
          Has("SCHEDULED") \/ Has("RUNNING") \/ Ended \/ Top \in {"end_run", "close"})'
  BY <1>1, <1>2, <1>8, <1>9, <1>10 DEF Sole, Queued, Dropped, Shutting, Brief, Dropping, FromRun,
     SchedEnds, RunFrames, Runnable, Using, OnTop, Seats, One, Known, Settled, Flagged, TlTypes
<1>13. (Top = "schedule" => runq + Runs(stack) = 0 /\ Has("SCHEDULED"))'
  BY <1>1, <1>2, <1>8, <1>9, <1>10 DEF Sole, Queued, Dropped, Shutting, Brief, Dropping, FromRun,
     SchedEnds, RunFrames, Runnable, Using, OnTop, Seats, One, Known, Settled, Flagged, TlTypes
<1>14. (Top \in {"schedule", "schedule_owned"} \/ "push" \in Frames => ~Has("RUNNING"))'
  BY <1>1, <1>2, <1>8, <1>9, <1>10 DEF Sole, Queued, Dropped, Shutting, Brief, Dropping, FromRun,
     SchedEnds, RunFrames, Runnable, Using, OnTop, Seats, One, Known, Settled, Flagged, TlTypes
<1>15. (Top \in {"schedule", "schedule_owned"} => ~Has("SCHEDULE_DROPPED"))'
  BY <1>1, <1>2, <1>8, <1>9, <1>10 DEF Sole, Queued, Dropped, Shutting, Brief, Dropping, FromRun,
     SchedEnds, RunFrames, Runnable, Using, OnTop, Seats, One, Known, Settled, Flagged, TlTypes
<1>16. ("end_run" \in Frames => Top \in {"end_run", "close"} \/ "completed" \in Frames \/ Ended)'
  BY <1>1, <1>2, <1>8, <1>9, <1>10 DEF Sole, Queued, Dropped, Shutting, Brief, Dropping, FromRun,
     SchedEnds, RunFrames, Runnable, Using, OnTop, Seats, One, Known, Settled, Flagged, TlTypes
<1>17. ("end_run" \in Frames /\ Has("SCHEDULED") =>
          "completed" \in Frames \/ "pending_closed_end" \in Frames)'
  BY <1>1, <1>2, <1>8, <1>9, <1>10 DEF Sole, Queued, Dropped, Shutting, Brief, Dropping, FromRun,
     SchedEnds, RunFrames, Runnable, Using, OnTop, Seats, One, Known, Settled, Flagged, TlTypes
<1>18. (Has("SCHEDULED") => \/ runq + Runs(stack) = 1 \/ Top = "schedule"
                            \/ "pending_closed_end" \in Frames
                            \/ (Top = "close" /\ ~Has("RUNNING")))'
  BY <1>1, <1>2, <1>8, <1>9, <1>10 DEF Sole, Queued, Dropped, Shutting, Brief, Dropping, FromRun,
     SchedEnds, RunFrames, Runnable, Using, OnTop, Seats, One, Known, Settled, Flagged, TlTypes
<1>19. (Queued => Has("SCHEDULED") \/ "finish_shutdown" \in Frames)'
  BY <1>1, <1>2, <1>8, <1>9, <1>10 DEF Sole, Queued, Dropped, Shutting, Brief, Dropping, FromRun,
     SchedEnds, RunFrames, Runnable, Using, OnTop, Seats, One, Known, Settled, Flagged, TlTypes
<1>20. (Top = "close" => runq = 0 \/ "finish_shutdown" \in Frames)'
  BY <1>1, <1>2, <1>8, <1>9, <1>10 DEF Sole, Queued, Dropped, Shutting, Brief, Dropping, FromRun,
     SchedEnds, RunFrames, Runnable, Using, OnTop, Seats, One, Known, Settled, Flagged, TlTypes
<1>21. ("pending_closed_end" \in Frames => runq = 0)'
  BY <1>1, <1>2, <1>8, <1>9, <1>10 DEF Sole, Queued, Dropped, Shutting, Brief, Dropping, FromRun,
     SchedEnds, RunFrames, Runnable, Using, OnTop, Seats, One, Known, Settled, Flagged, TlTypes
<1>22. Sole'
  BY <1>1, <1>2, <1>8, <1>9, <1>10, <1>11, <1>12, <1>13, <1>14, <1>15, <1>16, <1>17, <1>18, <1>19,
     <1>20, <1>21 DEF Sole, Queued
<1>23. Dropped'
  BY <1>1, <1>2, <1>8, <1>9, <1>10 DEF Dropped, Sole, Brief, Dropping, FromRun, SchedEnds,
     RunFrames, Runnable, Using, OnTop, Seats, One, Known, Settled, Flagged, TlTypes
<1>24. Awaited'
  BY <1>1, <1>2, <1>8, <1>9, <1>10 DEF Awaited, Queued, Telling, Sole, Dropped, Brief, Dropping,
     FromRun, SchedEnds, RunFrames, Runnable, Using, OnTop, Seats, One, Known, Settled, Flagged,
     TlTypes
<1>25. Shutting'
  BY <1>1, <1>2, <1>8, <1>9, <1>10 DEF Shutting, Dropped, Sole, Brief, Dropping, FromRun,
     SchedEnds, RunFrames, Runnable, Using, OnTop, Seats, One, Known, Settled, Flagged, TlTypes
<1>. QED
  BY <1>8, <1>22, <1>23, <1>24, <1>25 DEF TlSound, Sound

LEMMA Sound_push ==
  ASSUME TlInv, TlSound, push PROVE TlSound'
<1>. DEFINE t == Tail(stack)
<1>1. /\ TlTypes /\ Stacked /\ Registered /\ Flagged /\ Finished
      /\ SeatedIn(stack) /\ Sole /\ Dropped /\ Awaited /\ Shutting /\ Sound
  BY DEF TlInv, TlSound, Sound
<1>2. OnTop("push", t) /\ Top = "push"
  BY TopSeat DEF TlSound, push
<1>3. Tail(stack) = t /\ t \in Seq(Names)
  BY <1>2 DEF OnTop
<1>4. stack' = t
  BY <1>3 DEF push, Has, Return
<1>5. /\ SeatedIn(stack') /\ Frames' = Members(t) /\ Top' \in Members(t) \cup {"none"}
      /\ Runs(stack') = Runs(t) /\ Uses(stack') = Uses(t)
  BY <1>2, <1>4, Lie0 DEF OnTop, Lies
<1>6. /\ (Has("SCHEDULED")' <=> Has("SCHEDULED")) /\ (Has("RUNNING")' <=> Has("RUNNING"))
      /\ (Has("COMPLETED")' <=> Has("COMPLETED"))
      /\ (Has("FUTURE_DROPPED")' <=> Has("FUTURE_DROPPED"))
      /\ (Has("SCHEDULE_DROPPED")' <=> Has("SCHEDULE_DROPPED"))
      /\ (Has("OUTPUT_PRESENT")' <=> Has("OUTPUT_PRESENT")) /\ (Ended' <=> Ended)
  BY <1>1 DEF push, Has, Ended, header, Dropped
<1>7. /\ UNCHANGED <<linked, awaiter, exec, closed, shut, chanWake, chanCleanup>>
      /\ runq' = runq + 1
  BY <1>1 DEF push, header, places, executor, channel, TlTypes
<1>8. (runq + Runs(stack) <= 1)'
  BY <1>1, <1>2, <1>5, <1>6, <1>7 DEF Sole, Queued, Dropped, Shutting, Brief, Dropping, FromRun,
     SchedEnds, RunFrames, Runnable, Using, OnTop, Seats, One, Known, Settled, Flagged, TlTypes
<1>9. (runq + Runs(stack) = 1 =>
         Has("SCHEDULED") \/ Has("RUNNING") \/ Ended \/ Top \in {"end_run", "close"})'
  BY <1>1, <1>2, <1>5, <1>6, <1>7 DEF Sole, Queued, Dropped, Shutting, Brief, Dropping, FromRun,
     SchedEnds, RunFrames, Runnable, Using, OnTop, Seats, One, Known, Settled, Flagged, TlTypes
<1>10. (Top = "schedule" => runq + Runs(stack) = 0 /\ Has("SCHEDULED"))'
  BY <1>1, <1>2, <1>5, <1>6, <1>7 DEF Sole, Queued, Dropped, Shutting, Brief, Dropping, FromRun,
     SchedEnds, RunFrames, Runnable, Using, OnTop, Seats, One, Known, Settled, Flagged, TlTypes
<1>11. (Top \in {"schedule", "schedule_owned"} \/ "push" \in Frames => ~Has("RUNNING"))'
  BY <1>1, <1>2, <1>5, <1>6, <1>7 DEF Sole, Queued, Dropped, Shutting, Brief, Dropping, FromRun,
     SchedEnds, RunFrames, Runnable, Using, OnTop, Seats, One, Known, Settled, Flagged, TlTypes
<1>12. (Top \in {"schedule", "schedule_owned"} => ~Has("SCHEDULE_DROPPED"))'
  BY <1>1, <1>2, <1>5, <1>6, <1>7 DEF Sole, Queued, Dropped, Shutting, Brief, Dropping, FromRun,
     SchedEnds, RunFrames, Runnable, Using, OnTop, Seats, One, Known, Settled, Flagged, TlTypes
<1>13. ("end_run" \in Frames => Top \in {"end_run", "close"} \/ "completed" \in Frames \/ Ended)'
  BY <1>1, <1>2, <1>5, <1>6, <1>7 DEF Sole, Queued, Dropped, Shutting, Brief, Dropping, FromRun,
     SchedEnds, RunFrames, Runnable, Using, OnTop, Seats, One, Known, Settled, Flagged, TlTypes
<1>14. ("end_run" \in Frames /\ Has("SCHEDULED") =>
          "completed" \in Frames \/ "pending_closed_end" \in Frames)'
  BY <1>1, <1>2, <1>5, <1>6, <1>7 DEF Sole, Queued, Dropped, Shutting, Brief, Dropping, FromRun,
     SchedEnds, RunFrames, Runnable, Using, OnTop, Seats, One, Known, Settled, Flagged, TlTypes
<1>15. (Has("SCHEDULED") => \/ runq + Runs(stack) = 1 \/ Top = "schedule"
                            \/ "pending_closed_end" \in Frames
                            \/ (Top = "close" /\ ~Has("RUNNING")))'
  BY <1>1, <1>2, <1>5, <1>6, <1>7 DEF Sole, Queued, Dropped, Shutting, Brief, Dropping, FromRun,
     SchedEnds, RunFrames, Runnable, Using, OnTop, Seats, One, Known, Settled, Flagged, TlTypes
<1>16. (Queued => Has("SCHEDULED") \/ "finish_shutdown" \in Frames)'
  BY <1>1, <1>2, <1>5, <1>6, <1>7 DEF Sole, Queued, Dropped, Shutting, Brief, Dropping, FromRun,
     SchedEnds, RunFrames, Runnable, Using, OnTop, Seats, One, Known, Settled, Flagged, TlTypes
<1>17. (Top = "close" => runq = 0 \/ "finish_shutdown" \in Frames)'
  BY <1>1, <1>2, <1>5, <1>6, <1>7 DEF Sole, Queued, Dropped, Shutting, Brief, Dropping, FromRun,
     SchedEnds, RunFrames, Runnable, Using, OnTop, Seats, One, Known, Settled, Flagged, TlTypes
<1>18. ("pending_closed_end" \in Frames => runq = 0)'
  BY <1>1, <1>2, <1>5, <1>6, <1>7 DEF Sole, Queued, Dropped, Shutting, Brief, Dropping, FromRun,
     SchedEnds, RunFrames, Runnable, Using, OnTop, Seats, One, Known, Settled, Flagged, TlTypes
<1>19. Sole'
  BY <1>1, <1>2, <1>5, <1>6, <1>7, <1>8, <1>9, <1>10, <1>11, <1>12, <1>13, <1>14, <1>15, <1>16,
     <1>17, <1>18 DEF Sole, Queued
<1>20. Dropped'
  BY <1>1, <1>2, <1>5, <1>6, <1>7 DEF Dropped, Sole, Brief, Dropping, FromRun, SchedEnds,
     RunFrames, Runnable, Using, OnTop, Seats, One, Known, Settled, Flagged, TlTypes
<1>21. Awaited'
  BY <1>1, <1>2, <1>5, <1>6, <1>7 DEF Awaited, Queued, Telling, Sole, Dropped, Brief, Dropping,
     FromRun, SchedEnds, RunFrames, Runnable, Using, OnTop, Seats, One, Known, Settled, Flagged,
     TlTypes
<1>22. Shutting'
  BY <1>1, <1>2, <1>5, <1>6, <1>7 DEF Shutting, Dropped, Sole, Brief, Dropping, FromRun,
     SchedEnds, RunFrames, Runnable, Using, OnTop, Seats, One, Known, Settled, Flagged, TlTypes
<1>. QED
  BY <1>5, <1>19, <1>20, <1>21, <1>22 DEF TlSound, Sound

(* Scheduling and running.                                                     *)
LEMMA Sound_schedule_owned ==
  ASSUME TlInv, TlSound, schedule_owned PROVE TlSound'
<1>. DEFINE t == Tail(stack)
<1>1. /\ TlTypes /\ Stacked /\ Registered /\ Flagged /\ Finished
      /\ SeatedIn(stack) /\ Sole /\ Dropped /\ Awaited /\ Shutting /\ Sound
  BY DEF TlInv, TlSound, Sound
<1>2. OnTop("schedule_owned", t) /\ Top = "schedule_owned"
  BY TopSeat DEF TlSound, schedule_owned
<1>3. Tail(stack) = t /\ t \in Seq(Names)
  BY <1>2 DEF OnTop
<1>. DEFINE e == IF scheduling THEN "schedule_end_T" ELSE "schedule_end_F"
<1>4. ~Has("SCHEDULE_DROPPED") /\ e \in SchedEnds
  BY <1>1, <1>2 DEF Sole, SchedEnds
<1>5. \/ /\ exec # "gone" /\ runq' = runq + 1 /\ exec' = exec
         /\ stack' = <<e>> \o t
      \/ Entered /\ runq' = runq /\ exec' = exec /\ stack' = (<<"cancel", "push">> \o <<e>>) \o t
      \/ /\ exec = "idle" /\ runq' = runq /\ exec' = "cleanup"
         /\ stack' = ((DropTask \o <<"leave">>) \o <<e>>) \o t
      \/ exec = "gone" /\ runq' = runq /\ exec' = exec /\ stack' = (DropTask \o <<e>>) \o t
  BY <1>3, <1>4 DEF schedule_owned, Return, Entered
<1>. HIDE DEF e
<1>6. CASE exec # "gone" /\ runq' = runq + 1 /\ exec' = exec /\ stack' = <<e>> \o t
  <2>1. stack' = Push(e, t)
    BY <1>4, <1>5, <1>6, <1>3 DEF schedule_owned, Has, Return, Push
  <2>2. Seats(e, Members(t))
    BY <1>1, <1>2, <1>4, <1>5, <1>6 DEF OnTop, Seats, Brief, Dropping, SchedEnds, RunFrames,
       FromRun, Flagged, Registered, Has, Sole, Dropped, Awaited, Shutting, Known, Settled,
       Entered
  <2>3. e \in Names
    BY <1>4 DEF Names, Protecting, Holding, Bare, Neutral, SchedEnds
  <2>4. /\ Lies(Members(t) \cup {e},
                Runs(t) + One(e, Runnable),
                Uses(t) + One(e, Using))
        /\ Top' = e
    BY <1>2, <2>1, <2>2, <2>3, Lie1 DEF OnTop
  <2>5. /\ SeatedIn(stack')
        /\ Frames' = Members(t) \cup {e}
        /\ Runs(stack') = Runs(t) /\ Uses(stack') = Uses(t) /\ Top' = e
    BY <1>2, <2>4, <1>4 DEF Lies, One, Runnable, Using, Known, OnTop, SchedEnds
  <2>6. /\ (Has("SCHEDULED")' <=> Has("SCHEDULED")) /\ (Has("RUNNING")' <=> Has("RUNNING"))
        /\ (Has("COMPLETED")' <=> Has("COMPLETED"))
        /\ (Has("FUTURE_DROPPED")' <=> Has("FUTURE_DROPPED"))
        /\ (Has("SCHEDULE_DROPPED")' <=> Has("SCHEDULE_DROPPED"))
        /\ (Has("OUTPUT_PRESENT")' <=> Has("OUTPUT_PRESENT")) /\ (Ended' <=> Ended)
    BY <1>1, <1>4, <1>5, <1>6 DEF schedule_owned, Has, Ended, header, Dropped
  <2>7. /\ UNCHANGED <<linked, awaiter, exec, closed, shut, chanWake, chanCleanup>>
        /\ runq' = runq + 1
    BY <1>1, <1>4, <1>5, <1>6 DEF schedule_owned, header, places, executor, channel, TlTypes
  <2>8. (runq + Runs(stack) <= 1)'
    BY <1>1, <1>2, <1>4, <1>5, <1>6, <2>5, <2>6, <2>7 DEF Sole, Queued, Dropped, Shutting, Brief,
       Dropping, FromRun, SchedEnds, RunFrames, Runnable, Using, OnTop, Seats, One, Known,
       Settled, Flagged, TlTypes
  <2>9. (runq + Runs(stack) = 1 =>
           Has("SCHEDULED") \/ Has("RUNNING") \/ Ended \/ Top \in {"end_run", "close"})'
    BY <1>1, <1>2, <1>4, <1>5, <1>6, <2>5, <2>6, <2>7 DEF Sole, Queued, Dropped, Shutting, Brief,
       Dropping, FromRun, SchedEnds, RunFrames, Runnable, Using, OnTop, Seats, One, Known,
       Settled, Flagged, TlTypes
  <2>10. (Top = "schedule" => runq + Runs(stack) = 0 /\ Has("SCHEDULED"))'
    BY <1>1, <1>2, <1>4, <1>5, <1>6, <2>5, <2>6, <2>7 DEF Sole, Queued, Dropped, Shutting, Brief,
       Dropping, FromRun, SchedEnds, RunFrames, Runnable, Using, OnTop, Seats, One, Known,
       Settled, Flagged, TlTypes
  <2>11. (Top \in {"schedule", "schedule_owned"} \/ "push" \in Frames => ~Has("RUNNING"))'
    BY <1>1, <1>2, <1>4, <1>5, <1>6, <2>5, <2>6, <2>7 DEF Sole, Queued, Dropped, Shutting, Brief,
       Dropping, FromRun, SchedEnds, RunFrames, Runnable, Using, OnTop, Seats, One, Known,
       Settled, Flagged, TlTypes
  <2>12. (Top \in {"schedule", "schedule_owned"} => ~Has("SCHEDULE_DROPPED"))'
    BY <1>1, <1>2, <1>4, <1>5, <1>6, <2>5, <2>6, <2>7 DEF Sole, Queued, Dropped, Shutting, Brief,
       Dropping, FromRun, SchedEnds, RunFrames, Runnable, Using, OnTop, Seats, One, Known,
       Settled, Flagged, TlTypes
  <2>13. ("end_run" \in Frames => Top \in {"end_run", "close"} \/ "completed" \in Frames \/ Ended)'
    BY <1>1, <1>2, <1>4, <1>5, <1>6, <2>5, <2>6, <2>7 DEF Sole, Queued, Dropped, Shutting, Brief,
       Dropping, FromRun, SchedEnds, RunFrames, Runnable, Using, OnTop, Seats, One, Known,
       Settled, Flagged, TlTypes
  <2>14. ("end_run" \in Frames /\ Has("SCHEDULED") =>
            "completed" \in Frames \/ "pending_closed_end" \in Frames)'
    BY <1>1, <1>2, <1>4, <1>5, <1>6, <2>5, <2>6, <2>7 DEF Sole, Queued, Dropped, Shutting, Brief,
       Dropping, FromRun, SchedEnds, RunFrames, Runnable, Using, OnTop, Seats, One, Known,
       Settled, Flagged, TlTypes
  <2>15. (Has("SCHEDULED") => \/ runq + Runs(stack) = 1 \/ Top = "schedule"
                              \/ "pending_closed_end" \in Frames
                              \/ (Top = "close" /\ ~Has("RUNNING")))'
    BY <1>1, <1>2, <1>4, <1>5, <1>6, <2>5, <2>6, <2>7 DEF Sole, Queued, Dropped, Shutting, Brief,
       Dropping, FromRun, SchedEnds, RunFrames, Runnable, Using, OnTop, Seats, One, Known,
       Settled, Flagged, TlTypes
  <2>16. (Queued => Has("SCHEDULED") \/ "finish_shutdown" \in Frames)'
    BY <1>1, <1>2, <1>4, <1>5, <1>6, <2>5, <2>6, <2>7 DEF Sole, Queued, Dropped, Shutting, Brief,
       Dropping, FromRun, SchedEnds, RunFrames, Runnable, Using, OnTop, Seats, One, Known,
       Settled, Flagged, TlTypes
  <2>17. (Top = "close" => runq = 0 \/ "finish_shutdown" \in Frames)'
    BY <1>1, <1>2, <1>4, <1>5, <1>6, <2>5, <2>6, <2>7 DEF Sole, Queued, Dropped, Shutting, Brief,
       Dropping, FromRun, SchedEnds, RunFrames, Runnable, Using, OnTop, Seats, One, Known,
       Settled, Flagged, TlTypes
  <2>18. ("pending_closed_end" \in Frames => runq = 0)'
    BY <1>1, <1>2, <1>4, <1>5, <1>6, <2>5, <2>6, <2>7 DEF Sole, Queued, Dropped, Shutting, Brief,
       Dropping, FromRun, SchedEnds, RunFrames, Runnable, Using, OnTop, Seats, One, Known,
       Settled, Flagged, TlTypes
  <2>19. Sole'
    BY <1>1, <1>2, <1>4, <1>5, <1>6, <2>5, <2>6, <2>7, <2>8, <2>9, <2>10, <2>11, <2>12, <2>13,
       <2>14, <2>15, <2>16, <2>17, <2>18 DEF Sole, Queued
  <2>20. Dropped'
    BY <1>1, <1>2, <1>4, <1>5, <1>6, <2>5, <2>6, <2>7 DEF Dropped, Sole, Brief, Dropping, FromRun,
       SchedEnds, RunFrames, Runnable, Using, OnTop, Seats, One, Known, Settled, Flagged, TlTypes
  <2>21. Awaited'
    BY <1>1, <1>2, <1>4, <1>5, <1>6, <2>5, <2>6, <2>7 DEF Awaited, Queued, Telling, Sole, Dropped,
       Brief, Dropping, FromRun, SchedEnds, RunFrames, Runnable, Using, OnTop, Seats, One, Known,
       Settled, Flagged, TlTypes
  <2>22. Shutting'
    BY <1>1, <1>2, <1>4, <1>5, <1>6, <2>5, <2>6, <2>7 DEF Shutting, Dropped, Sole, Brief,
       Dropping, FromRun, SchedEnds, RunFrames, Runnable, Using, OnTop, Seats, One, Known,
       Settled, Flagged, TlTypes, Entered
  <2>. QED
    BY <2>5, <2>19, <2>20, <2>21, <2>22 DEF TlSound, Sound
<1>7. CASE /\ Entered /\ runq' = runq /\ exec' = exec
           /\ stack' = (<<"cancel", "push">> \o <<e>>) \o t
  <2>1. stack' = Push("cancel", Push("push", Push(e, t)))
    BY <1>4, <1>5, <1>7, <1>3 DEF schedule_owned, Has, Return, Push
  <2>2. /\ Seats(e, Members(t))
        /\ Seats("push", Members(t) \cup {e})
        /\ Seats("cancel", Members(t) \cup {"push", e})
    BY <1>1, <1>2, <1>4, <1>5, <1>7 DEF OnTop, Seats, Brief, Dropping, SchedEnds, RunFrames,
       FromRun, Flagged, Registered, Has, Sole, Dropped, Awaited, Shutting, Known, Settled,
       Entered
  <2>3. "cancel" \in Names /\ "push" \in Names /\ e \in Names
    BY <1>4 DEF Names, Protecting, Holding, Bare, Neutral, SchedEnds
  <2>4. /\ Lies(Members(t) \cup {"cancel", "push", e},
                Runs(t) + One("cancel", Runnable) + One("push", Runnable) + One(e, Runnable),
                Uses(t) + One("cancel", Using) + One("push", Using) + One(e, Using))
        /\ Top' = "cancel"
    BY <1>2, <2>1, <2>2, <2>3, Lie3 DEF OnTop
  <2>5. /\ SeatedIn(stack')
        /\ Frames' = Members(t) \cup {"cancel", "push", e}
        /\ Runs(stack') = Runs(t) + 1 /\ Uses(stack') = Uses(t) /\ Top' = "cancel"
    BY <1>2, <2>4, <1>4 DEF Lies, One, Runnable, Using, Known, OnTop, SchedEnds
  <2>6. /\ (Has("SCHEDULED")' <=> Has("SCHEDULED")) /\ (Has("RUNNING")' <=> Has("RUNNING"))
        /\ (Has("COMPLETED")' <=> Has("COMPLETED"))
        /\ (Has("FUTURE_DROPPED")' <=> Has("FUTURE_DROPPED"))
        /\ (Has("SCHEDULE_DROPPED")' <=> Has("SCHEDULE_DROPPED"))
        /\ (Has("OUTPUT_PRESENT")' <=> Has("OUTPUT_PRESENT")) /\ (Ended' <=> Ended)
    BY <1>1, <1>4, <1>5, <1>7 DEF schedule_owned, Has, Ended, header, Dropped
  <2>7. UNCHANGED <<runq, linked, awaiter, exec, closed, shut, chanWake, chanCleanup>>
    BY <1>1, <1>4, <1>5, <1>7 DEF schedule_owned, header, places, executor, channel, TlTypes
  <2>8. (runq + Runs(stack) <= 1)'
    BY <1>1, <1>2, <1>4, <1>5, <1>7, <2>5, <2>6, <2>7 DEF Sole, Queued, Dropped, Shutting, Brief,
       Dropping, FromRun, SchedEnds, RunFrames, Runnable, Using, OnTop, Seats, One, Known,
       Settled, Flagged, TlTypes
  <2>9. (runq + Runs(stack) = 1 =>
           Has("SCHEDULED") \/ Has("RUNNING") \/ Ended \/ Top \in {"end_run", "close"})'
    BY <1>1, <1>2, <1>4, <1>5, <1>7, <2>5, <2>6, <2>7 DEF Sole, Queued, Dropped, Shutting, Brief,
       Dropping, FromRun, SchedEnds, RunFrames, Runnable, Using, OnTop, Seats, One, Known,
       Settled, Flagged, TlTypes
  <2>10. (Top = "schedule" => runq + Runs(stack) = 0 /\ Has("SCHEDULED"))'
    BY <1>1, <1>2, <1>4, <1>5, <1>7, <2>5, <2>6, <2>7 DEF Sole, Queued, Dropped, Shutting, Brief,
       Dropping, FromRun, SchedEnds, RunFrames, Runnable, Using, OnTop, Seats, One, Known,
       Settled, Flagged, TlTypes
  <2>11. (Top \in {"schedule", "schedule_owned"} \/ "push" \in Frames => ~Has("RUNNING"))'
    BY <1>1, <1>2, <1>4, <1>5, <1>7, <2>5, <2>6, <2>7 DEF Sole, Queued, Dropped, Shutting, Brief,
       Dropping, FromRun, SchedEnds, RunFrames, Runnable, Using, OnTop, Seats, One, Known,
       Settled, Flagged, TlTypes
  <2>12. (Top \in {"schedule", "schedule_owned"} => ~Has("SCHEDULE_DROPPED"))'
    BY <1>1, <1>2, <1>4, <1>5, <1>7, <2>5, <2>6, <2>7 DEF Sole, Queued, Dropped, Shutting, Brief,
       Dropping, FromRun, SchedEnds, RunFrames, Runnable, Using, OnTop, Seats, One, Known,
       Settled, Flagged, TlTypes
  <2>13. ("end_run" \in Frames => Top \in {"end_run", "close"} \/ "completed" \in Frames \/ Ended)'
    BY <1>1, <1>2, <1>4, <1>5, <1>7, <2>5, <2>6, <2>7 DEF Sole, Queued, Dropped, Shutting, Brief,
       Dropping, FromRun, SchedEnds, RunFrames, Runnable, Using, OnTop, Seats, One, Known,
       Settled, Flagged, TlTypes
  <2>14. ("end_run" \in Frames /\ Has("SCHEDULED") =>
            "completed" \in Frames \/ "pending_closed_end" \in Frames)'
    BY <1>1, <1>2, <1>4, <1>5, <1>7, <2>5, <2>6, <2>7 DEF Sole, Queued, Dropped, Shutting, Brief,
       Dropping, FromRun, SchedEnds, RunFrames, Runnable, Using, OnTop, Seats, One, Known,
       Settled, Flagged, TlTypes
  <2>15. (Has("SCHEDULED") => \/ runq + Runs(stack) = 1 \/ Top = "schedule"
                              \/ "pending_closed_end" \in Frames
                              \/ (Top = "close" /\ ~Has("RUNNING")))'
    BY <1>1, <1>2, <1>4, <1>5, <1>7, <2>5, <2>6, <2>7 DEF Sole, Queued, Dropped, Shutting, Brief,
       Dropping, FromRun, SchedEnds, RunFrames, Runnable, Using, OnTop, Seats, One, Known,
       Settled, Flagged, TlTypes
  <2>16. (Queued => Has("SCHEDULED") \/ "finish_shutdown" \in Frames)'
    BY <1>1, <1>2, <1>4, <1>5, <1>7, <2>5, <2>6, <2>7 DEF Sole, Queued, Dropped, Shutting, Brief,
       Dropping, FromRun, SchedEnds, RunFrames, Runnable, Using, OnTop, Seats, One, Known,
       Settled, Flagged, TlTypes
  <2>17. (Top = "close" => runq = 0 \/ "finish_shutdown" \in Frames)'
    BY <1>1, <1>2, <1>4, <1>5, <1>7, <2>5, <2>6, <2>7 DEF Sole, Queued, Dropped, Shutting, Brief,
       Dropping, FromRun, SchedEnds, RunFrames, Runnable, Using, OnTop, Seats, One, Known,
       Settled, Flagged, TlTypes
  <2>18. ("pending_closed_end" \in Frames => runq = 0)'
    BY <1>1, <1>2, <1>4, <1>5, <1>7, <2>5, <2>6, <2>7 DEF Sole, Queued, Dropped, Shutting, Brief,
       Dropping, FromRun, SchedEnds, RunFrames, Runnable, Using, OnTop, Seats, One, Known,
       Settled, Flagged, TlTypes
  <2>19. Sole'
    BY <1>1, <1>2, <1>4, <1>5, <1>7, <2>5, <2>6, <2>7, <2>8, <2>9, <2>10, <2>11, <2>12, <2>13,
       <2>14, <2>15, <2>16, <2>17, <2>18 DEF Sole, Queued
  <2>20. Dropped'
    BY <1>1, <1>2, <1>4, <1>5, <1>7, <2>5, <2>6, <2>7 DEF Dropped, Sole, Brief, Dropping, FromRun,
       SchedEnds, RunFrames, Runnable, Using, OnTop, Seats, One, Known, Settled, Flagged, TlTypes
  <2>21. Awaited'
    BY <1>1, <1>2, <1>4, <1>5, <1>7, <2>5, <2>6, <2>7 DEF Awaited, Queued, Telling, Sole, Dropped,
       Brief, Dropping, FromRun, SchedEnds, RunFrames, Runnable, Using, OnTop, Seats, One, Known,
       Settled, Flagged, TlTypes
  <2>22. Shutting'
    BY <1>1, <1>2, <1>4, <1>5, <1>7, <2>5, <2>6, <2>7 DEF Shutting, Dropped, Sole, Brief,
       Dropping, FromRun, SchedEnds, RunFrames, Runnable, Using, OnTop, Seats, One, Known,
       Settled, Flagged, TlTypes, Entered
  <2>. QED
    BY <2>5, <2>19, <2>20, <2>21, <2>22 DEF TlSound, Sound
<1>8. CASE /\ exec = "idle" /\ runq' = runq /\ exec' = "cleanup"
           /\ stack' = ((DropTask \o <<"leave">>) \o <<e>>) \o t
  <2>1. stack' = Push("close", Push("finish", Push("release", Push("leave", Push(e, t)))))
    BY <1>4, <1>5, <1>8, <1>3 DEF schedule_owned, Has, Return, Push, DropTask
  <2>2. /\ Seats(e, Members(t))
        /\ Seats("leave", Members(t) \cup {e})
        /\ Seats("release", Members(t) \cup {"leave", e})
        /\ Seats("finish", Members(t) \cup {"release", "leave", e})
        /\ Seats("close", Members(t) \cup {"finish", "release", "leave", e})
    BY <1>1, <1>2, <1>4, <1>5, <1>8 DEF OnTop, Seats, Brief, Dropping, SchedEnds, RunFrames,
       FromRun, Flagged, Registered, Has, Sole, Dropped, Awaited, Shutting, Known, Settled,
       Entered
  <2>3. "close" \in Names /\ "finish" \in Names /\ "release" \in Names /\ "leave" \in Names /\ e \in Names
    BY <1>4 DEF Names, Protecting, Holding, Bare, Neutral, SchedEnds
  <2>4. /\ Lies(Members(t) \cup {"close", "finish", "release", "leave", e},
                Runs(t) + One("close", Runnable) + One("finish", Runnable)
                    + One("release", Runnable) + One("leave", Runnable) + One(e, Runnable),
                Uses(t) + One("close", Using) + One("finish", Using) + One("release", Using)
                    + One("leave", Using) + One(e, Using))
        /\ Top' = "close"
    BY <1>2, <2>1, <2>2, <2>3, Lie5 DEF OnTop
  <2>5. /\ SeatedIn(stack')
        /\ Frames' = Members(t) \cup {"close", "finish", "release", "leave", e}
        /\ Runs(stack') = Runs(t) /\ Uses(stack') = Uses(t) /\ Top' = "close"
    BY <1>2, <2>4, <1>4 DEF Lies, One, Runnable, Using, Known, OnTop, SchedEnds
  <2>6. /\ (Has("SCHEDULED")' <=> Has("SCHEDULED")) /\ (Has("RUNNING")' <=> Has("RUNNING"))
        /\ (Has("COMPLETED")' <=> Has("COMPLETED"))
        /\ (Has("FUTURE_DROPPED")' <=> Has("FUTURE_DROPPED"))
        /\ (Has("SCHEDULE_DROPPED")' <=> Has("SCHEDULE_DROPPED"))
        /\ (Has("OUTPUT_PRESENT")' <=> Has("OUTPUT_PRESENT")) /\ (Ended' <=> Ended)
    BY <1>1, <1>4, <1>5, <1>8 DEF schedule_owned, Has, Ended, header, Dropped
  <2>7. /\ UNCHANGED <<runq, linked, awaiter, closed, shut, chanWake, chanCleanup>>
        /\ exec' = "cleanup"
    BY <1>1, <1>4, <1>5, <1>8 DEF schedule_owned, header, places, executor, channel, TlTypes
  <2>8. (runq + Runs(stack) <= 1)'
    BY <1>1, <1>2, <1>4, <1>5, <1>8, <2>5, <2>6, <2>7 DEF Sole, Queued, Dropped, Shutting, Brief,
       Dropping, FromRun, SchedEnds, RunFrames, Runnable, Using, OnTop, Seats, One, Known,
       Settled, Flagged, TlTypes
  <2>9. (runq + Runs(stack) = 1 =>
           Has("SCHEDULED") \/ Has("RUNNING") \/ Ended \/ Top \in {"end_run", "close"})'
    BY <1>1, <1>2, <1>4, <1>5, <1>8, <2>5, <2>6, <2>7 DEF Sole, Queued, Dropped, Shutting, Brief,
       Dropping, FromRun, SchedEnds, RunFrames, Runnable, Using, OnTop, Seats, One, Known,
       Settled, Flagged, TlTypes
  <2>10. (Top = "schedule" => runq + Runs(stack) = 0 /\ Has("SCHEDULED"))'
    BY <1>1, <1>2, <1>4, <1>5, <1>8, <2>5, <2>6, <2>7 DEF Sole, Queued, Dropped, Shutting, Brief,
       Dropping, FromRun, SchedEnds, RunFrames, Runnable, Using, OnTop, Seats, One, Known,
       Settled, Flagged, TlTypes
  <2>11. (Top \in {"schedule", "schedule_owned"} \/ "push" \in Frames => ~Has("RUNNING"))'
    BY <1>1, <1>2, <1>4, <1>5, <1>8, <2>5, <2>6, <2>7 DEF Sole, Queued, Dropped, Shutting, Brief,
       Dropping, FromRun, SchedEnds, RunFrames, Runnable, Using, OnTop, Seats, One, Known,
       Settled, Flagged, TlTypes
  <2>12. (Top \in {"schedule", "schedule_owned"} => ~Has("SCHEDULE_DROPPED"))'
    BY <1>1, <1>2, <1>4, <1>5, <1>8, <2>5, <2>6, <2>7 DEF Sole, Queued, Dropped, Shutting, Brief,
       Dropping, FromRun, SchedEnds, RunFrames, Runnable, Using, OnTop, Seats, One, Known,
       Settled, Flagged, TlTypes
  <2>13. ("end_run" \in Frames => Top \in {"end_run", "close"} \/ "completed" \in Frames \/ Ended)'
    BY <1>1, <1>2, <1>4, <1>5, <1>8, <2>5, <2>6, <2>7 DEF Sole, Queued, Dropped, Shutting, Brief,
       Dropping, FromRun, SchedEnds, RunFrames, Runnable, Using, OnTop, Seats, One, Known,
       Settled, Flagged, TlTypes
  <2>14. ("end_run" \in Frames /\ Has("SCHEDULED") =>
            "completed" \in Frames \/ "pending_closed_end" \in Frames)'
    BY <1>1, <1>2, <1>4, <1>5, <1>8, <2>5, <2>6, <2>7 DEF Sole, Queued, Dropped, Shutting, Brief,
       Dropping, FromRun, SchedEnds, RunFrames, Runnable, Using, OnTop, Seats, One, Known,
       Settled, Flagged, TlTypes
  <2>15. (Has("SCHEDULED") => \/ runq + Runs(stack) = 1 \/ Top = "schedule"
                              \/ "pending_closed_end" \in Frames
                              \/ (Top = "close" /\ ~Has("RUNNING")))'
    BY <1>1, <1>2, <1>4, <1>5, <1>8, <2>5, <2>6, <2>7 DEF Sole, Queued, Dropped, Shutting, Brief,
       Dropping, FromRun, SchedEnds, RunFrames, Runnable, Using, OnTop, Seats, One, Known,
       Settled, Flagged, TlTypes
  <2>16. (Queued => Has("SCHEDULED") \/ "finish_shutdown" \in Frames)'
    BY <1>1, <1>2, <1>4, <1>5, <1>8, <2>5, <2>6, <2>7 DEF Sole, Queued, Dropped, Shutting, Brief,
       Dropping, FromRun, SchedEnds, RunFrames, Runnable, Using, OnTop, Seats, One, Known,
       Settled, Flagged, TlTypes
  <2>17. (Top = "close" => runq = 0 \/ "finish_shutdown" \in Frames)'
    BY <1>1, <1>2, <1>4, <1>5, <1>8, <2>5, <2>6, <2>7 DEF Sole, Queued, Dropped, Shutting, Brief,
       Dropping, FromRun, SchedEnds, RunFrames, Runnable, Using, OnTop, Seats, One, Known,
       Settled, Flagged, TlTypes
  <2>18. ("pending_closed_end" \in Frames => runq = 0)'
    BY <1>1, <1>2, <1>4, <1>5, <1>8, <2>5, <2>6, <2>7 DEF Sole, Queued, Dropped, Shutting, Brief,
       Dropping, FromRun, SchedEnds, RunFrames, Runnable, Using, OnTop, Seats, One, Known,
       Settled, Flagged, TlTypes
  <2>19. Sole'
    BY <1>1, <1>2, <1>4, <1>5, <1>8, <2>5, <2>6, <2>7, <2>8, <2>9, <2>10, <2>11, <2>12, <2>13,
       <2>14, <2>15, <2>16, <2>17, <2>18 DEF Sole, Queued
  <2>20. Dropped'
    BY <1>1, <1>2, <1>4, <1>5, <1>8, <2>5, <2>6, <2>7 DEF Dropped, Sole, Brief, Dropping, FromRun,
       SchedEnds, RunFrames, Runnable, Using, OnTop, Seats, One, Known, Settled, Flagged, TlTypes
  <2>21. Awaited'
    BY <1>1, <1>2, <1>4, <1>5, <1>8, <2>5, <2>6, <2>7 DEF Awaited, Queued, Telling, Sole, Dropped,
       Brief, Dropping, FromRun, SchedEnds, RunFrames, Runnable, Using, OnTop, Seats, One, Known,
       Settled, Flagged, TlTypes
  <2>22. Shutting'
    BY <1>1, <1>2, <1>4, <1>5, <1>8, <2>5, <2>6, <2>7 DEF Shutting, Dropped, Sole, Brief,
       Dropping, FromRun, SchedEnds, RunFrames, Runnable, Using, OnTop, Seats, One, Known,
       Settled, Flagged, TlTypes, Entered
  <2>. QED
    BY <2>5, <2>19, <2>20, <2>21, <2>22 DEF TlSound, Sound
<1>9. CASE exec = "gone" /\ runq' = runq /\ exec' = exec /\ stack' = (DropTask \o <<e>>) \o t
  <2>1. stack' = Push("close", Push("finish", Push("release", Push(e, t))))
    BY <1>4, <1>5, <1>9, <1>3 DEF schedule_owned, Has, Return, Push, DropTask
  <2>2. /\ Seats(e, Members(t))
        /\ Seats("release", Members(t) \cup {e})
        /\ Seats("finish", Members(t) \cup {"release", e})
        /\ Seats("close", Members(t) \cup {"finish", "release", e})
    BY <1>1, <1>2, <1>4, <1>5, <1>9 DEF OnTop, Seats, Brief, Dropping, SchedEnds, RunFrames,
       FromRun, Flagged, Registered, Has, Sole, Dropped, Awaited, Shutting, Known, Settled,
       Entered
  <2>3. "close" \in Names /\ "finish" \in Names /\ "release" \in Names /\ e \in Names
    BY <1>4 DEF Names, Protecting, Holding, Bare, Neutral, SchedEnds
  <2>4. /\ Lies(Members(t) \cup {"close", "finish", "release", e},
                Runs(t) + One("close", Runnable) + One("finish", Runnable)
                    + One("release", Runnable) + One(e, Runnable),
                Uses(t) + One("close", Using) + One("finish", Using) + One("release", Using)
                    + One(e, Using))
        /\ Top' = "close"
    BY <1>2, <2>1, <2>2, <2>3, Lie4 DEF OnTop
  <2>5. /\ SeatedIn(stack')
        /\ Frames' = Members(t) \cup {"close", "finish", "release", e}
        /\ Runs(stack') = Runs(t) /\ Uses(stack') = Uses(t) /\ Top' = "close"
    BY <1>2, <2>4, <1>4 DEF Lies, One, Runnable, Using, Known, OnTop, SchedEnds
  <2>6. /\ (Has("SCHEDULED")' <=> Has("SCHEDULED")) /\ (Has("RUNNING")' <=> Has("RUNNING"))
        /\ (Has("COMPLETED")' <=> Has("COMPLETED"))
        /\ (Has("FUTURE_DROPPED")' <=> Has("FUTURE_DROPPED"))
        /\ (Has("SCHEDULE_DROPPED")' <=> Has("SCHEDULE_DROPPED"))
        /\ (Has("OUTPUT_PRESENT")' <=> Has("OUTPUT_PRESENT")) /\ (Ended' <=> Ended)
    BY <1>1, <1>4, <1>5, <1>9 DEF schedule_owned, Has, Ended, header, Dropped
  <2>7. UNCHANGED <<runq, linked, awaiter, exec, closed, shut, chanWake, chanCleanup>>
    BY <1>1, <1>4, <1>5, <1>9 DEF schedule_owned, header, places, executor, channel, TlTypes
  <2>8. (runq + Runs(stack) <= 1)'
    BY <1>1, <1>2, <1>4, <1>5, <1>9, <2>5, <2>6, <2>7 DEF Sole, Queued, Dropped, Shutting, Brief,
       Dropping, FromRun, SchedEnds, RunFrames, Runnable, Using, OnTop, Seats, One, Known,
       Settled, Flagged, TlTypes
  <2>9. (runq + Runs(stack) = 1 =>
           Has("SCHEDULED") \/ Has("RUNNING") \/ Ended \/ Top \in {"end_run", "close"})'
    BY <1>1, <1>2, <1>4, <1>5, <1>9, <2>5, <2>6, <2>7 DEF Sole, Queued, Dropped, Shutting, Brief,
       Dropping, FromRun, SchedEnds, RunFrames, Runnable, Using, OnTop, Seats, One, Known,
       Settled, Flagged, TlTypes
  <2>10. (Top = "schedule" => runq + Runs(stack) = 0 /\ Has("SCHEDULED"))'
    BY <1>1, <1>2, <1>4, <1>5, <1>9, <2>5, <2>6, <2>7 DEF Sole, Queued, Dropped, Shutting, Brief,
       Dropping, FromRun, SchedEnds, RunFrames, Runnable, Using, OnTop, Seats, One, Known,
       Settled, Flagged, TlTypes
  <2>11. (Top \in {"schedule", "schedule_owned"} \/ "push" \in Frames => ~Has("RUNNING"))'
    BY <1>1, <1>2, <1>4, <1>5, <1>9, <2>5, <2>6, <2>7 DEF Sole, Queued, Dropped, Shutting, Brief,
       Dropping, FromRun, SchedEnds, RunFrames, Runnable, Using, OnTop, Seats, One, Known,
       Settled, Flagged, TlTypes
  <2>12. (Top \in {"schedule", "schedule_owned"} => ~Has("SCHEDULE_DROPPED"))'
    BY <1>1, <1>2, <1>4, <1>5, <1>9, <2>5, <2>6, <2>7 DEF Sole, Queued, Dropped, Shutting, Brief,
       Dropping, FromRun, SchedEnds, RunFrames, Runnable, Using, OnTop, Seats, One, Known,
       Settled, Flagged, TlTypes
  <2>13. ("end_run" \in Frames => Top \in {"end_run", "close"} \/ "completed" \in Frames \/ Ended)'
    BY <1>1, <1>2, <1>4, <1>5, <1>9, <2>5, <2>6, <2>7 DEF Sole, Queued, Dropped, Shutting, Brief,
       Dropping, FromRun, SchedEnds, RunFrames, Runnable, Using, OnTop, Seats, One, Known,
       Settled, Flagged, TlTypes
  <2>14. ("end_run" \in Frames /\ Has("SCHEDULED") =>
            "completed" \in Frames \/ "pending_closed_end" \in Frames)'
    BY <1>1, <1>2, <1>4, <1>5, <1>9, <2>5, <2>6, <2>7 DEF Sole, Queued, Dropped, Shutting, Brief,
       Dropping, FromRun, SchedEnds, RunFrames, Runnable, Using, OnTop, Seats, One, Known,
       Settled, Flagged, TlTypes
  <2>15. (Has("SCHEDULED") => \/ runq + Runs(stack) = 1 \/ Top = "schedule"
                              \/ "pending_closed_end" \in Frames
                              \/ (Top = "close" /\ ~Has("RUNNING")))'
    BY <1>1, <1>2, <1>4, <1>5, <1>9, <2>5, <2>6, <2>7 DEF Sole, Queued, Dropped, Shutting, Brief,
       Dropping, FromRun, SchedEnds, RunFrames, Runnable, Using, OnTop, Seats, One, Known,
       Settled, Flagged, TlTypes
  <2>16. (Queued => Has("SCHEDULED") \/ "finish_shutdown" \in Frames)'
    BY <1>1, <1>2, <1>4, <1>5, <1>9, <2>5, <2>6, <2>7 DEF Sole, Queued, Dropped, Shutting, Brief,
       Dropping, FromRun, SchedEnds, RunFrames, Runnable, Using, OnTop, Seats, One, Known,
       Settled, Flagged, TlTypes
  <2>17. (Top = "close" => runq = 0 \/ "finish_shutdown" \in Frames)'
    BY <1>1, <1>2, <1>4, <1>5, <1>9, <2>5, <2>6, <2>7 DEF Sole, Queued, Dropped, Shutting, Brief,
       Dropping, FromRun, SchedEnds, RunFrames, Runnable, Using, OnTop, Seats, One, Known,
       Settled, Flagged, TlTypes
  <2>18. ("pending_closed_end" \in Frames => runq = 0)'
    BY <1>1, <1>2, <1>4, <1>5, <1>9, <2>5, <2>6, <2>7 DEF Sole, Queued, Dropped, Shutting, Brief,
       Dropping, FromRun, SchedEnds, RunFrames, Runnable, Using, OnTop, Seats, One, Known,
       Settled, Flagged, TlTypes
  <2>19. Sole'
    BY <1>1, <1>2, <1>4, <1>5, <1>9, <2>5, <2>6, <2>7, <2>8, <2>9, <2>10, <2>11, <2>12, <2>13,
       <2>14, <2>15, <2>16, <2>17, <2>18 DEF Sole, Queued
  <2>20. Dropped'
    BY <1>1, <1>2, <1>4, <1>5, <1>9, <2>5, <2>6, <2>7 DEF Dropped, Sole, Brief, Dropping, FromRun,
       SchedEnds, RunFrames, Runnable, Using, OnTop, Seats, One, Known, Settled, Flagged, TlTypes
  <2>21. Awaited'
    BY <1>1, <1>2, <1>4, <1>5, <1>9, <2>5, <2>6, <2>7 DEF Awaited, Queued, Telling, Sole, Dropped,
       Brief, Dropping, FromRun, SchedEnds, RunFrames, Runnable, Using, OnTop, Seats, One, Known,
       Settled, Flagged, TlTypes
  <2>22. Shutting'
    BY <1>1, <1>2, <1>4, <1>5, <1>9, <2>5, <2>6, <2>7 DEF Shutting, Dropped, Sole, Brief,
       Dropping, FromRun, SchedEnds, RunFrames, Runnable, Using, OnTop, Seats, One, Known,
       Settled, Flagged, TlTypes, Entered
  <2>. QED
    BY <2>5, <2>19, <2>20, <2>21, <2>22 DEF TlSound, Sound
<1>. QED
  BY <1>6, <1>7, <1>8, <1>9, <1>1, <1>2, <1>4, <1>5 DEF schedule_owned

LEMMA Sound_schedule_end_T ==
  ASSUME TlInv, TlSound, schedule_end, Top = "schedule_end_T" PROVE TlSound'
<1>. DEFINE t == Tail(stack)
<1>1. /\ TlTypes /\ Stacked /\ Registered /\ Flagged /\ Finished
      /\ SeatedIn(stack) /\ Sole /\ Dropped /\ Awaited /\ Shutting /\ Sound
  BY DEF TlInv, TlSound, Sound
<1>2. OnTop("schedule_end_T", t) /\ Top = "schedule_end_T"
  BY TopSeat DEF TlSound, schedule_end
<1>3. Tail(stack) = t /\ t \in Seq(Names)
  BY <1>2 DEF OnTop
<1>4. stack' = Push("finish", t)
  BY <1>3 DEF schedule_end, Has, Return, Push
<1>5. Seats("finish", Members(t))
  BY <1>1, <1>2 DEF OnTop, Seats, Brief, Dropping, SchedEnds, RunFrames, FromRun, Flagged,
     Registered, Has, Sole, Dropped, Awaited, Shutting, Known, Settled
<1>6. "finish" \in Names
  BY DEF Names, Protecting, Holding, Bare, Neutral, SchedEnds
<1>7. /\ Lies(Members(t) \cup {"finish"},
              Runs(t) + One("finish", Runnable),
              Uses(t) + One("finish", Using))
      /\ Top' = "finish"
  BY <1>2, <1>4, <1>5, <1>6, Lie1 DEF OnTop
<1>8. /\ SeatedIn(stack')
      /\ Frames' = Members(t) \cup {"finish"}
      /\ Runs(stack') = Runs(t) /\ Uses(stack') = Uses(t) /\ Top' = "finish"
  BY <1>2, <1>7 DEF Lies, One, Runnable, Using, Known, OnTop
<1>9. /\ (Has("SCHEDULED")' <=> Has("SCHEDULED")) /\ (Has("RUNNING")' <=> Has("RUNNING"))
      /\ (Has("COMPLETED")' <=> Has("COMPLETED"))
      /\ (Has("FUTURE_DROPPED")' <=> Has("FUTURE_DROPPED"))
      /\ (Has("SCHEDULE_DROPPED")' <=> Has("SCHEDULE_DROPPED"))
      /\ (Has("OUTPUT_PRESENT")' <=> Has("OUTPUT_PRESENT")) /\ (Ended' <=> Ended)
  BY <1>1 DEF schedule_end, Has, Ended, header, Dropped
<1>10. UNCHANGED <<runq, linked, awaiter, exec, closed, shut, chanWake, chanCleanup>>
  BY <1>1 DEF schedule_end, header, places, executor, channel, TlTypes
<1>11. Sole'
  BY <1>1, <1>2, <1>8, <1>9, <1>10 DEF Sole, Queued, Dropped, Shutting, Brief, Dropping, FromRun,
     SchedEnds, RunFrames, Runnable, Using, OnTop, Seats, One, Known, Settled, Flagged, TlTypes
<1>12. Dropped'
  BY <1>1, <1>2, <1>8, <1>9, <1>10 DEF Dropped, Sole, Brief, Dropping, FromRun, SchedEnds,
     RunFrames, Runnable, Using, OnTop, Seats, One, Known, Settled, Flagged, TlTypes
<1>13. Awaited'
  BY <1>1, <1>2, <1>8, <1>9, <1>10 DEF Awaited, Queued, Telling, Sole, Dropped, Brief, Dropping,
     FromRun, SchedEnds, RunFrames, Runnable, Using, OnTop, Seats, One, Known, Settled, Flagged,
     TlTypes
<1>14. Shutting'
  BY <1>1, <1>2, <1>8, <1>9, <1>10 DEF Shutting, Dropped, Sole, Brief, Dropping, FromRun,
     SchedEnds, RunFrames, Runnable, Using, OnTop, Seats, One, Known, Settled, Flagged, TlTypes
<1>. QED
  BY <1>8, <1>11, <1>12, <1>13, <1>14 DEF TlSound, Sound

LEMMA Sound_schedule_end_F ==
  ASSUME TlInv, TlSound, schedule_end, Top = "schedule_end_F" PROVE TlSound'
<1>. DEFINE t == Tail(stack)
<1>1. /\ TlTypes /\ Stacked /\ Registered /\ Flagged /\ Finished
      /\ SeatedIn(stack) /\ Sole /\ Dropped /\ Awaited /\ Shutting /\ Sound
  BY DEF TlInv, TlSound, Sound
<1>2. OnTop("schedule_end_F", t) /\ Top = "schedule_end_F"
  BY TopSeat DEF TlSound, schedule_end
<1>3. Tail(stack) = t /\ t \in Seq(Names)
  BY <1>2 DEF OnTop
<1>4. stack' = Push("finish", t)
  BY <1>3 DEF schedule_end, Has, Return, Push
<1>5. Seats("finish", Members(t))
  BY <1>1, <1>2 DEF OnTop, Seats, Brief, Dropping, SchedEnds, RunFrames, FromRun, Flagged,
     Registered, Has, Sole, Dropped, Awaited, Shutting, Known, Settled
<1>6. "finish" \in Names
  BY DEF Names, Protecting, Holding, Bare, Neutral, SchedEnds
<1>7. /\ Lies(Members(t) \cup {"finish"},
              Runs(t) + One("finish", Runnable),
              Uses(t) + One("finish", Using))
      /\ Top' = "finish"
  BY <1>2, <1>4, <1>5, <1>6, Lie1 DEF OnTop
<1>8. /\ SeatedIn(stack')
      /\ Frames' = Members(t) \cup {"finish"}
      /\ Runs(stack') = Runs(t) /\ Uses(stack') = Uses(t) /\ Top' = "finish"
  BY <1>2, <1>7 DEF Lies, One, Runnable, Using, Known, OnTop
<1>9. /\ (Has("SCHEDULED")' <=> Has("SCHEDULED")) /\ (Has("RUNNING")' <=> Has("RUNNING"))
      /\ (Has("COMPLETED")' <=> Has("COMPLETED"))
      /\ (Has("FUTURE_DROPPED")' <=> Has("FUTURE_DROPPED"))
      /\ (Has("SCHEDULE_DROPPED")' <=> Has("SCHEDULE_DROPPED"))
      /\ (Has("OUTPUT_PRESENT")' <=> Has("OUTPUT_PRESENT")) /\ (Ended' <=> Ended)
  BY <1>1 DEF schedule_end, Has, Ended, header, Dropped
<1>10. UNCHANGED <<runq, linked, awaiter, exec, closed, shut, chanWake, chanCleanup>>
  BY <1>1 DEF schedule_end, header, places, executor, channel, TlTypes
<1>11. Sole'
  BY <1>1, <1>2, <1>8, <1>9, <1>10 DEF Sole, Queued, Dropped, Shutting, Brief, Dropping, FromRun,
     SchedEnds, RunFrames, Runnable, Using, OnTop, Seats, One, Known, Settled, Flagged, TlTypes
<1>12. Dropped'
  BY <1>1, <1>2, <1>8, <1>9, <1>10 DEF Dropped, Sole, Brief, Dropping, FromRun, SchedEnds,
     RunFrames, Runnable, Using, OnTop, Seats, One, Known, Settled, Flagged, TlTypes
<1>13. Awaited'
  BY <1>1, <1>2, <1>8, <1>9, <1>10 DEF Awaited, Queued, Telling, Sole, Dropped, Brief, Dropping,
     FromRun, SchedEnds, RunFrames, Runnable, Using, OnTop, Seats, One, Known, Settled, Flagged,
     TlTypes
<1>14. Shutting'
  BY <1>1, <1>2, <1>8, <1>9, <1>10 DEF Shutting, Dropped, Sole, Brief, Dropping, FromRun,
     SchedEnds, RunFrames, Runnable, Using, OnTop, Seats, One, Known, Settled, Flagged, TlTypes
<1>. QED
  BY <1>8, <1>11, <1>12, <1>13, <1>14 DEF TlSound, Sound

LEMMA Sound_run ==
  ASSUME TlInv, TlSound, run PROVE TlSound'
<1>. DEFINE t == Tail(stack)
<1>1. /\ TlTypes /\ Stacked /\ Registered /\ Flagged /\ Finished
      /\ SeatedIn(stack) /\ Sole /\ Dropped /\ Awaited /\ Shutting /\ Sound
  BY DEF TlInv, TlSound, Sound
<1>2. OnTop("run", t) /\ Top = "run"
  BY TopSeat DEF TlSound, run
<1>3. Tail(stack) = t /\ t \in Seq(Names)
  BY <1>2 DEF OnTop
<1>4. CASE st \cap {"CLOSED", "COMPLETED"} # {}
  <2>1. Ended
    BY <1>1, <1>2, <1>4 DEF Ended, Has
  <2>2. Members(t) = {}
    BY <1>1, <1>2, <1>4, TopFacts DEF TlInv, Running, Ordered
  <2>3. stack' = Push("close", Push("finish", Push("release", t)))
    BY <1>4, <2>1, <2>2, <1>3 DEF run, Has, Return, Push, DropTask
  <2>4. /\ Seats("release", Members(t))
        /\ Seats("finish", Members(t) \cup {"release"})
        /\ Seats("close", Members(t) \cup {"finish", "release"})
    BY <1>1, <1>2, <1>4, <2>1, <2>2 DEF OnTop, Seats, Brief, Dropping, SchedEnds, RunFrames,
       FromRun, Flagged, Registered, Has, Sole, Dropped, Awaited, Shutting, Known, Settled
  <2>5. "close" \in Names /\ "finish" \in Names /\ "release" \in Names
    BY DEF Names, Protecting, Holding, Bare, Neutral, SchedEnds
  <2>6. /\ Lies(Members(t) \cup {"close", "finish", "release"},
                Runs(t) + One("close", Runnable) + One("finish", Runnable)
                    + One("release", Runnable),
                Uses(t) + One("close", Using) + One("finish", Using) + One("release", Using))
        /\ Top' = "close"
    BY <1>2, <2>3, <2>4, <2>5, Lie3 DEF OnTop
  <2>7. /\ SeatedIn(stack')
        /\ Frames' = Members(t) \cup {"close", "finish", "release"}
        /\ Runs(stack') = Runs(t) /\ Uses(stack') = Uses(t) /\ Top' = "close"
    BY <1>2, <2>6 DEF Lies, One, Runnable, Using, Known, OnTop
  <2>8. /\ (Has("SCHEDULED")' <=> Has("SCHEDULED")) /\ (Has("RUNNING")' <=> Has("RUNNING"))
        /\ (Has("COMPLETED")' <=> Has("COMPLETED"))
        /\ (Has("FUTURE_DROPPED")' <=> Has("FUTURE_DROPPED"))
        /\ (Has("SCHEDULE_DROPPED")' <=> Has("SCHEDULE_DROPPED"))
        /\ (Has("OUTPUT_PRESENT")' <=> Has("OUTPUT_PRESENT")) /\ (Ended' <=> Ended)
    BY <1>1, <1>4, <2>1, <2>2 DEF run, Has, Ended, header, Dropped
  <2>9. UNCHANGED <<runq, linked, awaiter, exec, closed, shut, chanWake, chanCleanup>>
    BY <1>1, <1>4, <2>1, <2>2 DEF run, header, places, executor, channel, TlTypes
  <2>10. Sole'
    BY <1>1, <1>2, <1>4, <2>1, <2>2, <2>7, <2>8, <2>9 DEF Sole, Queued, Dropped, Shutting, Brief,
       Dropping, FromRun, SchedEnds, RunFrames, Runnable, Using, OnTop, Seats, One, Known,
       Settled, Flagged, TlTypes
  <2>11. Dropped'
    BY <1>1, <1>2, <1>4, <2>1, <2>2, <2>7, <2>8, <2>9 DEF Dropped, Sole, Brief, Dropping, FromRun,
       SchedEnds, RunFrames, Runnable, Using, OnTop, Seats, One, Known, Settled, Flagged, TlTypes
  <2>12. Awaited'
    BY <1>1, <1>2, <1>4, <2>1, <2>2, <2>7, <2>8, <2>9 DEF Awaited, Queued, Telling, Sole, Dropped,
       Brief, Dropping, FromRun, SchedEnds, RunFrames, Runnable, Using, OnTop, Seats, One, Known,
       Settled, Flagged, TlTypes
  <2>13. Shutting'
    BY <1>1, <1>2, <1>4, <2>1, <2>2, <2>7, <2>8, <2>9 DEF Shutting, Dropped, Sole, Brief,
       Dropping, FromRun, SchedEnds, RunFrames, Runnable, Using, OnTop, Seats, One, Known,
       Settled, Flagged, TlTypes
  <2>. QED
    BY <2>7, <2>10, <2>11, <2>12, <2>13 DEF TlSound, Sound
<1>5. CASE st \cap {"CLOSED", "COMPLETED"} = {}
  <2>1. Members(t) = {}
    BY <1>1, <1>2, <1>5, TopFacts DEF TlInv, Running, Ordered
  <2>2. ~Ended /\ ~Has("FUTURE_DROPPED") /\ ~Has("RUNNING") /\ linked
    BY <1>1, <1>2, <1>5, <2>1 DEF Ended, Has, Finished, Flagged, RunFrames, Shutting, OnTop
  <2>3. stack' = Push("poll", t)
    BY <1>5, <2>1, <2>2, <1>3 DEF run, Has, Return, Push
  <2>4. Seats("poll", Members(t))
    BY <1>1, <1>2, <1>5, <2>1, <2>2 DEF OnTop, Seats, Brief, Dropping, SchedEnds, RunFrames,
       FromRun, Flagged, Registered, Has, Sole, Dropped, Awaited, Shutting, Known, Settled
  <2>5. "poll" \in Names
    BY DEF Names, Protecting, Holding, Bare, Neutral, SchedEnds
  <2>6. /\ Lies(Members(t) \cup {"poll"},
                Runs(t) + One("poll", Runnable),
                Uses(t) + One("poll", Using))
        /\ Top' = "poll"
    BY <1>2, <2>3, <2>4, <2>5, Lie1 DEF OnTop
  <2>7. /\ SeatedIn(stack')
        /\ Frames' = Members(t) \cup {"poll"}
        /\ Runs(stack') = Runs(t) + 1 /\ Uses(stack') = Uses(t) + 1 /\ Top' = "poll"
    BY <1>2, <2>6 DEF Lies, One, Runnable, Using, Known, OnTop
  <2>8. /\ ~Has("SCHEDULED")' /\ Has("RUNNING")' /\ (Has("COMPLETED")' <=> Has("COMPLETED"))
        /\ (Has("FUTURE_DROPPED")' <=> Has("FUTURE_DROPPED"))
        /\ (Has("SCHEDULE_DROPPED")' <=> Has("SCHEDULE_DROPPED"))
        /\ (Has("OUTPUT_PRESENT")' <=> Has("OUTPUT_PRESENT")) /\ (Ended' <=> Ended)
    BY <1>1, <1>5, <2>1, <2>2 DEF run, Has, Ended, header, Dropped
  <2>9. UNCHANGED <<runq, linked, awaiter, exec, closed, shut, chanWake, chanCleanup>>
    BY <1>1, <1>5, <2>1, <2>2 DEF run, header, places, executor, channel, TlTypes
  <2>10. Sole'
    BY <1>1, <1>2, <1>5, <2>1, <2>2, <2>7, <2>8, <2>9 DEF Sole, Queued, Dropped, Shutting, Brief,
       Dropping, FromRun, SchedEnds, RunFrames, Runnable, Using, OnTop, Seats, One, Known,
       Settled, Flagged, TlTypes
  <2>11. Dropped'
    BY <1>1, <1>2, <1>5, <2>1, <2>2, <2>7, <2>8, <2>9 DEF Dropped, Sole, Brief, Dropping, FromRun,
       SchedEnds, RunFrames, Runnable, Using, OnTop, Seats, One, Known, Settled, Flagged, TlTypes
  <2>12. Awaited'
    BY <1>1, <1>2, <1>5, <2>1, <2>2, <2>7, <2>8, <2>9 DEF Awaited, Queued, Telling, Sole, Dropped,
       Brief, Dropping, FromRun, SchedEnds, RunFrames, Runnable, Using, OnTop, Seats, One, Known,
       Settled, Flagged, TlTypes
  <2>13. Shutting'
    BY <1>1, <1>2, <1>5, <2>1, <2>2, <2>7, <2>8, <2>9 DEF Shutting, Dropped, Sole, Brief,
       Dropping, FromRun, SchedEnds, RunFrames, Runnable, Using, OnTop, Seats, One, Known,
       Settled, Flagged, TlTypes
  <2>. QED
    BY <2>7, <2>10, <2>11, <2>12, <2>13 DEF TlSound, Sound
<1>. QED
  BY <1>4, <1>5, <1>1, <1>2 DEF run

LEMMA Sound_poll_ready ==
  ASSUME TlInv, TlSound, poll_ready PROVE TlSound'
<1>. DEFINE t == Tail(stack)
<1>1. /\ TlTypes /\ Stacked /\ Registered /\ Flagged /\ Finished
      /\ SeatedIn(stack) /\ Sole /\ Dropped /\ Awaited /\ Shutting /\ Sound
  BY DEF TlInv, TlSound, Sound
<1>2. OnTop("poll", t) /\ Top = "poll"
  BY TopSeat DEF TlSound, poll_ready
<1>3. Tail(stack) = t /\ t \in Seq(Names)
  BY <1>2 DEF OnTop
<1>4. stack' = Push("drop_future", Push("completed", Push("end_run", t)))
  BY <1>3 DEF poll_ready, Has, Return, Push
<1>5. /\ Seats("end_run", Members(t))
      /\ Seats("completed", Members(t) \cup {"end_run"})
      /\ Seats("drop_future", Members(t) \cup {"completed", "end_run"})
  BY <1>1, <1>2 DEF OnTop, Seats, Brief, Dropping, SchedEnds, RunFrames, FromRun, Flagged,
     Registered, Has, Sole, Dropped, Awaited, Shutting, Known, Settled
<1>6. "drop_future" \in Names /\ "completed" \in Names /\ "end_run" \in Names
  BY DEF Names, Protecting, Holding, Bare, Neutral, SchedEnds
<1>7. /\ Lies(Members(t) \cup {"drop_future", "completed", "end_run"},
              Runs(t) + One("drop_future", Runnable) + One("completed", Runnable)
                  + One("end_run", Runnable),
              Uses(t) + One("drop_future", Using) + One("completed", Using)
                  + One("end_run", Using))
      /\ Top' = "drop_future"
  BY <1>2, <1>4, <1>5, <1>6, Lie3 DEF OnTop
<1>8. /\ SeatedIn(stack')
      /\ Frames' = Members(t) \cup {"drop_future", "completed", "end_run"}
      /\ Runs(stack') = Runs(t) + 1 /\ Uses(stack') = Uses(t) /\ Top' = "drop_future"
  BY <1>2, <1>7 DEF Lies, One, Runnable, Using, Known, OnTop
<1>9. /\ (Has("SCHEDULED")' <=> Has("SCHEDULED")) /\ (Has("RUNNING")' <=> Has("RUNNING"))
      /\ (Has("COMPLETED")' <=> Has("COMPLETED"))
      /\ (Has("FUTURE_DROPPED")' <=> Has("FUTURE_DROPPED"))
      /\ (Has("SCHEDULE_DROPPED")' <=> Has("SCHEDULE_DROPPED"))
      /\ (Has("OUTPUT_PRESENT")' <=> Has("OUTPUT_PRESENT")) /\ (Ended' <=> Ended)
  BY <1>1 DEF poll_ready, Has, Ended, header, Dropped
<1>10. UNCHANGED <<runq, linked, awaiter, exec, closed, shut, chanWake, chanCleanup>>
  BY <1>1 DEF poll_ready, header, places, executor, channel, TlTypes
<1>11. Sole'
  BY <1>1, <1>2, <1>8, <1>9, <1>10 DEF Sole, Queued, Dropped, Shutting, Brief, Dropping, FromRun,
     SchedEnds, RunFrames, Runnable, Using, OnTop, Seats, One, Known, Settled, Flagged, TlTypes
<1>12. Dropped'
  BY <1>1, <1>2, <1>8, <1>9, <1>10 DEF Dropped, Sole, Brief, Dropping, FromRun, SchedEnds,
     RunFrames, Runnable, Using, OnTop, Seats, One, Known, Settled, Flagged, TlTypes
<1>13. Awaited'
  BY <1>1, <1>2, <1>8, <1>9, <1>10 DEF Awaited, Queued, Telling, Sole, Dropped, Brief, Dropping,
     FromRun, SchedEnds, RunFrames, Runnable, Using, OnTop, Seats, One, Known, Settled, Flagged,
     TlTypes
<1>14. Shutting'
  BY <1>1, <1>2, <1>8, <1>9, <1>10 DEF Shutting, Dropped, Sole, Brief, Dropping, FromRun,
     SchedEnds, RunFrames, Runnable, Using, OnTop, Seats, One, Known, Settled, Flagged, TlTypes
<1>. QED
  BY <1>8, <1>11, <1>12, <1>13, <1>14 DEF TlSound, Sound

LEMMA Sound_completed ==
  ASSUME TlInv, TlSound, completed PROVE TlSound'
<1>. DEFINE t == Tail(stack)
<1>1. /\ TlTypes /\ Stacked /\ Registered /\ Flagged /\ Finished
      /\ SeatedIn(stack) /\ Sole /\ Dropped /\ Awaited /\ Shutting /\ Sound
  BY DEF TlInv, TlSound, Sound
<1>2. OnTop("completed", t) /\ Top = "completed"
  BY TopSeat DEF TlSound, completed
<1>3. Tail(stack) = t /\ t \in Seq(Names)
  BY <1>2 DEF OnTop
<1>4. CASE ~Has("HANDLE") \/ Has("CLOSED")
  <2>1. "in_place_end" \notin Members(t)
    BY <1>1, <1>2, <1>4, OneRunFrame DEF RunFrames, OnTop
  <2>2. stack' = Push("user", Push("ready_end", t))
    BY <1>4, <2>1, <1>3 DEF completed, Has, Return, Push
  <2>3. /\ Seats("ready_end", Members(t))
        /\ Seats("user", Members(t) \cup {"ready_end"})
    BY <1>1, <1>2, <1>4, <2>1 DEF OnTop, Seats, Brief, Dropping, SchedEnds, RunFrames, FromRun,
       Flagged, Registered, Has, Sole, Dropped, Awaited, Shutting, Known, Settled
  <2>4. "user" \in Names /\ "ready_end" \in Names
    BY DEF Names, Protecting, Holding, Bare, Neutral, SchedEnds
  <2>5. /\ Lies(Members(t) \cup {"user", "ready_end"},
                Runs(t) + One("user", Runnable) + One("ready_end", Runnable),
                Uses(t) + One("user", Using) + One("ready_end", Using))
        /\ Top' = "user"
    BY <1>2, <2>2, <2>3, <2>4, Lie2 DEF OnTop
  <2>6. /\ SeatedIn(stack')
        /\ Frames' = Members(t) \cup {"user", "ready_end"}
        /\ Runs(stack') = Runs(t) /\ Uses(stack') = Uses(t) /\ Top' = "user"
    BY <1>2, <2>5 DEF Lies, One, Runnable, Using, Known, OnTop
  <2>7. /\ ~Has("SCHEDULED")' /\ (Has("RUNNING")' <=> Has("RUNNING")) /\ Has("COMPLETED")'
        /\ (Has("FUTURE_DROPPED")' <=> Has("FUTURE_DROPPED"))
        /\ (Has("SCHEDULE_DROPPED")' <=> Has("SCHEDULE_DROPPED"))
        /\ (Has("OUTPUT_PRESENT")' <=> Has("OUTPUT_PRESENT")) /\ Ended'
    BY <1>1, <1>4, <2>1 DEF completed, Has, Ended, header, Dropped
  <2>8. UNCHANGED <<runq, linked, awaiter, exec, closed, shut, chanWake, chanCleanup>>
    BY <1>1, <1>4, <2>1 DEF completed, header, places, executor, channel, TlTypes
  <2>9. Sole'
    BY <1>1, <1>2, <1>4, <2>1, <2>6, <2>7, <2>8 DEF Sole, Queued, Dropped, Shutting, Brief,
       Dropping, FromRun, SchedEnds, RunFrames, Runnable, Using, OnTop, Seats, One, Known,
       Settled, Flagged, TlTypes
  <2>10. (Uses(stack) <= 1)'
    BY <1>1, <1>2, <1>4, <2>1, <2>6, <2>7, <2>8 DEF Dropped, Sole, Brief, Dropping, FromRun,
       SchedEnds, RunFrames, Runnable, Using, OnTop, Seats, One, Known, Settled, Flagged, TlTypes
  <2>11. ("dtor" \in Frames => Has("FUTURE_DROPPED"))'
    BY <1>1, <1>2, <1>4, <2>1, <2>6, <2>7, <2>8 DEF Dropped, Sole, Brief, Dropping, FromRun,
       SchedEnds, RunFrames, Runnable, Using, OnTop, Seats, One, Known, Settled, Flagged, TlTypes
  <2>12. ("poll" \in Frames => ~Has("FUTURE_DROPPED") /\ linked)'
    BY <1>1, <1>2, <1>4, <2>1, <2>6, <2>7, <2>8 DEF Dropped, Sole, Brief, Dropping, FromRun,
       SchedEnds, RunFrames, Runnable, Using, OnTop, Seats, One, Known, Settled, Flagged, TlTypes
  <2>13. (Frames \cap {"pending_closed_end", "close_end", "in_place_end", "ready_end"} # {} => Ended)'
    BY <1>1, <1>2, <1>4, <2>1, <2>6, <2>7, <2>8 DEF Dropped, Sole, Brief, Dropping, FromRun,
       SchedEnds, RunFrames, Runnable, Using, OnTop, Seats, One, Known, Settled, Flagged, TlTypes
  <2>14. (Frames \cap Dropping # {} => Has("FUTURE_DROPPED") \/ Top = "drop_future")'
    BY <1>1, <1>2, <1>4, <2>1, <2>6, <2>7, <2>8 DEF Dropped, Sole, Brief, Dropping, FromRun,
       SchedEnds, RunFrames, Runnable, Using, OnTop, Seats, One, Known, Settled, Flagged, TlTypes
  <2>15. ("ready_end" \in Frames => Has("FUTURE_DROPPED"))'
    BY <1>1, <1>2, <1>4, <2>1, <2>6, <2>7, <2>8 DEF Dropped, Sole, Brief, Dropping, FromRun,
       SchedEnds, RunFrames, Runnable, Using, OnTop, Seats, One, Known, Settled, Flagged, TlTypes
  <2>16. (Has("COMPLETED") => Has("FUTURE_DROPPED"))'
    BY <1>1, <1>2, <1>4, <2>1, <2>6, <2>7, <2>8 DEF Dropped, Sole, Brief, Dropping, FromRun,
       SchedEnds, RunFrames, Runnable, Using, OnTop, Seats, One, Known, Settled, Flagged, TlTypes
  <2>17. (Has("OUTPUT_PRESENT") => Has("COMPLETED"))'
    BY <1>1, <1>2, <1>4, <2>1, <2>6, <2>7, <2>8 DEF Dropped, Sole, Brief, Dropping, FromRun,
       SchedEnds, RunFrames, Runnable, Using, OnTop, Seats, One, Known, Settled, Flagged, TlTypes
  <2>18. Dropped'
    BY <1>1, <1>2, <1>4, <2>1, <2>6, <2>7, <2>8, <2>10, <2>11, <2>12, <2>13, <2>14, <2>15, <2>16,
       <2>17 DEF Dropped
  <2>19. Awaited'
    BY <1>1, <1>2, <1>4, <2>1, <2>6, <2>7, <2>8 DEF Awaited, Queued, Telling, Sole, Dropped,
       Brief, Dropping, FromRun, SchedEnds, RunFrames, Runnable, Using, OnTop, Seats, One, Known,
       Settled, Flagged, TlTypes
  <2>20. Shutting'
    BY <1>1, <1>2, <1>4, <2>1, <2>6, <2>7, <2>8 DEF Shutting, Dropped, Sole, Brief, Dropping,
       FromRun, SchedEnds, RunFrames, Runnable, Using, OnTop, Seats, One, Known, Settled, Flagged,
       TlTypes
  <2>. QED
    BY <2>6, <2>9, <2>18, <2>19, <2>20 DEF TlSound, Sound
<1>5. CASE ~(~Has("HANDLE") \/ Has("CLOSED"))
  <2>1. stack' = Push("ready_end", t)
    BY <1>5, <1>3 DEF completed, Has, Return, Push
  <2>2. Seats("ready_end", Members(t))
    BY <1>1, <1>2, <1>5 DEF OnTop, Seats, Brief, Dropping, SchedEnds, RunFrames, FromRun, Flagged,
       Registered, Has, Sole, Dropped, Awaited, Shutting, Known, Settled
  <2>3. "ready_end" \in Names
    BY DEF Names, Protecting, Holding, Bare, Neutral, SchedEnds
  <2>4. /\ Lies(Members(t) \cup {"ready_end"},
                Runs(t) + One("ready_end", Runnable),
                Uses(t) + One("ready_end", Using))
        /\ Top' = "ready_end"
    BY <1>2, <2>1, <2>2, <2>3, Lie1 DEF OnTop
  <2>5. /\ SeatedIn(stack')
        /\ Frames' = Members(t) \cup {"ready_end"}
        /\ Runs(stack') = Runs(t) /\ Uses(stack') = Uses(t) /\ Top' = "ready_end"
    BY <1>2, <2>4 DEF Lies, One, Runnable, Using, Known, OnTop
  <2>6. /\ ~Has("SCHEDULED")' /\ (Has("RUNNING")' <=> Has("RUNNING")) /\ Has("COMPLETED")'
        /\ (Has("FUTURE_DROPPED")' <=> Has("FUTURE_DROPPED"))
        /\ (Has("SCHEDULE_DROPPED")' <=> Has("SCHEDULE_DROPPED")) /\ Has("OUTPUT_PRESENT")'
        /\ Ended'
    BY <1>1, <1>5 DEF completed, Has, Ended, header, Dropped
  <2>7. UNCHANGED <<runq, linked, awaiter, exec, closed, shut, chanWake, chanCleanup>>
    BY <1>1, <1>5 DEF completed, header, places, executor, channel, TlTypes
  <2>8. Sole'
    BY <1>1, <1>2, <1>5, <2>5, <2>6, <2>7 DEF Sole, Queued, Dropped, Shutting, Brief, Dropping,
       FromRun, SchedEnds, RunFrames, Runnable, Using, OnTop, Seats, One, Known, Settled, Flagged,
       TlTypes
  <2>9. (Uses(stack) <= 1)'
    BY <1>1, <1>2, <1>5, <2>5, <2>6, <2>7 DEF Dropped, Sole, Brief, Dropping, FromRun, SchedEnds,
       RunFrames, Runnable, Using, OnTop, Seats, One, Known, Settled, Flagged, TlTypes
  <2>10. ("dtor" \in Frames => Has("FUTURE_DROPPED"))'
    BY <1>1, <1>2, <1>5, <2>5, <2>6, <2>7 DEF Dropped, Sole, Brief, Dropping, FromRun, SchedEnds,
       RunFrames, Runnable, Using, OnTop, Seats, One, Known, Settled, Flagged, TlTypes
  <2>11. ("poll" \in Frames => ~Has("FUTURE_DROPPED") /\ linked)'
    BY <1>1, <1>2, <1>5, <2>5, <2>6, <2>7 DEF Dropped, Sole, Brief, Dropping, FromRun, SchedEnds,
       RunFrames, Runnable, Using, OnTop, Seats, One, Known, Settled, Flagged, TlTypes
  <2>12. (Frames \cap {"pending_closed_end", "close_end", "in_place_end", "ready_end"} # {} => Ended)'
    BY <1>1, <1>2, <1>5, <2>5, <2>6, <2>7 DEF Dropped, Sole, Brief, Dropping, FromRun, SchedEnds,
       RunFrames, Runnable, Using, OnTop, Seats, One, Known, Settled, Flagged, TlTypes
  <2>13. (Frames \cap Dropping # {} => Has("FUTURE_DROPPED") \/ Top = "drop_future")'
    BY <1>1, <1>2, <1>5, <2>5, <2>6, <2>7 DEF Dropped, Sole, Brief, Dropping, FromRun, SchedEnds,
       RunFrames, Runnable, Using, OnTop, Seats, One, Known, Settled, Flagged, TlTypes
  <2>14. ("ready_end" \in Frames => Has("FUTURE_DROPPED"))'
    BY <1>1, <1>2, <1>5, <2>5, <2>6, <2>7 DEF Dropped, Sole, Brief, Dropping, FromRun, SchedEnds,
       RunFrames, Runnable, Using, OnTop, Seats, One, Known, Settled, Flagged, TlTypes
  <2>15. (Has("COMPLETED") => Has("FUTURE_DROPPED"))'
    BY <1>1, <1>2, <1>5, <2>5, <2>6, <2>7 DEF Dropped, Sole, Brief, Dropping, FromRun, SchedEnds,
       RunFrames, Runnable, Using, OnTop, Seats, One, Known, Settled, Flagged, TlTypes
  <2>16. (Has("OUTPUT_PRESENT") => Has("COMPLETED"))'
    BY <1>1, <1>2, <1>5, <2>5, <2>6, <2>7 DEF Dropped, Sole, Brief, Dropping, FromRun, SchedEnds,
       RunFrames, Runnable, Using, OnTop, Seats, One, Known, Settled, Flagged, TlTypes
  <2>17. Dropped'
    BY <1>1, <1>2, <1>5, <2>5, <2>6, <2>7, <2>9, <2>10, <2>11, <2>12, <2>13, <2>14, <2>15, <2>16
       DEF Dropped
  <2>18. Awaited'
    BY <1>1, <1>2, <1>5, <2>5, <2>6, <2>7 DEF Awaited, Queued, Telling, Sole, Dropped, Brief,
       Dropping, FromRun, SchedEnds, RunFrames, Runnable, Using, OnTop, Seats, One, Known,
       Settled, Flagged, TlTypes
  <2>19. Shutting'
    BY <1>1, <1>2, <1>5, <2>5, <2>6, <2>7 DEF Shutting, Dropped, Sole, Brief, Dropping, FromRun,
       SchedEnds, RunFrames, Runnable, Using, OnTop, Seats, One, Known, Settled, Flagged, TlTypes
  <2>. QED
    BY <2>5, <2>8, <2>17, <2>18, <2>19 DEF TlSound, Sound
<1>. QED
  BY <1>4, <1>5, <1>1, <1>2 DEF completed

LEMMA Sound_poll_pending ==
  ASSUME TlInv, TlSound, poll_pending PROVE TlSound'
<1>. DEFINE t == Tail(stack)
<1>1. /\ TlTypes /\ Stacked /\ Registered /\ Flagged /\ Finished
      /\ SeatedIn(stack) /\ Sole /\ Dropped /\ Awaited /\ Shutting /\ Sound
  BY DEF TlInv, TlSound, Sound
<1>2. OnTop("poll", t) /\ Top = "poll"
  BY TopSeat DEF TlSound, poll_pending
<1>3. Tail(stack) = t /\ t \in Seq(Names)
  BY <1>2 DEF OnTop
<1>4. CASE Has("CLOSED")
  <2>1. Ended
    BY <1>1, <1>2, <1>4 DEF Ended
  <2>2. stack' = Push("drop_future", Push("pending_closed_end", Push("end_run", t)))
    BY <1>4, <2>1, <1>3 DEF poll_pending, Has, Return, Push
  <2>3. /\ Seats("end_run", Members(t))
        /\ Seats("pending_closed_end", Members(t) \cup {"end_run"})
        /\ Seats("drop_future", Members(t) \cup {"pending_closed_end", "end_run"})
    BY <1>1, <1>2, <1>4, <2>1 DEF OnTop, Seats, Brief, Dropping, SchedEnds, RunFrames, FromRun,
       Flagged, Registered, Has, Sole, Dropped, Awaited, Shutting, Known, Settled
  <2>4. "drop_future" \in Names /\ "pending_closed_end" \in Names /\ "end_run" \in Names
    BY DEF Names, Protecting, Holding, Bare, Neutral, SchedEnds
  <2>5. /\ Lies(Members(t) \cup {"drop_future", "pending_closed_end", "end_run"},
                Runs(t) + One("drop_future", Runnable) + One("pending_closed_end", Runnable)
                    + One("end_run", Runnable),
                Uses(t) + One("drop_future", Using) + One("pending_closed_end", Using)
                    + One("end_run", Using))
        /\ Top' = "drop_future"
    BY <1>2, <2>2, <2>3, <2>4, Lie3 DEF OnTop
  <2>6. /\ SeatedIn(stack')
        /\ Frames' = Members(t) \cup {"drop_future", "pending_closed_end", "end_run"}
        /\ Runs(stack') = Runs(t) + 1 /\ Uses(stack') = Uses(t) /\ Top' = "drop_future"
    BY <1>2, <2>5 DEF Lies, One, Runnable, Using, Known, OnTop
  <2>7. /\ (Has("SCHEDULED")' <=> Has("SCHEDULED")) /\ (Has("RUNNING")' <=> Has("RUNNING"))
        /\ (Has("COMPLETED")' <=> Has("COMPLETED"))
        /\ (Has("FUTURE_DROPPED")' <=> Has("FUTURE_DROPPED"))
        /\ (Has("SCHEDULE_DROPPED")' <=> Has("SCHEDULE_DROPPED"))
        /\ (Has("OUTPUT_PRESENT")' <=> Has("OUTPUT_PRESENT")) /\ (Ended' <=> Ended)
    BY <1>1, <1>4, <2>1 DEF poll_pending, Has, Ended, header, Dropped
  <2>8. UNCHANGED <<runq, linked, awaiter, exec, closed, shut, chanWake, chanCleanup>>
    BY <1>1, <1>4, <2>1 DEF poll_pending, header, places, executor, channel, TlTypes
  <2>9. Sole'
    BY <1>1, <1>2, <1>4, <2>1, <2>6, <2>7, <2>8 DEF Sole, Queued, Dropped, Shutting, Brief,
       Dropping, FromRun, SchedEnds, RunFrames, Runnable, Using, OnTop, Seats, One, Known,
       Settled, Flagged, TlTypes
  <2>10. Dropped'
    BY <1>1, <1>2, <1>4, <2>1, <2>6, <2>7, <2>8 DEF Dropped, Sole, Brief, Dropping, FromRun,
       SchedEnds, RunFrames, Runnable, Using, OnTop, Seats, One, Known, Settled, Flagged, TlTypes
  <2>11. Awaited'
    BY <1>1, <1>2, <1>4, <2>1, <2>6, <2>7, <2>8 DEF Awaited, Queued, Telling, Sole, Dropped,
       Brief, Dropping, FromRun, SchedEnds, RunFrames, Runnable, Using, OnTop, Seats, One, Known,
       Settled, Flagged, TlTypes
  <2>12. Shutting'
    BY <1>1, <1>2, <1>4, <2>1, <2>6, <2>7, <2>8 DEF Shutting, Dropped, Sole, Brief, Dropping,
       FromRun, SchedEnds, RunFrames, Runnable, Using, OnTop, Seats, One, Known, Settled, Flagged,
       TlTypes
  <2>. QED
    BY <2>6, <2>9, <2>10, <2>11, <2>12 DEF TlSound, Sound
<1>5. CASE ~Has("CLOSED") /\ Has("SCHEDULED")
  <2>1. ~Has("SCHEDULE_DROPPED")
    BY <1>1, <1>2, <1>5 DEF Finished, Dropped, OnTop
  <2>2. stack' = Push("schedule_owned", t)
    BY <1>5, <2>1, <1>3 DEF poll_pending, Has, Return, Push
  <2>3. Seats("schedule_owned", Members(t))
    BY <1>1, <1>2, <1>5, <2>1 DEF OnTop, Seats, Brief, Dropping, SchedEnds, RunFrames, FromRun,
       Flagged, Registered, Has, Sole, Dropped, Awaited, Shutting, Known, Settled
  <2>4. "schedule_owned" \in Names
    BY DEF Names, Protecting, Holding, Bare, Neutral, SchedEnds
  <2>5. /\ Lies(Members(t) \cup {"schedule_owned"},
                Runs(t) + One("schedule_owned", Runnable),
                Uses(t) + One("schedule_owned", Using))
        /\ Top' = "schedule_owned"
    BY <1>2, <2>2, <2>3, <2>4, Lie1 DEF OnTop
  <2>6. /\ SeatedIn(stack')
        /\ Frames' = Members(t) \cup {"schedule_owned"}
        /\ Runs(stack') = Runs(t) + 1 /\ Uses(stack') = Uses(t) /\ Top' = "schedule_owned"
    BY <1>2, <2>5 DEF Lies, One, Runnable, Using, Known, OnTop
  <2>7. /\ (Has("SCHEDULED")' <=> Has("SCHEDULED")) /\ ~Has("RUNNING")'
        /\ (Has("COMPLETED")' <=> Has("COMPLETED"))
        /\ (Has("FUTURE_DROPPED")' <=> Has("FUTURE_DROPPED"))
        /\ (Has("SCHEDULE_DROPPED")' <=> Has("SCHEDULE_DROPPED"))
        /\ (Has("OUTPUT_PRESENT")' <=> Has("OUTPUT_PRESENT")) /\ (Ended' <=> Ended)
    BY <1>1, <1>5, <2>1 DEF poll_pending, Has, Ended, header, Dropped
  <2>8. UNCHANGED <<runq, linked, awaiter, exec, closed, shut, chanWake, chanCleanup>>
    BY <1>1, <1>5, <2>1 DEF poll_pending, header, places, executor, channel, TlTypes
  <2>9. (runq + Runs(stack) <= 1)'
    BY <1>1, <1>2, <1>5, <2>1, <2>6, <2>7, <2>8 DEF Sole, Queued, Dropped, Shutting, Brief,
       Dropping, FromRun, SchedEnds, RunFrames, Runnable, Using, OnTop, Seats, One, Known,
       Settled, Flagged, TlTypes
  <2>10. (runq + Runs(stack) = 1 =>
            Has("SCHEDULED") \/ Has("RUNNING") \/ Ended \/ Top \in {"end_run", "close"})'
    BY <1>1, <1>2, <1>5, <2>1, <2>6, <2>7, <2>8 DEF Sole, Queued, Dropped, Shutting, Brief,
       Dropping, FromRun, SchedEnds, RunFrames, Runnable, Using, OnTop, Seats, One, Known,
       Settled, Flagged, TlTypes
  <2>11. (Top = "schedule" => runq + Runs(stack) = 0 /\ Has("SCHEDULED"))'
    BY <1>1, <1>2, <1>5, <2>1, <2>6, <2>7, <2>8 DEF Sole, Queued, Dropped, Shutting, Brief,
       Dropping, FromRun, SchedEnds, RunFrames, Runnable, Using, OnTop, Seats, One, Known,
       Settled, Flagged, TlTypes
  <2>12. (Top \in {"schedule", "schedule_owned"} \/ "push" \in Frames => ~Has("RUNNING"))'
    BY <1>1, <1>2, <1>5, <2>1, <2>6, <2>7, <2>8 DEF Sole, Queued, Dropped, Shutting, Brief,
       Dropping, FromRun, SchedEnds, RunFrames, Runnable, Using, OnTop, Seats, One, Known,
       Settled, Flagged, TlTypes
  <2>13. (Top \in {"schedule", "schedule_owned"} => ~Has("SCHEDULE_DROPPED"))'
    BY <1>1, <1>2, <1>5, <2>1, <2>6, <2>7, <2>8 DEF Sole, Queued, Dropped, Shutting, Brief,
       Dropping, FromRun, SchedEnds, RunFrames, Runnable, Using, OnTop, Seats, One, Known,
       Settled, Flagged, TlTypes
  <2>14. ("end_run" \in Frames => Top \in {"end_run", "close"} \/ "completed" \in Frames \/ Ended)'
    BY <1>1, <1>2, <1>5, <2>1, <2>6, <2>7, <2>8 DEF Sole, Queued, Dropped, Shutting, Brief,
       Dropping, FromRun, SchedEnds, RunFrames, Runnable, Using, OnTop, Seats, One, Known,
       Settled, Flagged, TlTypes
  <2>15. ("end_run" \in Frames /\ Has("SCHEDULED") =>
            "completed" \in Frames \/ "pending_closed_end" \in Frames)'
    BY <1>1, <1>2, <1>5, <2>1, <2>6, <2>7, <2>8 DEF Sole, Queued, Dropped, Shutting, Brief,
       Dropping, FromRun, SchedEnds, RunFrames, Runnable, Using, OnTop, Seats, One, Known,
       Settled, Flagged, TlTypes
  <2>16. (Has("SCHEDULED") => \/ runq + Runs(stack) = 1 \/ Top = "schedule"
                              \/ "pending_closed_end" \in Frames
                              \/ (Top = "close" /\ ~Has("RUNNING")))'
    BY <1>1, <1>2, <1>5, <2>1, <2>6, <2>7, <2>8 DEF Sole, Queued, Dropped, Shutting, Brief,
       Dropping, FromRun, SchedEnds, RunFrames, Runnable, Using, OnTop, Seats, One, Known,
       Settled, Flagged, TlTypes
  <2>17. (Queued => Has("SCHEDULED") \/ "finish_shutdown" \in Frames)'
    BY <1>1, <1>2, <1>5, <2>1, <2>6, <2>7, <2>8 DEF Sole, Queued, Dropped, Shutting, Brief,
       Dropping, FromRun, SchedEnds, RunFrames, Runnable, Using, OnTop, Seats, One, Known,
       Settled, Flagged, TlTypes
  <2>18. (Top = "close" => runq = 0 \/ "finish_shutdown" \in Frames)'
    BY <1>1, <1>2, <1>5, <2>1, <2>6, <2>7, <2>8 DEF Sole, Queued, Dropped, Shutting, Brief,
       Dropping, FromRun, SchedEnds, RunFrames, Runnable, Using, OnTop, Seats, One, Known,
       Settled, Flagged, TlTypes
  <2>19. ("pending_closed_end" \in Frames => runq = 0)'
    BY <1>1, <1>2, <1>5, <2>1, <2>6, <2>7, <2>8 DEF Sole, Queued, Dropped, Shutting, Brief,
       Dropping, FromRun, SchedEnds, RunFrames, Runnable, Using, OnTop, Seats, One, Known,
       Settled, Flagged, TlTypes
  <2>20. Sole'
    BY <1>1, <1>2, <1>5, <2>1, <2>6, <2>7, <2>8, <2>9, <2>10, <2>11, <2>12, <2>13, <2>14, <2>15,
       <2>16, <2>17, <2>18, <2>19 DEF Sole, Queued
  <2>21. Dropped'
    BY <1>1, <1>2, <1>5, <2>1, <2>6, <2>7, <2>8 DEF Dropped, Sole, Brief, Dropping, FromRun,
       SchedEnds, RunFrames, Runnable, Using, OnTop, Seats, One, Known, Settled, Flagged, TlTypes
  <2>22. Awaited'
    BY <1>1, <1>2, <1>5, <2>1, <2>6, <2>7, <2>8 DEF Awaited, Queued, Telling, Sole, Dropped,
       Brief, Dropping, FromRun, SchedEnds, RunFrames, Runnable, Using, OnTop, Seats, One, Known,
       Settled, Flagged, TlTypes
  <2>23. Shutting'
    BY <1>1, <1>2, <1>5, <2>1, <2>6, <2>7, <2>8 DEF Shutting, Dropped, Sole, Brief, Dropping,
       FromRun, SchedEnds, RunFrames, Runnable, Using, OnTop, Seats, One, Known, Settled, Flagged,
       TlTypes
  <2>. QED
    BY <2>6, <2>20, <2>21, <2>22, <2>23 DEF TlSound, Sound
<1>6. CASE ~Has("CLOSED") /\ ~Has("SCHEDULED") /\ ~Has("HANDLE") /\ refs = 2
  <2>1. stack' = Push("close", Push("end_run", t))
    BY <1>6, <1>3 DEF poll_pending, Has, Return, Push, DropTask
  <2>2. /\ Seats("end_run", Members(t))
        /\ Seats("close", Members(t) \cup {"end_run"})
    BY <1>1, <1>2, <1>6 DEF OnTop, Seats, Brief, Dropping, SchedEnds, RunFrames, FromRun, Flagged,
       Registered, Has, Sole, Dropped, Awaited, Shutting, Known, Settled
  <2>3. "close" \in Names /\ "end_run" \in Names
    BY DEF Names, Protecting, Holding, Bare, Neutral, SchedEnds
  <2>4. /\ Lies(Members(t) \cup {"close", "end_run"},
                Runs(t) + One("close", Runnable) + One("end_run", Runnable),
                Uses(t) + One("close", Using) + One("end_run", Using))
        /\ Top' = "close"
    BY <1>2, <2>1, <2>2, <2>3, Lie2 DEF OnTop
  <2>5. /\ SeatedIn(stack')
        /\ Frames' = Members(t) \cup {"close", "end_run"}
        /\ Runs(stack') = Runs(t) + 1 /\ Uses(stack') = Uses(t) /\ Top' = "close"
    BY <1>2, <2>4 DEF Lies, One, Runnable, Using, Known, OnTop
  <2>6. /\ (Has("SCHEDULED")' <=> Has("SCHEDULED")) /\ ~Has("RUNNING")'
        /\ (Has("COMPLETED")' <=> Has("COMPLETED"))
        /\ (Has("FUTURE_DROPPED")' <=> Has("FUTURE_DROPPED"))
        /\ (Has("SCHEDULE_DROPPED")' <=> Has("SCHEDULE_DROPPED"))
        /\ (Has("OUTPUT_PRESENT")' <=> Has("OUTPUT_PRESENT")) /\ (Ended' <=> Ended)
    BY <1>1, <1>6 DEF poll_pending, Has, Ended, header, Dropped
  <2>7. UNCHANGED <<runq, linked, awaiter, exec, closed, shut, chanWake, chanCleanup>>
    BY <1>1, <1>6 DEF poll_pending, header, places, executor, channel, TlTypes
  <2>8. Sole'
    BY <1>1, <1>2, <1>6, <2>5, <2>6, <2>7 DEF Sole, Queued, Dropped, Shutting, Brief, Dropping,
       FromRun, SchedEnds, RunFrames, Runnable, Using, OnTop, Seats, One, Known, Settled, Flagged,
       TlTypes
  <2>9. Dropped'
    BY <1>1, <1>2, <1>6, <2>5, <2>6, <2>7 DEF Dropped, Sole, Brief, Dropping, FromRun, SchedEnds,
       RunFrames, Runnable, Using, OnTop, Seats, One, Known, Settled, Flagged, TlTypes
  <2>10. Awaited'
    BY <1>1, <1>2, <1>6, <2>5, <2>6, <2>7 DEF Awaited, Queued, Telling, Sole, Dropped, Brief,
       Dropping, FromRun, SchedEnds, RunFrames, Runnable, Using, OnTop, Seats, One, Known,
       Settled, Flagged, TlTypes
  <2>11. Shutting'
    BY <1>1, <1>2, <1>6, <2>5, <2>6, <2>7 DEF Shutting, Dropped, Sole, Brief, Dropping, FromRun,
       SchedEnds, RunFrames, Runnable, Using, OnTop, Seats, One, Known, Settled, Flagged, TlTypes
  <2>. QED
    BY <2>5, <2>8, <2>9, <2>10, <2>11 DEF TlSound, Sound
<1>7. CASE ~Has("CLOSED") /\ ~Has("SCHEDULED") /\ ~(~Has("HANDLE") /\ refs = 2)
  <2>1. ~Ended
    BY <1>1, <1>2, <1>7 DEF Ended, Dropped, OnTop
  <2>2. stack' = Push("end_run", t)
    BY <1>7, <2>1, <1>3 DEF poll_pending, Has, Return, Push
  <2>3. Seats("end_run", Members(t))
    BY <1>1, <1>2, <1>7, <2>1 DEF OnTop, Seats, Brief, Dropping, SchedEnds, RunFrames, FromRun,
       Flagged, Registered, Has, Sole, Dropped, Awaited, Shutting, Known, Settled
  <2>4. "end_run" \in Names
    BY DEF Names, Protecting, Holding, Bare, Neutral, SchedEnds
  <2>5. /\ Lies(Members(t) \cup {"end_run"},
                Runs(t) + One("end_run", Runnable),
                Uses(t) + One("end_run", Using))
        /\ Top' = "end_run"
    BY <1>2, <2>2, <2>3, <2>4, Lie1 DEF OnTop
  <2>6. /\ SeatedIn(stack')
        /\ Frames' = Members(t) \cup {"end_run"}
        /\ Runs(stack') = Runs(t) + 1 /\ Uses(stack') = Uses(t) /\ Top' = "end_run"
    BY <1>2, <2>5 DEF Lies, One, Runnable, Using, Known, OnTop
  <2>7. /\ (Has("SCHEDULED")' <=> Has("SCHEDULED")) /\ ~Has("RUNNING")'
        /\ (Has("COMPLETED")' <=> Has("COMPLETED"))
        /\ (Has("FUTURE_DROPPED")' <=> Has("FUTURE_DROPPED"))
        /\ (Has("SCHEDULE_DROPPED")' <=> Has("SCHEDULE_DROPPED"))
        /\ (Has("OUTPUT_PRESENT")' <=> Has("OUTPUT_PRESENT")) /\ (Ended' <=> Ended)
    BY <1>1, <1>7, <2>1 DEF poll_pending, Has, Ended, header, Dropped
  <2>8. UNCHANGED <<runq, linked, awaiter, exec, closed, shut, chanWake, chanCleanup>>
    BY <1>1, <1>7, <2>1 DEF poll_pending, header, places, executor, channel, TlTypes
  <2>9. Sole'
    BY <1>1, <1>2, <1>7, <2>1, <2>6, <2>7, <2>8 DEF Sole, Queued, Dropped, Shutting, Brief,
       Dropping, FromRun, SchedEnds, RunFrames, Runnable, Using, OnTop, Seats, One, Known,
       Settled, Flagged, TlTypes
  <2>10. Dropped'
    BY <1>1, <1>2, <1>7, <2>1, <2>6, <2>7, <2>8 DEF Dropped, Sole, Brief, Dropping, FromRun,
       SchedEnds, RunFrames, Runnable, Using, OnTop, Seats, One, Known, Settled, Flagged, TlTypes
  <2>11. Awaited'
    BY <1>1, <1>2, <1>7, <2>1, <2>6, <2>7, <2>8 DEF Awaited, Queued, Telling, Sole, Dropped,
       Brief, Dropping, FromRun, SchedEnds, RunFrames, Runnable, Using, OnTop, Seats, One, Known,
       Settled, Flagged, TlTypes
  <2>12. Shutting'
    BY <1>1, <1>2, <1>7, <2>1, <2>6, <2>7, <2>8 DEF Shutting, Dropped, Sole, Brief, Dropping,
       FromRun, SchedEnds, RunFrames, Runnable, Using, OnTop, Seats, One, Known, Settled, Flagged,
       TlTypes
  <2>. QED
    BY <2>6, <2>9, <2>10, <2>11, <2>12 DEF TlSound, Sound
<1>. QED
  BY <1>4, <1>5, <1>6, <1>7, <1>1, <1>2 DEF poll_pending

LEMMA Sound_poll_panic ==
  ASSUME TlInv, TlSound, poll_panic PROVE TlSound'
<1>. DEFINE t == Tail(stack)
<1>1. /\ TlTypes /\ Stacked /\ Registered /\ Flagged /\ Finished
      /\ SeatedIn(stack) /\ Sole /\ Dropped /\ Awaited /\ Shutting /\ Sound
  BY DEF TlInv, TlSound, Sound
<1>2. OnTop("poll", t) /\ Top = "poll"
  BY TopSeat DEF TlSound, poll_panic
<1>3. Tail(stack) = t /\ t \in Seq(Names)
  BY <1>2 DEF OnTop
<1>4. stack' = Push("drop_future", Push("pending_closed_end", Push("finish", Push("release", t))))
  BY <1>3 DEF poll_panic, Has, Return, Push
<1>5. /\ Seats("release", Members(t))
      /\ Seats("finish", Members(t) \cup {"release"})
      /\ Seats("pending_closed_end", Members(t) \cup {"finish", "release"})
      /\ Seats("drop_future", Members(t) \cup {"pending_closed_end", "finish", "release"})
  BY <1>1, <1>2 DEF OnTop, Seats, Brief, Dropping, SchedEnds, RunFrames, FromRun, Flagged,
     Registered, Has, Sole, Dropped, Awaited, Shutting, Known, Settled
<1>6. "drop_future" \in Names /\ "pending_closed_end" \in Names /\ "finish" \in Names /\ "release" \in Names
  BY DEF Names, Protecting, Holding, Bare, Neutral, SchedEnds
<1>7. /\ Lies(Members(t) \cup {"drop_future", "pending_closed_end", "finish", "release"},
              Runs(t) + One("drop_future", Runnable) + One("pending_closed_end", Runnable)
                  + One("finish", Runnable) + One("release", Runnable),
              Uses(t) + One("drop_future", Using) + One("pending_closed_end", Using)
                  + One("finish", Using) + One("release", Using))
      /\ Top' = "drop_future"
  BY <1>2, <1>4, <1>5, <1>6, Lie4 DEF OnTop
<1>8. /\ SeatedIn(stack')
      /\ Frames' = Members(t) \cup {"drop_future", "pending_closed_end", "finish", "release"}
      /\ Runs(stack') = Runs(t) /\ Uses(stack') = Uses(t) /\ Top' = "drop_future"
  BY <1>2, <1>7 DEF Lies, One, Runnable, Using, Known, OnTop
<1>9. /\ (Has("SCHEDULED")' <=> Has("SCHEDULED")) /\ Has("RUNNING")'
      /\ (Has("COMPLETED")' <=> Has("COMPLETED"))
      /\ (Has("FUTURE_DROPPED")' <=> Has("FUTURE_DROPPED"))
      /\ (Has("SCHEDULE_DROPPED")' <=> Has("SCHEDULE_DROPPED"))
      /\ (Has("OUTPUT_PRESENT")' <=> Has("OUTPUT_PRESENT")) /\ Ended'
  BY <1>1 DEF poll_panic, Has, Ended, header, Dropped
<1>10. UNCHANGED <<runq, linked, awaiter, exec, closed, shut, chanWake, chanCleanup>>
  BY <1>1 DEF poll_panic, header, places, executor, channel, TlTypes
<1>11. Sole'
  BY <1>1, <1>2, <1>8, <1>9, <1>10 DEF Sole, Queued, Dropped, Shutting, Brief, Dropping, FromRun,
     SchedEnds, RunFrames, Runnable, Using, OnTop, Seats, One, Known, Settled, Flagged, TlTypes
<1>12. Dropped'
  BY <1>1, <1>2, <1>8, <1>9, <1>10 DEF Dropped, Sole, Brief, Dropping, FromRun, SchedEnds,
     RunFrames, Runnable, Using, OnTop, Seats, One, Known, Settled, Flagged, TlTypes
<1>13. Awaited'
  BY <1>1, <1>2, <1>8, <1>9, <1>10 DEF Awaited, Queued, Telling, Sole, Dropped, Brief, Dropping,
     FromRun, SchedEnds, RunFrames, Runnable, Using, OnTop, Seats, One, Known, Settled, Flagged,
     TlTypes
<1>14. Shutting'
  BY <1>1, <1>2, <1>8, <1>9, <1>10 DEF Shutting, Dropped, Sole, Brief, Dropping, FromRun,
     SchedEnds, RunFrames, Runnable, Using, OnTop, Seats, One, Known, Settled, Flagged, TlTypes
<1>. QED
  BY <1>8, <1>11, <1>12, <1>13, <1>14 DEF TlSound, Sound

LEMMA Sound_end_run ==
  ASSUME TlInv, TlSound, end_run PROVE TlSound'
<1>. DEFINE t == Tail(stack)
<1>1. /\ TlTypes /\ Stacked /\ Registered /\ Flagged /\ Finished
      /\ SeatedIn(stack) /\ Sole /\ Dropped /\ Awaited /\ Shutting /\ Sound
  BY DEF TlInv, TlSound, Sound
<1>2. OnTop("end_run", t) /\ Top = "end_run"
  BY TopSeat DEF TlSound, end_run, CanCleanup, CleanupOwner
<1>3. Tail(stack) = t /\ t \in Seq(Names)
  BY <1>2 DEF OnTop
<1>4. CASE CanCleanup
  <2>1. Has("FUTURE_DROPPED") /\ ~Has("RUNNING") /\ Frames \cap SchedEnds = {}
    BY <1>1, <1>2, <1>4 DEF CanCleanup, Registered
  <2>2. stack' = Push("release2", t)
    BY <1>4, <2>1, <1>3 DEF end_run, CanCleanup, CleanupOwner, Has, Return, Push
  <2>3. Seats("release2", Members(t))
    BY <1>1, <1>2, <1>4, <2>1 DEF OnTop, Seats, Brief, Dropping, SchedEnds, RunFrames, FromRun,
       Flagged, Registered, Has, Sole, Dropped, Awaited, Shutting, Known, Settled
  <2>4. "release2" \in Names
    BY DEF Names, Protecting, Holding, Bare, Neutral, SchedEnds
  <2>5. /\ Lies(Members(t) \cup {"release2"},
                Runs(t) + One("release2", Runnable),
                Uses(t) + One("release2", Using))
        /\ Top' = "release2"
    BY <1>2, <2>2, <2>3, <2>4, Lie1 DEF OnTop
  <2>6. /\ SeatedIn(stack')
        /\ Frames' = Members(t) \cup {"release2"}
        /\ Runs(stack') = Runs(t) /\ Uses(stack') = Uses(t) /\ Top' = "release2"
    BY <1>2, <2>5 DEF Lies, One, Runnable, Using, Known, OnTop
  <2>7. /\ (Has("SCHEDULED")' <=> Has("SCHEDULED")) /\ (Has("RUNNING")' <=> Has("RUNNING"))
        /\ (Has("COMPLETED")' <=> Has("COMPLETED"))
        /\ (Has("FUTURE_DROPPED")' <=> Has("FUTURE_DROPPED")) /\ Has("SCHEDULE_DROPPED")'
        /\ (Has("OUTPUT_PRESENT")' <=> Has("OUTPUT_PRESENT")) /\ (Ended' <=> Ended)
    BY <1>1, <1>4, <2>1 DEF end_run, CanCleanup, CleanupOwner, Has, Ended, header, Dropped
  <2>8. /\ UNCHANGED <<runq, exec, closed, shut, chanWake, chanCleanup>>
        /\ linked' = FALSE /\ awaiter' = FALSE
    BY <1>1, <1>4, <2>1 DEF end_run, CanCleanup, CleanupOwner, header, places, executor, channel,
       TlTypes
  <2>9. Sole'
    BY <1>1, <1>2, <1>4, <2>1, <2>6, <2>7, <2>8 DEF Sole, Queued, Dropped, Shutting, Brief,
       Dropping, FromRun, SchedEnds, RunFrames, Runnable, Using, OnTop, Seats, One, Known,
       Settled, Flagged, TlTypes
  <2>10. Dropped'
    BY <1>1, <1>2, <1>4, <2>1, <2>6, <2>7, <2>8 DEF Dropped, Sole, Brief, Dropping, FromRun,
       SchedEnds, RunFrames, Runnable, Using, OnTop, Seats, One, Known, Settled, Flagged, TlTypes
  <2>11. Awaited'
    BY <1>1, <1>2, <1>4, <2>1, <2>6, <2>7, <2>8 DEF Awaited, Queued, Telling, Sole, Dropped,
       Brief, Dropping, FromRun, SchedEnds, RunFrames, Runnable, Using, OnTop, Seats, One, Known,
       Settled, Flagged, TlTypes
  <2>12. Shutting'
    BY <1>1, <1>2, <1>4, <2>1, <2>6, <2>7, <2>8 DEF Shutting, Dropped, Sole, Brief, Dropping,
       FromRun, SchedEnds, RunFrames, Runnable, Using, OnTop, Seats, One, Known, Settled, Flagged,
       TlTypes
  <2>. QED
    BY <2>6, <2>9, <2>10, <2>11, <2>12 DEF TlSound, Sound
<1>5. CASE ~CanCleanup
  <2>1. Has("SCHEDULE_DROPPED") \/ ~Has("FUTURE_DROPPED") \/ Has("RUNNING") \/ Frames \cap SchedEnds # {}
    BY <1>1, <1>2, <1>5 DEF CanCleanup, Registered
  <2>2. stack' = Push("drop_waker", t)
    BY <1>5, <2>1, <1>3 DEF end_run, CanCleanup, CleanupOwner, Has, Return, Push
  <2>3. Seats("drop_waker", Members(t))
    BY <1>1, <1>2, <1>5, <2>1 DEF OnTop, Seats, Brief, Dropping, SchedEnds, RunFrames, FromRun,
       Flagged, Registered, Has, Sole, Dropped, Awaited, Shutting, Known, Settled
  <2>4. "drop_waker" \in Names
    BY DEF Names, Protecting, Holding, Bare, Neutral, SchedEnds
  <2>5. /\ Lies(Members(t) \cup {"drop_waker"},
                Runs(t) + One("drop_waker", Runnable),
                Uses(t) + One("drop_waker", Using))
        /\ Top' = "drop_waker"
    BY <1>2, <2>2, <2>3, <2>4, Lie1 DEF OnTop
  <2>6. /\ SeatedIn(stack')
        /\ Frames' = Members(t) \cup {"drop_waker"}
        /\ Runs(stack') = Runs(t) /\ Uses(stack') = Uses(t) /\ Top' = "drop_waker"
    BY <1>2, <2>5 DEF Lies, One, Runnable, Using, Known, OnTop
  <2>7. /\ (Has("SCHEDULED")' <=> Has("SCHEDULED")) /\ (Has("RUNNING")' <=> Has("RUNNING"))
        /\ (Has("COMPLETED")' <=> Has("COMPLETED"))
        /\ (Has("FUTURE_DROPPED")' <=> Has("FUTURE_DROPPED"))
        /\ (Has("SCHEDULE_DROPPED")' <=> Has("SCHEDULE_DROPPED"))
        /\ (Has("OUTPUT_PRESENT")' <=> Has("OUTPUT_PRESENT")) /\ (Ended' <=> Ended)
    BY <1>1, <1>5, <2>1 DEF end_run, CanCleanup, CleanupOwner, Has, Ended, header, Dropped
  <2>8. UNCHANGED <<runq, linked, awaiter, exec, closed, shut, chanWake, chanCleanup>>
    BY <1>1, <1>5, <2>1 DEF end_run, CanCleanup, CleanupOwner, header, places, executor, channel,
       TlTypes
  <2>9. Sole'
    BY <1>1, <1>2, <1>5, <2>1, <2>6, <2>7, <2>8 DEF Sole, Queued, Dropped, Shutting, Brief,
       Dropping, FromRun, SchedEnds, RunFrames, Runnable, Using, OnTop, Seats, One, Known,
       Settled, Flagged, TlTypes
  <2>10. Dropped'
    BY <1>1, <1>2, <1>5, <2>1, <2>6, <2>7, <2>8 DEF Dropped, Sole, Brief, Dropping, FromRun,
       SchedEnds, RunFrames, Runnable, Using, OnTop, Seats, One, Known, Settled, Flagged, TlTypes
  <2>11. Awaited'
    BY <1>1, <1>2, <1>5, <2>1, <2>6, <2>7, <2>8 DEF Awaited, Queued, Telling, Sole, Dropped,
       Brief, Dropping, FromRun, SchedEnds, RunFrames, Runnable, Using, OnTop, Seats, One, Known,
       Settled, Flagged, TlTypes
  <2>12. Shutting'
    BY <1>1, <1>2, <1>5, <2>1, <2>6, <2>7, <2>8 DEF Shutting, Dropped, Sole, Brief, Dropping,
       FromRun, SchedEnds, RunFrames, Runnable, Using, OnTop, Seats, One, Known, Settled, Flagged,
       TlTypes
  <2>. QED
    BY <2>6, <2>9, <2>10, <2>11, <2>12 DEF TlSound, Sound
<1>. QED
  BY <1>4, <1>5, <1>1, <1>2 DEF end_run, CanCleanup, CleanupOwner

LEMMA Sound_dtor ==
  ASSUME TlInv, TlSound, user_return, Top = "dtor" PROVE TlSound'
<1>. DEFINE t == Tail(stack)
<1>1. /\ TlTypes /\ Stacked /\ Registered /\ Flagged /\ Finished
      /\ SeatedIn(stack) /\ Sole /\ Dropped /\ Awaited /\ Shutting /\ Sound
  BY DEF TlInv, TlSound, Sound
<1>2. OnTop("dtor", t) /\ Top = "dtor"
  BY TopSeat DEF TlSound, user_return
<1>3. Tail(stack) = t /\ t \in Seq(Names)
  BY <1>2 DEF OnTop
<1>4. stack' = t
  BY <1>3 DEF user_return, Has, Return
<1>5. /\ SeatedIn(stack') /\ Frames' = Members(t) /\ Top' \in Members(t) \cup {"none"}
      /\ Runs(stack') = Runs(t) /\ Uses(stack') = Uses(t)
  BY <1>2, <1>4, Lie0 DEF OnTop, Lies
<1>6. /\ (Has("SCHEDULED")' <=> Has("SCHEDULED")) /\ (Has("RUNNING")' <=> Has("RUNNING"))
      /\ (Has("COMPLETED")' <=> Has("COMPLETED"))
      /\ (Has("FUTURE_DROPPED")' <=> Has("FUTURE_DROPPED"))
      /\ (Has("SCHEDULE_DROPPED")' <=> Has("SCHEDULE_DROPPED"))
      /\ (Has("OUTPUT_PRESENT")' <=> Has("OUTPUT_PRESENT")) /\ (Ended' <=> Ended)
  BY <1>1 DEF user_return, Has, Ended, header, Dropped
<1>7. UNCHANGED <<runq, linked, awaiter, exec, closed, shut, chanWake, chanCleanup>>
  BY <1>1 DEF user_return, header, places, executor, channel, TlTypes
<1>8. Sole'
  BY <1>1, <1>2, <1>5, <1>6, <1>7 DEF Sole, Queued, Dropped, Shutting, Brief, Dropping, FromRun,
     SchedEnds, RunFrames, Runnable, Using, OnTop, Seats, One, Known, Settled, Flagged, TlTypes
<1>9. Dropped'
  BY <1>1, <1>2, <1>5, <1>6, <1>7 DEF Dropped, Sole, Brief, Dropping, FromRun, SchedEnds,
     RunFrames, Runnable, Using, OnTop, Seats, One, Known, Settled, Flagged, TlTypes
<1>10. Awaited'
  BY <1>1, <1>2, <1>5, <1>6, <1>7 DEF Awaited, Queued, Telling, Sole, Dropped, Brief, Dropping,
     FromRun, SchedEnds, RunFrames, Runnable, Using, OnTop, Seats, One, Known, Settled, Flagged,
     TlTypes
<1>11. Shutting'
  BY <1>1, <1>2, <1>5, <1>6, <1>7 DEF Shutting, Dropped, Sole, Brief, Dropping, FromRun,
     SchedEnds, RunFrames, Runnable, Using, OnTop, Seats, One, Known, Settled, Flagged, TlTypes
<1>. QED
  BY <1>5, <1>8, <1>9, <1>10, <1>11 DEF TlSound, Sound

(* The executor.                                                               *)
LEMMA Sound_run_one ==
  ASSUME TlInv, TlSound, run_one PROVE TlSound'
<1>1. /\ TlTypes /\ Stacked /\ Registered /\ Flagged /\ Finished
      /\ SeatedIn(stack) /\ Sole /\ Dropped /\ Awaited /\ Shutting /\ Sound
  BY DEF TlInv, TlSound, Sound
<1>2. UserSeats
  BY UserSeated DEF run_one, UserCode
<1>3. Top = "none" /\ Frames = {}
  BY <1>1, <1>2 DEF Top, Frames, run_one
<1>4. runq = 1 /\ Runs(stack) = 0
  BY <1>1, <1>2 DEF UserSeats, Known, Runnable, Sole, run_one, TlTypes
<1>5. stack' = Push("run", stack)
  BY <1>3, <1>4, <1>2 DEF run_one, UserCode, UserSeats, Has, Call, Push, Known
<1>6. Seats("run", Members(stack))
  BY <1>1, <1>2, <1>3, <1>4 DEF UserSeats, OnTop, Seats, Brief, Dropping, SchedEnds, RunFrames,
     FromRun, Flagged, Registered, Has, Sole, Dropped, Awaited, Shutting, Known, Settled
<1>7. "run" \in Names
  BY DEF Names, Protecting, Holding, Bare, Neutral, SchedEnds
<1>8. /\ Lies(Members(stack) \cup {"run"},
              Runs(stack) + One("run", Runnable),
              Uses(stack) + One("run", Using))
      /\ Top' = "run"
  BY <1>2, <1>5, <1>6, <1>7, Lie1 DEF UserSeats
<1>9. /\ SeatedIn(stack')
      /\ Frames' = Members(stack) \cup {"run"}
      /\ Runs(stack') = Runs(stack) + 1 /\ Uses(stack') = Uses(stack) /\ Top' = "run"
  BY <1>2, <1>8 DEF Lies, One, Runnable, Using, Known, UserSeats
<1>10. /\ (Has("SCHEDULED")' <=> Has("SCHEDULED")) /\ (Has("RUNNING")' <=> Has("RUNNING"))
       /\ (Has("COMPLETED")' <=> Has("COMPLETED"))
       /\ (Has("FUTURE_DROPPED")' <=> Has("FUTURE_DROPPED"))
       /\ (Has("SCHEDULE_DROPPED")' <=> Has("SCHEDULE_DROPPED"))
       /\ (Has("OUTPUT_PRESENT")' <=> Has("OUTPUT_PRESENT")) /\ (Ended' <=> Ended)
  BY <1>1, <1>3, <1>4 DEF run_one, UserCode, UserSeats, Has, Ended, header, Dropped
<1>11. /\ UNCHANGED <<linked, awaiter, exec, closed, shut, chanWake, chanCleanup>>
       /\ runq = 1 /\ runq' = 0
  BY <1>1, <1>3, <1>4 DEF run_one, UserCode, UserSeats, header, places, executor, channel,
     TlTypes, Sole
<1>12. (runq + Runs(stack) <= 1)'
  BY <1>1, <1>2, <1>3, <1>4, <1>9, <1>10, <1>11 DEF Sole, Queued, Dropped, Shutting, Brief,
     Dropping, FromRun, SchedEnds, RunFrames, Runnable, Using, UserSeats, Seats, One, Known,
     Settled, Flagged, TlTypes
<1>13. (runq + Runs(stack) = 1 =>
          Has("SCHEDULED") \/ Has("RUNNING") \/ Ended \/ Top \in {"end_run", "close"})'
  BY <1>1, <1>2, <1>3, <1>4, <1>9, <1>10, <1>11 DEF Sole, Queued, Dropped, Shutting, Brief,
     Dropping, FromRun, SchedEnds, RunFrames, Runnable, Using, UserSeats, Seats, One, Known,
     Settled, Flagged, TlTypes
<1>14. (Top = "schedule" => runq + Runs(stack) = 0 /\ Has("SCHEDULED"))'
  BY <1>1, <1>2, <1>3, <1>4, <1>9, <1>10, <1>11 DEF Sole, Queued, Dropped, Shutting, Brief,
     Dropping, FromRun, SchedEnds, RunFrames, Runnable, Using, UserSeats, Seats, One, Known,
     Settled, Flagged, TlTypes
<1>15. (Top \in {"schedule", "schedule_owned"} \/ "push" \in Frames => ~Has("RUNNING"))'
  BY <1>1, <1>2, <1>3, <1>4, <1>9, <1>10, <1>11 DEF Sole, Queued, Dropped, Shutting, Brief,
     Dropping, FromRun, SchedEnds, RunFrames, Runnable, Using, UserSeats, Seats, One, Known,
     Settled, Flagged, TlTypes
<1>16. (Top \in {"schedule", "schedule_owned"} => ~Has("SCHEDULE_DROPPED"))'
  BY <1>1, <1>2, <1>3, <1>4, <1>9, <1>10, <1>11 DEF Sole, Queued, Dropped, Shutting, Brief,
     Dropping, FromRun, SchedEnds, RunFrames, Runnable, Using, UserSeats, Seats, One, Known,
     Settled, Flagged, TlTypes
<1>17. ("end_run" \in Frames => Top \in {"end_run", "close"} \/ "completed" \in Frames \/ Ended)'
  BY <1>1, <1>2, <1>3, <1>4, <1>9, <1>10, <1>11 DEF Sole, Queued, Dropped, Shutting, Brief,
     Dropping, FromRun, SchedEnds, RunFrames, Runnable, Using, UserSeats, Seats, One, Known,
     Settled, Flagged, TlTypes
<1>18. ("end_run" \in Frames /\ Has("SCHEDULED") =>
          "completed" \in Frames \/ "pending_closed_end" \in Frames)'
  BY <1>1, <1>2, <1>3, <1>4, <1>9, <1>10, <1>11 DEF Sole, Queued, Dropped, Shutting, Brief,
     Dropping, FromRun, SchedEnds, RunFrames, Runnable, Using, UserSeats, Seats, One, Known,
     Settled, Flagged, TlTypes
<1>19. (Has("SCHEDULED") => \/ runq + Runs(stack) = 1 \/ Top = "schedule"
                            \/ "pending_closed_end" \in Frames
                            \/ (Top = "close" /\ ~Has("RUNNING")))'
  BY <1>1, <1>2, <1>3, <1>4, <1>9, <1>10, <1>11 DEF Sole, Queued, Dropped, Shutting, Brief,
     Dropping, FromRun, SchedEnds, RunFrames, Runnable, Using, UserSeats, Seats, One, Known,
     Settled, Flagged, TlTypes
<1>20. (Queued => Has("SCHEDULED") \/ "finish_shutdown" \in Frames)'
  BY <1>1, <1>2, <1>3, <1>4, <1>9, <1>10, <1>11 DEF Sole, Queued, Dropped, Shutting, Brief,
     Dropping, FromRun, SchedEnds, RunFrames, Runnable, Using, UserSeats, Seats, One, Known,
     Settled, Flagged, TlTypes
<1>21. (Top = "close" => runq = 0 \/ "finish_shutdown" \in Frames)'
  BY <1>1, <1>2, <1>3, <1>4, <1>9, <1>10, <1>11 DEF Sole, Queued, Dropped, Shutting, Brief,
     Dropping, FromRun, SchedEnds, RunFrames, Runnable, Using, UserSeats, Seats, One, Known,
     Settled, Flagged, TlTypes
<1>22. ("pending_closed_end" \in Frames => runq = 0)'
  BY <1>1, <1>2, <1>3, <1>4, <1>9, <1>10, <1>11 DEF Sole, Queued, Dropped, Shutting, Brief,
     Dropping, FromRun, SchedEnds, RunFrames, Runnable, Using, UserSeats, Seats, One, Known,
     Settled, Flagged, TlTypes
<1>23. Sole'
  BY <1>1, <1>2, <1>3, <1>4, <1>9, <1>10, <1>11, <1>12, <1>13, <1>14, <1>15, <1>16, <1>17, <1>18,
     <1>19, <1>20, <1>21, <1>22 DEF Sole, Queued
<1>24. Dropped'
  BY <1>1, <1>2, <1>3, <1>4, <1>9, <1>10, <1>11 DEF Dropped, Sole, Brief, Dropping, FromRun,
     SchedEnds, RunFrames, Runnable, Using, UserSeats, Seats, One, Known, Settled, Flagged,
     TlTypes
<1>25. Awaited'
  BY <1>1, <1>2, <1>3, <1>4, <1>9, <1>10, <1>11 DEF Awaited, Queued, Telling, Sole, Dropped,
     Brief, Dropping, FromRun, SchedEnds, RunFrames, Runnable, Using, UserSeats, Seats, One,
     Known, Settled, Flagged, TlTypes
<1>26. Shutting'
  BY <1>1, <1>2, <1>3, <1>4, <1>9, <1>10, <1>11 DEF Shutting, Dropped, Sole, Brief, Dropping,
     FromRun, SchedEnds, RunFrames, Runnable, Using, UserSeats, Seats, One, Known, Settled,
     Flagged, TlTypes
<1>. QED
  BY <1>9, <1>23, <1>24, <1>25, <1>26 DEF TlSound, Sound

LEMMA Sound_drop_executor ==
  ASSUME TlInv, TlSound, drop_executor PROVE TlSound'
<1>1. /\ TlTypes /\ Stacked /\ Registered /\ Flagged /\ Finished
      /\ SeatedIn(stack) /\ Sole /\ Dropped /\ Awaited /\ Shutting /\ Sound
  BY DEF TlInv, TlSound, Sound
<1>2. UserSeats
  BY UserSeated DEF drop_executor, UserCode
<1>3. CASE /\ stack = <<>> /\ exec = "idle" /\ exec' = "cleanup"
           /\ Call(<<"close_foreign_wakes", "request_shutdown", "leave">>)
  <2>1. Top = "none" /\ Frames = {}
    BY <1>1, <1>2, <1>3 DEF Top, Frames, drop_executor
  <2>2. stack' = Push("close_foreign_wakes", Push("request_shutdown", Push("leave", stack)))
    BY <1>3, <2>1, <1>2 DEF drop_executor, UserCode, UserSeats, Has, Call, Push, Known
  <2>3. /\ Seats("leave", Members(stack))
        /\ Seats("request_shutdown", Members(stack) \cup {"leave"})
        /\ Seats("close_foreign_wakes", Members(stack) \cup {"request_shutdown", "leave"})
    BY <1>1, <1>2, <1>3, <2>1 DEF UserSeats, OnTop, Seats, Brief, Dropping, SchedEnds, RunFrames,
       FromRun, Flagged, Registered, Has, Sole, Dropped, Awaited, Shutting, Known, Settled
  <2>4. "close_foreign_wakes" \in Names /\ "request_shutdown" \in Names /\ "leave" \in Names
    BY DEF Names, Protecting, Holding, Bare, Neutral, SchedEnds
  <2>5. /\ Lies(Members(stack) \cup {"close_foreign_wakes", "request_shutdown", "leave"},
                Runs(stack) + One("close_foreign_wakes", Runnable)
                    + One("request_shutdown", Runnable) + One("leave", Runnable),
                Uses(stack) + One("close_foreign_wakes", Using)
                    + One("request_shutdown", Using) + One("leave", Using))
        /\ Top' = "close_foreign_wakes"
    BY <1>2, <2>2, <2>3, <2>4, Lie3 DEF UserSeats
  <2>6. /\ SeatedIn(stack')
        /\ Frames' = Members(stack) \cup {"close_foreign_wakes", "request_shutdown", "leave"}
        /\ Runs(stack') = Runs(stack) /\ Uses(stack') = Uses(stack) /\ Top' = "close_foreign_wakes"
    BY <1>2, <2>5 DEF Lies, One, Runnable, Using, Known, UserSeats
  <2>7. /\ (Has("SCHEDULED")' <=> Has("SCHEDULED")) /\ (Has("RUNNING")' <=> Has("RUNNING"))
        /\ (Has("COMPLETED")' <=> Has("COMPLETED"))
        /\ (Has("FUTURE_DROPPED")' <=> Has("FUTURE_DROPPED"))
        /\ (Has("SCHEDULE_DROPPED")' <=> Has("SCHEDULE_DROPPED"))
        /\ (Has("OUTPUT_PRESENT")' <=> Has("OUTPUT_PRESENT")) /\ (Ended' <=> Ended)
    BY <1>1, <1>3, <2>1 DEF drop_executor, UserCode, UserSeats, Has, Ended, header, Dropped
  <2>8. /\ UNCHANGED <<runq, linked, awaiter, shut, chanWake, chanCleanup>>
        /\ exec = "idle" /\ exec' = "cleanup" /\ ~closed /\ closed' = TRUE /\ ~shut
    BY <1>1, <1>3, <2>1 DEF drop_executor, UserCode, UserSeats, header, places, executor, channel,
       TlTypes
  <2>9. Sole'
    BY <1>1, <1>2, <1>3, <2>1, <2>6, <2>7, <2>8 DEF Sole, Queued, Dropped, Shutting, Brief,
       Dropping, FromRun, SchedEnds, RunFrames, Runnable, Using, UserSeats, Seats, One, Known,
       Settled, Flagged, TlTypes
  <2>10. Dropped'
    BY <1>1, <1>2, <1>3, <2>1, <2>6, <2>7, <2>8 DEF Dropped, Sole, Brief, Dropping, FromRun,
       SchedEnds, RunFrames, Runnable, Using, UserSeats, Seats, One, Known, Settled, Flagged,
       TlTypes
  <2>11. Awaited'
    BY <1>1, <1>2, <1>3, <2>1, <2>6, <2>7, <2>8 DEF Awaited, Queued, Telling, Sole, Dropped,
       Brief, Dropping, FromRun, SchedEnds, RunFrames, Runnable, Using, UserSeats, Seats, One,
       Known, Settled, Flagged, TlTypes
  <2>12. Shutting'
    BY <1>1, <1>2, <1>3, <2>1, <2>6, <2>7, <2>8 DEF Shutting, Dropped, Sole, Brief, Dropping,
       FromRun, SchedEnds, RunFrames, Runnable, Using, UserSeats, Seats, One, Known, Settled,
       Flagged, TlTypes
  <2>. QED
    BY <2>6, <2>9, <2>10, <2>11, <2>12 DEF TlSound, Sound
<1>4. CASE /\ exec = "cleanup" /\ Top \in {"dtor", "user"} /\ exec' = exec
           /\ Call(<<"close_foreign_wakes", "request_shutdown">>)
  <2>1. ~closed
    BY <1>1, <1>2, <1>4 DEF drop_executor
  <2>2. stack' = Push("close_foreign_wakes", Push("request_shutdown", stack))
    BY <1>4, <2>1, <1>2 DEF drop_executor, UserCode, UserSeats, Has, Call, Push, Known
  <2>3. /\ Seats("request_shutdown", Members(stack))
        /\ Seats("close_foreign_wakes", Members(stack) \cup {"request_shutdown"})
    BY <1>1, <1>2, <1>4, <2>1 DEF UserSeats, OnTop, Seats, Brief, Dropping, SchedEnds, RunFrames,
       FromRun, Flagged, Registered, Has, Sole, Dropped, Awaited, Shutting, Known, Settled
  <2>4. "close_foreign_wakes" \in Names /\ "request_shutdown" \in Names
    BY DEF Names, Protecting, Holding, Bare, Neutral, SchedEnds
  <2>5. /\ Lies(Members(stack) \cup {"close_foreign_wakes", "request_shutdown"},
                Runs(stack) + One("close_foreign_wakes", Runnable)
                    + One("request_shutdown", Runnable),
                Uses(stack) + One("close_foreign_wakes", Using)
                    + One("request_shutdown", Using))
        /\ Top' = "close_foreign_wakes"
    BY <1>2, <2>2, <2>3, <2>4, Lie2 DEF UserSeats
  <2>6. /\ SeatedIn(stack')
        /\ Frames' = Members(stack) \cup {"close_foreign_wakes", "request_shutdown"}
        /\ Runs(stack') = Runs(stack) /\ Uses(stack') = Uses(stack) /\ Top' = "close_foreign_wakes"
    BY <1>2, <2>5 DEF Lies, One, Runnable, Using, Known, UserSeats
  <2>7. /\ (Has("SCHEDULED")' <=> Has("SCHEDULED")) /\ (Has("RUNNING")' <=> Has("RUNNING"))
        /\ (Has("COMPLETED")' <=> Has("COMPLETED"))
        /\ (Has("FUTURE_DROPPED")' <=> Has("FUTURE_DROPPED"))
        /\ (Has("SCHEDULE_DROPPED")' <=> Has("SCHEDULE_DROPPED"))
        /\ (Has("OUTPUT_PRESENT")' <=> Has("OUTPUT_PRESENT")) /\ (Ended' <=> Ended)
    BY <1>1, <1>4, <2>1 DEF drop_executor, UserCode, UserSeats, Has, Ended, header, Dropped
  <2>8. /\ UNCHANGED <<runq, linked, awaiter, exec, shut, chanWake, chanCleanup>>
        /\ ~closed /\ closed' = TRUE /\ ~shut
    BY <1>1, <1>4, <2>1 DEF drop_executor, UserCode, UserSeats, header, places, executor, channel,
       TlTypes
  <2>9. Sole'
    BY <1>1, <1>2, <1>4, <2>1, <2>6, <2>7, <2>8 DEF Sole, Queued, Dropped, Shutting, Brief,
       Dropping, FromRun, SchedEnds, RunFrames, Runnable, Using, UserSeats, Seats, One, Known,
       Settled, Flagged, TlTypes
  <2>10. Dropped'
    BY <1>1, <1>2, <1>4, <2>1, <2>6, <2>7, <2>8 DEF Dropped, Sole, Brief, Dropping, FromRun,
       SchedEnds, RunFrames, Runnable, Using, UserSeats, Seats, One, Known, Settled, Flagged,
       TlTypes
  <2>11. Awaited'
    BY <1>1, <1>2, <1>4, <2>1, <2>6, <2>7, <2>8 DEF Awaited, Queued, Telling, Sole, Dropped,
       Brief, Dropping, FromRun, SchedEnds, RunFrames, Runnable, Using, UserSeats, Seats, One,
       Known, Settled, Flagged, TlTypes
  <2>12. Shutting'
    BY <1>1, <1>2, <1>4, <2>1, <2>6, <2>7, <2>8 DEF Shutting, Dropped, Sole, Brief, Dropping,
       FromRun, SchedEnds, RunFrames, Runnable, Using, UserSeats, Seats, One, Known, Settled,
       Flagged, TlTypes
  <2>. QED
    BY <2>6, <2>9, <2>10, <2>11, <2>12 DEF TlSound, Sound
<1>. QED
  BY <1>3, <1>4, <1>1, <1>2 DEF drop_executor, UserCode

LEMMA Sound_close_foreign_wakes ==
  ASSUME TlInv, TlSound, close_foreign_wakes PROVE TlSound'
<1>. DEFINE t == Tail(stack)
<1>1. /\ TlTypes /\ Stacked /\ Registered /\ Flagged /\ Finished
      /\ SeatedIn(stack) /\ Sole /\ Dropped /\ Awaited /\ Shutting /\ Sound
  BY DEF TlInv, TlSound, Sound
<1>2. OnTop("close_foreign_wakes", t) /\ Top = "close_foreign_wakes"
  BY TopSeat DEF TlSound, close_foreign_wakes
<1>3. Tail(stack) = t /\ t \in Seq(Names)
  BY <1>2 DEF OnTop
<1>4. CASE /\ chanWake > 0 /\ chanWake' = chanWake - 1 /\ chanCleanup' = chanCleanup
           /\ Return(<<"drop_waker", "close_foreign_wakes">>)
  <2>1. stack' = Push("drop_waker", Push("close_foreign_wakes", t))
    BY <1>4, <1>3 DEF close_foreign_wakes, Has, Return, Push
  <2>2. /\ Seats("close_foreign_wakes", Members(t))
        /\ Seats("drop_waker", Members(t) \cup {"close_foreign_wakes"})
    BY <1>1, <1>2, <1>4 DEF OnTop, Seats, Brief, Dropping, SchedEnds, RunFrames, FromRun, Flagged,
       Registered, Has, Sole, Dropped, Awaited, Shutting, Known, Settled
  <2>3. "drop_waker" \in Names /\ "close_foreign_wakes" \in Names
    BY DEF Names, Protecting, Holding, Bare, Neutral, SchedEnds
  <2>4. /\ Lies(Members(t) \cup {"drop_waker", "close_foreign_wakes"},
                Runs(t) + One("drop_waker", Runnable) + One("close_foreign_wakes", Runnable),
                Uses(t) + One("drop_waker", Using) + One("close_foreign_wakes", Using))
        /\ Top' = "drop_waker"
    BY <1>2, <2>1, <2>2, <2>3, Lie2 DEF OnTop
  <2>5. /\ SeatedIn(stack')
        /\ Frames' = Members(t) \cup {"drop_waker", "close_foreign_wakes"}
        /\ Runs(stack') = Runs(t) /\ Uses(stack') = Uses(t) /\ Top' = "drop_waker"
    BY <1>2, <2>4 DEF Lies, One, Runnable, Using, Known, OnTop
  <2>6. /\ (Has("SCHEDULED")' <=> Has("SCHEDULED")) /\ (Has("RUNNING")' <=> Has("RUNNING"))
        /\ (Has("COMPLETED")' <=> Has("COMPLETED"))
        /\ (Has("FUTURE_DROPPED")' <=> Has("FUTURE_DROPPED"))
        /\ (Has("SCHEDULE_DROPPED")' <=> Has("SCHEDULE_DROPPED"))
        /\ (Has("OUTPUT_PRESENT")' <=> Has("OUTPUT_PRESENT")) /\ (Ended' <=> Ended)
    BY <1>1, <1>4 DEF close_foreign_wakes, Has, Ended, header, Dropped
  <2>7. UNCHANGED <<runq, linked, awaiter, exec, closed, shut, chanCleanup>>
    BY <1>1, <1>4 DEF close_foreign_wakes, header, places, executor, channel, TlTypes
  <2>8. Sole'
    BY <1>1, <1>2, <1>4, <2>5, <2>6, <2>7 DEF Sole, Queued, Dropped, Shutting, Brief, Dropping,
       FromRun, SchedEnds, RunFrames, Runnable, Using, OnTop, Seats, One, Known, Settled, Flagged,
       TlTypes
  <2>9. Dropped'
    BY <1>1, <1>2, <1>4, <2>5, <2>6, <2>7 DEF Dropped, Sole, Brief, Dropping, FromRun, SchedEnds,
       RunFrames, Runnable, Using, OnTop, Seats, One, Known, Settled, Flagged, TlTypes
  <2>10. Awaited'
    BY <1>1, <1>2, <1>4, <2>5, <2>6, <2>7 DEF Awaited, Queued, Telling, Sole, Dropped, Brief,
       Dropping, FromRun, SchedEnds, RunFrames, Runnable, Using, OnTop, Seats, One, Known,
       Settled, Flagged, TlTypes
  <2>11. Shutting'
    BY <1>1, <1>2, <1>4, <2>5, <2>6, <2>7 DEF Shutting, Dropped, Sole, Brief, Dropping, FromRun,
       SchedEnds, RunFrames, Runnable, Using, OnTop, Seats, One, Known, Settled, Flagged, TlTypes
  <2>. QED
    BY <2>5, <2>8, <2>9, <2>10, <2>11 DEF TlSound, Sound
<1>5. CASE /\ chanCleanup > 0 /\ chanCleanup' = chanCleanup - 1 /\ chanWake' = chanWake
           /\ Return(<<"drop_waker", "close_foreign_wakes">>)
  <2>1. stack' = Push("drop_waker", Push("close_foreign_wakes", t))
    BY <1>5, <1>3 DEF close_foreign_wakes, Has, Return, Push
  <2>2. /\ Seats("close_foreign_wakes", Members(t))
        /\ Seats("drop_waker", Members(t) \cup {"close_foreign_wakes"})
    BY <1>1, <1>2, <1>5 DEF OnTop, Seats, Brief, Dropping, SchedEnds, RunFrames, FromRun, Flagged,
       Registered, Has, Sole, Dropped, Awaited, Shutting, Known, Settled
  <2>3. "drop_waker" \in Names /\ "close_foreign_wakes" \in Names
    BY DEF Names, Protecting, Holding, Bare, Neutral, SchedEnds
  <2>4. /\ Lies(Members(t) \cup {"drop_waker", "close_foreign_wakes"},
                Runs(t) + One("drop_waker", Runnable) + One("close_foreign_wakes", Runnable),
                Uses(t) + One("drop_waker", Using) + One("close_foreign_wakes", Using))
        /\ Top' = "drop_waker"
    BY <1>2, <2>1, <2>2, <2>3, Lie2 DEF OnTop
  <2>5. /\ SeatedIn(stack')
        /\ Frames' = Members(t) \cup {"drop_waker", "close_foreign_wakes"}
        /\ Runs(stack') = Runs(t) /\ Uses(stack') = Uses(t) /\ Top' = "drop_waker"
    BY <1>2, <2>4 DEF Lies, One, Runnable, Using, Known, OnTop
  <2>6. /\ (Has("SCHEDULED")' <=> Has("SCHEDULED")) /\ (Has("RUNNING")' <=> Has("RUNNING"))
        /\ (Has("COMPLETED")' <=> Has("COMPLETED"))
        /\ (Has("FUTURE_DROPPED")' <=> Has("FUTURE_DROPPED"))
        /\ (Has("SCHEDULE_DROPPED")' <=> Has("SCHEDULE_DROPPED"))
        /\ (Has("OUTPUT_PRESENT")' <=> Has("OUTPUT_PRESENT")) /\ (Ended' <=> Ended)
    BY <1>1, <1>5 DEF close_foreign_wakes, Has, Ended, header, Dropped
  <2>7. UNCHANGED <<runq, linked, awaiter, exec, closed, shut, chanWake>>
    BY <1>1, <1>5 DEF close_foreign_wakes, header, places, executor, channel, TlTypes
  <2>8. Sole'
    BY <1>1, <1>2, <1>5, <2>5, <2>6, <2>7 DEF Sole, Queued, Dropped, Shutting, Brief, Dropping,
       FromRun, SchedEnds, RunFrames, Runnable, Using, OnTop, Seats, One, Known, Settled, Flagged,
       TlTypes
  <2>9. Dropped'
    BY <1>1, <1>2, <1>5, <2>5, <2>6, <2>7 DEF Dropped, Sole, Brief, Dropping, FromRun, SchedEnds,
       RunFrames, Runnable, Using, OnTop, Seats, One, Known, Settled, Flagged, TlTypes
  <2>10. Awaited'
    BY <1>1, <1>2, <1>5, <2>5, <2>6, <2>7 DEF Awaited, Queued, Telling, Sole, Dropped, Brief,
       Dropping, FromRun, SchedEnds, RunFrames, Runnable, Using, OnTop, Seats, One, Known,
       Settled, Flagged, TlTypes
  <2>11. Shutting'
    BY <1>1, <1>2, <1>5, <2>5, <2>6, <2>7 DEF Shutting, Dropped, Sole, Brief, Dropping, FromRun,
       SchedEnds, RunFrames, Runnable, Using, OnTop, Seats, One, Known, Settled, Flagged, TlTypes
  <2>. QED
    BY <2>5, <2>8, <2>9, <2>10, <2>11 DEF TlSound, Sound
<1>6. CASE chanWake = 0 /\ chanCleanup = 0 /\ UNCHANGED <<chanWake, chanCleanup>> /\ Return(<<>>)
  <2>1. stack' = t
    BY <1>6, <1>3 DEF close_foreign_wakes, Has, Return
  <2>2. /\ SeatedIn(stack') /\ Frames' = Members(t) /\ Top' \in Members(t) \cup {"none"}
        /\ Runs(stack') = Runs(t) /\ Uses(stack') = Uses(t)
    BY <1>2, <2>1, Lie0 DEF OnTop, Lies
  <2>3. /\ (Has("SCHEDULED")' <=> Has("SCHEDULED")) /\ (Has("RUNNING")' <=> Has("RUNNING"))
        /\ (Has("COMPLETED")' <=> Has("COMPLETED"))
        /\ (Has("FUTURE_DROPPED")' <=> Has("FUTURE_DROPPED"))
        /\ (Has("SCHEDULE_DROPPED")' <=> Has("SCHEDULE_DROPPED"))
        /\ (Has("OUTPUT_PRESENT")' <=> Has("OUTPUT_PRESENT")) /\ (Ended' <=> Ended)
    BY <1>1, <1>6 DEF close_foreign_wakes, Has, Ended, header, Dropped
  <2>4. UNCHANGED <<runq, linked, awaiter, exec, closed, shut, chanWake, chanCleanup>>
    BY <1>1, <1>6 DEF close_foreign_wakes, header, places, executor, channel, TlTypes
  <2>5. Sole'
    BY <1>1, <1>2, <1>6, <2>2, <2>3, <2>4 DEF Sole, Queued, Dropped, Shutting, Brief, Dropping,
       FromRun, SchedEnds, RunFrames, Runnable, Using, OnTop, Seats, One, Known, Settled, Flagged,
       TlTypes
  <2>6. Dropped'
    BY <1>1, <1>2, <1>6, <2>2, <2>3, <2>4 DEF Dropped, Sole, Brief, Dropping, FromRun, SchedEnds,
       RunFrames, Runnable, Using, OnTop, Seats, One, Known, Settled, Flagged, TlTypes
  <2>7. Awaited'
    BY <1>1, <1>2, <1>6, <2>2, <2>3, <2>4 DEF Awaited, Queued, Telling, Sole, Dropped, Brief,
       Dropping, FromRun, SchedEnds, RunFrames, Runnable, Using, OnTop, Seats, One, Known,
       Settled, Flagged, TlTypes
  <2>8. Shutting'
    BY <1>1, <1>2, <1>6, <2>2, <2>3, <2>4 DEF Shutting, Dropped, Sole, Brief, Dropping, FromRun,
       SchedEnds, RunFrames, Runnable, Using, OnTop, Seats, One, Known, Settled, Flagged, TlTypes
  <2>. QED
    BY <2>2, <2>5, <2>6, <2>7, <2>8 DEF TlSound, Sound
<1>. QED
  BY <1>4, <1>5, <1>6, <1>1, <1>2 DEF close_foreign_wakes

LEMMA Sound_request_shutdown ==
  ASSUME TlInv, TlSound, request_shutdown PROVE TlSound'
<1>. DEFINE t == Tail(stack)
<1>1. /\ TlTypes /\ Stacked /\ Registered /\ Flagged /\ Finished
      /\ SeatedIn(stack) /\ Sole /\ Dropped /\ Awaited /\ Shutting /\ Sound
  BY DEF TlInv, TlSound, Sound
<1>2. OnTop("request_shutdown", t) /\ Top = "request_shutdown"
  BY TopSeat DEF TlSound, request_shutdown
<1>3. Tail(stack) = t /\ t \in Seq(Names)
  BY <1>2 DEF OnTop
<1>4. stack' = t
  BY <1>3 DEF request_shutdown, Has, Return
<1>5. /\ SeatedIn(stack') /\ Frames' = Members(t) /\ Top' \in Members(t) \cup {"none"}
      /\ Runs(stack') = Runs(t) /\ Uses(stack') = Uses(t)
  BY <1>2, <1>4, Lie0 DEF OnTop, Lies
<1>6. /\ (Has("SCHEDULED")' <=> Has("SCHEDULED")) /\ (Has("RUNNING")' <=> Has("RUNNING"))
      /\ (Has("COMPLETED")' <=> Has("COMPLETED"))
      /\ (Has("FUTURE_DROPPED")' <=> Has("FUTURE_DROPPED"))
      /\ (Has("SCHEDULE_DROPPED")' <=> Has("SCHEDULE_DROPPED"))
      /\ (Has("OUTPUT_PRESENT")' <=> Has("OUTPUT_PRESENT")) /\ (Ended' <=> Ended)
  BY <1>1 DEF request_shutdown, Has, Ended, header, Dropped
<1>7. /\ UNCHANGED <<runq, linked, awaiter, exec, closed, chanWake, chanCleanup>>
      /\ shut' = TRUE
  BY <1>1 DEF request_shutdown, header, places, executor, channel, TlTypes
<1>8. (runq + Runs(stack) <= 1)'
  BY <1>1, <1>2, <1>5, <1>6, <1>7 DEF Sole, Queued, Dropped, Shutting, Brief, Dropping, FromRun,
     SchedEnds, RunFrames, Runnable, Using, OnTop, Seats, One, Known, Settled, Flagged, TlTypes
<1>9. (runq + Runs(stack) = 1 =>
         Has("SCHEDULED") \/ Has("RUNNING") \/ Ended \/ Top \in {"end_run", "close"})'
  BY <1>1, <1>2, <1>5, <1>6, <1>7 DEF Sole, Queued, Dropped, Shutting, Brief, Dropping, FromRun,
     SchedEnds, RunFrames, Runnable, Using, OnTop, Seats, One, Known, Settled, Flagged, TlTypes
<1>10. (Top = "schedule" => runq + Runs(stack) = 0 /\ Has("SCHEDULED"))'
  BY <1>1, <1>2, <1>5, <1>6, <1>7 DEF Sole, Queued, Dropped, Shutting, Brief, Dropping, FromRun,
     SchedEnds, RunFrames, Runnable, Using, OnTop, Seats, One, Known, Settled, Flagged, TlTypes
<1>11. (Top \in {"schedule", "schedule_owned"} \/ "push" \in Frames => ~Has("RUNNING"))'
  BY <1>1, <1>2, <1>5, <1>6, <1>7 DEF Sole, Queued, Dropped, Shutting, Brief, Dropping, FromRun,
     SchedEnds, RunFrames, Runnable, Using, OnTop, Seats, One, Known, Settled, Flagged, TlTypes
<1>12. (Top \in {"schedule", "schedule_owned"} => ~Has("SCHEDULE_DROPPED"))'
  BY <1>1, <1>2, <1>5, <1>6, <1>7 DEF Sole, Queued, Dropped, Shutting, Brief, Dropping, FromRun,
     SchedEnds, RunFrames, Runnable, Using, OnTop, Seats, One, Known, Settled, Flagged, TlTypes
<1>13. ("end_run" \in Frames => Top \in {"end_run", "close"} \/ "completed" \in Frames \/ Ended)'
  BY <1>1, <1>2, <1>5, <1>6, <1>7 DEF Sole, Queued, Dropped, Shutting, Brief, Dropping, FromRun,
     SchedEnds, RunFrames, Runnable, Using, OnTop, Seats, One, Known, Settled, Flagged, TlTypes
<1>14. ("end_run" \in Frames /\ Has("SCHEDULED") =>
          "completed" \in Frames \/ "pending_closed_end" \in Frames)'
  BY <1>1, <1>2, <1>5, <1>6, <1>7 DEF Sole, Queued, Dropped, Shutting, Brief, Dropping, FromRun,
     SchedEnds, RunFrames, Runnable, Using, OnTop, Seats, One, Known, Settled, Flagged, TlTypes
<1>15. (Has("SCHEDULED") => \/ runq + Runs(stack) = 1 \/ Top = "schedule"
                            \/ "pending_closed_end" \in Frames
                            \/ (Top = "close" /\ ~Has("RUNNING")))'
  BY <1>1, <1>2, <1>5, <1>6, <1>7 DEF Sole, Queued, Dropped, Shutting, Brief, Dropping, FromRun,
     SchedEnds, RunFrames, Runnable, Using, OnTop, Seats, One, Known, Settled, Flagged, TlTypes
<1>16. (Queued => Has("SCHEDULED") \/ "finish_shutdown" \in Frames)'
  BY <1>1, <1>2, <1>5, <1>6, <1>7 DEF Sole, Queued, Dropped, Shutting, Brief, Dropping, FromRun,
     SchedEnds, RunFrames, Runnable, Using, OnTop, Seats, One, Known, Settled, Flagged, TlTypes
<1>17. (Top = "close" => runq = 0 \/ "finish_shutdown" \in Frames)'
  BY <1>1, <1>2, <1>5, <1>6, <1>7 DEF Sole, Queued, Dropped, Shutting, Brief, Dropping, FromRun,
     SchedEnds, RunFrames, Runnable, Using, OnTop, Seats, One, Known, Settled, Flagged, TlTypes
<1>18. ("pending_closed_end" \in Frames => runq = 0)'
  BY <1>1, <1>2, <1>5, <1>6, <1>7 DEF Sole, Queued, Dropped, Shutting, Brief, Dropping, FromRun,
     SchedEnds, RunFrames, Runnable, Using, OnTop, Seats, One, Known, Settled, Flagged, TlTypes
<1>19. Sole'
  BY <1>1, <1>2, <1>5, <1>6, <1>7, <1>8, <1>9, <1>10, <1>11, <1>12, <1>13, <1>14, <1>15, <1>16,
     <1>17, <1>18 DEF Sole, Queued
<1>20. Dropped'
  BY <1>1, <1>2, <1>5, <1>6, <1>7 DEF Dropped, Sole, Brief, Dropping, FromRun, SchedEnds,
     RunFrames, Runnable, Using, OnTop, Seats, One, Known, Settled, Flagged, TlTypes
<1>21. Awaited'
  BY <1>1, <1>2, <1>5, <1>6, <1>7 DEF Awaited, Queued, Telling, Sole, Dropped, Brief, Dropping,
     FromRun, SchedEnds, RunFrames, Runnable, Using, OnTop, Seats, One, Known, Settled, Flagged,
     TlTypes
<1>22. Shutting'
  BY <1>1, <1>2, <1>5, <1>6, <1>7 DEF Shutting, Dropped, Sole, Brief, Dropping, FromRun,
     SchedEnds, RunFrames, Runnable, Using, OnTop, Seats, One, Known, Settled, Flagged, TlTypes
<1>. QED
  BY <1>5, <1>19, <1>20, <1>21, <1>22 DEF TlSound, Sound

LEMMA Sound_leave ==
  ASSUME TlInv, TlSound, leave PROVE TlSound'
<1>. DEFINE t == Tail(stack)
<1>1. /\ TlTypes /\ Stacked /\ Registered /\ Flagged /\ Finished
      /\ SeatedIn(stack) /\ Sole /\ Dropped /\ Awaited /\ Shutting /\ Sound
  BY DEF TlInv, TlSound, Sound
<1>2. OnTop("leave", t) /\ Top = "leave"
  BY TopSeat DEF TlSound, leave
<1>3. Tail(stack) = t /\ t \in Seq(Names)
  BY <1>2 DEF OnTop
<1>4. CASE shut
  <2>1. stack' = Push("finish_shutdown", t)
    BY <1>4, <1>3 DEF leave, Has, Return, Push
  <2>2. Seats("finish_shutdown", Members(t))
    BY <1>1, <1>2, <1>4 DEF OnTop, Seats, Brief, Dropping, SchedEnds, RunFrames, FromRun, Flagged,
       Registered, Has, Sole, Dropped, Awaited, Shutting, Known, Settled
  <2>3. "finish_shutdown" \in Names
    BY DEF Names, Protecting, Holding, Bare, Neutral, SchedEnds
  <2>4. /\ Lies(Members(t) \cup {"finish_shutdown"},
                Runs(t) + One("finish_shutdown", Runnable),
                Uses(t) + One("finish_shutdown", Using))
        /\ Top' = "finish_shutdown"
    BY <1>2, <2>1, <2>2, <2>3, Lie1 DEF OnTop
  <2>5. /\ SeatedIn(stack')
        /\ Frames' = Members(t) \cup {"finish_shutdown"}
        /\ Runs(stack') = Runs(t) /\ Uses(stack') = Uses(t) /\ Top' = "finish_shutdown"
    BY <1>2, <2>4 DEF Lies, One, Runnable, Using, Known, OnTop
  <2>6. /\ (Has("SCHEDULED")' <=> Has("SCHEDULED")) /\ (Has("RUNNING")' <=> Has("RUNNING"))
        /\ (Has("COMPLETED")' <=> Has("COMPLETED"))
        /\ (Has("FUTURE_DROPPED")' <=> Has("FUTURE_DROPPED"))
        /\ (Has("SCHEDULE_DROPPED")' <=> Has("SCHEDULE_DROPPED"))
        /\ (Has("OUTPUT_PRESENT")' <=> Has("OUTPUT_PRESENT")) /\ (Ended' <=> Ended)
    BY <1>1, <1>4 DEF leave, Has, Ended, header, Dropped
  <2>7. UNCHANGED <<runq, linked, awaiter, exec, closed, shut, chanWake, chanCleanup>>
    BY <1>1, <1>4 DEF leave, header, places, executor, channel, TlTypes
  <2>8. Sole'
    BY <1>1, <1>2, <1>4, <2>5, <2>6, <2>7 DEF Sole, Queued, Dropped, Shutting, Brief, Dropping,
       FromRun, SchedEnds, RunFrames, Runnable, Using, OnTop, Seats, One, Known, Settled, Flagged,
       TlTypes
  <2>9. Dropped'
    BY <1>1, <1>2, <1>4, <2>5, <2>6, <2>7 DEF Dropped, Sole, Brief, Dropping, FromRun, SchedEnds,
       RunFrames, Runnable, Using, OnTop, Seats, One, Known, Settled, Flagged, TlTypes
  <2>10. Awaited'
    BY <1>1, <1>2, <1>4, <2>5, <2>6, <2>7 DEF Awaited, Queued, Telling, Sole, Dropped, Brief,
       Dropping, FromRun, SchedEnds, RunFrames, Runnable, Using, OnTop, Seats, One, Known,
       Settled, Flagged, TlTypes
  <2>11. Shutting'
    BY <1>1, <1>2, <1>4, <2>5, <2>6, <2>7 DEF Shutting, Dropped, Sole, Brief, Dropping, FromRun,
       SchedEnds, RunFrames, Runnable, Using, OnTop, Seats, One, Known, Settled, Flagged, TlTypes
  <2>. QED
    BY <2>5, <2>8, <2>9, <2>10, <2>11 DEF TlSound, Sound
<1>5. CASE ~shut
  <2>1. stack' = t
    BY <1>5, <1>3 DEF leave, Has, Return
  <2>2. /\ SeatedIn(stack') /\ Frames' = Members(t) /\ Top' \in Members(t) \cup {"none"}
        /\ Runs(stack') = Runs(t) /\ Uses(stack') = Uses(t)
    BY <1>2, <2>1, Lie0 DEF OnTop, Lies
  <2>3. /\ (Has("SCHEDULED")' <=> Has("SCHEDULED")) /\ (Has("RUNNING")' <=> Has("RUNNING"))
        /\ (Has("COMPLETED")' <=> Has("COMPLETED"))
        /\ (Has("FUTURE_DROPPED")' <=> Has("FUTURE_DROPPED"))
        /\ (Has("SCHEDULE_DROPPED")' <=> Has("SCHEDULE_DROPPED"))
        /\ (Has("OUTPUT_PRESENT")' <=> Has("OUTPUT_PRESENT")) /\ (Ended' <=> Ended)
    BY <1>1, <1>5 DEF leave, Has, Ended, header, Dropped
  <2>4. /\ UNCHANGED <<runq, linked, awaiter, closed, shut, chanWake, chanCleanup>>
        /\ exec' = "idle"
    BY <1>1, <1>5 DEF leave, header, places, executor, channel, TlTypes
  <2>5. Sole'
    BY <1>1, <1>2, <1>5, <2>2, <2>3, <2>4 DEF Sole, Queued, Dropped, Shutting, Brief, Dropping,
       FromRun, SchedEnds, RunFrames, Runnable, Using, OnTop, Seats, One, Known, Settled, Flagged,
       TlTypes
  <2>6. Dropped'
    BY <1>1, <1>2, <1>5, <2>2, <2>3, <2>4 DEF Dropped, Sole, Brief, Dropping, FromRun, SchedEnds,
       RunFrames, Runnable, Using, OnTop, Seats, One, Known, Settled, Flagged, TlTypes
  <2>7. Awaited'
    BY <1>1, <1>2, <1>5, <2>2, <2>3, <2>4 DEF Awaited, Queued, Telling, Sole, Dropped, Brief,
       Dropping, FromRun, SchedEnds, RunFrames, Runnable, Using, OnTop, Seats, One, Known,
       Settled, Flagged, TlTypes
  <2>8. Shutting'
    BY <1>1, <1>2, <1>5, <2>2, <2>3, <2>4 DEF Shutting, Dropped, Sole, Brief, Dropping, FromRun,
       SchedEnds, RunFrames, Runnable, Using, OnTop, Seats, One, Known, Settled, Flagged, TlTypes
  <2>. QED
    BY <2>2, <2>5, <2>6, <2>7, <2>8 DEF TlSound, Sound
<1>. QED
  BY <1>4, <1>5, <1>1, <1>2 DEF leave

LEMMA Sound_finish_shutdown ==
  ASSUME TlInv, TlSound, finish_shutdown PROVE TlSound'
<1>. DEFINE t == Tail(stack)
<1>1. /\ TlTypes /\ Stacked /\ Registered /\ Flagged /\ Finished
      /\ SeatedIn(stack) /\ Sole /\ Dropped /\ Awaited /\ Shutting /\ Sound
  BY DEF TlInv, TlSound, Sound
<1>2. OnTop("finish_shutdown", t) /\ Top = "finish_shutdown"
  BY TopSeat DEF TlSound, finish_shutdown
<1>3. Tail(stack) = t /\ t \in Seq(Names)
  BY <1>2 DEF OnTop
<1>4. CASE linked /\ UNCHANGED <<runq, exec>> /\ Return(<<"shutdown", "finish_shutdown">>)
  <2>1. stack' = Push("shutdown", Push("finish_shutdown", t))
    BY <1>4, <1>3 DEF finish_shutdown, Has, Return, Push
  <2>2. /\ Seats("finish_shutdown", Members(t))
        /\ Seats("shutdown", Members(t) \cup {"finish_shutdown"})
    BY <1>1, <1>2, <1>4 DEF OnTop, Seats, Brief, Dropping, SchedEnds, RunFrames, FromRun, Flagged,
       Registered, Has, Sole, Dropped, Awaited, Shutting, Known, Settled
  <2>3. "shutdown" \in Names /\ "finish_shutdown" \in Names
    BY DEF Names, Protecting, Holding, Bare, Neutral, SchedEnds
  <2>4. /\ Lies(Members(t) \cup {"shutdown", "finish_shutdown"},
                Runs(t) + One("shutdown", Runnable) + One("finish_shutdown", Runnable),
                Uses(t) + One("shutdown", Using) + One("finish_shutdown", Using))
        /\ Top' = "shutdown"
    BY <1>2, <2>1, <2>2, <2>3, Lie2 DEF OnTop
  <2>5. /\ SeatedIn(stack')
        /\ Frames' = Members(t) \cup {"shutdown", "finish_shutdown"}
        /\ Runs(stack') = Runs(t) /\ Uses(stack') = Uses(t) /\ Top' = "shutdown"
    BY <1>2, <2>4 DEF Lies, One, Runnable, Using, Known, OnTop
  <2>6. /\ (Has("SCHEDULED")' <=> Has("SCHEDULED")) /\ (Has("RUNNING")' <=> Has("RUNNING"))
        /\ (Has("COMPLETED")' <=> Has("COMPLETED"))
        /\ (Has("FUTURE_DROPPED")' <=> Has("FUTURE_DROPPED"))
        /\ (Has("SCHEDULE_DROPPED")' <=> Has("SCHEDULE_DROPPED"))
        /\ (Has("OUTPUT_PRESENT")' <=> Has("OUTPUT_PRESENT")) /\ (Ended' <=> Ended)
    BY <1>1, <1>4 DEF finish_shutdown, Has, Ended, header, Dropped
  <2>7. UNCHANGED <<runq, linked, awaiter, exec, closed, shut, chanWake, chanCleanup>>
    BY <1>1, <1>4 DEF finish_shutdown, header, places, executor, channel, TlTypes
  <2>8. Sole'
    BY <1>1, <1>2, <1>4, <2>5, <2>6, <2>7 DEF Sole, Queued, Dropped, Shutting, Brief, Dropping,
       FromRun, SchedEnds, RunFrames, Runnable, Using, OnTop, Seats, One, Known, Settled, Flagged,
       TlTypes
  <2>9. Dropped'
    BY <1>1, <1>2, <1>4, <2>5, <2>6, <2>7 DEF Dropped, Sole, Brief, Dropping, FromRun, SchedEnds,
       RunFrames, Runnable, Using, OnTop, Seats, One, Known, Settled, Flagged, TlTypes
  <2>10. Awaited'
    BY <1>1, <1>2, <1>4, <2>5, <2>6, <2>7 DEF Awaited, Queued, Telling, Sole, Dropped, Brief,
       Dropping, FromRun, SchedEnds, RunFrames, Runnable, Using, OnTop, Seats, One, Known,
       Settled, Flagged, TlTypes
  <2>11. Shutting'
    BY <1>1, <1>2, <1>4, <2>5, <2>6, <2>7 DEF Shutting, Dropped, Sole, Brief, Dropping, FromRun,
       SchedEnds, RunFrames, Runnable, Using, OnTop, Seats, One, Known, Settled, Flagged, TlTypes
  <2>. QED
    BY <2>5, <2>8, <2>9, <2>10, <2>11 DEF TlSound, Sound
<1>5. CASE /\ ~linked /\ runq > 0 /\ runq' = runq - 1 /\ exec' = exec
           /\ Return(DropTask \o <<"finish_shutdown">>)
  <2>1. stack' = Push("close", Push("finish", Push("release", Push("finish_shutdown", t))))
    BY <1>5, <1>3 DEF finish_shutdown, Has, Return, Push, DropTask
  <2>2. /\ Seats("finish_shutdown", Members(t))
        /\ Seats("release", Members(t) \cup {"finish_shutdown"})
        /\ Seats("finish", Members(t) \cup {"release", "finish_shutdown"})
        /\ Seats("close", Members(t) \cup {"finish", "release", "finish_shutdown"})
    BY <1>1, <1>2, <1>5 DEF OnTop, Seats, Brief, Dropping, SchedEnds, RunFrames, FromRun, Flagged,
       Registered, Has, Sole, Dropped, Awaited, Shutting, Known, Settled
  <2>3. "close" \in Names /\ "finish" \in Names /\ "release" \in Names /\ "finish_shutdown" \in Names
    BY DEF Names, Protecting, Holding, Bare, Neutral, SchedEnds
  <2>4. /\ Lies(Members(t) \cup {"close", "finish", "release", "finish_shutdown"},
                Runs(t) + One("close", Runnable) + One("finish", Runnable)
                    + One("release", Runnable) + One("finish_shutdown", Runnable),
                Uses(t) + One("close", Using) + One("finish", Using) + One("release", Using)
                    + One("finish_shutdown", Using))
        /\ Top' = "close"
    BY <1>2, <2>1, <2>2, <2>3, Lie4 DEF OnTop
  <2>5. /\ SeatedIn(stack')
        /\ Frames' = Members(t) \cup {"close", "finish", "release", "finish_shutdown"}
        /\ Runs(stack') = Runs(t) /\ Uses(stack') = Uses(t) /\ Top' = "close"
    BY <1>2, <2>4 DEF Lies, One, Runnable, Using, Known, OnTop
  <2>6. /\ (Has("SCHEDULED")' <=> Has("SCHEDULED")) /\ (Has("RUNNING")' <=> Has("RUNNING"))
        /\ (Has("COMPLETED")' <=> Has("COMPLETED"))
        /\ (Has("FUTURE_DROPPED")' <=> Has("FUTURE_DROPPED"))
        /\ (Has("SCHEDULE_DROPPED")' <=> Has("SCHEDULE_DROPPED"))
        /\ (Has("OUTPUT_PRESENT")' <=> Has("OUTPUT_PRESENT")) /\ (Ended' <=> Ended)
    BY <1>1, <1>5 DEF finish_shutdown, Has, Ended, header, Dropped
  <2>7. /\ UNCHANGED <<linked, awaiter, exec, closed, shut, chanWake, chanCleanup>>
        /\ runq' = runq - 1
    BY <1>1, <1>5 DEF finish_shutdown, header, places, executor, channel, TlTypes
  <2>8. (runq + Runs(stack) <= 1)'
    BY <1>1, <1>2, <1>5, <2>5, <2>6, <2>7 DEF Sole, Queued, Dropped, Shutting, Brief, Dropping,
       FromRun, SchedEnds, RunFrames, Runnable, Using, OnTop, Seats, One, Known, Settled, Flagged,
       TlTypes
  <2>9. (runq + Runs(stack) = 1 =>
           Has("SCHEDULED") \/ Has("RUNNING") \/ Ended \/ Top \in {"end_run", "close"})'
    BY <1>1, <1>2, <1>5, <2>5, <2>6, <2>7 DEF Sole, Queued, Dropped, Shutting, Brief, Dropping,
       FromRun, SchedEnds, RunFrames, Runnable, Using, OnTop, Seats, One, Known, Settled, Flagged,
       TlTypes
  <2>10. (Top = "schedule" => runq + Runs(stack) = 0 /\ Has("SCHEDULED"))'
    BY <1>1, <1>2, <1>5, <2>5, <2>6, <2>7 DEF Sole, Queued, Dropped, Shutting, Brief, Dropping,
       FromRun, SchedEnds, RunFrames, Runnable, Using, OnTop, Seats, One, Known, Settled, Flagged,
       TlTypes
  <2>11. (Top \in {"schedule", "schedule_owned"} \/ "push" \in Frames => ~Has("RUNNING"))'
    BY <1>1, <1>2, <1>5, <2>5, <2>6, <2>7 DEF Sole, Queued, Dropped, Shutting, Brief, Dropping,
       FromRun, SchedEnds, RunFrames, Runnable, Using, OnTop, Seats, One, Known, Settled, Flagged,
       TlTypes
  <2>12. (Top \in {"schedule", "schedule_owned"} => ~Has("SCHEDULE_DROPPED"))'
    BY <1>1, <1>2, <1>5, <2>5, <2>6, <2>7 DEF Sole, Queued, Dropped, Shutting, Brief, Dropping,
       FromRun, SchedEnds, RunFrames, Runnable, Using, OnTop, Seats, One, Known, Settled, Flagged,
       TlTypes
  <2>13. ("end_run" \in Frames => Top \in {"end_run", "close"} \/ "completed" \in Frames \/ Ended)'
    BY <1>1, <1>2, <1>5, <2>5, <2>6, <2>7 DEF Sole, Queued, Dropped, Shutting, Brief, Dropping,
       FromRun, SchedEnds, RunFrames, Runnable, Using, OnTop, Seats, One, Known, Settled, Flagged,
       TlTypes
  <2>14. ("end_run" \in Frames /\ Has("SCHEDULED") =>
            "completed" \in Frames \/ "pending_closed_end" \in Frames)'
    BY <1>1, <1>2, <1>5, <2>5, <2>6, <2>7 DEF Sole, Queued, Dropped, Shutting, Brief, Dropping,
       FromRun, SchedEnds, RunFrames, Runnable, Using, OnTop, Seats, One, Known, Settled, Flagged,
       TlTypes
  <2>15. (Has("SCHEDULED") => \/ runq + Runs(stack) = 1 \/ Top = "schedule"
                              \/ "pending_closed_end" \in Frames
                              \/ (Top = "close" /\ ~Has("RUNNING")))'
    BY <1>1, <1>2, <1>5, <2>5, <2>6, <2>7 DEF Sole, Queued, Dropped, Shutting, Brief, Dropping,
       FromRun, SchedEnds, RunFrames, Runnable, Using, OnTop, Seats, One, Known, Settled, Flagged,
       TlTypes
  <2>16. (Queued => Has("SCHEDULED") \/ "finish_shutdown" \in Frames)'
    BY <1>1, <1>2, <1>5, <2>5, <2>6, <2>7 DEF Sole, Queued, Dropped, Shutting, Brief, Dropping,
       FromRun, SchedEnds, RunFrames, Runnable, Using, OnTop, Seats, One, Known, Settled, Flagged,
       TlTypes
  <2>17. (Top = "close" => runq = 0 \/ "finish_shutdown" \in Frames)'
    BY <1>1, <1>2, <1>5, <2>5, <2>6, <2>7 DEF Sole, Queued, Dropped, Shutting, Brief, Dropping,
       FromRun, SchedEnds, RunFrames, Runnable, Using, OnTop, Seats, One, Known, Settled, Flagged,
       TlTypes
  <2>18. ("pending_closed_end" \in Frames => runq = 0)'
    BY <1>1, <1>2, <1>5, <2>5, <2>6, <2>7 DEF Sole, Queued, Dropped, Shutting, Brief, Dropping,
       FromRun, SchedEnds, RunFrames, Runnable, Using, OnTop, Seats, One, Known, Settled, Flagged,
       TlTypes
  <2>19. Sole'
    BY <1>1, <1>2, <1>5, <2>5, <2>6, <2>7, <2>8, <2>9, <2>10, <2>11, <2>12, <2>13, <2>14, <2>15,
       <2>16, <2>17, <2>18 DEF Sole, Queued
  <2>20. Dropped'
    BY <1>1, <1>2, <1>5, <2>5, <2>6, <2>7 DEF Dropped, Sole, Brief, Dropping, FromRun, SchedEnds,
       RunFrames, Runnable, Using, OnTop, Seats, One, Known, Settled, Flagged, TlTypes
  <2>21. Awaited'
    BY <1>1, <1>2, <1>5, <2>5, <2>6, <2>7 DEF Awaited, Queued, Telling, Sole, Dropped, Brief,
       Dropping, FromRun, SchedEnds, RunFrames, Runnable, Using, OnTop, Seats, One, Known,
       Settled, Flagged, TlTypes
  <2>22. ("close_foreign_wakes" \in Frames \/ "request_shutdown" \in Frames => closed)'
    BY <1>1, <1>2, <1>5, <2>5, <2>6, <2>7 DEF Shutting, Dropped, Sole, Brief, Dropping, FromRun,
       SchedEnds, RunFrames, Runnable, Using, OnTop, Seats, One, Known, Settled, Flagged, TlTypes
  <2>23. (closed => "close_foreign_wakes" \in Frames \/ (chanWake = 0 /\ chanCleanup = 0))'
    BY <1>1, <1>2, <1>5, <2>5, <2>6, <2>7 DEF Shutting, Dropped, Sole, Brief, Dropping, FromRun,
       SchedEnds, RunFrames, Runnable, Using, OnTop, Seats, One, Known, Settled, Flagged, TlTypes
  <2>24. (shut => closed /\ "close_foreign_wakes" \notin Frames)'
    BY <1>1, <1>2, <1>5, <2>5, <2>6, <2>7 DEF Shutting, Dropped, Sole, Brief, Dropping, FromRun,
       SchedEnds, RunFrames, Runnable, Using, OnTop, Seats, One, Known, Settled, Flagged, TlTypes
  <2>25. (exec = "gone" \/ "finish_shutdown" \in Frames => shut)'
    BY <1>1, <1>2, <1>5, <2>5, <2>6, <2>7 DEF Shutting, Dropped, Sole, Brief, Dropping, FromRun,
       SchedEnds, RunFrames, Runnable, Using, OnTop, Seats, One, Known, Settled, Flagged, TlTypes
  <2>26. (exec = "gone" => runq = 0 /\ ~linked /\ "push" \notin Frames)'
    BY <1>1, <1>2, <1>5, <2>5, <2>6, <2>7 DEF Shutting, Dropped, Sole, Brief, Dropping, FromRun,
       SchedEnds, RunFrames, Runnable, Using, OnTop, Seats, One, Known, Settled, Flagged, TlTypes
  <2>27. ("leave" \in Frames \/ "finish_shutdown" \in Frames => Frames \cap FromRun = {})'
    BY <1>1, <1>2, <1>5, <2>5, <2>6, <2>7 DEF Shutting, Dropped, Sole, Brief, Dropping, FromRun,
       SchedEnds, RunFrames, Runnable, Using, OnTop, Seats, One, Known, Settled, Flagged, TlTypes
  <2>28. ("finish_shutdown" \in Frames => "in_place_end" \notin Frames)'
    BY <1>1, <1>2, <1>5, <2>5, <2>6, <2>7 DEF Shutting, Dropped, Sole, Brief, Dropping, FromRun,
       SchedEnds, RunFrames, Runnable, Using, OnTop, Seats, One, Known, Settled, Flagged, TlTypes
  <2>29. (~linked => Has("FUTURE_DROPPED") \/ Has("RUNNING") \/ Top = "close")'
    BY <1>1, <1>2, <1>5, <2>5, <2>6, <2>7 DEF Shutting, Dropped, Sole, Brief, Dropping, FromRun,
       SchedEnds, RunFrames, Runnable, Using, OnTop, Seats, One, Known, Settled, Flagged, TlTypes
  <2>30. (~linked /\ ~Has("SCHEDULE_DROPPED") /\ Frames \cap SchedEnds = {} =>
            "finish" \in Frames /\ ("finish_shutdown" \in Frames \/ (Top = "finish" /\ ~Has("RUNNING"))))'
    BY <1>1, <1>2, <1>5, <2>5, <2>6, <2>7 DEF Shutting, Dropped, Sole, Brief, Dropping, FromRun,
       SchedEnds, RunFrames, Runnable, Using, OnTop, Seats, One, Known, Settled, Flagged, TlTypes
  <2>31. Shutting'
    BY <1>1, <1>2, <1>5, <2>5, <2>6, <2>7, <2>22, <2>23, <2>24, <2>25, <2>26, <2>27, <2>28, <2>29,
       <2>30 DEF Shutting
  <2>. QED
    BY <2>5, <2>19, <2>20, <2>21, <2>31 DEF TlSound, Sound
<1>6. CASE ~linked /\ runq = 0 /\ exec' = "gone" /\ runq' = runq /\ Return(<<>>)
  <2>1. stack' = t
    BY <1>6, <1>3 DEF finish_shutdown, Has, Return
  <2>2. /\ SeatedIn(stack') /\ Frames' = Members(t) /\ Top' \in Members(t) \cup {"none"}
        /\ Runs(stack') = Runs(t) /\ Uses(stack') = Uses(t)
    BY <1>2, <2>1, Lie0 DEF OnTop, Lies
  <2>3. /\ (Has("SCHEDULED")' <=> Has("SCHEDULED")) /\ (Has("RUNNING")' <=> Has("RUNNING"))
        /\ (Has("COMPLETED")' <=> Has("COMPLETED"))
        /\ (Has("FUTURE_DROPPED")' <=> Has("FUTURE_DROPPED"))
        /\ (Has("SCHEDULE_DROPPED")' <=> Has("SCHEDULE_DROPPED"))
        /\ (Has("OUTPUT_PRESENT")' <=> Has("OUTPUT_PRESENT")) /\ (Ended' <=> Ended)
    BY <1>1, <1>6 DEF finish_shutdown, Has, Ended, header, Dropped
  <2>4. /\ UNCHANGED <<runq, linked, awaiter, closed, shut, chanWake, chanCleanup>>
        /\ exec' = "gone"
    BY <1>1, <1>6 DEF finish_shutdown, header, places, executor, channel, TlTypes
  <2>5. (runq + Runs(stack) <= 1)'
    BY <1>1, <1>2, <1>6, <2>2, <2>3, <2>4 DEF Sole, Queued, Dropped, Shutting, Brief, Dropping,
       FromRun, SchedEnds, RunFrames, Runnable, Using, OnTop, Seats, One, Known, Settled, Flagged,
       TlTypes
  <2>6. (runq + Runs(stack) = 1 =>
           Has("SCHEDULED") \/ Has("RUNNING") \/ Ended \/ Top \in {"end_run", "close"})'
    BY <1>1, <1>2, <1>6, <2>2, <2>3, <2>4 DEF Sole, Queued, Dropped, Shutting, Brief, Dropping,
       FromRun, SchedEnds, RunFrames, Runnable, Using, OnTop, Seats, One, Known, Settled, Flagged,
       TlTypes
  <2>7. (Top = "schedule" => runq + Runs(stack) = 0 /\ Has("SCHEDULED"))'
    BY <1>1, <1>2, <1>6, <2>2, <2>3, <2>4 DEF Sole, Queued, Dropped, Shutting, Brief, Dropping,
       FromRun, SchedEnds, RunFrames, Runnable, Using, OnTop, Seats, One, Known, Settled, Flagged,
       TlTypes
  <2>8. (Top \in {"schedule", "schedule_owned"} \/ "push" \in Frames => ~Has("RUNNING"))'
    BY <1>1, <1>2, <1>6, <2>2, <2>3, <2>4 DEF Sole, Queued, Dropped, Shutting, Brief, Dropping,
       FromRun, SchedEnds, RunFrames, Runnable, Using, OnTop, Seats, One, Known, Settled, Flagged,
       TlTypes
  <2>9. (Top \in {"schedule", "schedule_owned"} => ~Has("SCHEDULE_DROPPED"))'
    BY <1>1, <1>2, <1>6, <2>2, <2>3, <2>4 DEF Sole, Queued, Dropped, Shutting, Brief, Dropping,
       FromRun, SchedEnds, RunFrames, Runnable, Using, OnTop, Seats, One, Known, Settled, Flagged,
       TlTypes
  <2>10. ("end_run" \in Frames => Top \in {"end_run", "close"} \/ "completed" \in Frames \/ Ended)'
    BY <1>1, <1>2, <1>6, <2>2, <2>3, <2>4 DEF Sole, Queued, Dropped, Shutting, Brief, Dropping,
       FromRun, SchedEnds, RunFrames, Runnable, Using, OnTop, Seats, One, Known, Settled, Flagged,
       TlTypes
  <2>11. ("end_run" \in Frames /\ Has("SCHEDULED") =>
            "completed" \in Frames \/ "pending_closed_end" \in Frames)'
    BY <1>1, <1>2, <1>6, <2>2, <2>3, <2>4 DEF Sole, Queued, Dropped, Shutting, Brief, Dropping,
       FromRun, SchedEnds, RunFrames, Runnable, Using, OnTop, Seats, One, Known, Settled, Flagged,
       TlTypes
  <2>12. (Has("SCHEDULED") => \/ runq + Runs(stack) = 1 \/ Top = "schedule"
                              \/ "pending_closed_end" \in Frames
                              \/ (Top = "close" /\ ~Has("RUNNING")))'
    BY <1>1, <1>2, <1>6, <2>2, <2>3, <2>4 DEF Sole, Queued, Dropped, Shutting, Brief, Dropping,
       FromRun, SchedEnds, RunFrames, Runnable, Using, OnTop, Seats, One, Known, Settled, Flagged,
       TlTypes
  <2>13. (Queued => Has("SCHEDULED") \/ "finish_shutdown" \in Frames)'
    BY <1>1, <1>2, <1>6, <2>2, <2>3, <2>4 DEF Sole, Queued, Dropped, Shutting, Brief, Dropping,
       FromRun, SchedEnds, RunFrames, Runnable, Using, OnTop, Seats, One, Known, Settled, Flagged,
       TlTypes
  <2>14. (Top = "close" => runq = 0 \/ "finish_shutdown" \in Frames)'
    BY <1>1, <1>2, <1>6, <2>2, <2>3, <2>4 DEF Sole, Queued, Dropped, Shutting, Brief, Dropping,
       FromRun, SchedEnds, RunFrames, Runnable, Using, OnTop, Seats, One, Known, Settled, Flagged,
       TlTypes
  <2>15. ("pending_closed_end" \in Frames => runq = 0)'
    BY <1>1, <1>2, <1>6, <2>2, <2>3, <2>4 DEF Sole, Queued, Dropped, Shutting, Brief, Dropping,
       FromRun, SchedEnds, RunFrames, Runnable, Using, OnTop, Seats, One, Known, Settled, Flagged,
       TlTypes
  <2>16. Sole'
    BY <1>1, <1>2, <1>6, <2>2, <2>3, <2>4, <2>5, <2>6, <2>7, <2>8, <2>9, <2>10, <2>11, <2>12,
       <2>13, <2>14, <2>15 DEF Sole, Queued
  <2>17. Dropped'
    BY <1>1, <1>2, <1>6, <2>2, <2>3, <2>4 DEF Dropped, Sole, Brief, Dropping, FromRun, SchedEnds,
       RunFrames, Runnable, Using, OnTop, Seats, One, Known, Settled, Flagged, TlTypes
  <2>18. Awaited'
    BY <1>1, <1>2, <1>6, <2>2, <2>3, <2>4 DEF Awaited, Queued, Telling, Sole, Dropped, Brief,
       Dropping, FromRun, SchedEnds, RunFrames, Runnable, Using, OnTop, Seats, One, Known,
       Settled, Flagged, TlTypes
  <2>19. Shutting'
    BY <1>1, <1>2, <1>6, <2>2, <2>3, <2>4 DEF Shutting, Dropped, Sole, Brief, Dropping, FromRun,
       SchedEnds, RunFrames, Runnable, Using, OnTop, Seats, One, Known, Settled, Flagged, TlTypes
  <2>. QED
    BY <2>2, <2>16, <2>17, <2>18, <2>19 DEF TlSound, Sound
<1>. QED
  BY <1>4, <1>5, <1>6, <1>1, <1>2 DEF finish_shutdown

(* Steps that leave the stack alone.                                            *)
LEMMA Sound_same ==
  ASSUME TlSound, SameFlags, SameRest, stack' = stack PROVE TlSound'
<1>1. SameFrames
  <2>1. Frames' = Frames /\ Top' = Top
    BY DEF Frames, Top
  <2>. QED
    BY <2>1 DEF SameFrames, Runs, Uses, Places
<1>2. Sound'
  BY <1>1, Alike DEF TlSound
<1>3. SeatedIn(stack')
  BY DEF TlSound
<1>. QED
  BY <1>2, <1>3 DEF TlSound

LEMMA Sound_handle_poll ==
  ASSUME TlInv, TlSound, handle_poll PROVE TlSound'
<1>1. Registered /\ Flagged /\ Finished /\ Sole /\ Dropped /\ Awaited
  BY DEF TlInv, TlSound, Sound
<1>2. UserSeats
  BY UserSeated DEF handle_poll
<1>. DEFINE waiting == IF Has("CLOSED") THEN ~Has("FUTURE_DROPPED") \/ Has("RUNNING")
                                        ELSE ~Has("COMPLETED")
<1>3. /\ awaiter' = waiting
      /\ st' = IF ~waiting /\ ~Has("CLOSED") THEN (st \cup {"CLOSED"}) \ {"OUTPUT_PRESENT"} ELSE st
      /\ UNCHANGED <<runq, linked, exec, closed, shut, chanWake, chanCleanup>> /\ stack' = stack
  BY DEF handle_poll, places, executor, channel
<1>4. SameFlags
  <2>1. ~waiting /\ ~Has("CLOSED") => Has("COMPLETED")
    OBVIOUS
  <2>. QED
    BY <1>3, <2>1 DEF SameFlags, Has, Ended
<1>5. waiting => ~Has("FUTURE_DROPPED") \/ runq = 1 \/ Frames \cap Telling # {}
  <2>1. CASE Has("CLOSED") /\ Has("FUTURE_DROPPED") /\ Has("RUNNING")
    <3>1. Frames \cap RunFrames # {} /\ "poll" \notin Frames
      BY <1>1, <2>1 DEF Flagged, Dropped
    <3>2. "in_place_end" \in Frames => runq = 1
      BY <1>1, <1>2 DEF UserSeats, Awaited
    <3>. QED
      BY <3>1, <3>2 DEF RunFrames, Telling
  <2>2. CASE ~Has("CLOSED") /\ ~Has("COMPLETED") /\ Has("FUTURE_DROPPED")
    <3>1. "completed" \in Frames
      BY <1>1, <2>2 DEF Finished, Ended
    <3>. QED
      BY <3>1 DEF Telling
  <2>. QED
    BY <2>1, <2>2
<1>6. SameRest
  <2>. HIDE DEF waiting
  <2>. QED
    BY <1>3, <1>5 DEF SameRest
<1>. QED
  BY <1>3, <1>4, <1>6, Sound_same

(* The other threads, and the steps of the executor between two frames.         *)
LEMMA Sound_apart ==
  ASSUME TlSound,
         UNCHANGED header, stack' = stack, UNCHANGED <<runq, closed, shut>>,
         exec' = "gone" => exec = "gone",
         closed => UNCHANGED <<chanWake, chanCleanup>>
  PROVE  TlSound'
<1>1. SameFlags
  BY DEF SameFlags, header, Has, Ended
<1>2. SameRest
  BY DEF SameRest, header
<1>. QED
  BY <1>1, <1>2, Sound_same

LEMMA SoundForeign ==
  ASSUME TlSound, NEW f \in Foreign, ForeignStep(f) \/ ForeignCall(f) PROVE TlSound'
<1>1. UNCHANGED ownerSide /\ (closed => UNCHANGED <<chanWake, chanCleanup>>) /\ closed' = closed
  <2>1. CASE ForeignStep(f)
    BY <2>1 DEF ForeignStep, foreign_wake_find, foreign_wake_queue, foreign_drop_load,
       foreign_drop_active, foreign_drop_find, foreign_drop_queue, foreign_drop_cas, channel
  <2>2. CASE ForeignCall(f)
    BY <2>2 DEF ForeignCall, foreign_clone, foreign_wake, foreign_drop, channel
  <2>. QED
    BY <2>1, <2>2
<1>. QED
  BY <1>1, Sound_apart DEF ownerSide, places, executor

----------------------------------------------------------------------------------
(* The invariant holds initially and every step keeps it.                       *)

LEMMA SoundInit == Init => TlSound
<1>. SUFFICES ASSUME Init PROVE TlSound
  OBVIOUS
<1>1. PICK x \in {"run", "schedule_owned"} : stack = <<x>>
  BY DEF Init
<1>. DEFINE w == <<>>
<1>2. Known(w, Members(w)) /\ Members(w) = {} /\ x \in Names
  <2>1. w \in Seq(Names) /\ SeatedIn(w)
    BY DEF SeatedIn
  <2>2. Known(w, Members(w))
    BY <2>1, KnownStack
  <2>3. Members(w) = {}
    BY DEF Members
  <2>4. x \in Names
    BY DEF Names, Protecting, Holding
  <2>. QED
    BY <2>2, <2>3, <2>4
<1>3. Seats(x, {})
  BY <1>1 DEF Seats, SchedEnds
<1>4. stack = Push(x, w)
  BY <1>1 DEF Push
<1>. HIDE DEF w
<1>5. /\ SeatedIn(Push(x, w)) /\ Members(Push(x, w)) = {x}
      /\ Runs(Push(x, w)) = 1 /\ Uses(Push(x, w)) = 0
  <2>1. /\ SeatedIn(Push(x, w)) /\ Members(Push(x, w)) = Members(w) \cup {x}
        /\ Runs(Push(x, w)) = Runs(w) + One(x, Runnable) /\ Uses(Push(x, w)) = Uses(w) + One(x, Using)
    BY <1>2, <1>3, SeatOne DEF Known
  <2>2. Runs(w) = 0 /\ Uses(w) = 0
    BY <1>2 DEF Known
  <2>3. One(x, Runnable) = 1 /\ One(x, Using) = 0
    BY DEF One, Runnable, Using
  <2>. QED
    BY <1>2, <2>1, <2>2, <2>3
<1>6. Top = x /\ Frames = {x}
  <2>1. Top = x
    BY <1>1 DEF Top
  <2>. QED
    BY <1>4, <1>5, <2>1, FramesAreMembers
<1>7. /\ Has("SCHEDULED") /\ ~Has("RUNNING") /\ ~Has("COMPLETED") /\ ~Has("FUTURE_DROPPED")
      /\ ~Has("SCHEDULE_DROPPED") /\ ~Has("OUTPUT_PRESENT") /\ ~Ended
  BY DEF Init, Has, Ended
<1>8. Sole
  BY <1>4, <1>5, <1>6, <1>7 DEF Sole, Queued, Init
<1>9. Dropped
  BY <1>4, <1>5, <1>6, <1>7 DEF Dropped, Dropping, Init
<1>10. Awaited
  BY <1>4, <1>5, <1>6, <1>7 DEF Awaited, Queued, Telling, Init
<1>11. Shutting
  BY <1>4, <1>5, <1>6, <1>7 DEF Shutting, FromRun, SchedEnds, Init
<1>. QED
  BY <1>4, <1>5, <1>8, <1>9, <1>10, <1>11 DEF TlSound, Sound

LEMMA SoundNext ==
  ASSUME TlInv, TlSound, [Next]_vars PROVE TlSound'
<1>1. CASE Frame
  BY <1>1, Sound_release, Sound_release2, Sound_drop_waker, Sound_finish, Sound_drop_future,
     Sound_close,
     Sound_close_end, Sound_pending_closed_end, Sound_ready_end, Sound_shutdown, Sound_do_wake,
     Sound_do_cleanup, Sound_cancel, Sound_notify, Sound_cancel_in_place, Sound_in_place_end,
     Sound_schedule, Sound_schedule_owned, Sound_push, Sound_schedule_end_T, Sound_schedule_end_F,
     Sound_run, Sound_completed, Sound_end_run, Sound_drop_handle, Sound_abandon, Sound_unborrow,
     Sound_close_foreign_wakes, Sound_request_shutdown, Sound_leave, Sound_finish_shutdown
     DEF Frame, schedule_end
<1>2. CASE PollReturns
  BY <1>2, Sound_poll_ready, Sound_poll_pending, Sound_poll_panic DEF PollReturns
<1>3. CASE user_return
  BY <1>3, Sound_user_return, Sound_dtor DEF user_return
<1>4. CASE User
  <2>1. CASE spawned \/ waker_clone \/ \E f \in Foreign : waker_send(f)
    <3>1. UNCHANGED header /\ stack' = stack /\ UNCHANGED <<runq, executor, channel>>
      BY <2>1 DEF spawned, waker_clone, waker_send
    <3>. QED
      BY <3>1, Sound_apart DEF executor, channel
  <2>. QED
    BY <1>4, <2>1, Sound_handle_cancel, Sound_handle_cancel_in_place, Sound_handle_drop,
       Sound_handle_poll, Sound_waker_wake_by_ref, Sound_waker_wake, Sound_waker_drop DEF User
<1>5. CASE Executor
  <2>1. CASE enter_run \/ leave_run \/ remove_task_queue
    <3>1. UNCHANGED header /\ stack' = stack /\ UNCHANGED <<runq, shut, channel>>
      BY <2>1 DEF enter_run, leave_run, remove_task_queue, places
    <3>2. exec' = "gone" => exec = "gone"
      BY <2>1 DEF enter_run, leave_run, remove_task_queue
    <3>. QED
      BY <3>1, <3>2, Sound_apart DEF channel
  <2>. QED
    BY <1>5, <2>1, Sound_run_one, Sound_process_foreign_wakes, Sound_drop_executor DEF Executor
<1>6. CASE \E f \in Foreign : ForeignStep(f) \/ ForeignCall(f)
  BY <1>6, SoundForeign
<1>7. CASE UNCHANGED vars
  <2>1. UNCHANGED header /\ stack' = stack /\ UNCHANGED <<places, executor, channel>>
    BY <1>7 DEF vars
  <2>. QED
    BY <2>1, Sound_apart DEF places, executor, channel
<1>. QED
  BY <1>1, <1>2, <1>3, <1>4, <1>5, <1>6, <1>7 DEF Next

(* Seats, runnable, future, awaiter and shutdown: the second invariant holds    *)
(* in every state.                                                              *)
THEOREM SoundInvariance == Spec => [](TlInv /\ TlSound)
<1>1. Init => TlSound
  BY SoundInit
<1>2. TlInv /\ TlSound /\ [Next]_vars => TlSound'
  BY SoundNext
<1>3. Spec => []TlInv
  BY Invariance
<1>. QED
  BY <1>1, <1>2, <1>3, PTL DEF Spec

(* The future is polled or dropped by one frame at a time, never after it was   *)
(* dropped; the schedule closure outlives its call; there is one runnable, and  *)
(* between two steps of the executor SCHEDULED says whether it exists           *)
(* (raw.rs, run, close, cancel_in_place, do_wake).                              *)
THEOREM FutureIsExclusive == Spec => []FutureExclusive
<1>1. ASSUME TlInv, TlSound PROVE FutureExclusive
  <2>1. /\ TlTypes /\ Registered /\ Flagged /\ Finished /\ SeatedIn(stack)
        /\ Sole /\ Dropped /\ Known(stack, Members(stack)) /\ Frames = Members(stack)
    BY <1>1, KnownStack, FramesAreMembers DEF TlInv, TlTypes, TlSound, Sound
  <2>2. "poll" \in Frames => ~Has("FUTURE_DROPPED") /\ Has("RUNNING")
    BY <2>1 DEF Dropped, Flagged, RunFrames
  <2>3. "dtor" \in Frames => Has("RUNNING")
    BY <2>1 DEF Known, Settled, Dropping, Flagged, RunFrames
  <2>4. Cardinality({i \in 1 .. Len(stack) : stack[i] \in {"poll", "dtor"}}) <= 1
    BY <2>1 DEF Dropped, Uses, Places, Using
  <2>5. Frames \cap {"push", "schedule_end_T", "schedule_end_F"} # {} => ~Has("SCHEDULE_DROPPED")
    BY <2>1 DEF Known, Settled, Registered, SchedEnds
  <2>6. runq + Cardinality({i \in 1 .. Len(stack) :
            stack[i] \in {"run", "poll", "end_run", "schedule_owned", "push"}}) <= 1
    BY <2>1 DEF Sole, Runs, Places, Runnable
  <2>7. ASSUME stack = <<>> PROVE Has("SCHEDULED") <=> runq = 1
    <3>1. Frames = {} /\ Top = "none"
      BY <2>7 DEF Frames, Top
    <3>2. Runs(stack) = 0
      BY <2>1, <3>1 DEF Known
    <3>. QED
      BY <2>1, <3>1, <3>2 DEF Sole, Queued, TlTypes
  <2>. QED
    BY <2>2, <2>3, <2>4, <2>5, <2>6, <2>7 DEF FutureExclusive
<1>. QED
  BY <1>1, SoundInvariance, PTL

(* A registered awaiter is told when the future goes, or a runnable is queued   *)
(* that will tell it (Header::notify and its callers in raw.rs).                *)
THEOREM AwaitersAreTold == Spec => []AwaiterNotStranded
<1>1. ASSUME TlSound PROVE AwaiterNotStranded
  <2>. SUFFICES ASSUME stack = <<>>, awaiter, Has("FUTURE_DROPPED") PROVE runq = 1
    BY DEF AwaiterNotStranded
  <2>1. Frames = {} /\ Top = "none"
    BY DEF Frames, Top
  <2>. QED
    BY <1>1, <2>1 DEF TlSound, Sound, Awaited, Queued
<1>. QED
  BY <1>1, SoundInvariance, PTL

(* A dropped executor leaves no future, schedule closure, runnable or queued    *)
(* waker behind (LocalExecutor::drop, TaskRegistry::shutdown_next).             *)
THEOREM ShutdownIsComplete == Spec => []ShutdownComplete
<1>1. ASSUME TlInv, TlSound PROVE ShutdownComplete
  <2>. SUFFICES ASSUME exec = "gone"
                PROVE  /\ {"FUTURE_DROPPED", "SCHEDULE_DROPPED"} \subseteq st \/ stack # <<>>
                       /\ chanWake = 0 /\ chanCleanup = 0 /\ runq = 0 /\ ~linked
    BY DEF ShutdownComplete
  <2>1. Shutting /\ Flagged
    BY <1>1 DEF TlInv, TlSound, Sound
  <2>2. chanWake = 0 /\ chanCleanup = 0 /\ runq = 0 /\ ~linked
    BY <2>1 DEF Shutting
  <2>3. ASSUME stack = <<>> PROVE Has("FUTURE_DROPPED") /\ Has("SCHEDULE_DROPPED")
    <3>1. Frames = {} /\ Top = "none"
      BY <2>3 DEF Frames, Top
    <3>. QED
      BY <2>1, <2>2, <3>1 DEF Shutting, Flagged
  <2>. QED
    BY <2>2, <2>3 DEF Has
<1>. QED
  BY <1>1, SoundInvariance, PTL

==================================================================================
