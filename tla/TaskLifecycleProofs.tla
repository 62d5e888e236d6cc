--------------------------- MODULE TaskLifecycleProofs ---------------------------
(* The reference count of a task is exact and nothing touches a freed task, for *)
(* any number of foreign threads, wakers and reentrant calls.                   *)
EXTENDS TaskLifecycle, WaitListProofs

----------------------------------------------------------------------------------
(* The owner's stack.  A frame that touches the task without a reference of its *)
(* own (Bare) needs one further down: of a frame that holds one, of the         *)
(* borrowed handle, or of the registry, which keeps its own while the schedule  *)
(* closure runs.                                                                *)
SchedEnds == {"schedule_end_T", "schedule_end_F"}
RunFrames == {"poll", "completed", "close_end", "in_place_end", "pending_closed_end", "ready_end"}
Protecting == Holding \cup SchedEnds \cup {"unborrow"}
Bare == {"finish", "drop_future", "dtor", "close", "close_end", "pending_closed_end", "ready_end",
         "completed", "in_place_end", "shutdown", "do_wake", "do_cleanup", "cancel", "notify",
         "cancel_in_place", "schedule", "abandon"}
Neutral == {"user", "close_foreign_wakes", "request_shutdown", "leave", "finish_shutdown"}
Names == Protecting \cup Bare \cup Neutral

(* What the frame x asks of the frames B below it, besides protection.          *)
Ordered(x, B) ==
  /\ x \in Names
  /\ x = "schedule_end_T" => B \cap SchedEnds # {}
  /\ x = "schedule_end_F" => B \cap SchedEnds = {}
  /\ x \in RunFrames => B \cap RunFrames = {}
  /\ x = "run" => B = {}
Fits(x, B) == Ordered(x, B) /\ (x \in Bare => B \cap Protecting # {})

From(s, k) == {s[j] : j \in k .. Len(s)}
Nested(s) == \A i \in 1 .. Len(s) : Fits(s[i], From(s, i + 1))

Weight(x) == (IF x \in Holding THEN 1 ELSE 0) + (IF x = "release2" THEN 1 ELSE 0)

----------------------------------------------------------------------------------
(* The inductive invariant.                                                     *)

TlTypes ==
  /\ stack \in Seq(Names)
  /\ runq \in Nat /\ ownerW \in Nat /\ chanWake \in Nat /\ chanCleanup \in Nat
  /\ foreignW \in [Foreign -> Nat] /\ fpc = [t \in Foreign |-> fpc[t]] /\ seen \in [Foreign -> Nat]
  /\ registryRef \in BOOLEAN /\ scheduling \in BOOLEAN

(* The count, and what a foreign thread relies on: a thread that looks for the  *)
(* notifier still has its waker, and a count below two is never swapped.        *)
Exact ==
  refs = Bit(registryRef) + Bit(handle # "dropped") + runq + Wakers + RefsOf(stack) + InHand
Zeroed == freed => refs = 0
Relied == \A t \in Foreign : (fpc[t] = "wake_find" => foreignW[t] > 0) /\ seen[t] >= 2

(* Only the running frame may lean on what is not on the stack.                 *)
Leans(x) == \/ x \in {"finish", "schedule", "shutdown"} /\ registryRef
            \/ x = "do_wake" /\ ownerW > 0
Stacked ==
  stack # <<>> =>
    LET B == Members(Tail(stack))
    IN  Nested(Tail(stack)) /\ Ordered(Head(stack), B)
        /\ (Fits(Head(stack), B) \/ Leans(Head(stack)))

(* The registry has its reference until the schedule closure is dropped, which  *)
(* is not while the closure runs.                                               *)
Registered ==
  /\ registryRef <=> ~Has("SCHEDULE_DROPPED")
  /\ linked \/ active \/ scheduling => registryRef
  /\ scheduling <=> Frames \cap SchedEnds # {}

(* The flags, beside the frames.                                                *)
Flagged ==
  /\ Has("RUNNING") <=> Frames \cap RunFrames # {}
  /\ "unborrow" \in Frames => handle = "held"
  /\ Has("HANDLE") => handle # "dropped" \/ "drop_handle" \in Frames
  /\ Has("OUTPUT_PRESENT") => Has("HANDLE")

(* When the future is gone the task is closed or completed, or about to be.     *)
Ended == Has("CLOSED") \/ Has("COMPLETED")
Finished ==
  /\ Has("SCHEDULE_DROPPED") => Has("FUTURE_DROPPED") /\ ~awaiter
  /\ Has("FUTURE_DROPPED") \/ "drop_future" \in Frames => Ended \/ "completed" \in Frames
  /\ "cancel_in_place" \in Frames => Ended \/ Top = "cancel"
  /\ Has("RUNNING") /\ Has("SCHEDULE_DROPPED") =>
       LET ends == {"close_end", "in_place_end"}
       IN  \/ Top \in ends
           \/ Top = "drop_future" /\ Tail(stack) # <<>> /\ Head(Tail(stack)) \in ends

TlInv == TlTypes /\ Exact /\ Zeroed /\ Relied /\ Stacked /\ Registered /\ Flagged /\ Finished

----------------------------------------------------------------------------------
(* Pushing and popping one frame.                                               *)

Push(x, t) == <<x>> \o t

LEMMA WeightNat == ASSUME NEW x PROVE Weight(x) \in Nat
BY DEF Weight

(* The positions of the members of P.                                           *)
Places(s, P) == {i \in 1 .. Len(s) : s[i] \in P}

LEMMA CountPush ==
  ASSUME NEW P, NEW T, NEW x \in T, NEW t \in Seq(T), NEW s, s = Push(x, t)
  PROVE  /\ Cardinality(Places(s, P))
              = Cardinality(Places(t, P)) + (IF x \in P THEN 1 ELSE 0)
         /\ Cardinality(Places(t, P)) \in Nat
<1>. DEFINE C == {i \in 1 .. Len(t) : t[i] \in P}
            D == {i \in 2 .. Len(s) : s[i] \in P}
            f == [i \in C |-> i + 1]
<1>1. Len(s) = Len(t) + 1 /\ s[1] = x /\ \A i \in 1 .. Len(t) : s[i + 1] = t[i]
  BY DEF Push
<1>2. Len(t) \in Nat
  OBVIOUS
<1>3. IsFiniteSet(C) /\ Cardinality(C) \in Nat
  <2>1. IsFiniteSet(1 .. Len(t))
    BY <1>2, FS_Interval
  <2>. QED
    BY <2>1, FS_Subset, FS_CardinalityType
<1>4. f \in Bijection(C, D)
  <2>1. \A i \in C : i + 1 \in D
    BY <1>1, <1>2
  <2>2. \A k \in D : k - 1 \in C /\ (k - 1) + 1 = k
    <3>. SUFFICES ASSUME NEW k \in D PROVE k - 1 \in C /\ (k - 1) + 1 = k
      OBVIOUS
    <3>1. k - 1 \in 1 .. Len(t) /\ (k - 1) + 1 = k
      BY <1>1, <1>2
    <3>2. s[k] = t[k - 1]
      BY <1>1, <3>1
    <3>. QED
      BY <3>1, <3>2
  <2>. HIDE DEF D
  <2>3. f \in [C -> D]
    BY <2>1
  <2>4. \A i, j \in C : f[i] = f[j] => i = j
    BY <1>2
  <2>5. \A k \in D : \E i \in C : f[i] = k
    BY <2>2
  <2>. HIDE DEF f, C
  <2>. QED
    BY <2>3, <2>4, <2>5 DEF Bijection, Injection, Surjection, IsInjective
<1>5. IsFiniteSet(D) /\ Cardinality(D) = Cardinality(C)
  <2>1. ExistsBijection(C, D)
    BY <1>4 DEF ExistsBijection
  <2>. HIDE DEF C, D
  <2>. QED
    BY <1>3, <2>1, FS_Bijection
<1>6. 1 \notin D
  OBVIOUS
<1>. DEFINE E == {i \in 1 .. Len(s) : s[i] \in P}
<1>7. \A i : i \in E <=> i \in D \/ (i = 1 /\ x \in P)
  BY <1>1, <1>2
<1>. HIDE DEF D, C, E
<1>8. CASE x \in P
  <2>1. Cardinality(D \cup {1}) = Cardinality(D) + 1
    BY <1>5, <1>6, CountAdd
  <2>2. E = D \cup {1}
    BY <1>7, <1>8
  <2>3. Cardinality(E) = Cardinality(C) + 1
    BY <1>5, <2>1, <2>2
  <2>. QED
    BY <1>3, <1>8, <2>3 DEF C, E, Places
<1>9. CASE x \notin P
  <2>1. E = D
    BY <1>7, <1>9
  <2>2. Cardinality(E) = Cardinality(C) + 0
    BY <1>3, <1>5, <2>1
  <2>. QED
    BY <1>3, <1>9, <2>2 DEF C, E, Places
<1>. QED
  BY <1>8, <1>9

LEMMA RefsPush ==
  ASSUME NEW T, NEW x \in T, NEW t \in Seq(T)
  PROVE  RefsOf(Push(x, t)) = RefsOf(t) + Weight(x) /\ RefsOf(t) \in Nat
<1>. DEFINE s == Push(x, t)
            a == Cardinality(Places(s, Holding))
            b == Cardinality(Places(s, {"release2"}))
            c == Cardinality(Places(t, Holding))
            d == Cardinality(Places(t, {"release2"}))
            w == IF x \in {"release2"} THEN 1 ELSE 0
            v == IF x \in Holding THEN 1 ELSE 0
<1>0. s = Push(x, t)
  OBVIOUS
<1>. HIDE DEF s
<1>1. ASSUME NEW P
      PROVE  /\ Cardinality(Places(s, P))
                  = Cardinality(Places(t, P)) + (IF x \in P THEN 1 ELSE 0)
             /\ Cardinality(Places(t, P)) \in Nat
  BY <1>0, CountPush
<1>2. a = c + v /\ c \in Nat /\ b = d + w /\ d \in Nat
  BY <1>1
<1>3. RefsOf(s) = a + b /\ RefsOf(t) = c + d
  <2>1. \A r : RefsOf(r) = Cardinality(Places(r, Holding)) + Cardinality(Places(r, {"release2"}))
    <3>1. \A r : {i \in 1 .. Len(r) : r[i] = "release2"} = Places(r, {"release2"})
      BY DEF Places
    <3>2. \A r : {i \in 1 .. Len(r) : r[i] \in Holding} = Places(r, Holding)
      BY DEF Places
    <3>. QED
      BY <3>1, <3>2 DEF RefsOf
  <2>. QED
    BY <2>1
<1>4. Weight(x) = v + w /\ v \in Nat /\ w \in Nat
  BY DEF Weight
<1>. HIDE DEF a, b, c, d, v, w
<1>5. RefsOf(s) = RefsOf(t) + Weight(x) /\ RefsOf(t) \in Nat
  BY <1>1, <1>2, <1>3, <1>4
<1>. QED
  BY <1>5 DEF s

LEMMA FromShift ==
  ASSUME NEW T, NEW x \in T, NEW t \in Seq(T), NEW s, s = Push(x, t), NEW k \in Nat \ {0}
  PROVE  From(s, k + 1) = From(t, k)
<1>1. Len(s) = Len(t) + 1 /\ Len(t) \in Nat /\ \A i \in 1 .. Len(t) : s[i + 1] = t[i]
  BY DEF Push
<1>2. ASSUME NEW y \in From(s, k + 1) PROVE y \in From(t, k)
  <2>1. PICK j \in k + 1 .. Len(s) : y = s[j]
    BY DEF From
  <2>2. j - 1 \in k .. Len(t) /\ j - 1 \in 1 .. Len(t) /\ j = (j - 1) + 1
    BY <1>1
  <2>3. y = t[j - 1]
    BY <1>1, <2>1, <2>2
  <2>. QED
    BY <2>2, <2>3 DEF From
<1>3. ASSUME NEW y \in From(t, k) PROVE y \in From(s, k + 1)
  <2>1. PICK j \in k .. Len(t) : y = t[j]
    BY DEF From
  <2>2. j + 1 \in k + 1 .. Len(s) /\ y = s[j + 1]
    BY <1>1, <2>1
  <2>. QED
    BY <2>2 DEF From
<1>. QED
  BY <1>2, <1>3

LEMMA FromPush ==
  ASSUME NEW T, NEW x \in T, NEW t \in Seq(T), NEW s, s = Push(x, t)
  PROVE  Members(s) = Members(t) \cup {x} /\ From(s, 2) = Members(t)
<1>1. Len(s) = Len(t) + 1 /\ Len(t) \in Nat /\ s[1] = x
  BY DEF Push
<1>2. From(s, 1 + 1) = From(t, 1)
  BY FromShift
<1>3. From(t, 1) = Members(t)
  BY DEF From, Members
<1>4. Members(s) = From(s, 2) \cup {s[1]}
  <2>1. 1 .. Len(s) = (2 .. Len(s)) \cup {1}
    BY <1>1
  <2>. QED
    BY <2>1 DEF From, Members
<1>. QED
  BY <1>1, <1>2, <1>3, <1>4

LEMMA PushOne ==
  ASSUME NEW T, NEW x \in T, NEW t \in Seq(T), Nested(t), Fits(x, Members(t))
  PROVE  /\ Push(x, t) \in Seq(T) /\ Nested(Push(x, t))
         /\ Members(Push(x, t)) = Members(t) \cup {x}
<1>. DEFINE s == Push(x, t)
<1>1. Len(s) = Len(t) + 1 /\ s[1] = x /\ s \in Seq(T) /\ Len(t) \in Nat
  <2>1. <<x>> \in Seq(T)
    OBVIOUS
  <2>2. s \in Seq(T)
    BY <2>1 DEF Push
  <2>. QED
    BY <2>2 DEF Push
<1>2. \A i \in 2 .. Len(s) : i - 1 \in 1 .. Len(t) /\ s[i] = t[i - 1]
  BY DEF Push
<1>3. s = Push(x, t)
  OBVIOUS
<1>. HIDE DEF s
<1>4. From(s, 1 + 1) = Members(t) /\ Members(s) = Members(t) \cup {x}
  BY <1>3, FromPush
<1>5. ASSUME NEW i \in 2 .. Len(s) PROVE From(s, i + 1) = From(t, (i - 1) + 1)
  <2>1. i \in Nat \ {0} /\ (i - 1) + 1 = i
    BY <1>1
  <2>. QED
    BY <1>3, <2>1, FromShift
<1>6. ASSUME NEW i \in 1 .. Len(s) PROVE Fits(s[i], From(s, i + 1))
  <2>1. CASE i = 1
    BY <1>1, <1>4, <2>1
  <2>2. CASE i # 1
    <3>1. i \in 2 .. Len(s) /\ i - 1 \in 1 .. Len(t) /\ s[i] = t[i - 1]
      BY <1>1, <1>2, <2>2
    <3>2. Fits(t[i - 1], From(t, (i - 1) + 1))
      BY <3>1 DEF Nested
    <3>. QED
      BY <1>5, <3>1, <3>2
  <2>. QED
    BY <2>1, <2>2
<1>7. Nested(s)
  BY <1>6 DEF Nested
<1>. QED
  BY <1>1, <1>4, <1>7 DEF s

LEMMA PopOne ==
  ASSUME NEW T, NEW s \in Seq(T), s # <<>>
  PROVE  /\ Head(s) \in T /\ Tail(s) \in Seq(T) /\ s = Push(Head(s), Tail(s))
         /\ Members(s) = Members(Tail(s)) \cup {Head(s)}
         /\ RefsOf(s) = RefsOf(Tail(s)) + Weight(Head(s)) /\ RefsOf(Tail(s)) \in Nat
         /\ Nested(s) => Nested(Tail(s)) /\ Fits(Head(s), Members(Tail(s)))
<1>. DEFINE x == Head(s)
            t == Tail(s)
<1>1. x \in T /\ t \in Seq(T) /\ s = Push(x, t)
  BY DEF Push
<1>2. /\ Len(s) = Len(t) + 1 /\ s[1] = x /\ Len(t) \in Nat
      /\ \A i \in 1 .. Len(t) : t[i] = s[i + 1]
  OBVIOUS
<1>. HIDE DEF x, t
<1>3. RefsOf(s) = RefsOf(t) + Weight(x) /\ RefsOf(t) \in Nat
  BY <1>1, RefsPush
<1>4. Members(s) = Members(t) \cup {x} /\ From(s, 1 + 1) = Members(t)
  BY <1>1, FromPush
<1>5. \A k \in Nat \ {0} : From(s, k + 1) = From(t, k)
  BY <1>1, FromShift
<1>6. ASSUME Nested(s) PROVE Nested(t) /\ Fits(x, Members(t))
  <2>1. Fits(x, Members(t))
    <3>1. 1 \in 1 .. Len(s)
      BY <1>2
    <3>2. Fits(s[1], From(s, 1 + 1))
      BY <1>6, <3>1 DEF Nested
    <3>. QED
      BY <1>2, <1>4, <3>2
  <2>2. ASSUME NEW i \in 1 .. Len(t) PROVE Fits(t[i], From(t, i + 1))
    <3>1. i + 1 \in 1 .. Len(s) /\ t[i] = s[i + 1]
      BY <1>2
    <3>2. Fits(s[i + 1], From(s, (i + 1) + 1))
      BY <1>6, <3>1 DEF Nested
    <3>3. From(s, (i + 1) + 1) = From(t, i + 1)
      BY <1>5, <3>1
    <3>. QED
      BY <3>1, <3>2, <3>3
  <2>3. Nested(t)
    BY <2>2 DEF Nested
  <2>. QED
    BY <2>1, <2>3
<1>. QED
  BY <1>1, <1>3, <1>4, <1>6 DEF x, t

----------------------------------------------------------------------------------
(* The stack before and after a step.                                           *)

(* What is known of the stack when the frame x runs.                            *)
Running(x, t) ==
  /\ stack = Push(x, t) /\ Tail(stack) = t /\ t \in Seq(Names) /\ Nested(t)
  /\ Frames = Members(t) \cup {x} /\ RefsOf(stack) = RefsOf(t) + Weight(x) /\ RefsOf(t) \in Nat
  /\ Ordered(x, Members(t)) /\ (Fits(x, Members(t)) \/ Leans(x))

LEMMA RefsNat == ASSUME NEW s \in Seq(Names) PROVE RefsOf(s) \in Nat
<1>1. "run" \in Names
  BY DEF Names, Protecting, Holding
<1>. QED
  BY <1>1, RefsPush

LEMMA FramesAreMembers == Frames = Members(stack)
BY DEF Frames, Members

LEMMA TopFacts ==
  ASSUME TlTypes, Stacked, NEW x, Top = x, x # "none"
  PROVE  Running(x, Tail(stack))
<1>1. stack # <<>> /\ Head(stack) = x
  BY DEF Top
<1>2. stack \in Seq(Names)
  BY DEF TlTypes
<1>3. /\ Tail(stack) \in Seq(Names) /\ stack = Push(x, Tail(stack))
      /\ Members(stack) = Members(Tail(stack)) \cup {x}
      /\ RefsOf(stack) = RefsOf(Tail(stack)) + Weight(x) /\ RefsOf(Tail(stack)) \in Nat
  BY <1>1, <1>2, PopOne
<1>4. /\ Nested(Tail(stack)) /\ Ordered(x, Members(Tail(stack)))
      /\ (Fits(x, Members(Tail(stack))) \/ Leans(x))
  BY <1>1 DEF Stacked
<1>. QED
  BY <1>3, <1>4, FramesAreMembers DEF Running

(* The next stack is nested, has the frames B and holds r references.           *)
After(B, r) ==
  /\ stack' \in Seq(Names) /\ Stacked' /\ Frames' = B /\ RefsOf(stack') = r

LEMMA Push0 ==
  ASSUME NEW t \in Seq(Names), Nested(t), stack' = t
  PROVE  After(Members(t), RefsOf(t))
<1>1. Frames' = Members(t)
  BY DEF Frames, Members
<1>2. Stacked'
  <2>1. CASE t = <<>>
    BY <2>1 DEF Stacked
  <2>2. CASE t # <<>>
    <3>1. Nested(Tail(t)) /\ Fits(Head(t), Members(Tail(t)))
      BY <2>2, PopOne
    <3>. QED
      BY <3>1 DEF Stacked, Fits
  <2>. QED
    BY <2>1, <2>2
<1>. QED
  BY <1>1, <1>2 DEF After

LEMMA PushTop ==
  ASSUME NEW t \in Seq(Names), NEW x \in Names, stack' = Push(x, t)
  PROVE  Top' = x /\ Tail(stack') = t
<1>1. Head(stack') = x /\ Tail(stack') = t /\ stack' # <<>>
  BY DEF Push
<1>. QED
  BY <1>1 DEF Top

LEMMA Push1 ==
  ASSUME NEW t \in Seq(Names), Nested(t), NEW a, stack' = Push(a, t), Fits(a, Members(t))
  PROVE  After(Members(t) \cup {a}, RefsOf(t) + Weight(a)) /\ Top' = a
<1>1. a \in Names
  BY DEF Fits, Ordered
<1>2. /\ Push(a, t) \in Seq(Names) /\ Nested(Push(a, t))
      /\ Members(Push(a, t)) = Members(t) \cup {a} /\ RefsOf(Push(a, t)) = RefsOf(t) + Weight(a)
  BY <1>1, PushOne, RefsPush
<1>. QED
  BY <1>1, <1>2, Push0, PushTop

LEMMA Push2 ==
  ASSUME NEW t \in Seq(Names), Nested(t), NEW a, NEW b,
         stack' = Push(a, Push(b, t)),
         Fits(b, Members(t)), Fits(a, Members(t) \cup {b})
  PROVE  /\ After(Members(t) \cup {a, b}, RefsOf(t) + Weight(a) + Weight(b))
         /\ Top' = a
<1>0. b \in Names
  BY DEF Fits, Ordered
<1>. DEFINE u == Push(b, t)
<1>1. /\ u \in Seq(Names) /\ Nested(u) /\ Members(u) = Members(t) \cup {b}
      /\ RefsOf(u) = RefsOf(t) + Weight(b) /\ RefsOf(t) \in Nat
  BY <1>0, PushOne, RefsPush
<1>. HIDE DEF u
<1>2. Fits(a, Members(u))
  BY <1>1
<1>3. stack' = Push(a, u)
  BY DEF u
<1>4. After(Members(u) \cup {a}, RefsOf(u) + Weight(a)) /\ Top' = a
  BY <1>1, <1>2, <1>3, Push1
<1>5. Members(u) \cup {a} = Members(t) \cup {a, b}
  BY <1>1
<1>6. RefsOf(u) + Weight(a) = RefsOf(t) + Weight(a) + Weight(b)
  <2>. DEFINE q == RefsOf(u)
              r == RefsOf(t)
              wa == Weight(a)
              wb == Weight(b)
  <2>1. q = r + wb /\ r \in Nat /\ wa \in Nat /\ wb \in Nat
    BY <1>1, WeightNat
  <2>. HIDE DEF q, r, wa, wb
  <2>2. q + wa = r + wa + wb
    BY <2>1
  <2>. QED
    BY <2>2 DEF q, r, wa, wb
<1>. QED
  BY <1>4, <1>5, <1>6

LEMMA Push3 ==
  ASSUME NEW t \in Seq(Names), Nested(t), NEW a, NEW b, NEW c,
         stack' = Push(a, Push(b, Push(c, t))),
         Fits(c, Members(t)), Fits(b, Members(t) \cup {c}), Fits(a, Members(t) \cup {b, c})
  PROVE  /\ After(Members(t) \cup {a, b, c}, RefsOf(t) + Weight(a) + Weight(b) + Weight(c))
         /\ Top' = a
<1>0. c \in Names
  BY DEF Fits, Ordered
<1>. DEFINE u == Push(c, t)
<1>1. /\ u \in Seq(Names) /\ Nested(u) /\ Members(u) = Members(t) \cup {c}
      /\ RefsOf(u) = RefsOf(t) + Weight(c) /\ RefsOf(t) \in Nat
  BY <1>0, PushOne, RefsPush
<1>. HIDE DEF u
<1>2. Fits(b, Members(u)) /\ Fits(a, Members(u) \cup {b})
  <2>1. Members(u) \cup {b} = Members(t) \cup {b, c}
    BY <1>1
  <2>. QED
    BY <1>1, <2>1
<1>3. stack' = Push(a, Push(b, u))
  BY DEF u
<1>4. After(Members(u) \cup {a, b}, RefsOf(u) + Weight(a) + Weight(b)) /\ Top' = a
  BY <1>1, <1>2, <1>3, Push2
<1>5. Members(u) \cup {a, b} = Members(t) \cup {a, b, c}
  BY <1>1
<1>6. RefsOf(u) + Weight(a) + Weight(b) = RefsOf(t) + Weight(a) + Weight(b) + Weight(c)
  <2>. DEFINE q == RefsOf(u)
              r == RefsOf(t)
              wa == Weight(a)
              wb == Weight(b)
              wc == Weight(c)
  <2>1. q = r + wc /\ r \in Nat /\ wa \in Nat /\ wb \in Nat /\ wc \in Nat
    BY <1>1, WeightNat
  <2>. HIDE DEF q, r, wa, wb, wc
  <2>2. q + wa + wb = r + wa + wb + wc
    BY <2>1
  <2>. QED
    BY <2>2 DEF q, r, wa, wb, wc
<1>. QED
  BY <1>4, <1>5, <1>6

LEMMA Push4 ==
  ASSUME NEW t \in Seq(Names), Nested(t), NEW a, NEW b, NEW c, NEW d,
         stack' = Push(a, Push(b, Push(c, Push(d, t)))),
         Fits(d, Members(t)), Fits(c, Members(t) \cup {d}), Fits(b, Members(t) \cup {c, d}),
         Fits(a, Members(t) \cup {b, c, d})
  PROVE  /\ After(Members(t) \cup {a, b, c, d},
              RefsOf(t) + Weight(a) + Weight(b) + Weight(c) + Weight(d))
         /\ Top' = a
<1>0. d \in Names
  BY DEF Fits, Ordered
<1>. DEFINE u == Push(d, t)
<1>1. /\ u \in Seq(Names) /\ Nested(u) /\ Members(u) = Members(t) \cup {d}
      /\ RefsOf(u) = RefsOf(t) + Weight(d) /\ RefsOf(t) \in Nat
  BY <1>0, PushOne, RefsPush
<1>. HIDE DEF u
<1>2. Fits(c, Members(u)) /\ Fits(b, Members(u) \cup {c}) /\ Fits(a, Members(u) \cup {b, c})
  <2>1. Members(u) \cup {c} = Members(t) \cup {c, d}
    BY <1>1
  <2>2. Members(u) \cup {b, c} = Members(t) \cup {b, c, d}
    BY <1>1
  <2>. QED
    BY <1>1, <2>1, <2>2
<1>3. stack' = Push(a, Push(b, Push(c, u)))
  BY DEF u
<1>4. After(Members(u) \cup {a, b, c}, RefsOf(u) + Weight(a) + Weight(b) + Weight(c)) /\ Top' = a
  BY <1>1, <1>2, <1>3, Push3
<1>5. Members(u) \cup {a, b, c} = Members(t) \cup {a, b, c, d}
  BY <1>1
<1>6. RefsOf(u) + Weight(a) + Weight(b) + Weight(c) = RefsOf(t) + Weight(a) + Weight(b)
        + Weight(c) + Weight(d)
  <2>. DEFINE q == RefsOf(u)
              r == RefsOf(t)
              wa == Weight(a)
              wb == Weight(b)
              wc == Weight(c)
              wd == Weight(d)
  <2>1. q = r + wd /\ r \in Nat /\ wa \in Nat /\ wb \in Nat /\ wc \in Nat /\ wd \in Nat
    BY <1>1, WeightNat
  <2>. HIDE DEF q, r, wa, wb, wc, wd
  <2>2. q + wa + wb + wc = r + wa + wb + wc + wd
    BY <2>1
  <2>. QED
    BY <2>2 DEF q, r, wa, wb, wc, wd
<1>. QED
  BY <1>4, <1>5, <1>6

LEMMA Push5 ==
  ASSUME NEW t \in Seq(Names), Nested(t), NEW a, NEW b, NEW c, NEW d, NEW e,
         stack' = Push(a, Push(b, Push(c, Push(d, Push(e, t))))),
         Fits(e, Members(t)), Fits(d, Members(t) \cup {e}), Fits(c, Members(t) \cup {d, e}),
         Fits(b, Members(t) \cup {c, d, e}), Fits(a, Members(t) \cup {b, c, d, e})
  PROVE  /\ After(Members(t) \cup {a, b, c, d, e},
              RefsOf(t) + Weight(a) + Weight(b) + Weight(c) + Weight(d) + Weight(e))
         /\ Top' = a
<1>0. e \in Names
  BY DEF Fits, Ordered
<1>. DEFINE u == Push(e, t)
<1>1. /\ u \in Seq(Names) /\ Nested(u) /\ Members(u) = Members(t) \cup {e}
      /\ RefsOf(u) = RefsOf(t) + Weight(e) /\ RefsOf(t) \in Nat
  BY <1>0, PushOne, RefsPush
<1>. HIDE DEF u
<1>2. Fits(d, Members(u)) /\ Fits(c, Members(u) \cup {d}) /\ Fits(b, Members(u) \cup {c,
      d}) /\ Fits(a, Members(u) \cup {b, c, d})
  <2>1. Members(u) \cup {d} = Members(t) \cup {d, e}
    BY <1>1
  <2>2. Members(u) \cup {c, d} = Members(t) \cup {c, d, e}
    BY <1>1
  <2>3. Members(u) \cup {b, c, d} = Members(t) \cup {b, c, d, e}
    BY <1>1
  <2>. QED
    BY <1>1, <2>1, <2>2, <2>3
<1>3. stack' = Push(a, Push(b, Push(c, Push(d, u))))
  BY DEF u
<1>4. After(Members(u) \cup {a, b, c, d},
      RefsOf(u) + Weight(a) + Weight(b) + Weight(c) + Weight(d)) /\ Top' = a
  BY <1>1, <1>2, <1>3, Push4
<1>5. Members(u) \cup {a, b, c, d} = Members(t) \cup {a, b, c, d, e}
  BY <1>1
<1>6. RefsOf(u) + Weight(a) + Weight(b) + Weight(c) + Weight(d) = RefsOf(t) + Weight(a)
        + Weight(b) + Weight(c) + Weight(d) + Weight(e)
  <2>. DEFINE q == RefsOf(u)
              r == RefsOf(t)
              wa == Weight(a)
              wb == Weight(b)
              wc == Weight(c)
              wd == Weight(d)
              we == Weight(e)
  <2>1. q = r + we /\ r \in Nat /\ wa \in Nat /\ wb \in Nat /\ wc \in Nat /\ wd \in Nat
          /\ we \in Nat
    BY <1>1, WeightNat
  <2>. HIDE DEF q, r, wa, wb, wc, wd, we
  <2>2. q + wa + wb + wc + wd = r + wa + wb + wc + wd + we
    BY <2>1
  <2>. QED
    BY <2>2 DEF q, r, wa, wb, wc, wd, we
<1>. QED
  BY <1>4, <1>5, <1>6

(* The same when the new top frame leans on what is not on the stack.           *)
LEMMA PushLean1 ==
  ASSUME NEW t \in Seq(Names), Nested(t), NEW a, stack' = Push(a, t),
         Fits(a, Members(t)) \/ Leans(a)', Ordered(a, Members(t))
  PROVE  After(Members(t) \cup {a}, RefsOf(t) + Weight(a)) /\ Top' = a
<1>0. a \in Names
  BY DEF Ordered
<1>1. /\ Push(a, t) \in Seq(Names) /\ Head(Push(a, t)) = a /\ Tail(Push(a, t)) = t
      /\ Push(a, t) # <<>>
  BY <1>0 DEF Push
<1>2. /\ Members(Push(a, t)) = Members(t) \cup {a}
      /\ RefsOf(Push(a, t)) = RefsOf(t) + Weight(a)
  BY <1>0, FromPush, RefsPush
<1>3. Frames' = Members(t) \cup {a}
  BY <1>2 DEF Frames, Members
<1>4. Stacked'
  BY <1>1 DEF Stacked
<1>. QED
  BY <1>0, <1>1, <1>2, <1>3, <1>4, PushTop DEF After

LEMMA PushLean2 ==
  ASSUME NEW t \in Seq(Names), Nested(t), NEW a, NEW b,
         stack' = Push(a, Push(b, t)), Fits(b, Members(t)),
         Fits(a, Members(t) \cup {b}) \/ Leans(a)', Ordered(a, Members(t) \cup {b})
  PROVE  /\ After(Members(t) \cup {a, b}, RefsOf(t) + Weight(a) + Weight(b))
         /\ Top' = a
<1>0. b \in Names
  BY DEF Fits, Ordered
<1>. DEFINE u == Push(b, t)
<1>1. /\ u \in Seq(Names) /\ Nested(u) /\ Members(u) = Members(t) \cup {b}
      /\ RefsOf(u) = RefsOf(t) + Weight(b) /\ RefsOf(t) \in Nat
  BY <1>0, PushOne, RefsPush
<1>2. stack' = Push(a, u)
  OBVIOUS
<1>. HIDE DEF u
<1>3. After(Members(u) \cup {a}, RefsOf(u) + Weight(a)) /\ Top' = a
  BY <1>1, <1>2, PushLean1
<1>4. Members(u) \cup {a} = Members(t) \cup {a, b}
  BY <1>1
<1>5. RefsOf(u) + Weight(a) = RefsOf(t) + Weight(a) + Weight(b)
  <2>. DEFINE q == RefsOf(u)
              r == RefsOf(t)
              wa == Weight(a)
              wb == Weight(b)
  <2>1. q = r + wb /\ r \in Nat /\ wa \in Nat /\ wb \in Nat
    BY <1>1, WeightNat
  <2>. HIDE DEF q, r, wa, wb
  <2>2. q + wa = r + wa + wb
    BY <2>1
  <2>. QED
    BY <2>2 DEF q, r, wa, wb
<1>. QED
  BY <1>3, <1>4, <1>5

----------------------------------------------------------------------------------
(* What the other threads hold.                                                 *)

LEMMA OutsideNat ==
  ASSUME TlTypes PROVE ForeignHeld \in Nat /\ InHand \in Nat
<1>1. foreignW \in [Foreign -> Nat] /\ Foreign \in SUBSET Foreign
  BY DEF TlTypes
<1>2. Cardinality(Pairs(Foreign, foreignW)) \in Nat
  BY <1>1, ForeignAssumption, PairsFinite
<1>3. {t \in Foreign : fpc[t] \notin {"idle", "wake_find"}} \in SUBSET Foreign
  OBVIOUS
<1>4. InHand \in Nat
  BY <1>3, ForeignAssumption, FS_Subset, FS_CardinalityType DEF InHand
<1>. QED
  BY <1>2, <1>4 DEF ForeignHeld, Pairs

LEMMA OutsideSame ==
  ASSUME UNCHANGED <<foreignW, fpc>> PROVE ForeignHeld' = ForeignHeld /\ InHand' = InHand
BY DEF ForeignHeld, InHand

----------------------------------------------------------------------------------
(* Why a frame may touch the task.                                              *)

LEMMA HoldingCounts ==
  ASSUME NEW s \in Seq(Names), Members(s) \cap Holding # {} PROVE RefsOf(s) >= 1
<1>1. PICK i \in 1 .. Len(s) : s[i] \in Holding
  BY DEF Members
<1>. DEFINE C == {k \in 1 .. Len(s) : s[k] \in Holding}
            D == {k \in 1 .. Len(s) : s[k] = "release2"}
<1>2. i \in C /\ C \in SUBSET (1 .. Len(s)) /\ D \in SUBSET (1 .. Len(s))
  BY <1>1
<1>3. IsFiniteSet(1 .. Len(s))
  <2>1. Len(s) \in Int /\ 1 \in Int
    OBVIOUS
  <2>. QED
    BY <2>1, FS_Interval
<1>4. RefsOf(s) = Cardinality(C) + Cardinality(D)
  BY DEF RefsOf
<1>. HIDE DEF C, D
<1>5. IsFiniteSet(C) /\ Cardinality(C) \in Nat /\ Cardinality(D) \in Nat
  BY <1>2, <1>3, FS_Subset, FS_CardinalityType
<1>6. Cardinality(C) # 0
  BY <1>2, <1>5, FS_EmptySet
<1>. QED
  BY <1>4, <1>5, <1>6

(* Something protects a frame that is not bare and not neutral: a reference.    *)
LEMMA ProtectedAlive ==
  ASSUME TlTypes, Exact, Registered, Flagged, Frames \cap Protecting # {} PROVE refs > 0
<1>1. RefsOf(stack) \in Nat
  <2>1. stack \in Seq(Names)
    BY DEF TlTypes
  <2>. QED
    BY <2>1, RefsNat
<1>2. registryRef \/ handle # "dropped" \/ RefsOf(stack) >= 1
  <2>1. CASE Frames \cap Holding # {}
    BY <2>1, HoldingCounts, FramesAreMembers DEF TlTypes
  <2>2. CASE Frames \cap SchedEnds # {}
    BY <2>2 DEF Registered
  <2>3. CASE "unborrow" \in Frames
    BY <2>3 DEF Flagged
  <2>. QED
    BY <2>1, <2>2, <2>3 DEF Protecting
<1>3. ForeignHeld \in Nat /\ InHand \in Nat
  BY OutsideNat
<1>. QED
  BY <1>1, <1>2, <1>3 DEF Exact, Wakers, Bit, TlTypes

LEMMA BareAlive ==
  ASSUME TlTypes, Exact, Registered, Flagged, NEW x \in Bare, NEW t, Running(x, t) PROVE refs > 0
<1>1. CASE Fits(x, Members(t))
  <2>1. Frames \cap Protecting # {}
    BY <1>1 DEF Running, Fits
  <2>. QED
    BY <2>1, ProtectedAlive
<1>2. CASE Leans(x)
  <2>1. registryRef \/ ownerW > 0
    BY <1>2 DEF Leans
  <2>2. RefsOf(stack) \in Nat
    BY RefsNat DEF TlTypes
  <2>3. ForeignHeld \in Nat /\ InHand \in Nat
    BY OutsideNat
  <2>. QED
    BY <2>1, <2>2, <2>3 DEF Exact, Wakers, Bit, TlTypes
<1>. QED
  BY <1>1, <1>2 DEF Running

(* User code runs on a nested stack.                                            *)
LEMMA UserNested ==
  ASSUME TlTypes, Stacked, UserCode
  PROVE  Nested(stack) /\ stack \in Seq(Names) /\ Frames = Members(stack) /\ RefsOf(stack) \in Nat
<1>1. stack \in Seq(Names) /\ RefsOf(stack) \in Nat /\ Frames = Members(stack)
  BY RefsNat, FramesAreMembers DEF TlTypes
<1>2. Nested(stack)
  <2>1. CASE stack = <<>>
    BY <2>1 DEF Nested
  <2>2. CASE Top \in {"poll", "dtor", "user"}
    <3>1. Running(Top, Tail(stack))
      BY <2>2, TopFacts
    <3>2. Fits(Top, Members(Tail(stack)))
      BY <2>2, <3>1 DEF Running, Leans
    <3>3. Top \in Names
      BY <3>2 DEF Fits, Ordered
    <3>. DEFINE x == Top
    <3>4. Tail(stack) \in Seq(Names) /\ Nested(Tail(stack)) /\ stack = Push(x, Tail(stack))
      BY <3>1 DEF Running
    <3>5. x \in Names /\ Fits(x, Members(Tail(stack)))
      BY <3>2, <3>3
    <3>. HIDE DEF x
    <3>6. Nested(Push(x, Tail(stack)))
      BY <3>4, <3>5, PushOne
    <3>. QED
      BY <3>4, <3>6
  <2>. QED
    BY <2>1, <2>2 DEF UserCode
<1>. QED
  BY <1>1, <1>2

LEMMA UserPlain ==
  ASSUME Finished, UserCode
  PROVE  /\ "cancel_in_place" \in Frames => Ended
         /\ ~(Has("RUNNING") /\ Has("SCHEDULE_DROPPED"))
<1>1. Top \in {"none", "poll", "dtor", "user"}
  BY DEF UserCode, Top
<1>. QED
  BY <1>1 DEF Finished

(* A waker that can be used is held, or is the one the poll lends.              *)
LEMMA WakerHeld ==
  ASSUME TlTypes, Stacked, CanUseWaker PROVE ownerW > 0 \/ "poll" \in Frames
<1>1. CASE Top = "poll"
  <2>1. Running("poll", Tail(stack))
    BY <1>1, TopFacts
  <2>. QED
    BY <2>1 DEF Running
<1>. QED
  BY <1>1 DEF CanUseWaker

LEMMA WakerAlive ==
  ASSUME TlTypes, Stacked, Exact, Registered, Flagged, CanUseWaker PROVE refs > 0
<1>1. CASE "poll" \in Frames
  <2>1. Frames \cap Protecting # {}
    BY <1>1 DEF Protecting, Holding
  <2>. QED
    BY <2>1, ProtectedAlive
<1>2. CASE ownerW > 0
  <2>1. RefsOf(stack) \in Nat
    BY RefsNat DEF TlTypes
  <2>2. ForeignHeld \in Nat /\ InHand \in Nat
    BY OutsideNat
  <2>. QED
    BY <1>2, <2>1, <2>2 DEF Exact, Wakers, Bit, TlTypes
<1>. QED
  BY <1>1, <1>2, WakerHeld

(* The count changes as the places do.                                          *)
Balanced ==
  /\ runq' \in Int /\ ownerW' \in Int /\ chanWake' \in Int /\ chanCleanup' \in Int /\ refs' \in Int
  /\ refs' - refs = (runq' - runq) + (ownerW' - ownerW) + (chanWake' - chanWake)
                    + (chanCleanup' - chanCleanup) + (RefsOf(stack') - RefsOf(stack))

LEMMA Recount ==
  ASSUME TlTypes, Exact, ForeignHeld \in Nat, InHand \in Nat, ForeignHeld' = ForeignHeld,
         InHand' = InHand, UNCHANGED <<registryRef, handle>>,
         RefsOf(stack) \in Nat, RefsOf(stack') \in Nat,
         Balanced
  PROVE  Exact'
<1>. DEFINE b == Bit(registryRef)
            h == Bit(handle # "dropped")
            f == ForeignHeld
            i == InHand
            q == RefsOf(stack)
            q1 == RefsOf(stack')
            r == refs
            r1 == refs'
            u == runq
            u1 == runq'
            o == ownerW
            o1 == ownerW'
            w == chanWake
            w1 == chanWake'
            c == chanCleanup
            c1 == chanCleanup'
<1>1. /\ b \in Nat /\ h \in Nat /\ f \in Nat /\ i \in Nat /\ q \in Nat /\ q1 \in Nat
      /\ u \in Nat /\ o \in Nat /\ w \in Nat /\ c \in Nat
      /\ u1 \in Int /\ o1 \in Int /\ w1 \in Int /\ c1 \in Int /\ r1 \in Int
  BY DEF Bit, TlTypes, Balanced
<1>2. r = b + h + u + (o + f + w + c) + q + i
  BY DEF Exact, Wakers
<1>3. Exact' <=> r1 = b + h + u1 + (o1 + f + w1 + c1) + q1 + i
  BY DEF Exact, Wakers
<1>4. r1 - r = (u1 - u) + (o1 - o) + (w1 - w) + (c1 - c) + (q1 - q)
  BY DEF Balanced
<1>. HIDE DEF b, h, f, i, q, q1, r, r1, u, u1, o, o1, w, w1, c, c1
<1>5. r \in Int
  BY <1>1, <1>2
<1>6. r1 = b + h + u1 + (o1 + f + w1 + c1) + q1 + i
  BY <1>1, <1>2, <1>4, <1>5
<1>. QED
  BY <1>3, <1>6

LEMMA RefsInt ==
  ASSUME TlTypes, Exact, RefsOf(stack) \in Nat PROVE refs \in Nat
<1>1. ForeignHeld \in Nat /\ InHand \in Nat
  BY OutsideNat
<1>. DEFINE b == Bit(registryRef)
            h == Bit(handle # "dropped")
            w == Wakers
            q == RefsOf(stack)
            i == InHand
<1>2. b \in Nat /\ h \in Nat /\ w \in Nat /\ q \in Nat /\ i \in Nat /\ runq \in Nat
  BY <1>1 DEF Bit, Wakers, TlTypes
<1>3. refs = b + h + runq + w + q + i
  BY DEF Exact
<1>. HIDE DEF b, h, w, q, i
<1>. QED
  BY <1>2, <1>3

(* The registry's reference goes over to the frame that releases it.            *)
LEMMA CleanupCounts ==
  ASSUME TlTypes, Exact, ForeignHeld \in Nat, InHand \in Nat,
         ForeignHeld' = ForeignHeld, InHand' = InHand, registryRef, ~registryRef',
         RefsOf(stack') = RefsOf(stack) + 1, RefsOf(stack) \in Nat,
         UNCHANGED <<refs, handle, runq, ownerW, chanWake, chanCleanup>>
  PROVE  Exact'
<1>. DEFINE h == Bit(handle # "dropped")
            w == Wakers
            q == RefsOf(stack)
            i == InHand
<1>1. h \in Nat /\ w \in Nat /\ q \in Nat /\ i \in Nat /\ runq \in Nat
  BY DEF Bit, Wakers, TlTypes
<1>2. refs = 1 + h + runq + w + q + i
  BY DEF Exact, Bit
<1>3. Exact' <=> refs = 0 + h + runq + w + (q + 1) + i
  BY DEF Exact, Bit, Wakers
<1>. HIDE DEF h, w, q, i
<1>. QED
  BY <1>1, <1>2, <1>3

(* So does the handle's.                                                        *)
LEMMA HandleCounts ==
  ASSUME TlTypes, Exact, ForeignHeld \in Nat, InHand \in Nat,
         ForeignHeld' = ForeignHeld, InHand' = InHand, handle = "held", handle' = "dropped",
         RefsOf(stack') = RefsOf(stack) + 1, RefsOf(stack) \in Nat,
         UNCHANGED <<refs, registryRef, runq, ownerW, chanWake, chanCleanup>>
  PROVE  Exact'
<1>. DEFINE b == Bit(registryRef)
            w == Wakers
            q == RefsOf(stack)
            i == InHand
<1>1. b \in Nat /\ w \in Nat /\ q \in Nat /\ i \in Nat /\ runq \in Nat
  BY DEF Bit, Wakers, TlTypes
<1>2. refs = b + 1 + runq + w + q + i
  BY DEF Exact, Bit
<1>3. Exact' <=> refs = b + 0 + runq + w + (q + 1) + i
  BY DEF Exact, Bit, Wakers
<1>. HIDE DEF b, w, q, i
<1>. QED
  BY <1>1, <1>2, <1>3

----------------------------------------------------------------------------------
(* The owner's frames.                                                          *)

LEMMA Step_release == ASSUME TlInv, release PROVE TlInv'
<1>. DEFINE t == Tail(stack)
<1>1. TlTypes /\ Exact /\ Zeroed /\ Relied /\ Stacked /\ Registered /\ Flagged /\ Finished
  BY DEF TlInv
<1>2. Running("release", t)
  BY <1>1, TopFacts DEF release
<1>3. ForeignHeld \in Nat /\ InHand \in Nat /\ ForeignHeld' = ForeignHeld /\ InHand' = InHand
  BY <1>1, OutsideNat, OutsideSame DEF release, foreign
<1>4. refs \in Nat /\ runq \in Nat /\ ownerW \in Nat /\ chanWake \in Nat /\ chanCleanup \in Nat
  BY <1>1, <1>2, RefsInt, RefsNat DEF TlTypes
<1>5. stack' = t
  BY <1>2 DEF release, ReleaseRefs, Running, Return
<1>6. After(Members(t), RefsOf(t))
  BY <1>1, <1>2, <1>3, <1>4, <1>5, Push0 DEF Running
<1>7. RefsOf(stack') = RefsOf(stack) - 1 /\ RefsOf(stack) \in Nat /\ RefsOf(stack') \in Nat
  BY <1>1, <1>2, <1>3, <1>4, <1>6 DEF Running, After, Weight, Holding
<1>8. /\ refs' = refs - 1
      /\ UNCHANGED <<registryRef, handle, runq, ownerW, chanWake, chanCleanup, fpc, foreignW,
           seen>>
  BY <1>1, <1>2, <1>3, <1>4 DEF release, ReleaseRefs, header, places, executor, channel, foreign
<1>9. Balanced
  BY <1>4, <1>7, <1>8 DEF Balanced
<1>10. Exact'
  BY <1>1, <1>3, <1>7, <1>8, <1>9, Recount
<1>11. freed' => refs = 1
  BY <1>1, <1>2, <1>3, <1>4, Zenon DEF release, ReleaseRefs
<1>12. Zeroed' /\ Relied'
  BY <1>1, <1>2, <1>3, <1>4, <1>8, <1>11 DEF Zeroed, Relied
<1>13. TlTypes'
  BY <1>1, <1>2, <1>3, <1>4, <1>6, <1>8
     DEF TlTypes, After, release, ReleaseRefs, header, places, executor, channel, foreign
<1>14. Registered'
  BY <1>1, <1>2, <1>3, <1>4, <1>6
     DEF Registered, Has, Running, After, Ordered, SchedEnds, RunFrames, release, ReleaseRefs,
         header, places, executor, channel, foreign
<1>15. Flagged'
  BY <1>1, <1>2, <1>3, <1>4, <1>6
     DEF Flagged, Has, Running, After, Ordered, SchedEnds, RunFrames, release, ReleaseRefs,
         header, places, executor, channel, foreign
<1>16. Finished'
  BY <1>1, <1>2, <1>3, <1>4, <1>6, <1>5, <1>15
     DEF Finished, Registered, Flagged, Ended, Has, Running, After, Ordered, SchedEnds,
         RunFrames, release, ReleaseRefs, header, places, executor, channel, foreign
<1>. QED
  BY <1>6, <1>10, <1>12, <1>13, <1>14, <1>15, <1>16 DEF TlInv, After

LEMMA Step_release2 == ASSUME TlInv, release2 PROVE TlInv'
<1>. DEFINE t == Tail(stack)
<1>1. TlTypes /\ Exact /\ Zeroed /\ Relied /\ Stacked /\ Registered /\ Flagged /\ Finished
  BY DEF TlInv
<1>2. Running("release2", t)
  BY <1>1, TopFacts DEF release2
<1>3. ForeignHeld \in Nat /\ InHand \in Nat /\ ForeignHeld' = ForeignHeld /\ InHand' = InHand
  BY <1>1, OutsideNat, OutsideSame DEF release2, foreign
<1>4. refs \in Nat /\ runq \in Nat /\ ownerW \in Nat /\ chanWake \in Nat /\ chanCleanup \in Nat
  BY <1>1, <1>2, RefsInt, RefsNat DEF TlTypes
<1>5. stack' = t
  BY <1>2 DEF release2, ReleaseRefs, Running, Return
<1>6. After(Members(t), RefsOf(t))
  BY <1>1, <1>2, <1>3, <1>4, <1>5, Push0 DEF Running
<1>7. RefsOf(stack') = RefsOf(stack) - 2 /\ RefsOf(stack) \in Nat /\ RefsOf(stack') \in Nat
  BY <1>1, <1>2, <1>3, <1>4, <1>6 DEF Running, After, Weight, Holding
<1>8. /\ refs' = refs - 2
      /\ UNCHANGED <<registryRef, handle, runq, ownerW, chanWake, chanCleanup, fpc, foreignW,
           seen>>
  BY <1>1, <1>2, <1>3, <1>4 DEF release2, ReleaseRefs, header, places, executor, channel, foreign
<1>9. Balanced
  BY <1>4, <1>7, <1>8 DEF Balanced
<1>10. Exact'
  BY <1>1, <1>3, <1>7, <1>8, <1>9, Recount
<1>11. freed' => refs = 2
  BY <1>1, <1>2, <1>3, <1>4, Zenon DEF release2, ReleaseRefs
<1>12. Zeroed' /\ Relied'
  BY <1>1, <1>2, <1>3, <1>4, <1>8, <1>11 DEF Zeroed, Relied
<1>13. TlTypes'
  BY <1>1, <1>2, <1>3, <1>4, <1>6, <1>8
     DEF TlTypes, After, release2, ReleaseRefs, header, places, executor, channel, foreign
<1>14. Registered'
  BY <1>1, <1>2, <1>3, <1>4, <1>6
     DEF Registered, Has, Running, After, Ordered, SchedEnds, RunFrames, release2, ReleaseRefs,
         header, places, executor, channel, foreign
<1>15. Flagged'
  BY <1>1, <1>2, <1>3, <1>4, <1>6
     DEF Flagged, Has, Running, After, Ordered, SchedEnds, RunFrames, release2, ReleaseRefs,
         header, places, executor, channel, foreign
<1>16. Finished'
  BY <1>1, <1>2, <1>3, <1>4, <1>6, <1>5, <1>15
     DEF Finished, Registered, Flagged, Ended, Has, Running, After, Ordered, SchedEnds,
         RunFrames, release2, ReleaseRefs, header, places, executor, channel, foreign
<1>. QED
  BY <1>6, <1>10, <1>12, <1>13, <1>14, <1>15, <1>16 DEF TlInv, After

LEMMA Step_drop_waker == ASSUME TlInv, drop_waker PROVE TlInv'
<1>. DEFINE t == Tail(stack)
<1>1. TlTypes /\ Exact /\ Zeroed /\ Relied /\ Stacked /\ Registered /\ Flagged /\ Finished
  BY DEF TlInv
<1>2. Running("drop_waker", t)
  BY <1>1, TopFacts DEF drop_waker
<1>3. ForeignHeld \in Nat /\ InHand \in Nat /\ ForeignHeld' = ForeignHeld /\ InHand' = InHand
  BY <1>1, OutsideNat, OutsideSame DEF drop_waker, foreign
<1>4. refs \in Nat /\ runq \in Nat /\ ownerW \in Nat /\ chanWake \in Nat /\ chanCleanup \in Nat
  BY <1>1, <1>2, RefsInt, RefsNat DEF TlTypes
<1>5. CASE refs = 2 /\ active /\ Entered
  <2>1. stack' = Push("do_cleanup", Push("release", t))
    BY <1>2, <1>5 DEF drop_waker, Running, Return, Push
  <2>2. Fits("release", Members(t)) /\ Fits("do_cleanup", Members(t) \cup {"release"})
    BY <1>1, <1>2, <1>3, <1>4, <1>5
       DEF Running, Fits, Ordered, Leans, Names, Protecting, Bare, Neutral, SchedEnds, RunFrames,
           Holding
  <2>3. /\ After(Members(t) \cup {"do_cleanup", "release"},
             RefsOf(t) + Weight("do_cleanup") + Weight("release"))
        /\ Top' = "do_cleanup"
    BY <1>1, <1>2, <1>3, <1>4, <1>5, <2>1, <2>2, Push2 DEF Running
  <2>4. RefsOf(stack') = RefsOf(stack) /\ RefsOf(stack) \in Nat /\ RefsOf(stack') \in Nat
    BY <1>1, <1>2, <1>3, <1>4, <1>5, <2>3 DEF Running, After, Weight, Holding
  <2>5. /\ UNCHANGED <<refs, freed, registryRef, handle, runq, ownerW, chanWake, chanCleanup,
             fpc, foreignW, seen>>
    BY <1>1, <1>2, <1>3, <1>4, <1>5 DEF drop_waker, header, places, executor, channel, foreign
  <2>6. Balanced
    BY <1>4, <1>5, <2>4, <2>5 DEF Balanced
  <2>7. Exact'
    BY <1>1, <1>3, <2>4, <2>5, <2>6, Recount
  <2>8. Zeroed' /\ Relied'
    BY <1>1, <1>2, <1>3, <1>4, <1>5, <2>5 DEF Zeroed, Relied
  <2>9. TlTypes'
    BY <1>1, <1>2, <1>3, <1>4, <1>5, <2>3, <2>5
       DEF TlTypes, After, drop_waker, header, places, executor, channel, foreign
  <2>10. Registered'
    BY <1>1, <1>2, <1>3, <1>4, <1>5, <2>3
       DEF Registered, Has, Running, After, Ordered, SchedEnds, RunFrames, drop_waker, header,
           places, executor, channel, foreign
  <2>11. Flagged'
    BY <1>1, <1>2, <1>3, <1>4, <1>5, <2>3
       DEF Flagged, Has, Running, After, Ordered, SchedEnds, RunFrames, drop_waker, header,
           places, executor, channel, foreign
  <2>12. Finished'
    BY <1>1, <1>2, <1>3, <1>4, <1>5, <2>3, <2>11
       DEF Finished, Registered, Flagged, Ended, Has, Running, After, Ordered, SchedEnds,
           RunFrames, drop_waker, header, places, executor, channel, foreign
  <2>. QED
    BY <2>3, <2>7, <2>8, <2>9, <2>10, <2>11, <2>12 DEF TlInv, After
<1>6. CASE refs = 2 /\ active /\ ~Entered /\ Accepts
  <2>1. stack' = t
    BY <1>2, <1>6 DEF drop_waker, Running, Return
  <2>2. After(Members(t), RefsOf(t))
    BY <1>1, <1>2, <1>3, <1>4, <1>6, <2>1, Push0 DEF Running
  <2>3. RefsOf(stack') = RefsOf(stack) - 1 /\ RefsOf(stack) \in Nat /\ RefsOf(stack') \in Nat
    BY <1>1, <1>2, <1>3, <1>4, <1>6, <2>2 DEF Running, After, Weight, Holding
  <2>4. /\ chanCleanup' = chanCleanup + 1
        /\ UNCHANGED <<refs, freed, registryRef, handle, runq, ownerW, chanWake, fpc, foreignW,
             seen>>
    BY <1>1, <1>2, <1>3, <1>4, <1>6 DEF drop_waker, header, places, executor, channel, foreign
  <2>5. Balanced
    BY <1>4, <1>6, <2>3, <2>4 DEF Balanced
  <2>6. Exact'
    BY <1>1, <1>3, <2>3, <2>4, <2>5, Recount
  <2>7. Zeroed' /\ Relied'
    BY <1>1, <1>2, <1>3, <1>4, <1>6, <2>4 DEF Zeroed, Relied
  <2>8. TlTypes'
    BY <1>1, <1>2, <1>3, <1>4, <1>6, <2>2, <2>4
       DEF TlTypes, After, drop_waker, header, places, executor, channel, foreign
  <2>9. Registered'
    BY <1>1, <1>2, <1>3, <1>4, <1>6, <2>2
       DEF Registered, Has, Running, After, Ordered, SchedEnds, RunFrames, drop_waker, header,
           places, executor, channel, foreign
  <2>10. Flagged'
    BY <1>1, <1>2, <1>3, <1>4, <1>6, <2>2
       DEF Flagged, Has, Running, After, Ordered, SchedEnds, RunFrames, drop_waker, header,
           places, executor, channel, foreign
  <2>11. Finished'
    BY <1>1, <1>2, <1>3, <1>4, <1>6, <2>2, <2>1, <2>10
       DEF Finished, Registered, Flagged, Ended, Has, Running, After, Ordered, SchedEnds,
           RunFrames, drop_waker, header, places, executor, channel, foreign
  <2>. QED
    BY <2>2, <2>6, <2>7, <2>8, <2>9, <2>10, <2>11 DEF TlInv, After
<1>7. CASE ~(refs = 2 /\ active /\ (Entered \/ Accepts))
  <2>1. stack' = t
    BY <1>2, <1>7 DEF drop_waker, ReleaseRefs, Running, Return
  <2>2. After(Members(t), RefsOf(t))
    BY <1>1, <1>2, <1>3, <1>4, <1>7, <2>1, Push0 DEF Running
  <2>3. RefsOf(stack') = RefsOf(stack) - 1 /\ RefsOf(stack) \in Nat /\ RefsOf(stack') \in Nat
    BY <1>1, <1>2, <1>3, <1>4, <1>7, <2>2 DEF Running, After, Weight, Holding
  <2>4. /\ refs' = refs - 1
        /\ UNCHANGED <<registryRef, handle, runq, ownerW, chanWake, chanCleanup, fpc, foreignW,
             seen>>
    BY <1>1, <1>2, <1>3, <1>4, <1>7
       DEF drop_waker, ReleaseRefs, header, places, executor, channel, foreign
  <2>5. Balanced
    BY <1>4, <1>7, <2>3, <2>4 DEF Balanced
  <2>6. Exact'
    BY <1>1, <1>3, <2>3, <2>4, <2>5, Recount
  <2>7. freed' => refs = 1
    BY <1>1, <1>2, <1>3, <1>4, <1>7, Zenon DEF drop_waker, ReleaseRefs
  <2>8. Zeroed' /\ Relied'
    BY <1>1, <1>2, <1>3, <1>4, <1>7, <2>4, <2>7 DEF Zeroed, Relied
  <2>9. TlTypes'
    BY <1>1, <1>2, <1>3, <1>4, <1>7, <2>2, <2>4
       DEF TlTypes, After, drop_waker, ReleaseRefs, header, places, executor, channel, foreign
  <2>10. Registered'
    BY <1>1, <1>2, <1>3, <1>4, <1>7, <2>2
       DEF Registered, Has, Running, After, Ordered, SchedEnds, RunFrames, drop_waker,
           ReleaseRefs, header, places, executor, channel, foreign
  <2>11. Flagged'
    BY <1>1, <1>2, <1>3, <1>4, <1>7, <2>2
       DEF Flagged, Has, Running, After, Ordered, SchedEnds, RunFrames, drop_waker, ReleaseRefs,
           header, places, executor, channel, foreign
  <2>12. Finished'
    BY <1>1, <1>2, <1>3, <1>4, <1>7, <2>2, <2>1, <2>11
       DEF Finished, Registered, Flagged, Ended, Has, Running, After, Ordered, SchedEnds,
           RunFrames, drop_waker, ReleaseRefs, header, places, executor, channel, foreign
  <2>. QED
    BY <2>2, <2>6, <2>8, <2>9, <2>10, <2>11, <2>12 DEF TlInv, After
<1>. QED
  BY <1>5, <1>6, <1>7, <1>1 DEF drop_waker

LEMMA Step_finish == ASSUME TlInv, finish PROVE TlInv'
<1>. DEFINE t == Tail(stack)
<1>1. TlTypes /\ Exact /\ Zeroed /\ Relied /\ Stacked /\ Registered /\ Flagged /\ Finished
  BY DEF TlInv
<1>2. Running("finish", t)
  BY <1>1, TopFacts DEF finish
<1>3. ForeignHeld \in Nat /\ InHand \in Nat /\ ForeignHeld' = ForeignHeld /\ InHand' = InHand
  BY <1>1, OutsideNat, OutsideSame DEF finish, foreign
<1>4. refs \in Nat /\ runq \in Nat /\ ownerW \in Nat /\ chanWake \in Nat /\ chanCleanup \in Nat
  BY <1>1, <1>2, RefsInt, RefsNat DEF TlTypes
<1>5. CASE CanCleanup
  <2>1. registryRef
    BY <1>1, <1>2, <1>3, <1>4, <1>5 DEF CanCleanup, Registered
  <2>2. stack' = Push("release", t)
    BY <1>2, <1>5, <2>1 DEF finish, CleanupOwner, CanCleanup, Running, Return, Push
  <2>3. Fits("release", Members(t))
    BY <1>1, <1>2, <1>3, <1>4, <1>5, <2>1
       DEF Running, Fits, Ordered, Leans, Names, Protecting, Bare, Neutral, SchedEnds, RunFrames,
           Holding
  <2>4. After(Members(t) \cup {"release"}, RefsOf(t) + Weight("release")) /\ Top' = "release"
    BY <1>1, <1>2, <1>3, <1>4, <1>5, <2>1, <2>2, <2>3, Push1 DEF Running
  <2>5. RefsOf(stack') = RefsOf(stack) + 1 /\ RefsOf(stack) \in Nat /\ RefsOf(stack') \in Nat
    BY <1>1, <1>2, <1>3, <1>4, <1>5, <2>1, <2>4 DEF Running, After, Weight, Holding
  <2>6. /\ ~registryRef'
        /\ UNCHANGED <<refs, freed, handle, runq, ownerW, chanWake, chanCleanup, fpc, foreignW,
             seen>>
    BY <1>1, <1>2, <1>3, <1>4, <1>5, <2>1
       DEF finish, CleanupOwner, CanCleanup, header, places, executor, channel, foreign
  <2>7. Exact'
    BY <1>1, <1>2, <1>3, <1>4, <1>5, <2>1, <2>5, <2>6, CleanupCounts
  <2>8. Zeroed' /\ Relied'
    BY <1>1, <1>2, <1>3, <1>4, <1>5, <2>1, <2>6 DEF Zeroed, Relied
  <2>9. TlTypes'
    BY <1>1, <1>2, <1>3, <1>4, <1>5, <2>1, <2>4, <2>6
       DEF TlTypes, After, finish, CleanupOwner, CanCleanup, header, places, executor, channel,
           foreign
  <2>10. Registered'
    BY <1>1, <1>2, <1>3, <1>4, <1>5, <2>1, <2>4
       DEF Registered, Has, Running, After, Ordered, SchedEnds, RunFrames, finish, CleanupOwner,
           CanCleanup, header, places, executor, channel, foreign
  <2>11. Flagged'
    BY <1>1, <1>2, <1>3, <1>4, <1>5, <2>1, <2>4
       DEF Flagged, Has, Running, After, Ordered, SchedEnds, RunFrames, finish, CleanupOwner,
           CanCleanup, header, places, executor, channel, foreign
  <2>12. Finished'
    BY <1>1, <1>2, <1>3, <1>4, <1>5, <2>1, <2>4, <2>11
       DEF Finished, Registered, Flagged, Ended, Has, Running, After, Ordered, SchedEnds,
           RunFrames, finish, CleanupOwner, CanCleanup, header, places, executor, channel, foreign
  <2>. QED
    BY <2>4, <2>7, <2>8, <2>9, <2>10, <2>11, <2>12 DEF TlInv, After
<1>6. CASE ~CanCleanup
  <2>1. stack' = t
    BY <1>2, <1>6 DEF finish, Running, Return
  <2>2. After(Members(t), RefsOf(t))
    BY <1>1, <1>2, <1>3, <1>4, <1>6, <2>1, Push0 DEF Running
  <2>3. RefsOf(stack') = RefsOf(stack) /\ RefsOf(stack) \in Nat /\ RefsOf(stack') \in Nat
    BY <1>1, <1>2, <1>3, <1>4, <1>6, <2>2 DEF Running, After, Weight, Holding
  <2>4. /\ UNCHANGED <<refs, freed, registryRef, handle, runq, ownerW, chanWake, chanCleanup,
             fpc, foreignW, seen>>
    BY <1>1, <1>2, <1>3, <1>4, <1>6 DEF finish, header, places, executor, channel, foreign
  <2>5. Balanced
    BY <1>4, <1>6, <2>3, <2>4 DEF Balanced
  <2>6. Exact'
    BY <1>1, <1>3, <2>3, <2>4, <2>5, Recount
  <2>7. Zeroed' /\ Relied'
    BY <1>1, <1>2, <1>3, <1>4, <1>6, <2>4 DEF Zeroed, Relied
  <2>8. TlTypes'
    BY <1>1, <1>2, <1>3, <1>4, <1>6, <2>2, <2>4
       DEF TlTypes, After, finish, header, places, executor, channel, foreign
  <2>9. Registered'
    BY <1>1, <1>2, <1>3, <1>4, <1>6, <2>2
       DEF Registered, Has, Running, After, Ordered, SchedEnds, RunFrames, finish, header,
           places, executor, channel, foreign
  <2>10. Flagged'
    BY <1>1, <1>2, <1>3, <1>4, <1>6, <2>2
       DEF Flagged, Has, Running, After, Ordered, SchedEnds, RunFrames, finish, header, places,
           executor, channel, foreign
  <2>11. Finished'
    BY <1>1, <1>2, <1>3, <1>4, <1>6, <2>2, <2>1, <2>10
       DEF Finished, Registered, Flagged, Ended, Has, Running, After, Ordered, SchedEnds,
           RunFrames, finish, header, places, executor, channel, foreign
  <2>. QED
    BY <2>2, <2>6, <2>7, <2>8, <2>9, <2>10, <2>11 DEF TlInv, After
<1>. QED
  BY <1>5, <1>6, <1>1 DEF finish

LEMMA Step_drop_future == ASSUME TlInv, drop_future PROVE TlInv'
<1>. DEFINE t == Tail(stack)
<1>1. TlTypes /\ Exact /\ Zeroed /\ Relied /\ Stacked /\ Registered /\ Flagged /\ Finished
  BY DEF TlInv
<1>2. Running("drop_future", t)
  BY <1>1, TopFacts DEF drop_future, Has
<1>3. ForeignHeld \in Nat /\ InHand \in Nat /\ ForeignHeld' = ForeignHeld /\ InHand' = InHand
  BY <1>1, OutsideNat, OutsideSame DEF drop_future, foreign, Has
<1>4. refs \in Nat /\ runq \in Nat /\ ownerW \in Nat /\ chanWake \in Nat /\ chanCleanup \in Nat
  BY <1>1, <1>2, RefsInt, RefsNat DEF TlTypes
<1>5. CASE Has("FUTURE_DROPPED")
  <2>1. stack' = t
    BY <1>2, <1>5 DEF drop_future, Has, Running, Return
  <2>2. After(Members(t), RefsOf(t))
    BY <1>1, <1>2, <1>3, <1>4, <1>5, <2>1, Push0 DEF Running
  <2>3. RefsOf(stack') = RefsOf(stack) /\ RefsOf(stack) \in Nat /\ RefsOf(stack') \in Nat
    BY <1>1, <1>2, <1>3, <1>4, <1>5, <2>2 DEF Running, After, Weight, Holding
  <2>4. /\ UNCHANGED <<refs, freed, registryRef, handle, runq, ownerW, chanWake, chanCleanup,
             fpc, foreignW, seen>>
    BY <1>1, <1>2, <1>3, <1>4, <1>5
       DEF drop_future, Has, header, places, executor, channel, foreign
  <2>5. Balanced
    BY <1>4, <1>5, <2>3, <2>4 DEF Balanced
  <2>6. Exact'
    BY <1>1, <1>3, <2>3, <2>4, <2>5, Recount
  <2>7. Zeroed' /\ Relied'
    BY <1>1, <1>2, <1>3, <1>4, <1>5, <2>4 DEF Zeroed, Relied
  <2>8. TlTypes'
    BY <1>1, <1>2, <1>3, <1>4, <1>5, <2>2, <2>4
       DEF TlTypes, After, drop_future, Has, header, places, executor, channel, foreign
  <2>9. Registered'
    BY <1>1, <1>2, <1>3, <1>4, <1>5, <2>2
       DEF Registered, Has, Running, After, Ordered, SchedEnds, RunFrames, drop_future, Has,
           header, places, executor, channel, foreign
  <2>10. Flagged'
    BY <1>1, <1>2, <1>3, <1>4, <1>5, <2>2
       DEF Flagged, Has, Running, After, Ordered, SchedEnds, RunFrames, drop_future, Has, header,
           places, executor, channel, foreign
  <2>11. Finished'
    BY <1>1, <1>2, <1>3, <1>4, <1>5, <2>2, <2>1, <2>10
       DEF Finished, Registered, Flagged, Ended, Has, Running, After, Ordered, SchedEnds,
           RunFrames, drop_future, Has, header, places, executor, channel, foreign, Top
  <2>. QED
    BY <2>2, <2>6, <2>7, <2>8, <2>9, <2>10, <2>11 DEF TlInv, After
<1>6. CASE ~Has("FUTURE_DROPPED")
  <2>1. stack' = Push("dtor", t)
    BY <1>2, <1>6 DEF drop_future, Has, Running, Return, Push
  <2>2. Fits("dtor", Members(t))
    BY <1>1, <1>2, <1>3, <1>4, <1>6
       DEF Running, Fits, Ordered, Leans, Names, Protecting, Bare, Neutral, SchedEnds, RunFrames,
           Holding
  <2>3. After(Members(t) \cup {"dtor"}, RefsOf(t) + Weight("dtor")) /\ Top' = "dtor"
    BY <1>1, <1>2, <1>3, <1>4, <1>6, <2>1, <2>2, Push1 DEF Running
  <2>4. RefsOf(stack') = RefsOf(stack) /\ RefsOf(stack) \in Nat /\ RefsOf(stack') \in Nat
    BY <1>1, <1>2, <1>3, <1>4, <1>6, <2>3 DEF Running, After, Weight, Holding
  <2>5. /\ UNCHANGED <<refs, freed, registryRef, handle, runq, ownerW, chanWake, chanCleanup,
             fpc, foreignW, seen>>
    BY <1>1, <1>2, <1>3, <1>4, <1>6
       DEF drop_future, Has, header, places, executor, channel, foreign
  <2>6. Balanced
    BY <1>4, <1>6, <2>4, <2>5 DEF Balanced
  <2>7. Exact'
    BY <1>1, <1>3, <2>4, <2>5, <2>6, Recount
  <2>8. Zeroed' /\ Relied'
    BY <1>1, <1>2, <1>3, <1>4, <1>6, <2>5 DEF Zeroed, Relied
  <2>9. TlTypes'
    BY <1>1, <1>2, <1>3, <1>4, <1>6, <2>3, <2>5
       DEF TlTypes, After, drop_future, Has, header, places, executor, channel, foreign
  <2>10. Registered'
    BY <1>1, <1>2, <1>3, <1>4, <1>6, <2>3
       DEF Registered, Has, Running, After, Ordered, SchedEnds, RunFrames, drop_future, Has,
           header, places, executor, channel, foreign
  <2>11. Flagged'
    BY <1>1, <1>2, <1>3, <1>4, <1>6, <2>3
       DEF Flagged, Has, Running, After, Ordered, SchedEnds, RunFrames, drop_future, Has, header,
           places, executor, channel, foreign
  <2>12. Finished'
    BY <1>1, <1>2, <1>3, <1>4, <1>6, <2>3, <2>11
       DEF Finished, Registered, Flagged, Ended, Has, Running, After, Ordered, SchedEnds,
           RunFrames, drop_future, Has, header, places, executor, channel, foreign
  <2>. QED
    BY <2>3, <2>7, <2>8, <2>9, <2>10, <2>11, <2>12 DEF TlInv, After
<1>. QED
  BY <1>5, <1>6, <1>1 DEF drop_future, Has

LEMMA Step_close == ASSUME TlInv, close PROVE TlInv'
<1>. DEFINE t == Tail(stack)
<1>1. TlTypes /\ Exact /\ Zeroed /\ Relied /\ Stacked /\ Registered /\ Flagged /\ Finished
  BY DEF TlInv
<1>2. Running("close", t)
  BY <1>1, TopFacts DEF close, Has
<1>3. ForeignHeld \in Nat /\ InHand \in Nat /\ ForeignHeld' = ForeignHeld /\ InHand' = InHand
  BY <1>1, OutsideNat, OutsideSame DEF close, foreign, Has
<1>4. refs \in Nat /\ runq \in Nat /\ ownerW \in Nat /\ chanWake \in Nat /\ chanCleanup \in Nat
  BY <1>1, <1>2, RefsInt, RefsNat DEF TlTypes
<1>5. CASE Has("RUNNING")
  <2>1. stack' = t
    BY <1>2, <1>5 DEF close, Has, Running, Return
  <2>2. After(Members(t), RefsOf(t))
    BY <1>1, <1>2, <1>3, <1>4, <1>5, <2>1, Push0 DEF Running
  <2>3. RefsOf(stack') = RefsOf(stack) /\ RefsOf(stack) \in Nat /\ RefsOf(stack') \in Nat
    BY <1>1, <1>2, <1>3, <1>4, <1>5, <2>2 DEF Running, After, Weight, Holding
  <2>4. /\ UNCHANGED <<refs, freed, registryRef, handle, runq, ownerW, chanWake, chanCleanup,
             fpc, foreignW, seen>>
    BY <1>1, <1>2, <1>3, <1>4, <1>5 DEF close, Has, header, places, executor, channel, foreign
  <2>5. Balanced
    BY <1>4, <1>5, <2>3, <2>4 DEF Balanced
  <2>6. Exact'
    BY <1>1, <1>3, <2>3, <2>4, <2>5, Recount
  <2>7. Zeroed' /\ Relied'
    BY <1>1, <1>2, <1>3, <1>4, <1>5, <2>4 DEF Zeroed, Relied
  <2>8. TlTypes'
    BY <1>1, <1>2, <1>3, <1>4, <1>5, <2>2, <2>4
       DEF TlTypes, After, close, Has, header, places, executor, channel, foreign
  <2>9. Registered'
    BY <1>1, <1>2, <1>3, <1>4, <1>5, <2>2
       DEF Registered, Has, Running, After, Ordered, SchedEnds, RunFrames, close, Has, header,
           places, executor, channel, foreign
  <2>10. Flagged'
    BY <1>1, <1>2, <1>3, <1>4, <1>5, <2>2
       DEF Flagged, Has, Running, After, Ordered, SchedEnds, RunFrames, close, Has, header,
           places, executor, channel, foreign
  <2>11. Finished'
    BY <1>1, <1>2, <1>3, <1>4, <1>5, <2>2, <2>1, <2>10
       DEF Finished, Registered, Flagged, Ended, Has, Running, After, Ordered, SchedEnds,
           RunFrames, close, Has, header, places, executor, channel, foreign
  <2>. QED
    BY <2>2, <2>6, <2>7, <2>8, <2>9, <2>10, <2>11 DEF TlInv, After
<1>6. CASE ~Has("RUNNING")
  <2>1. stack' = Push("drop_future", Push("close_end", t))
    BY <1>2, <1>6 DEF close, Has, Running, Return, Push
  <2>2. Fits("close_end", Members(t)) /\ Fits("drop_future", Members(t) \cup {"close_end"})
    BY <1>1, <1>2, <1>3, <1>4, <1>6
       DEF Running, Fits, Ordered, Leans, Names, Protecting, Bare, Neutral, SchedEnds, RunFrames,
           Holding, close, Has, Registered, Flagged, Has, header, places, executor, channel,
           foreign
  <2>3. /\ After(Members(t) \cup {"drop_future", "close_end"},
             RefsOf(t) + Weight("drop_future") + Weight("close_end"))
        /\ Top' = "drop_future"
    BY <1>1, <1>2, <1>3, <1>4, <1>6, <2>1, <2>2, Push2 DEF Running
  <2>4. RefsOf(stack') = RefsOf(stack) /\ RefsOf(stack) \in Nat /\ RefsOf(stack') \in Nat
    BY <1>1, <1>2, <1>3, <1>4, <1>6, <2>3 DEF Running, After, Weight, Holding
  <2>5. /\ UNCHANGED <<refs, freed, registryRef, handle, runq, ownerW, chanWake, chanCleanup,
             fpc, foreignW, seen>>
    BY <1>1, <1>2, <1>3, <1>4, <1>6 DEF close, Has, header, places, executor, channel, foreign
  <2>6. Balanced
    BY <1>4, <1>6, <2>4, <2>5 DEF Balanced
  <2>7. Exact'
    BY <1>1, <1>3, <2>4, <2>5, <2>6, Recount
  <2>8. Zeroed' /\ Relied'
    BY <1>1, <1>2, <1>3, <1>4, <1>6, <2>5 DEF Zeroed, Relied
  <2>9. TlTypes'
    BY <1>1, <1>2, <1>3, <1>4, <1>6, <2>3, <2>5
       DEF TlTypes, After, close, Has, header, places, executor, channel, foreign
  <2>10. Registered'
    BY <1>1, <1>2, <1>3, <1>4, <1>6, <2>3
       DEF Registered, Has, Running, After, Ordered, SchedEnds, RunFrames, close, Has, header,
           places, executor, channel, foreign
  <2>11. Flagged'
    BY <1>1, <1>2, <1>3, <1>4, <1>6, <2>3
       DEF Flagged, Has, Running, After, Ordered, SchedEnds, RunFrames, close, Has, header,
           places, executor, channel, foreign
  <2>12. /\ Tail(stack') = Push("close_end", t) /\ Tail(stack') # <<>>
         /\ Head(Tail(stack')) = "close_end"
    BY <1>1, <1>2, <1>3, <1>4, <1>6, <2>1 DEF Running, Push
  <2>13. Finished'
    BY <1>1, <1>2, <1>3, <1>4, <1>6, <2>3, <2>11, <2>12
       DEF Finished, Registered, Flagged, Ended, Has, Running, After, Ordered, SchedEnds,
           RunFrames, close, Has, header, places, executor, channel, foreign
  <2>. QED
    BY <2>3, <2>7, <2>8, <2>9, <2>10, <2>11, <2>13 DEF TlInv, After
<1>. QED
  BY <1>5, <1>6, <1>1 DEF close, Has

LEMMA Step_close_end == ASSUME TlInv, close_end PROVE TlInv'
<1>. DEFINE t == Tail(stack)
<1>1. TlTypes /\ Exact /\ Zeroed /\ Relied /\ Stacked /\ Registered /\ Flagged /\ Finished
  BY DEF TlInv
<1>2. Running("close_end", t)
  BY <1>1, TopFacts DEF close_end, StopRunning
<1>3. ForeignHeld \in Nat /\ InHand \in Nat /\ ForeignHeld' = ForeignHeld /\ InHand' = InHand
  BY <1>1, OutsideNat, OutsideSame DEF close_end, foreign, StopRunning
<1>4. refs \in Nat /\ runq \in Nat /\ ownerW \in Nat /\ chanWake \in Nat /\ chanCleanup \in Nat
  BY <1>1, <1>2, RefsInt, RefsNat DEF TlTypes
<1>5. stack' = t
  BY <1>2 DEF close_end, StopRunning, Running, Return
<1>6. After(Members(t), RefsOf(t))
  BY <1>1, <1>2, <1>3, <1>4, <1>5, Push0 DEF Running
<1>7. RefsOf(stack') = RefsOf(stack) /\ RefsOf(stack) \in Nat /\ RefsOf(stack') \in Nat
  BY <1>1, <1>2, <1>3, <1>4, <1>6 DEF Running, After, Weight, Holding
<1>8. /\ UNCHANGED <<refs, freed, registryRef, handle, runq, ownerW, chanWake, chanCleanup, fpc,
           foreignW, seen>>
  BY <1>1, <1>2, <1>3, <1>4 DEF close_end, StopRunning, header, places, executor, channel, foreign
<1>9. Balanced
  BY <1>4, <1>7, <1>8 DEF Balanced
<1>10. Exact'
  BY <1>1, <1>3, <1>7, <1>8, <1>9, Recount
<1>11. Zeroed' /\ Relied'
  BY <1>1, <1>2, <1>3, <1>4, <1>8 DEF Zeroed, Relied
<1>12. TlTypes'
  BY <1>1, <1>2, <1>3, <1>4, <1>6, <1>8
     DEF TlTypes, After, close_end, StopRunning, header, places, executor, channel, foreign
<1>13. Registered'
  BY <1>1, <1>2, <1>3, <1>4, <1>6
     DEF Registered, Has, Running, After, Ordered, SchedEnds, RunFrames, close_end, StopRunning,
         header, places, executor, channel, foreign
<1>14. Flagged'
  BY <1>1, <1>2, <1>3, <1>4, <1>6
     DEF Flagged, Has, Running, After, Ordered, SchedEnds, RunFrames, close_end, StopRunning,
         header, places, executor, channel, foreign
<1>15. Finished'
  BY <1>1, <1>2, <1>3, <1>4, <1>6, <1>5, <1>14
     DEF Finished, Registered, Flagged, Ended, Has, Running, After, Ordered, SchedEnds,
         RunFrames, close_end, StopRunning, header, places, executor, channel, foreign
<1>. QED
  BY <1>6, <1>10, <1>11, <1>12, <1>13, <1>14, <1>15 DEF TlInv, After

LEMMA Step_pending_closed_end == ASSUME TlInv, pending_closed_end PROVE TlInv'
<1>. DEFINE t == Tail(stack)
<1>1. TlTypes /\ Exact /\ Zeroed /\ Relied /\ Stacked /\ Registered /\ Flagged /\ Finished
  BY DEF TlInv
<1>2. Running("pending_closed_end", t)
  BY <1>1, TopFacts DEF pending_closed_end, StopRunning
<1>3. ForeignHeld \in Nat /\ InHand \in Nat /\ ForeignHeld' = ForeignHeld /\ InHand' = InHand
  BY <1>1, OutsideNat, OutsideSame DEF pending_closed_end, foreign, StopRunning
<1>4. refs \in Nat /\ runq \in Nat /\ ownerW \in Nat /\ chanWake \in Nat /\ chanCleanup \in Nat
  BY <1>1, <1>2, RefsInt, RefsNat DEF TlTypes
<1>5. stack' = t
  BY <1>2 DEF pending_closed_end, StopRunning, Running, Return
<1>6. After(Members(t), RefsOf(t))
  BY <1>1, <1>2, <1>3, <1>4, <1>5, Push0 DEF Running
<1>7. RefsOf(stack') = RefsOf(stack) /\ RefsOf(stack) \in Nat /\ RefsOf(stack') \in Nat
  BY <1>1, <1>2, <1>3, <1>4, <1>6 DEF Running, After, Weight, Holding
<1>8. /\ UNCHANGED <<refs, freed, registryRef, handle, runq, ownerW, chanWake, chanCleanup, fpc,
           foreignW, seen>>
  BY <1>1, <1>2, <1>3, <1>4
     DEF pending_closed_end, StopRunning, header, places, executor, channel, foreign
<1>9. Balanced
  BY <1>4, <1>7, <1>8 DEF Balanced
<1>10. Exact'
  BY <1>1, <1>3, <1>7, <1>8, <1>9, Recount
<1>11. Zeroed' /\ Relied'
  BY <1>1, <1>2, <1>3, <1>4, <1>8 DEF Zeroed, Relied
<1>12. TlTypes'
  BY <1>1, <1>2, <1>3, <1>4, <1>6, <1>8
     DEF TlTypes, After, pending_closed_end, StopRunning, header, places, executor, channel,
         foreign
<1>13. Registered'
  BY <1>1, <1>2, <1>3, <1>4, <1>6
     DEF Registered, Has, Running, After, Ordered, SchedEnds, RunFrames, pending_closed_end,
         StopRunning, header, places, executor, channel, foreign
<1>14. Flagged'
  BY <1>1, <1>2, <1>3, <1>4, <1>6
     DEF Flagged, Has, Running, After, Ordered, SchedEnds, RunFrames, pending_closed_end,
         StopRunning, header, places, executor, channel, foreign
<1>15. Finished'
  BY <1>1, <1>2, <1>3, <1>4, <1>6, <1>5, <1>14
     DEF Finished, Registered, Flagged, Ended, Has, Running, After, Ordered, SchedEnds,
         RunFrames, pending_closed_end, StopRunning, header, places, executor, channel, foreign
<1>. QED
  BY <1>6, <1>10, <1>11, <1>12, <1>13, <1>14, <1>15 DEF TlInv, After

LEMMA Step_ready_end == ASSUME TlInv, ready_end PROVE TlInv'
<1>. DEFINE t == Tail(stack)
<1>1. TlTypes /\ Exact /\ Zeroed /\ Relied /\ Stacked /\ Registered /\ Flagged /\ Finished
  BY DEF TlInv
<1>2. Running("ready_end", t)
  BY <1>1, TopFacts DEF ready_end, StopRunning
<1>3. ForeignHeld \in Nat /\ InHand \in Nat /\ ForeignHeld' = ForeignHeld /\ InHand' = InHand
  BY <1>1, OutsideNat, OutsideSame DEF ready_end, foreign, StopRunning
<1>4. refs \in Nat /\ runq \in Nat /\ ownerW \in Nat /\ chanWake \in Nat /\ chanCleanup \in Nat
  BY <1>1, <1>2, RefsInt, RefsNat DEF TlTypes
<1>5. stack' = t
  BY <1>2 DEF ready_end, StopRunning, Running, Return
<1>6. After(Members(t), RefsOf(t))
  BY <1>1, <1>2, <1>3, <1>4, <1>5, Push0 DEF Running
<1>7. RefsOf(stack') = RefsOf(stack) /\ RefsOf(stack) \in Nat /\ RefsOf(stack') \in Nat
  BY <1>1, <1>2, <1>3, <1>4, <1>6 DEF Running, After, Weight, Holding
<1>8. /\ UNCHANGED <<refs, freed, registryRef, handle, runq, ownerW, chanWake, chanCleanup, fpc,
           foreignW, seen>>
  BY <1>1, <1>2, <1>3, <1>4 DEF ready_end, StopRunning, header, places, executor, channel, foreign
<1>9. Balanced
  BY <1>4, <1>7, <1>8 DEF Balanced
<1>10. Exact'
  BY <1>1, <1>3, <1>7, <1>8, <1>9, Recount
<1>11. Zeroed' /\ Relied'
  BY <1>1, <1>2, <1>3, <1>4, <1>8 DEF Zeroed, Relied
<1>12. TlTypes'
  BY <1>1, <1>2, <1>3, <1>4, <1>6, <1>8
     DEF TlTypes, After, ready_end, StopRunning, header, places, executor, channel, foreign
<1>13. Registered'
  BY <1>1, <1>2, <1>3, <1>4, <1>6
     DEF Registered, Has, Running, After, Ordered, SchedEnds, RunFrames, ready_end, StopRunning,
         header, places, executor, channel, foreign
<1>14. Flagged'
  BY <1>1, <1>2, <1>3, <1>4, <1>6
     DEF Flagged, Has, Running, After, Ordered, SchedEnds, RunFrames, ready_end, StopRunning,
         header, places, executor, channel, foreign
<1>15. Finished'
  BY <1>1, <1>2, <1>3, <1>4, <1>6, <1>5, <1>14
     DEF Finished, Registered, Flagged, Ended, Has, Running, After, Ordered, SchedEnds,
         RunFrames, ready_end, StopRunning, header, places, executor, channel, foreign
<1>. QED
  BY <1>6, <1>10, <1>11, <1>12, <1>13, <1>14, <1>15 DEF TlInv, After

LEMMA Step_shutdown == ASSUME TlInv, shutdown PROVE TlInv'
<1>. DEFINE t == Tail(stack)
<1>1. TlTypes /\ Exact /\ Zeroed /\ Relied /\ Stacked /\ Registered /\ Flagged /\ Finished
  BY DEF TlInv
<1>2. Running("shutdown", t)
  BY <1>1, TopFacts DEF shutdown
<1>3. ForeignHeld \in Nat /\ InHand \in Nat /\ ForeignHeld' = ForeignHeld /\ InHand' = InHand
  BY <1>1, OutsideNat, OutsideSame DEF shutdown, foreign
<1>4. refs \in Nat /\ runq \in Nat /\ ownerW \in Nat /\ chanWake \in Nat /\ chanCleanup \in Nat
  BY <1>1, <1>2, RefsInt, RefsNat DEF TlTypes
<1>5. refs > 0
  BY <1>1, <1>2, BareAlive DEF Bare
<1>6. stack' = Push("close", Push("finish", Push("release", t)))
  BY <1>2, <1>5 DEF shutdown, DropTask, Running, Return, Push
<1>7. /\ Fits("release", Members(t)) /\ Fits("finish", Members(t) \cup {"release"})
      /\ Fits("close", Members(t) \cup {"finish", "release"})
  BY <1>1, <1>2, <1>3, <1>4, <1>5
     DEF Running, Fits, Ordered, Leans, Names, Protecting, Bare, Neutral, SchedEnds, RunFrames,
         Holding
<1>8. /\ After(Members(t) \cup {"close", "finish", "release"},
           RefsOf(t) + Weight("close") + Weight("finish") + Weight("release"))
      /\ Top' = "close"
  BY <1>1, <1>2, <1>3, <1>4, <1>5, <1>6, <1>7, Push3 DEF Running
<1>9. RefsOf(stack') = RefsOf(stack) + 1 /\ RefsOf(stack) \in Nat /\ RefsOf(stack') \in Nat
  BY <1>1, <1>2, <1>3, <1>4, <1>5, <1>8 DEF Running, After, Weight, Holding
<1>10. /\ refs' = refs + 1
       /\ UNCHANGED <<freed, registryRef, handle, runq, ownerW, chanWake, chanCleanup, fpc,
            foreignW, seen>>
  BY <1>1, <1>2, <1>3, <1>4, <1>5
     DEF shutdown, DropTask, header, places, executor, channel, foreign
<1>11. Balanced
  BY <1>4, <1>9, <1>10 DEF Balanced
<1>12. Exact'
  BY <1>1, <1>3, <1>9, <1>10, <1>11, Recount
<1>13. Zeroed' /\ Relied'
  BY <1>1, <1>2, <1>3, <1>4, <1>5, <1>10 DEF Zeroed, Relied
<1>14. TlTypes'
  BY <1>1, <1>2, <1>3, <1>4, <1>5, <1>8, <1>10
     DEF TlTypes, After, shutdown, DropTask, header, places, executor, channel, foreign
<1>15. Registered'
  BY <1>1, <1>2, <1>3, <1>4, <1>5, <1>8
     DEF Registered, Has, Running, After, Ordered, SchedEnds, RunFrames, shutdown, DropTask,
         header, places, executor, channel, foreign
<1>16. Flagged'
  BY <1>1, <1>2, <1>3, <1>4, <1>5, <1>8
     DEF Flagged, Has, Running, After, Ordered, SchedEnds, RunFrames, shutdown, DropTask, header,
         places, executor, channel, foreign
<1>17. Finished'
  BY <1>1, <1>2, <1>3, <1>4, <1>5, <1>8, <1>16
     DEF Finished, Registered, Flagged, Ended, Has, Running, After, Ordered, SchedEnds,
         RunFrames, shutdown, DropTask, header, places, executor, channel, foreign
<1>. QED
  BY <1>8, <1>12, <1>13, <1>14, <1>15, <1>16, <1>17 DEF TlInv, After

LEMMA Step_notify == ASSUME TlInv, notify PROVE TlInv'
<1>. DEFINE t == Tail(stack)
<1>1. TlTypes /\ Exact /\ Zeroed /\ Relied /\ Stacked /\ Registered /\ Flagged /\ Finished
  BY DEF TlInv
<1>2. Running("notify", t)
  BY <1>1, TopFacts DEF notify
<1>3. ForeignHeld \in Nat /\ InHand \in Nat /\ ForeignHeld' = ForeignHeld /\ InHand' = InHand
  BY <1>1, OutsideNat, OutsideSame DEF notify, foreign
<1>4. refs \in Nat /\ runq \in Nat /\ ownerW \in Nat /\ chanWake \in Nat /\ chanCleanup \in Nat
  BY <1>1, <1>2, RefsInt, RefsNat DEF TlTypes
<1>5. stack' = t
  BY <1>2 DEF notify, Running, Return
<1>6. After(Members(t), RefsOf(t))
  BY <1>1, <1>2, <1>3, <1>4, <1>5, Push0 DEF Running
<1>7. RefsOf(stack') = RefsOf(stack) /\ RefsOf(stack) \in Nat /\ RefsOf(stack') \in Nat
  BY <1>1, <1>2, <1>3, <1>4, <1>6 DEF Running, After, Weight, Holding
<1>8. /\ UNCHANGED <<refs, freed, registryRef, handle, runq, ownerW, chanWake, chanCleanup, fpc,
           foreignW, seen>>
  BY <1>1, <1>2, <1>3, <1>4 DEF notify, header, places, executor, channel, foreign
<1>9. Balanced
  BY <1>4, <1>7, <1>8 DEF Balanced
<1>10. Exact'
  BY <1>1, <1>3, <1>7, <1>8, <1>9, Recount
<1>11. Zeroed' /\ Relied'
  BY <1>1, <1>2, <1>3, <1>4, <1>8 DEF Zeroed, Relied
<1>12. TlTypes'
  BY <1>1, <1>2, <1>3, <1>4, <1>6, <1>8
     DEF TlTypes, After, notify, header, places, executor, channel, foreign
<1>13. Registered'
  BY <1>1, <1>2, <1>3, <1>4, <1>6
     DEF Registered, Has, Running, After, Ordered, SchedEnds, RunFrames, notify, header, places,
         executor, channel, foreign
<1>14. Flagged'
  BY <1>1, <1>2, <1>3, <1>4, <1>6
     DEF Flagged, Has, Running, After, Ordered, SchedEnds, RunFrames, notify, header, places,
         executor, channel, foreign
<1>15. Finished'
  BY <1>1, <1>2, <1>3, <1>4, <1>6, <1>5, <1>14
     DEF Finished, Registered, Flagged, Ended, Has, Running, After, Ordered, SchedEnds,
         RunFrames, notify, header, places, executor, channel, foreign
<1>. QED
  BY <1>6, <1>10, <1>11, <1>12, <1>13, <1>14, <1>15 DEF TlInv, After

LEMMA Step_in_place_end == ASSUME TlInv, in_place_end PROVE TlInv'
<1>. DEFINE t == Tail(stack)
<1>1. TlTypes /\ Exact /\ Zeroed /\ Relied /\ Stacked /\ Registered /\ Flagged /\ Finished
  BY DEF TlInv
<1>2. Running("in_place_end", t)
  BY <1>1, TopFacts DEF in_place_end
<1>3. ForeignHeld \in Nat /\ InHand \in Nat /\ ForeignHeld' = ForeignHeld /\ InHand' = InHand
  BY <1>1, OutsideNat, OutsideSame DEF in_place_end, foreign
<1>4. refs \in Nat /\ runq \in Nat /\ ownerW \in Nat /\ chanWake \in Nat /\ chanCleanup \in Nat
  BY <1>1, <1>2, RefsInt, RefsNat DEF TlTypes
<1>5. stack' = t
  BY <1>2 DEF in_place_end, Running, Return
<1>6. After(Members(t), RefsOf(t))
  BY <1>1, <1>2, <1>3, <1>4, <1>5, Push0 DEF Running
<1>7. RefsOf(stack') = RefsOf(stack) /\ RefsOf(stack) \in Nat /\ RefsOf(stack') \in Nat
  BY <1>1, <1>2, <1>3, <1>4, <1>6 DEF Running, After, Weight, Holding
<1>8. /\ UNCHANGED <<refs, freed, registryRef, handle, runq, ownerW, chanWake, chanCleanup, fpc,
           foreignW, seen>>
  BY <1>1, <1>2, <1>3, <1>4 DEF in_place_end, header, places, executor, channel, foreign
<1>9. Balanced
  BY <1>4, <1>7, <1>8 DEF Balanced
<1>10. Exact'
  BY <1>1, <1>3, <1>7, <1>8, <1>9, Recount
<1>11. Zeroed' /\ Relied'
  BY <1>1, <1>2, <1>3, <1>4, <1>8 DEF Zeroed, Relied
<1>12. TlTypes'
  BY <1>1, <1>2, <1>3, <1>4, <1>6, <1>8
     DEF TlTypes, After, in_place_end, header, places, executor, channel, foreign
<1>13. Registered'
  BY <1>1, <1>2, <1>3, <1>4, <1>6
     DEF Registered, Has, Running, After, Ordered, SchedEnds, RunFrames, in_place_end, header,
         places, executor, channel, foreign
<1>14. Flagged'
  BY <1>1, <1>2, <1>3, <1>4, <1>6
     DEF Flagged, Has, Running, After, Ordered, SchedEnds, RunFrames, in_place_end, header,
         places, executor, channel, foreign
<1>15. Finished'
  BY <1>1, <1>2, <1>3, <1>4, <1>6, <1>5, <1>14
     DEF Finished, Registered, Flagged, Ended, Has, Running, After, Ordered, SchedEnds,
         RunFrames, in_place_end, header, places, executor, channel, foreign
<1>. QED
  BY <1>6, <1>10, <1>11, <1>12, <1>13, <1>14, <1>15 DEF TlInv, After

LEMMA Step_do_cleanup == ASSUME TlInv, do_cleanup PROVE TlInv'
<1>. DEFINE t == Tail(stack)
<1>1. TlTypes /\ Exact /\ Zeroed /\ Relied /\ Stacked /\ Registered /\ Flagged /\ Finished
  BY DEF TlInv
<1>2. Running("do_cleanup", t)
  BY <1>1, TopFacts DEF do_cleanup
<1>3. ForeignHeld \in Nat /\ InHand \in Nat /\ ForeignHeld' = ForeignHeld /\ InHand' = InHand
  BY <1>1, OutsideNat, OutsideSame DEF do_cleanup, foreign
<1>4. refs \in Nat /\ runq \in Nat /\ ownerW \in Nat /\ chanWake \in Nat /\ chanCleanup \in Nat
  BY <1>1, <1>2, RefsInt, RefsNat DEF TlTypes
<1>5. CASE active /\ st \cap {"HANDLE", "SCHEDULED", "RUNNING"} = {} /\ refs = 2
  <2>1. stack' = Push("cancel", t)
    BY <1>2, <1>5 DEF do_cleanup, Running, Return, Push
  <2>2. Fits("cancel", Members(t))
    BY <1>1, <1>2, <1>3, <1>4, <1>5
       DEF Running, Fits, Ordered, Leans, Names, Protecting, Bare, Neutral, SchedEnds, RunFrames,
           Holding
  <2>3. After(Members(t) \cup {"cancel"}, RefsOf(t) + Weight("cancel")) /\ Top' = "cancel"
    BY <1>1, <1>2, <1>3, <1>4, <1>5, <2>1, <2>2, Push1 DEF Running
  <2>4. RefsOf(stack') = RefsOf(stack) /\ RefsOf(stack) \in Nat /\ RefsOf(stack') \in Nat
    BY <1>1, <1>2, <1>3, <1>4, <1>5, <2>3 DEF Running, After, Weight, Holding
  <2>5. /\ UNCHANGED <<refs, freed, registryRef, handle, runq, ownerW, chanWake, chanCleanup,
             fpc, foreignW, seen>>
    BY <1>1, <1>2, <1>3, <1>4, <1>5 DEF do_cleanup, header, places, executor, channel, foreign
  <2>6. Balanced
    BY <1>4, <1>5, <2>4, <2>5 DEF Balanced
  <2>7. Exact'
    BY <1>1, <1>3, <2>4, <2>5, <2>6, Recount
  <2>8. Zeroed' /\ Relied'
    BY <1>1, <1>2, <1>3, <1>4, <1>5, <2>5 DEF Zeroed, Relied
  <2>9. TlTypes'
    BY <1>1, <1>2, <1>3, <1>4, <1>5, <2>3, <2>5
       DEF TlTypes, After, do_cleanup, header, places, executor, channel, foreign
  <2>10. Registered'
    BY <1>1, <1>2, <1>3, <1>4, <1>5, <2>3
       DEF Registered, Has, Running, After, Ordered, SchedEnds, RunFrames, do_cleanup, header,
           places, executor, channel, foreign
  <2>11. Flagged'
    BY <1>1, <1>2, <1>3, <1>4, <1>5, <2>3
       DEF Flagged, Has, Running, After, Ordered, SchedEnds, RunFrames, do_cleanup, header,
           places, executor, channel, foreign
  <2>12. Finished'
    BY <1>1, <1>2, <1>3, <1>4, <1>5, <2>3, <2>11
       DEF Finished, Registered, Flagged, Ended, Has, Running, After, Ordered, SchedEnds,
           RunFrames, do_cleanup, header, places, executor, channel, foreign
  <2>. QED
    BY <2>3, <2>7, <2>8, <2>9, <2>10, <2>11, <2>12 DEF TlInv, After
<1>6. CASE ~(active /\ st \cap {"HANDLE", "SCHEDULED", "RUNNING"} = {} /\ refs = 2)
  <2>1. stack' = t
    BY <1>2, <1>6 DEF do_cleanup, Running, Return
  <2>2. After(Members(t), RefsOf(t))
    BY <1>1, <1>2, <1>3, <1>4, <1>6, <2>1, Push0 DEF Running
  <2>3. RefsOf(stack') = RefsOf(stack) /\ RefsOf(stack) \in Nat /\ RefsOf(stack') \in Nat
    BY <1>1, <1>2, <1>3, <1>4, <1>6, <2>2 DEF Running, After, Weight, Holding
  <2>4. /\ UNCHANGED <<refs, freed, registryRef, handle, runq, ownerW, chanWake, chanCleanup,
             fpc, foreignW, seen>>
    BY <1>1, <1>2, <1>3, <1>4, <1>6 DEF do_cleanup, header, places, executor, channel, foreign
  <2>5. Balanced
    BY <1>4, <1>6, <2>3, <2>4 DEF Balanced
  <2>6. Exact'
    BY <1>1, <1>3, <2>3, <2>4, <2>5, Recount
  <2>7. Zeroed' /\ Relied'
    BY <1>1, <1>2, <1>3, <1>4, <1>6, <2>4 DEF Zeroed, Relied
  <2>8. TlTypes'
    BY <1>1, <1>2, <1>3, <1>4, <1>6, <2>2, <2>4
       DEF TlTypes, After, do_cleanup, header, places, executor, channel, foreign
  <2>9. Registered'
    BY <1>1, <1>2, <1>3, <1>4, <1>6, <2>2
       DEF Registered, Has, Running, After, Ordered, SchedEnds, RunFrames, do_cleanup, header,
           places, executor, channel, foreign
  <2>10. Flagged'
    BY <1>1, <1>2, <1>3, <1>4, <1>6, <2>2
       DEF Flagged, Has, Running, After, Ordered, SchedEnds, RunFrames, do_cleanup, header,
           places, executor, channel, foreign
  <2>11. Finished'
    BY <1>1, <1>2, <1>3, <1>4, <1>6, <2>2, <2>1, <2>10
       DEF Finished, Registered, Flagged, Ended, Has, Running, After, Ordered, SchedEnds,
           RunFrames, do_cleanup, header, places, executor, channel, foreign
  <2>. QED
    BY <2>2, <2>6, <2>7, <2>8, <2>9, <2>10, <2>11 DEF TlInv, After
<1>. QED
  BY <1>5, <1>6, <1>1 DEF do_cleanup

LEMMA Step_push == ASSUME TlInv, push PROVE TlInv'
<1>. DEFINE t == Tail(stack)
<1>1. TlTypes /\ Exact /\ Zeroed /\ Relied /\ Stacked /\ Registered /\ Flagged /\ Finished
  BY DEF TlInv
<1>2. Running("push", t)
  BY <1>1, TopFacts DEF push
<1>3. ForeignHeld \in Nat /\ InHand \in Nat /\ ForeignHeld' = ForeignHeld /\ InHand' = InHand
  BY <1>1, OutsideNat, OutsideSame DEF push, foreign
<1>4. refs \in Nat /\ runq \in Nat /\ ownerW \in Nat /\ chanWake \in Nat /\ chanCleanup \in Nat
  BY <1>1, <1>2, RefsInt, RefsNat DEF TlTypes
<1>5. stack' = t
  BY <1>2 DEF push, Running, Return
<1>6. After(Members(t), RefsOf(t))
  BY <1>1, <1>2, <1>3, <1>4, <1>5, Push0 DEF Running
<1>7. RefsOf(stack') = RefsOf(stack) - 1 /\ RefsOf(stack) \in Nat /\ RefsOf(stack') \in Nat
  BY <1>1, <1>2, <1>3, <1>4, <1>6 DEF Running, After, Weight, Holding
<1>8. /\ runq' = runq + 1
      /\ UNCHANGED <<refs, freed, registryRef, handle, ownerW, chanWake, chanCleanup, fpc,
           foreignW, seen>>
  BY <1>1, <1>2, <1>3, <1>4 DEF push, header, places, executor, channel, foreign
<1>9. Balanced
  BY <1>4, <1>7, <1>8 DEF Balanced
<1>10. Exact'
  BY <1>1, <1>3, <1>7, <1>8, <1>9, Recount
<1>11. Zeroed' /\ Relied'
  BY <1>1, <1>2, <1>3, <1>4, <1>8 DEF Zeroed, Relied
<1>12. TlTypes'
  BY <1>1, <1>2, <1>3, <1>4, <1>6, <1>8
     DEF TlTypes, After, push, header, places, executor, channel, foreign
<1>13. Registered'
  BY <1>1, <1>2, <1>3, <1>4, <1>6
     DEF Registered, Has, Running, After, Ordered, SchedEnds, RunFrames, push, header, places,
         executor, channel, foreign
<1>14. Flagged'
  BY <1>1, <1>2, <1>3, <1>4, <1>6
     DEF Flagged, Has, Running, After, Ordered, SchedEnds, RunFrames, push, header, places,
         executor, channel, foreign
<1>15. Finished'
  BY <1>1, <1>2, <1>3, <1>4, <1>6, <1>5, <1>14
     DEF Finished, Registered, Flagged, Ended, Has, Running, After, Ordered, SchedEnds,
         RunFrames, push, header, places, executor, channel, foreign
<1>. QED
  BY <1>6, <1>10, <1>11, <1>12, <1>13, <1>14, <1>15 DEF TlInv, After

LEMMA Step_unborrow == ASSUME TlInv, unborrow PROVE TlInv'
<1>. DEFINE t == Tail(stack)
<1>1. TlTypes /\ Exact /\ Zeroed /\ Relied /\ Stacked /\ Registered /\ Flagged /\ Finished
  BY DEF TlInv
<1>2. Running("unborrow", t)
  BY <1>1, TopFacts DEF unborrow
<1>3. ForeignHeld \in Nat /\ InHand \in Nat /\ ForeignHeld' = ForeignHeld /\ InHand' = InHand
  BY <1>1, OutsideNat, OutsideSame DEF unborrow, foreign
<1>4. refs \in Nat /\ runq \in Nat /\ ownerW \in Nat /\ chanWake \in Nat /\ chanCleanup \in Nat
  BY <1>1, <1>2, RefsInt, RefsNat DEF TlTypes
<1>5. stack' = t
  BY <1>2 DEF unborrow, Running, Return
<1>6. After(Members(t), RefsOf(t))
  BY <1>1, <1>2, <1>3, <1>4, <1>5, Push0 DEF Running
<1>7. RefsOf(stack') = RefsOf(stack) /\ RefsOf(stack) \in Nat /\ RefsOf(stack') \in Nat
  BY <1>1, <1>2, <1>3, <1>4, <1>6 DEF Running, After, Weight, Holding
<1>8. /\ UNCHANGED <<refs, freed, registryRef, handle, runq, ownerW, chanWake, chanCleanup, fpc,
           foreignW, seen>>
  BY <1>1, <1>2, <1>3, <1>4 DEF unborrow, header, places, executor, channel, foreign
<1>9. Balanced
  BY <1>4, <1>7, <1>8 DEF Balanced
<1>10. Exact'
  BY <1>1, <1>3, <1>7, <1>8, <1>9, Recount
<1>11. Zeroed' /\ Relied'
  BY <1>1, <1>2, <1>3, <1>4, <1>8 DEF Zeroed, Relied
<1>12. TlTypes'
  BY <1>1, <1>2, <1>3, <1>4, <1>6, <1>8
     DEF TlTypes, After, unborrow, header, places, executor, channel, foreign
<1>13. Registered'
  BY <1>1, <1>2, <1>3, <1>4, <1>6
     DEF Registered, Has, Running, After, Ordered, SchedEnds, RunFrames, unborrow, header,
         places, executor, channel, foreign
<1>14. Flagged'
  BY <1>1, <1>2, <1>3, <1>4, <1>6
     DEF Flagged, Has, Running, After, Ordered, SchedEnds, RunFrames, unborrow, header, places,
         executor, channel, foreign
<1>15. Finished'
  BY <1>1, <1>2, <1>3, <1>4, <1>6, <1>5, <1>14
     DEF Finished, Registered, Flagged, Ended, Has, Running, After, Ordered, SchedEnds,
         RunFrames, unborrow, header, places, executor, channel, foreign
<1>. QED
  BY <1>6, <1>10, <1>11, <1>12, <1>13, <1>14, <1>15 DEF TlInv, After

LEMMA Step_request_shutdown == ASSUME TlInv, request_shutdown PROVE TlInv'
<1>. DEFINE t == Tail(stack)
<1>1. TlTypes /\ Exact /\ Zeroed /\ Relied /\ Stacked /\ Registered /\ Flagged /\ Finished
  BY DEF TlInv
<1>2. Running("request_shutdown", t)
  BY <1>1, TopFacts DEF request_shutdown
<1>3. ForeignHeld \in Nat /\ InHand \in Nat /\ ForeignHeld' = ForeignHeld /\ InHand' = InHand
  BY <1>1, OutsideNat, OutsideSame DEF request_shutdown, foreign
<1>4. refs \in Nat /\ runq \in Nat /\ ownerW \in Nat /\ chanWake \in Nat /\ chanCleanup \in Nat
  BY <1>1, <1>2, RefsInt, RefsNat DEF TlTypes
<1>5. stack' = t
  BY <1>2 DEF request_shutdown, Running, Return
<1>6. After(Members(t), RefsOf(t))
  BY <1>1, <1>2, <1>3, <1>4, <1>5, Push0 DEF Running
<1>7. RefsOf(stack') = RefsOf(stack) /\ RefsOf(stack) \in Nat /\ RefsOf(stack') \in Nat
  BY <1>1, <1>2, <1>3, <1>4, <1>6 DEF Running, After, Weight, Holding
<1>8. /\ UNCHANGED <<refs, freed, registryRef, handle, runq, ownerW, chanWake, chanCleanup, fpc,
           foreignW, seen>>
  BY <1>1, <1>2, <1>3, <1>4 DEF request_shutdown, header, places, executor, channel, foreign
<1>9. Balanced
  BY <1>4, <1>7, <1>8 DEF Balanced
<1>10. Exact'
  BY <1>1, <1>3, <1>7, <1>8, <1>9, Recount
<1>11. Zeroed' /\ Relied'
  BY <1>1, <1>2, <1>3, <1>4, <1>8 DEF Zeroed, Relied
<1>12. TlTypes'
  BY <1>1, <1>2, <1>3, <1>4, <1>6, <1>8
     DEF TlTypes, After, request_shutdown, header, places, executor, channel, foreign
<1>13. Registered'
  BY <1>1, <1>2, <1>3, <1>4, <1>6
     DEF Registered, Has, Running, After, Ordered, SchedEnds, RunFrames, request_shutdown,
         header, places, executor, channel, foreign
<1>14. Flagged'
  BY <1>1, <1>2, <1>3, <1>4, <1>6
     DEF Flagged, Has, Running, After, Ordered, SchedEnds, RunFrames, request_shutdown, header,
         places, executor, channel, foreign
<1>15. Finished'
  BY <1>1, <1>2, <1>3, <1>4, <1>6, <1>5, <1>14
     DEF Finished, Registered, Flagged, Ended, Has, Running, After, Ordered, SchedEnds,
         RunFrames, request_shutdown, header, places, executor, channel, foreign
<1>. QED
  BY <1>6, <1>10, <1>11, <1>12, <1>13, <1>14, <1>15 DEF TlInv, After

LEMMA Step_do_wake == ASSUME TlInv, do_wake PROVE TlInv'
<1>. DEFINE t == Tail(stack)
<1>1. TlTypes /\ Exact /\ Zeroed /\ Relied /\ Stacked /\ Registered /\ Flagged /\ Finished
  BY DEF TlInv
<1>2. Running("do_wake", t)
  BY <1>1, TopFacts DEF do_wake
<1>3. ForeignHeld \in Nat /\ InHand \in Nat /\ ForeignHeld' = ForeignHeld /\ InHand' = InHand
  BY <1>1, OutsideNat, OutsideSame DEF do_wake, foreign
<1>4. refs \in Nat /\ runq \in Nat /\ ownerW \in Nat /\ chanWake \in Nat /\ chanCleanup \in Nat
  BY <1>1, <1>2, RefsInt, RefsNat DEF TlTypes
<1>5. refs > 0
  BY <1>1, <1>2, BareAlive DEF Bare
<1>6. CASE ~active
  <2>1. stack' = t
    BY <1>2, <1>5, <1>6 DEF do_wake, Running, Return
  <2>2. After(Members(t), RefsOf(t))
    BY <1>1, <1>2, <1>3, <1>4, <1>5, <1>6, <2>1, Push0 DEF Running
  <2>3. RefsOf(stack') = RefsOf(stack) /\ RefsOf(stack) \in Nat /\ RefsOf(stack') \in Nat
    BY <1>1, <1>2, <1>3, <1>4, <1>5, <1>6, <2>2 DEF Running, After, Weight, Holding
  <2>4. /\ UNCHANGED <<refs, freed, registryRef, handle, runq, ownerW, chanWake, chanCleanup,
             fpc, foreignW, seen>>
    BY <1>1, <1>2, <1>3, <1>4, <1>5, <1>6 DEF do_wake, header, places, executor, channel, foreign
  <2>5. Balanced
    BY <1>4, <1>6, <2>3, <2>4 DEF Balanced
  <2>6. Exact'
    BY <1>1, <1>3, <2>3, <2>4, <2>5, Recount
  <2>7. Zeroed' /\ Relied'
    BY <1>1, <1>2, <1>3, <1>4, <1>5, <1>6, <2>4 DEF Zeroed, Relied
  <2>8. TlTypes'
    BY <1>1, <1>2, <1>3, <1>4, <1>5, <1>6, <2>2, <2>4
       DEF TlTypes, After, do_wake, header, places, executor, channel, foreign
  <2>9. Registered'
    BY <1>1, <1>2, <1>3, <1>4, <1>5, <1>6, <2>2
       DEF Registered, Has, Running, After, Ordered, SchedEnds, RunFrames, do_wake, header,
           places, executor, channel, foreign
  <2>10. Flagged'
    BY <1>1, <1>2, <1>3, <1>4, <1>5, <1>6, <2>2
       DEF Flagged, Has, Running, After, Ordered, SchedEnds, RunFrames, do_wake, header, places,
           executor, channel, foreign
  <2>11. Finished'
    BY <1>1, <1>2, <1>3, <1>4, <1>5, <1>6, <2>2, <2>1, <2>10
       DEF Finished, Registered, Flagged, Ended, Has, Running, After, Ordered, SchedEnds,
           RunFrames, do_wake, header, places, executor, channel, foreign
  <2>. QED
    BY <2>2, <2>6, <2>7, <2>8, <2>9, <2>10, <2>11 DEF TlInv, After
<1>7. CASE active /\ ~Entered /\ Accepts
  <2>1. stack' = t
    BY <1>2, <1>5, <1>7 DEF do_wake, Running, Return
  <2>2. After(Members(t), RefsOf(t))
    BY <1>1, <1>2, <1>3, <1>4, <1>5, <1>7, <2>1, Push0 DEF Running
  <2>3. RefsOf(stack') = RefsOf(stack) /\ RefsOf(stack) \in Nat /\ RefsOf(stack') \in Nat
    BY <1>1, <1>2, <1>3, <1>4, <1>5, <1>7, <2>2 DEF Running, After, Weight, Holding
  <2>4. /\ refs' = refs + 1 /\ chanWake' = chanWake + 1
        /\ UNCHANGED <<freed, registryRef, handle, runq, ownerW, chanCleanup, fpc, foreignW,
             seen>>
    BY <1>1, <1>2, <1>3, <1>4, <1>5, <1>7 DEF do_wake, header, places, executor, channel, foreign
  <2>5. Balanced
    BY <1>4, <1>7, <2>3, <2>4 DEF Balanced
  <2>6. Exact'
    BY <1>1, <1>3, <2>3, <2>4, <2>5, Recount
  <2>7. Zeroed' /\ Relied'
    BY <1>1, <1>2, <1>3, <1>4, <1>5, <1>7, <2>4 DEF Zeroed, Relied
  <2>8. TlTypes'
    BY <1>1, <1>2, <1>3, <1>4, <1>5, <1>7, <2>2, <2>4
       DEF TlTypes, After, do_wake, header, places, executor, channel, foreign
  <2>9. Registered'
    BY <1>1, <1>2, <1>3, <1>4, <1>5, <1>7, <2>2
       DEF Registered, Has, Running, After, Ordered, SchedEnds, RunFrames, do_wake, header,
           places, executor, channel, foreign
  <2>10. Flagged'
    BY <1>1, <1>2, <1>3, <1>4, <1>5, <1>7, <2>2
       DEF Flagged, Has, Running, After, Ordered, SchedEnds, RunFrames, do_wake, header, places,
           executor, channel, foreign
  <2>11. Finished'
    BY <1>1, <1>2, <1>3, <1>4, <1>5, <1>7, <2>2, <2>1, <2>10
       DEF Finished, Registered, Flagged, Ended, Has, Running, After, Ordered, SchedEnds,
           RunFrames, do_wake, header, places, executor, channel, foreign
  <2>. QED
    BY <2>2, <2>6, <2>7, <2>8, <2>9, <2>10, <2>11 DEF TlInv, After
<1>8. CASE active /\ ~Entered /\ ~Accepts
  <2>1. stack' = t
    BY <1>2, <1>5, <1>8 DEF do_wake, Running, Return
  <2>2. After(Members(t), RefsOf(t))
    BY <1>1, <1>2, <1>3, <1>4, <1>5, <1>8, <2>1, Push0 DEF Running
  <2>3. RefsOf(stack') = RefsOf(stack) /\ RefsOf(stack) \in Nat /\ RefsOf(stack') \in Nat
    BY <1>1, <1>2, <1>3, <1>4, <1>5, <1>8, <2>2 DEF Running, After, Weight, Holding
  <2>4. /\ UNCHANGED <<refs, freed, registryRef, handle, runq, ownerW, chanWake, chanCleanup,
             fpc, foreignW, seen>>
    BY <1>1, <1>2, <1>3, <1>4, <1>5, <1>8 DEF do_wake, header, places, executor, channel, foreign
  <2>5. Balanced
    BY <1>4, <1>8, <2>3, <2>4 DEF Balanced
  <2>6. Exact'
    BY <1>1, <1>3, <2>3, <2>4, <2>5, Recount
  <2>7. Zeroed' /\ Relied'
    BY <1>1, <1>2, <1>3, <1>4, <1>5, <1>8, <2>4 DEF Zeroed, Relied
  <2>8. TlTypes'
    BY <1>1, <1>2, <1>3, <1>4, <1>5, <1>8, <2>2, <2>4
       DEF TlTypes, After, do_wake, header, places, executor, channel, foreign
  <2>9. Registered'
    BY <1>1, <1>2, <1>3, <1>4, <1>5, <1>8, <2>2
       DEF Registered, Has, Running, After, Ordered, SchedEnds, RunFrames, do_wake, header,
           places, executor, channel, foreign
  <2>10. Flagged'
    BY <1>1, <1>2, <1>3, <1>4, <1>5, <1>8, <2>2
       DEF Flagged, Has, Running, After, Ordered, SchedEnds, RunFrames, do_wake, header, places,
           executor, channel, foreign
  <2>11. Finished'
    BY <1>1, <1>2, <1>3, <1>4, <1>5, <1>8, <2>2, <2>1, <2>10
       DEF Finished, Registered, Flagged, Ended, Has, Running, After, Ordered, SchedEnds,
           RunFrames, do_wake, header, places, executor, channel, foreign
  <2>. QED
    BY <2>2, <2>6, <2>7, <2>8, <2>9, <2>10, <2>11 DEF TlInv, After
<1>9. CASE active /\ Entered /\ st \cap {"COMPLETED", "CLOSED",
           "SCHEDULED"} = {} /\ ~Has("RUNNING")
  <2>1. stack' = Push("schedule", t)
    BY <1>2, <1>5, <1>9 DEF do_wake, Running, Return, Push
  <2>2. (Fits("schedule", Members(t)) \/ Leans("schedule")') /\ Ordered("schedule", Members(t))
    BY <1>1, <1>2, <1>3, <1>4, <1>5, <1>9
       DEF Running, Fits, Ordered, Leans, Names, Protecting, Bare, Neutral, SchedEnds, RunFrames,
           Holding, do_wake, Registered, Flagged, Has, header, places, executor, channel, foreign
  <2>3. After(Members(t) \cup {"schedule"}, RefsOf(t) + Weight("schedule")) /\ Top' = "schedule"
    BY <1>1, <1>2, <1>3, <1>4, <1>5, <1>9, <2>1, <2>2, PushLean1 DEF Running
  <2>4. RefsOf(stack') = RefsOf(stack) /\ RefsOf(stack) \in Nat /\ RefsOf(stack') \in Nat
    BY <1>1, <1>2, <1>3, <1>4, <1>5, <1>9, <2>3 DEF Running, After, Weight, Holding
  <2>5. /\ UNCHANGED <<refs, freed, registryRef, handle, runq, ownerW, chanWake, chanCleanup,
             fpc, foreignW, seen>>
    BY <1>1, <1>2, <1>3, <1>4, <1>5, <1>9 DEF do_wake, header, places, executor, channel, foreign
  <2>6. Balanced
    BY <1>4, <1>9, <2>4, <2>5 DEF Balanced
  <2>7. Exact'
    BY <1>1, <1>3, <2>4, <2>5, <2>6, Recount
  <2>8. Zeroed' /\ Relied'
    BY <1>1, <1>2, <1>3, <1>4, <1>5, <1>9, <2>5 DEF Zeroed, Relied
  <2>9. TlTypes'
    BY <1>1, <1>2, <1>3, <1>4, <1>5, <1>9, <2>3, <2>5
       DEF TlTypes, After, do_wake, header, places, executor, channel, foreign
  <2>10. Registered'
    BY <1>1, <1>2, <1>3, <1>4, <1>5, <1>9, <2>3
       DEF Registered, Has, Running, After, Ordered, SchedEnds, RunFrames, do_wake, header,
           places, executor, channel, foreign
  <2>11. Flagged'
    BY <1>1, <1>2, <1>3, <1>4, <1>5, <1>9, <2>3
       DEF Flagged, Has, Running, After, Ordered, SchedEnds, RunFrames, do_wake, header, places,
           executor, channel, foreign
  <2>12. Finished'
    BY <1>1, <1>2, <1>3, <1>4, <1>5, <1>9, <2>3, <2>11
       DEF Finished, Registered, Flagged, Ended, Has, Running, After, Ordered, SchedEnds,
           RunFrames, do_wake, header, places, executor, channel, foreign
  <2>. QED
    BY <2>3, <2>7, <2>8, <2>9, <2>10, <2>11, <2>12 DEF TlInv, After
<1>10. CASE active /\ Entered /\ ~(st \cap {"COMPLETED", "CLOSED",
            "SCHEDULED"} = {} /\ ~Has("RUNNING"))
  <2>1. stack' = t
    BY <1>2, <1>5, <1>10 DEF do_wake, Running, Return
  <2>2. After(Members(t), RefsOf(t))
    BY <1>1, <1>2, <1>3, <1>4, <1>5, <1>10, <2>1, Push0 DEF Running
  <2>3. RefsOf(stack') = RefsOf(stack) /\ RefsOf(stack) \in Nat /\ RefsOf(stack') \in Nat
    BY <1>1, <1>2, <1>3, <1>4, <1>5, <1>10, <2>2 DEF Running, After, Weight, Holding
  <2>4. /\ UNCHANGED <<refs, freed, registryRef, handle, runq, ownerW, chanWake, chanCleanup,
             fpc, foreignW, seen>>
    BY <1>1, <1>2, <1>3, <1>4, <1>5, <1>10 DEF do_wake, header, places, executor, channel, foreign
  <2>5. Balanced
    BY <1>4, <1>10, <2>3, <2>4 DEF Balanced
  <2>6. Exact'
    BY <1>1, <1>3, <2>3, <2>4, <2>5, Recount
  <2>7. Zeroed' /\ Relied'
    BY <1>1, <1>2, <1>3, <1>4, <1>5, <1>10, <2>4 DEF Zeroed, Relied
  <2>8. TlTypes'
    BY <1>1, <1>2, <1>3, <1>4, <1>5, <1>10, <2>2, <2>4
       DEF TlTypes, After, do_wake, header, places, executor, channel, foreign
  <2>9. Registered'
    BY <1>1, <1>2, <1>3, <1>4, <1>5, <1>10, <2>2
       DEF Registered, Has, Running, After, Ordered, SchedEnds, RunFrames, do_wake, header,
           places, executor, channel, foreign
  <2>10. Flagged'
    BY <1>1, <1>2, <1>3, <1>4, <1>5, <1>10, <2>2
       DEF Flagged, Has, Running, After, Ordered, SchedEnds, RunFrames, do_wake, header, places,
           executor, channel, foreign
  <2>11. Finished'
    BY <1>1, <1>2, <1>3, <1>4, <1>5, <1>10, <2>2, <2>1, <2>10
       DEF Finished, Registered, Flagged, Ended, Has, Running, After, Ordered, SchedEnds,
           RunFrames, do_wake, header, places, executor, channel, foreign
  <2>. QED
    BY <2>2, <2>6, <2>7, <2>8, <2>9, <2>10, <2>11 DEF TlInv, After
<1>. QED
  BY <1>6, <1>7, <1>8, <1>9, <1>10, <1>1 DEF do_wake

LEMMA Step_cancel == ASSUME TlInv, cancel PROVE TlInv'
<1>. DEFINE t == Tail(stack)
<1>1. TlTypes /\ Exact /\ Zeroed /\ Relied /\ Stacked /\ Registered /\ Flagged /\ Finished
  BY DEF TlInv
<1>2. Running("cancel", t)
  BY <1>1, TopFacts DEF cancel
<1>3. ForeignHeld \in Nat /\ InHand \in Nat /\ ForeignHeld' = ForeignHeld /\ InHand' = InHand
  BY <1>1, OutsideNat, OutsideSame DEF cancel, foreign
<1>4. refs \in Nat /\ runq \in Nat /\ ownerW \in Nat /\ chanWake \in Nat /\ chanCleanup \in Nat
  BY <1>1, <1>2, RefsInt, RefsNat DEF TlTypes
<1>5. CASE st \cap {"COMPLETED", "CLOSED"} # {}
  <2>1. stack' = t
    BY <1>2, <1>5 DEF cancel, Running, Return
  <2>2. After(Members(t), RefsOf(t))
    BY <1>1, <1>2, <1>3, <1>4, <1>5, <2>1, Push0 DEF Running
  <2>3. RefsOf(stack') = RefsOf(stack) /\ RefsOf(stack) \in Nat /\ RefsOf(stack') \in Nat
    BY <1>1, <1>2, <1>3, <1>4, <1>5, <2>2 DEF Running, After, Weight, Holding
  <2>4. /\ UNCHANGED <<refs, freed, registryRef, handle, runq, ownerW, chanWake, chanCleanup,
             fpc, foreignW, seen>>
    BY <1>1, <1>2, <1>3, <1>4, <1>5 DEF cancel, header, places, executor, channel, foreign
  <2>5. Balanced
    BY <1>4, <1>5, <2>3, <2>4 DEF Balanced
  <2>6. Exact'
    BY <1>1, <1>3, <2>3, <2>4, <2>5, Recount
  <2>7. Zeroed' /\ Relied'
    BY <1>1, <1>2, <1>3, <1>4, <1>5, <2>4 DEF Zeroed, Relied
  <2>8. TlTypes'
    BY <1>1, <1>2, <1>3, <1>4, <1>5, <2>2, <2>4
       DEF TlTypes, After, cancel, header, places, executor, channel, foreign
  <2>9. Registered'
    BY <1>1, <1>2, <1>3, <1>4, <1>5, <2>2
       DEF Registered, Has, Running, After, Ordered, SchedEnds, RunFrames, cancel, header,
           places, executor, channel, foreign
  <2>10. Flagged'
    BY <1>1, <1>2, <1>3, <1>4, <1>5, <2>2
       DEF Flagged, Has, Running, After, Ordered, SchedEnds, RunFrames, cancel, header, places,
           executor, channel, foreign
  <2>11. Finished'
    BY <1>1, <1>2, <1>3, <1>4, <1>5, <2>2, <2>1, <2>10
       DEF Finished, Registered, Flagged, Ended, Has, Running, After, Ordered, SchedEnds,
           RunFrames, cancel, header, places, executor, channel, foreign
  <2>. QED
    BY <2>2, <2>6, <2>7, <2>8, <2>9, <2>10, <2>11 DEF TlInv, After
<1>6. CASE st \cap {"COMPLETED", "CLOSED"} = {} /\ st \cap {"SCHEDULED", "RUNNING"} = {}
  <2>1. stack' = Push("schedule", Push("notify", t))
    BY <1>2, <1>6 DEF cancel, Running, Return, Push
  <2>2. Fits("notify", Members(t)) /\ Fits("schedule", Members(t) \cup {"notify"})
    BY <1>1, <1>2, <1>3, <1>4, <1>6
       DEF Running, Fits, Ordered, Leans, Names, Protecting, Bare, Neutral, SchedEnds, RunFrames,
           Holding
  <2>3. /\ After(Members(t) \cup {"schedule", "notify"},
             RefsOf(t) + Weight("schedule") + Weight("notify"))
        /\ Top' = "schedule"
    BY <1>1, <1>2, <1>3, <1>4, <1>6, <2>1, <2>2, Push2 DEF Running
  <2>4. RefsOf(stack') = RefsOf(stack) /\ RefsOf(stack) \in Nat /\ RefsOf(stack') \in Nat
    BY <1>1, <1>2, <1>3, <1>4, <1>6, <2>3 DEF Running, After, Weight, Holding
  <2>5. /\ UNCHANGED <<refs, freed, registryRef, handle, runq, ownerW, chanWake, chanCleanup,
             fpc, foreignW, seen>>
    BY <1>1, <1>2, <1>3, <1>4, <1>6 DEF cancel, header, places, executor, channel, foreign
  <2>6. Balanced
    BY <1>4, <1>6, <2>4, <2>5 DEF Balanced
  <2>7. Exact'
    BY <1>1, <1>3, <2>4, <2>5, <2>6, Recount
  <2>8. Zeroed' /\ Relied'
    BY <1>1, <1>2, <1>3, <1>4, <1>6, <2>5 DEF Zeroed, Relied
  <2>9. TlTypes'
    BY <1>1, <1>2, <1>3, <1>4, <1>6, <2>3, <2>5
       DEF TlTypes, After, cancel, header, places, executor, channel, foreign
  <2>10. Registered'
    BY <1>1, <1>2, <1>3, <1>4, <1>6, <2>3
       DEF Registered, Has, Running, After, Ordered, SchedEnds, RunFrames, cancel, header,
           places, executor, channel, foreign
  <2>11. Flagged'
    BY <1>1, <1>2, <1>3, <1>4, <1>6, <2>3
       DEF Flagged, Has, Running, After, Ordered, SchedEnds, RunFrames, cancel, header, places,
           executor, channel, foreign
  <2>12. Finished'
    BY <1>1, <1>2, <1>3, <1>4, <1>6, <2>3, <2>11
       DEF Finished, Registered, Flagged, Ended, Has, Running, After, Ordered, SchedEnds,
           RunFrames, cancel, header, places, executor, channel, foreign
  <2>. QED
    BY <2>3, <2>7, <2>8, <2>9, <2>10, <2>11, <2>12 DEF TlInv, After
<1>7. CASE st \cap {"COMPLETED", "CLOSED"} = {} /\ st \cap {"SCHEDULED", "RUNNING"} # {}
  <2>1. stack' = t
    BY <1>2, <1>7 DEF cancel, Running, Return
  <2>2. After(Members(t), RefsOf(t))
    BY <1>1, <1>2, <1>3, <1>4, <1>7, <2>1, Push0 DEF Running
  <2>3. RefsOf(stack') = RefsOf(stack) /\ RefsOf(stack) \in Nat /\ RefsOf(stack') \in Nat
    BY <1>1, <1>2, <1>3, <1>4, <1>7, <2>2 DEF Running, After, Weight, Holding
  <2>4. /\ UNCHANGED <<refs, freed, registryRef, handle, runq, ownerW, chanWake, chanCleanup,
             fpc, foreignW, seen>>
    BY <1>1, <1>2, <1>3, <1>4, <1>7 DEF cancel, header, places, executor, channel, foreign
  <2>5. Balanced
    BY <1>4, <1>7, <2>3, <2>4 DEF Balanced
  <2>6. Exact'
    BY <1>1, <1>3, <2>3, <2>4, <2>5, Recount
  <2>7. Zeroed' /\ Relied'
    BY <1>1, <1>2, <1>3, <1>4, <1>7, <2>4 DEF Zeroed, Relied
  <2>8. TlTypes'
    BY <1>1, <1>2, <1>3, <1>4, <1>7, <2>2, <2>4
       DEF TlTypes, After, cancel, header, places, executor, channel, foreign
  <2>9. Registered'
    BY <1>1, <1>2, <1>3, <1>4, <1>7, <2>2
       DEF Registered, Has, Running, After, Ordered, SchedEnds, RunFrames, cancel, header,
           places, executor, channel, foreign
  <2>10. Flagged'
    BY <1>1, <1>2, <1>3, <1>4, <1>7, <2>2
       DEF Flagged, Has, Running, After, Ordered, SchedEnds, RunFrames, cancel, header, places,
           executor, channel, foreign
  <2>11. Finished'
    BY <1>1, <1>2, <1>3, <1>4, <1>7, <2>2, <2>1, <2>10
       DEF Finished, Registered, Flagged, Ended, Has, Running, After, Ordered, SchedEnds,
           RunFrames, cancel, header, places, executor, channel, foreign
  <2>. QED
    BY <2>2, <2>6, <2>7, <2>8, <2>9, <2>10, <2>11 DEF TlInv, After
<1>. QED
  BY <1>5, <1>6, <1>7, <1>1 DEF cancel

LEMMA Step_cancel_in_place == ASSUME TlInv, cancel_in_place PROVE TlInv'
<1>. DEFINE t == Tail(stack)
<1>1. TlTypes /\ Exact /\ Zeroed /\ Relied /\ Stacked /\ Registered /\ Flagged /\ Finished
  BY DEF TlInv
<1>2. Running("cancel_in_place", t)
  BY <1>1, TopFacts DEF cancel_in_place, Has
<1>3. ForeignHeld \in Nat /\ InHand \in Nat /\ ForeignHeld' = ForeignHeld /\ InHand' = InHand
  BY <1>1, OutsideNat, OutsideSame DEF cancel_in_place, foreign, Has
<1>4. refs \in Nat /\ runq \in Nat /\ ownerW \in Nat /\ chanWake \in Nat /\ chanCleanup \in Nat
  BY <1>1, <1>2, RefsInt, RefsNat DEF TlTypes
<1>5. CASE Has("RUNNING")
  <2>1. stack' = t
    BY <1>2, <1>5 DEF cancel_in_place, Has, Running, Return
  <2>2. After(Members(t), RefsOf(t))
    BY <1>1, <1>2, <1>3, <1>4, <1>5, <2>1, Push0 DEF Running
  <2>3. RefsOf(stack') = RefsOf(stack) /\ RefsOf(stack) \in Nat /\ RefsOf(stack') \in Nat
    BY <1>1, <1>2, <1>3, <1>4, <1>5, <2>2 DEF Running, After, Weight, Holding
  <2>4. /\ UNCHANGED <<refs, freed, registryRef, handle, runq, ownerW, chanWake, chanCleanup,
             fpc, foreignW, seen>>
    BY <1>1, <1>2, <1>3, <1>4, <1>5
       DEF cancel_in_place, Has, header, places, executor, channel, foreign
  <2>5. Balanced
    BY <1>4, <1>5, <2>3, <2>4 DEF Balanced
  <2>6. Exact'
    BY <1>1, <1>3, <2>3, <2>4, <2>5, Recount
  <2>7. Zeroed' /\ Relied'
    BY <1>1, <1>2, <1>3, <1>4, <1>5, <2>4 DEF Zeroed, Relied
  <2>8. TlTypes'
    BY <1>1, <1>2, <1>3, <1>4, <1>5, <2>2, <2>4
       DEF TlTypes, After, cancel_in_place, Has, header, places, executor, channel, foreign
  <2>9. Registered'
    BY <1>1, <1>2, <1>3, <1>4, <1>5, <2>2
       DEF Registered, Has, Running, After, Ordered, SchedEnds, RunFrames, cancel_in_place, Has,
           header, places, executor, channel, foreign
  <2>10. Flagged'
    BY <1>1, <1>2, <1>3, <1>4, <1>5, <2>2
       DEF Flagged, Has, Running, After, Ordered, SchedEnds, RunFrames, cancel_in_place, Has,
           header, places, executor, channel, foreign
  <2>11. Finished'
    BY <1>1, <1>2, <1>3, <1>4, <1>5, <2>2, <2>1, <2>10
       DEF Finished, Registered, Flagged, Ended, Has, Running, After, Ordered, SchedEnds,
           RunFrames, cancel_in_place, Has, header, places, executor, channel, foreign
  <2>. QED
    BY <2>2, <2>6, <2>7, <2>8, <2>9, <2>10, <2>11 DEF TlInv, After
<1>6. CASE ~Has("RUNNING")
  <2>1. stack' = Push("drop_future", Push("in_place_end", t))
    BY <1>2, <1>6 DEF cancel_in_place, Has, Running, Return, Push
  <2>2. /\ Fits("in_place_end", Members(t))
        /\ Fits("drop_future", Members(t) \cup {"in_place_end"})
    BY <1>1, <1>2, <1>3, <1>4, <1>6
       DEF Running, Fits, Ordered, Leans, Names, Protecting, Bare, Neutral, SchedEnds, RunFrames,
           Holding, cancel_in_place, Has, Registered, Flagged, Has, header, places, executor,
           channel, foreign
  <2>3. /\ After(Members(t) \cup {"drop_future", "in_place_end"},
             RefsOf(t) + Weight("drop_future") + Weight("in_place_end"))
        /\ Top' = "drop_future"
    BY <1>1, <1>2, <1>3, <1>4, <1>6, <2>1, <2>2, Push2 DEF Running
  <2>4. RefsOf(stack') = RefsOf(stack) /\ RefsOf(stack) \in Nat /\ RefsOf(stack') \in Nat
    BY <1>1, <1>2, <1>3, <1>4, <1>6, <2>3 DEF Running, After, Weight, Holding
  <2>5. /\ UNCHANGED <<refs, freed, registryRef, handle, runq, ownerW, chanWake, chanCleanup,
             fpc, foreignW, seen>>
    BY <1>1, <1>2, <1>3, <1>4, <1>6
       DEF cancel_in_place, Has, header, places, executor, channel, foreign
  <2>6. Balanced
    BY <1>4, <1>6, <2>4, <2>5 DEF Balanced
  <2>7. Exact'
    BY <1>1, <1>3, <2>4, <2>5, <2>6, Recount
  <2>8. Zeroed' /\ Relied'
    BY <1>1, <1>2, <1>3, <1>4, <1>6, <2>5 DEF Zeroed, Relied
  <2>9. TlTypes'
    BY <1>1, <1>2, <1>3, <1>4, <1>6, <2>3, <2>5
       DEF TlTypes, After, cancel_in_place, Has, header, places, executor, channel, foreign
  <2>10. Registered'
    BY <1>1, <1>2, <1>3, <1>4, <1>6, <2>3
       DEF Registered, Has, Running, After, Ordered, SchedEnds, RunFrames, cancel_in_place, Has,
           header, places, executor, channel, foreign
  <2>11. Flagged'
    BY <1>1, <1>2, <1>3, <1>4, <1>6, <2>3
       DEF Flagged, Has, Running, After, Ordered, SchedEnds, RunFrames, cancel_in_place, Has,
           header, places, executor, channel, foreign
  <2>12. /\ Tail(stack') = Push("in_place_end", t) /\ Tail(stack') # <<>>
         /\ Head(Tail(stack')) = "in_place_end"
    BY <1>1, <1>2, <1>3, <1>4, <1>6, <2>1 DEF Running, Push
  <2>13. Finished'
    BY <1>1, <1>2, <1>3, <1>4, <1>6, <2>3, <2>11, <2>12
       DEF Finished, Registered, Flagged, Ended, Has, Running, After, Ordered, SchedEnds,
           RunFrames, cancel_in_place, Has, header, places, executor, channel, foreign
  <2>. QED
    BY <2>3, <2>7, <2>8, <2>9, <2>10, <2>11, <2>13 DEF TlInv, After
<1>. QED
  BY <1>5, <1>6, <1>1 DEF cancel_in_place, Has

LEMMA Step_schedule == ASSUME TlInv, schedule PROVE TlInv'
<1>. DEFINE t == Tail(stack)
<1>1. TlTypes /\ Exact /\ Zeroed /\ Relied /\ Stacked /\ Registered /\ Flagged /\ Finished
  BY DEF TlInv
<1>2. Running("schedule", t)
  BY <1>1, TopFacts DEF schedule
<1>3. ForeignHeld \in Nat /\ InHand \in Nat /\ ForeignHeld' = ForeignHeld /\ InHand' = InHand
  BY <1>1, OutsideNat, OutsideSame DEF schedule, foreign
<1>4. refs \in Nat /\ runq \in Nat /\ ownerW \in Nat /\ chanWake \in Nat /\ chanCleanup \in Nat
  BY <1>1, <1>2, RefsInt, RefsNat DEF TlTypes
<1>5. refs > 0
  BY <1>1, <1>2, BareAlive DEF Bare
<1>6. stack' = Push("schedule_owned", t)
  BY <1>2, <1>5 DEF schedule, Running, Return, Push
<1>7. Fits("schedule_owned", Members(t))
  BY <1>1, <1>2, <1>3, <1>4, <1>5
     DEF Running, Fits, Ordered, Leans, Names, Protecting, Bare, Neutral, SchedEnds, RunFrames,
         Holding
<1>8. /\ After(Members(t) \cup {"schedule_owned"}, RefsOf(t) + Weight("schedule_owned"))
      /\ Top' = "schedule_owned"
  BY <1>1, <1>2, <1>3, <1>4, <1>5, <1>6, <1>7, Push1 DEF Running
<1>9. RefsOf(stack') = RefsOf(stack) + 1 /\ RefsOf(stack) \in Nat /\ RefsOf(stack') \in Nat
  BY <1>1, <1>2, <1>3, <1>4, <1>5, <1>8 DEF Running, After, Weight, Holding
<1>10. /\ refs' = refs + 1
       /\ UNCHANGED <<freed, registryRef, handle, runq, ownerW, chanWake, chanCleanup, fpc,
            foreignW, seen>>
  BY <1>1, <1>2, <1>3, <1>4, <1>5 DEF schedule, header, places, executor, channel, foreign
<1>11. Balanced
  BY <1>4, <1>9, <1>10 DEF Balanced
<1>12. Exact'
  BY <1>1, <1>3, <1>9, <1>10, <1>11, Recount
<1>13. Zeroed' /\ Relied'
  BY <1>1, <1>2, <1>3, <1>4, <1>5, <1>10 DEF Zeroed, Relied
<1>14. TlTypes'
  BY <1>1, <1>2, <1>3, <1>4, <1>5, <1>8, <1>10
     DEF TlTypes, After, schedule, header, places, executor, channel, foreign
<1>15. Registered'
  BY <1>1, <1>2, <1>3, <1>4, <1>5, <1>8
     DEF Registered, Has, Running, After, Ordered, SchedEnds, RunFrames, schedule, header,
         places, executor, channel, foreign
<1>16. Flagged'
  BY <1>1, <1>2, <1>3, <1>4, <1>5, <1>8
     DEF Flagged, Has, Running, After, Ordered, SchedEnds, RunFrames, schedule, header, places,
         executor, channel, foreign
<1>17. Finished'
  BY <1>1, <1>2, <1>3, <1>4, <1>5, <1>8, <1>16
     DEF Finished, Registered, Flagged, Ended, Has, Running, After, Ordered, SchedEnds,
         RunFrames, schedule, header, places, executor, channel, foreign
<1>. QED
  BY <1>8, <1>12, <1>13, <1>14, <1>15, <1>16, <1>17 DEF TlInv, After

LEMMA Step_leave == ASSUME TlInv, leave PROVE TlInv'
<1>. DEFINE t == Tail(stack)
<1>1. TlTypes /\ Exact /\ Zeroed /\ Relied /\ Stacked /\ Registered /\ Flagged /\ Finished
  BY DEF TlInv
<1>2. Running("leave", t)
  BY <1>1, TopFacts DEF leave
<1>3. ForeignHeld \in Nat /\ InHand \in Nat /\ ForeignHeld' = ForeignHeld /\ InHand' = InHand
  BY <1>1, OutsideNat, OutsideSame DEF leave, foreign
<1>4. refs \in Nat /\ runq \in Nat /\ ownerW \in Nat /\ chanWake \in Nat /\ chanCleanup \in Nat
  BY <1>1, <1>2, RefsInt, RefsNat DEF TlTypes
<1>5. CASE shut
  <2>1. stack' = Push("finish_shutdown", t)
    BY <1>2, <1>5 DEF leave, Running, Return, Push
  <2>2. Fits("finish_shutdown", Members(t))
    BY <1>1, <1>2, <1>3, <1>4, <1>5
       DEF Running, Fits, Ordered, Leans, Names, Protecting, Bare, Neutral, SchedEnds, RunFrames,
           Holding
  <2>3. /\ After(Members(t) \cup {"finish_shutdown"}, RefsOf(t) + Weight("finish_shutdown"))
        /\ Top' = "finish_shutdown"
    BY <1>1, <1>2, <1>3, <1>4, <1>5, <2>1, <2>2, Push1 DEF Running
  <2>4. RefsOf(stack') = RefsOf(stack) /\ RefsOf(stack) \in Nat /\ RefsOf(stack') \in Nat
    BY <1>1, <1>2, <1>3, <1>4, <1>5, <2>3 DEF Running, After, Weight, Holding
  <2>5. /\ UNCHANGED <<refs, freed, registryRef, handle, runq, ownerW, chanWake, chanCleanup,
             fpc, foreignW, seen>>
    BY <1>1, <1>2, <1>3, <1>4, <1>5 DEF leave, header, places, executor, channel, foreign
  <2>6. Balanced
    BY <1>4, <1>5, <2>4, <2>5 DEF Balanced
  <2>7. Exact'
    BY <1>1, <1>3, <2>4, <2>5, <2>6, Recount
  <2>8. Zeroed' /\ Relied'
    BY <1>1, <1>2, <1>3, <1>4, <1>5, <2>5 DEF Zeroed, Relied
  <2>9. TlTypes'
    BY <1>1, <1>2, <1>3, <1>4, <1>5, <2>3, <2>5
       DEF TlTypes, After, leave, header, places, executor, channel, foreign
  <2>10. Registered'
    BY <1>1, <1>2, <1>3, <1>4, <1>5, <2>3
       DEF Registered, Has, Running, After, Ordered, SchedEnds, RunFrames, leave, header, places,
           executor, channel, foreign
  <2>11. Flagged'
    BY <1>1, <1>2, <1>3, <1>4, <1>5, <2>3
       DEF Flagged, Has, Running, After, Ordered, SchedEnds, RunFrames, leave, header, places,
           executor, channel, foreign
  <2>12. Finished'
    BY <1>1, <1>2, <1>3, <1>4, <1>5, <2>3, <2>11
       DEF Finished, Registered, Flagged, Ended, Has, Running, After, Ordered, SchedEnds,
           RunFrames, leave, header, places, executor, channel, foreign
  <2>. QED
    BY <2>3, <2>7, <2>8, <2>9, <2>10, <2>11, <2>12 DEF TlInv, After
<1>6. CASE ~shut
  <2>1. stack' = t
    BY <1>2, <1>6 DEF leave, Running, Return
  <2>2. After(Members(t), RefsOf(t))
    BY <1>1, <1>2, <1>3, <1>4, <1>6, <2>1, Push0 DEF Running
  <2>3. RefsOf(stack') = RefsOf(stack) /\ RefsOf(stack) \in Nat /\ RefsOf(stack') \in Nat
    BY <1>1, <1>2, <1>3, <1>4, <1>6, <2>2 DEF Running, After, Weight, Holding
  <2>4. /\ UNCHANGED <<refs, freed, registryRef, handle, runq, ownerW, chanWake, chanCleanup,
             fpc, foreignW, seen>>
    BY <1>1, <1>2, <1>3, <1>4, <1>6 DEF leave, header, places, executor, channel, foreign
  <2>5. Balanced
    BY <1>4, <1>6, <2>3, <2>4 DEF Balanced
  <2>6. Exact'
    BY <1>1, <1>3, <2>3, <2>4, <2>5, Recount
  <2>7. Zeroed' /\ Relied'
    BY <1>1, <1>2, <1>3, <1>4, <1>6, <2>4 DEF Zeroed, Relied
  <2>8. TlTypes'
    BY <1>1, <1>2, <1>3, <1>4, <1>6, <2>2, <2>4
       DEF TlTypes, After, leave, header, places, executor, channel, foreign
  <2>9. Registered'
    BY <1>1, <1>2, <1>3, <1>4, <1>6, <2>2
       DEF Registered, Has, Running, After, Ordered, SchedEnds, RunFrames, leave, header, places,
           executor, channel, foreign
  <2>10. Flagged'
    BY <1>1, <1>2, <1>3, <1>4, <1>6, <2>2
       DEF Flagged, Has, Running, After, Ordered, SchedEnds, RunFrames, leave, header, places,
           executor, channel, foreign
  <2>11. Finished'
    BY <1>1, <1>2, <1>3, <1>4, <1>6, <2>2, <2>1, <2>10
       DEF Finished, Registered, Flagged, Ended, Has, Running, After, Ordered, SchedEnds,
           RunFrames, leave, header, places, executor, channel, foreign
  <2>. QED
    BY <2>2, <2>6, <2>7, <2>8, <2>9, <2>10, <2>11 DEF TlInv, After
<1>. QED
  BY <1>5, <1>6, <1>1 DEF leave

LEMMA Step_abandon == ASSUME TlInv, abandon PROVE TlInv'
<1>. DEFINE t == Tail(stack)
<1>1. TlTypes /\ Exact /\ Zeroed /\ Relied /\ Stacked /\ Registered /\ Flagged /\ Finished
  BY DEF TlInv
<1>2. Running("abandon", t)
  BY <1>1, TopFacts DEF abandon
<1>3. ForeignHeld \in Nat /\ InHand \in Nat /\ ForeignHeld' = ForeignHeld /\ InHand' = InHand
  BY <1>1, OutsideNat, OutsideSame DEF abandon, foreign
<1>4. refs \in Nat /\ runq \in Nat /\ ownerW \in Nat /\ chanWake \in Nat /\ chanCleanup \in Nat
  BY <1>1, <1>2, RefsInt, RefsNat DEF TlTypes
<1>5. CASE st \cap {"SCHEDULED", "RUNNING", "CLOSED", "COMPLETED"} = {} /\ refs = 2
  <2>1. stack' = Push("cancel", t)
    BY <1>2, <1>5 DEF abandon, Running, Return, Push
  <2>2. Fits("cancel", Members(t))
    BY <1>1, <1>2, <1>3, <1>4, <1>5
       DEF Running, Fits, Ordered, Leans, Names, Protecting, Bare, Neutral, SchedEnds, RunFrames,
           Holding
  <2>3. After(Members(t) \cup {"cancel"}, RefsOf(t) + Weight("cancel")) /\ Top' = "cancel"
    BY <1>1, <1>2, <1>3, <1>4, <1>5, <2>1, <2>2, Push1 DEF Running
  <2>4. RefsOf(stack') = RefsOf(stack) /\ RefsOf(stack) \in Nat /\ RefsOf(stack') \in Nat
    BY <1>1, <1>2, <1>3, <1>4, <1>5, <2>3 DEF Running, After, Weight, Holding
  <2>5. /\ UNCHANGED <<refs, freed, registryRef, handle, runq, ownerW, chanWake, chanCleanup,
             fpc, foreignW, seen>>
    BY <1>1, <1>2, <1>3, <1>4, <1>5 DEF abandon, header, places, executor, channel, foreign
  <2>6. Balanced
    BY <1>4, <1>5, <2>4, <2>5 DEF Balanced
  <2>7. Exact'
    BY <1>1, <1>3, <2>4, <2>5, <2>6, Recount
  <2>8. Zeroed' /\ Relied'
    BY <1>1, <1>2, <1>3, <1>4, <1>5, <2>5 DEF Zeroed, Relied
  <2>9. TlTypes'
    BY <1>1, <1>2, <1>3, <1>4, <1>5, <2>3, <2>5
       DEF TlTypes, After, abandon, header, places, executor, channel, foreign
  <2>10. Registered'
    BY <1>1, <1>2, <1>3, <1>4, <1>5, <2>3
       DEF Registered, Has, Running, After, Ordered, SchedEnds, RunFrames, abandon, header,
           places, executor, channel, foreign
  <2>11. Flagged'
    BY <1>1, <1>2, <1>3, <1>4, <1>5, <2>3
       DEF Flagged, Has, Running, After, Ordered, SchedEnds, RunFrames, abandon, header, places,
           executor, channel, foreign
  <2>12. Finished'
    BY <1>1, <1>2, <1>3, <1>4, <1>5, <2>3, <2>11
       DEF Finished, Registered, Flagged, Ended, Has, Running, After, Ordered, SchedEnds,
           RunFrames, abandon, header, places, executor, channel, foreign
  <2>. QED
    BY <2>3, <2>7, <2>8, <2>9, <2>10, <2>11, <2>12 DEF TlInv, After
<1>6. CASE ~(st \cap {"SCHEDULED", "RUNNING", "CLOSED", "COMPLETED"} = {} /\ refs = 2)
  <2>1. stack' = t
    BY <1>2, <1>6 DEF abandon, Running, Return
  <2>2. After(Members(t), RefsOf(t))
    BY <1>1, <1>2, <1>3, <1>4, <1>6, <2>1, Push0 DEF Running
  <2>3. RefsOf(stack') = RefsOf(stack) /\ RefsOf(stack) \in Nat /\ RefsOf(stack') \in Nat
    BY <1>1, <1>2, <1>3, <1>4, <1>6, <2>2 DEF Running, After, Weight, Holding
  <2>4. /\ UNCHANGED <<refs, freed, registryRef, handle, runq, ownerW, chanWake, chanCleanup,
             fpc, foreignW, seen>>
    BY <1>1, <1>2, <1>3, <1>4, <1>6 DEF abandon, header, places, executor, channel, foreign
  <2>5. Balanced
    BY <1>4, <1>6, <2>3, <2>4 DEF Balanced
  <2>6. Exact'
    BY <1>1, <1>3, <2>3, <2>4, <2>5, Recount
  <2>7. Zeroed' /\ Relied'
    BY <1>1, <1>2, <1>3, <1>4, <1>6, <2>4 DEF Zeroed, Relied
  <2>8. TlTypes'
    BY <1>1, <1>2, <1>3, <1>4, <1>6, <2>2, <2>4
       DEF TlTypes, After, abandon, header, places, executor, channel, foreign
  <2>9. Registered'
    BY <1>1, <1>2, <1>3, <1>4, <1>6, <2>2
       DEF Registered, Has, Running, After, Ordered, SchedEnds, RunFrames, abandon, header,
           places, executor, channel, foreign
  <2>10. Flagged'
    BY <1>1, <1>2, <1>3, <1>4, <1>6, <2>2
       DEF Flagged, Has, Running, After, Ordered, SchedEnds, RunFrames, abandon, header, places,
           executor, channel, foreign
  <2>11. Finished'
    BY <1>1, <1>2, <1>3, <1>4, <1>6, <2>2, <2>1, <2>10
       DEF Finished, Registered, Flagged, Ended, Has, Running, After, Ordered, SchedEnds,
           RunFrames, abandon, header, places, executor, channel, foreign
  <2>. QED
    BY <2>2, <2>6, <2>7, <2>8, <2>9, <2>10, <2>11 DEF TlInv, After
<1>. QED
  BY <1>5, <1>6, <1>1 DEF abandon

LEMMA Step_run == ASSUME TlInv, run PROVE TlInv'
<1>. DEFINE t == Tail(stack)
<1>1. TlTypes /\ Exact /\ Zeroed /\ Relied /\ Stacked /\ Registered /\ Flagged /\ Finished
  BY DEF TlInv
<1>2. Running("run", t)
  BY <1>1, TopFacts DEF run
<1>3. ForeignHeld \in Nat /\ InHand \in Nat /\ ForeignHeld' = ForeignHeld /\ InHand' = InHand
  BY <1>1, OutsideNat, OutsideSame DEF run, foreign
<1>4. refs \in Nat /\ runq \in Nat /\ ownerW \in Nat /\ chanWake \in Nat /\ chanCleanup \in Nat
  BY <1>1, <1>2, RefsInt, RefsNat DEF TlTypes
<1>5. CASE st \cap {"CLOSED", "COMPLETED"} # {}
  <2>1. stack' = Push("close", Push("finish", Push("release", t)))
    BY <1>2, <1>5 DEF run, DropTask, Running, Return, Push
  <2>2. /\ Fits("release", Members(t)) /\ Fits("finish", Members(t) \cup {"release"})
        /\ Fits("close", Members(t) \cup {"finish", "release"})
    BY <1>1, <1>2, <1>3, <1>4, <1>5
       DEF Running, Fits, Ordered, Leans, Names, Protecting, Bare, Neutral, SchedEnds, RunFrames,
           Holding
  <2>3. /\ After(Members(t) \cup {"close", "finish", "release"},
             RefsOf(t) + Weight("close") + Weight("finish") + Weight("release"))
        /\ Top' = "close"
    BY <1>1, <1>2, <1>3, <1>4, <1>5, <2>1, <2>2, Push3 DEF Running
  <2>4. RefsOf(stack') = RefsOf(stack) /\ RefsOf(stack) \in Nat /\ RefsOf(stack') \in Nat
    BY <1>1, <1>2, <1>3, <1>4, <1>5, <2>3 DEF Running, After, Weight, Holding
  <2>5. /\ UNCHANGED <<refs, freed, registryRef, handle, runq, ownerW, chanWake, chanCleanup,
             fpc, foreignW, seen>>
    BY <1>1, <1>2, <1>3, <1>4, <1>5 DEF run, DropTask, header, places, executor, channel, foreign
  <2>6. Balanced
    BY <1>4, <1>5, <2>4, <2>5 DEF Balanced
  <2>7. Exact'
    BY <1>1, <1>3, <2>4, <2>5, <2>6, Recount
  <2>8. Zeroed' /\ Relied'
    BY <1>1, <1>2, <1>3, <1>4, <1>5, <2>5 DEF Zeroed, Relied
  <2>9. TlTypes'
    BY <1>1, <1>2, <1>3, <1>4, <1>5, <2>3, <2>5
       DEF TlTypes, After, run, DropTask, header, places, executor, channel, foreign
  <2>10. Registered'
    BY <1>1, <1>2, <1>3, <1>4, <1>5, <2>3
       DEF Registered, Has, Running, After, Ordered, SchedEnds, RunFrames, run, DropTask, header,
           places, executor, channel, foreign
  <2>11. Flagged'
    BY <1>1, <1>2, <1>3, <1>4, <1>5, <2>3
       DEF Flagged, Has, Running, After, Ordered, SchedEnds, RunFrames, run, DropTask, header,
           places, executor, channel, foreign
  <2>12. Finished'
    BY <1>1, <1>2, <1>3, <1>4, <1>5, <2>3, <2>11
       DEF Finished, Registered, Flagged, Ended, Has, Running, After, Ordered, SchedEnds,
           RunFrames, run, DropTask, header, places, executor, channel, foreign
  <2>. QED
    BY <2>3, <2>7, <2>8, <2>9, <2>10, <2>11, <2>12 DEF TlInv, After
<1>6. CASE st \cap {"CLOSED", "COMPLETED"} = {}
  <2>1. stack' = Push("poll", t)
    BY <1>2, <1>6 DEF run, Running, Return, Push
  <2>2. Fits("poll", Members(t))
    BY <1>1, <1>2, <1>3, <1>4, <1>6
       DEF Running, Fits, Ordered, Leans, Names, Protecting, Bare, Neutral, SchedEnds, RunFrames,
           Holding
  <2>3. After(Members(t) \cup {"poll"}, RefsOf(t) + Weight("poll")) /\ Top' = "poll"
    BY <1>1, <1>2, <1>3, <1>4, <1>6, <2>1, <2>2, Push1 DEF Running
  <2>4. RefsOf(stack') = RefsOf(stack) /\ RefsOf(stack) \in Nat /\ RefsOf(stack') \in Nat
    BY <1>1, <1>2, <1>3, <1>4, <1>6, <2>3 DEF Running, After, Weight, Holding
  <2>5. /\ UNCHANGED <<refs, freed, registryRef, handle, runq, ownerW, chanWake, chanCleanup,
             fpc, foreignW, seen>>
    BY <1>1, <1>2, <1>3, <1>4, <1>6 DEF run, header, places, executor, channel, foreign
  <2>6. Balanced
    BY <1>4, <1>6, <2>4, <2>5 DEF Balanced
  <2>7. Exact'
    BY <1>1, <1>3, <2>4, <2>5, <2>6, Recount
  <2>8. Zeroed' /\ Relied'
    BY <1>1, <1>2, <1>3, <1>4, <1>6, <2>5 DEF Zeroed, Relied
  <2>9. TlTypes'
    BY <1>1, <1>2, <1>3, <1>4, <1>6, <2>3, <2>5
       DEF TlTypes, After, run, header, places, executor, channel, foreign
  <2>10. Registered'
    BY <1>1, <1>2, <1>3, <1>4, <1>6, <2>3
       DEF Registered, Has, Running, After, Ordered, SchedEnds, RunFrames, run, header, places,
           executor, channel, foreign
  <2>11. Members(t) = {} /\ Frames = {"run"} /\ Frames' = {"poll"}
    BY <1>2, <2>3 DEF Running, Ordered, After
  <2>12. Flagged'
    BY <1>1, <1>6, <2>11, <2>3
       DEF Flagged, Has, Running, After, Ordered, SchedEnds, RunFrames, run, header, places,
           executor, channel, foreign
  <2>13. Finished'
    BY <1>1, <1>2, <1>3, <1>4, <1>6, <2>3, <2>12
       DEF Finished, Registered, Flagged, Ended, Has, Running, After, Ordered, SchedEnds,
           RunFrames, run, header, places, executor, channel, foreign
  <2>. QED
    BY <2>3, <2>7, <2>8, <2>9, <2>10, <2>12, <2>13 DEF TlInv, After
<1>. QED
  BY <1>5, <1>6, <1>1 DEF run

LEMMA Step_poll_ready == ASSUME TlInv, poll_ready PROVE TlInv'
<1>. DEFINE t == Tail(stack)
<1>1. TlTypes /\ Exact /\ Zeroed /\ Relied /\ Stacked /\ Registered /\ Flagged /\ Finished
  BY DEF TlInv
<1>2. Running("poll", t)
  BY <1>1, TopFacts DEF poll_ready
<1>3. ForeignHeld \in Nat /\ InHand \in Nat /\ ForeignHeld' = ForeignHeld /\ InHand' = InHand
  BY <1>1, OutsideNat, OutsideSame DEF poll_ready, foreign
<1>4. refs \in Nat /\ runq \in Nat /\ ownerW \in Nat /\ chanWake \in Nat /\ chanCleanup \in Nat
  BY <1>1, <1>2, RefsInt, RefsNat DEF TlTypes
<1>5. stack' = Push("drop_future", Push("completed", Push("end_run", t)))
  BY <1>2 DEF poll_ready, Running, Return, Push
<1>6. /\ Fits("end_run", Members(t)) /\ Fits("completed", Members(t) \cup {"end_run"})
      /\ Fits("drop_future", Members(t) \cup {"completed", "end_run"})
  BY <1>1, <1>2, <1>3, <1>4
     DEF Running, Fits, Ordered, Leans, Names, Protecting, Bare, Neutral, SchedEnds, RunFrames,
         Holding
<1>7. /\ After(Members(t) \cup {"drop_future", "completed", "end_run"},
           RefsOf(t) + Weight("drop_future") + Weight("completed") + Weight("end_run"))
      /\ Top' = "drop_future"
  BY <1>1, <1>2, <1>3, <1>4, <1>5, <1>6, Push3 DEF Running
<1>8. RefsOf(stack') = RefsOf(stack) /\ RefsOf(stack) \in Nat /\ RefsOf(stack') \in Nat
  BY <1>1, <1>2, <1>3, <1>4, <1>7 DEF Running, After, Weight, Holding
<1>9. /\ UNCHANGED <<refs, freed, registryRef, handle, runq, ownerW, chanWake, chanCleanup, fpc,
           foreignW, seen>>
  BY <1>1, <1>2, <1>3, <1>4 DEF poll_ready, header, places, executor, channel, foreign
<1>10. Balanced
  BY <1>4, <1>8, <1>9 DEF Balanced
<1>11. Exact'
  BY <1>1, <1>3, <1>8, <1>9, <1>10, Recount
<1>12. Zeroed' /\ Relied'
  BY <1>1, <1>2, <1>3, <1>4, <1>9 DEF Zeroed, Relied
<1>13. TlTypes'
  BY <1>1, <1>2, <1>3, <1>4, <1>7, <1>9
     DEF TlTypes, After, poll_ready, header, places, executor, channel, foreign
<1>14. Registered'
  BY <1>1, <1>2, <1>3, <1>4, <1>7
     DEF Registered, Has, Running, After, Ordered, SchedEnds, RunFrames, poll_ready, header,
         places, executor, channel, foreign
<1>15. Flagged'
  BY <1>1, <1>2, <1>3, <1>4, <1>7
     DEF Flagged, Has, Running, After, Ordered, SchedEnds, RunFrames, poll_ready, header, places,
         executor, channel, foreign
<1>16. Finished'
  BY <1>1, <1>2, <1>3, <1>4, <1>7, <1>15
     DEF Finished, Registered, Flagged, Ended, Has, Running, After, Ordered, SchedEnds,
         RunFrames, poll_ready, header, places, executor, channel, foreign
<1>. QED
  BY <1>7, <1>11, <1>12, <1>13, <1>14, <1>15, <1>16 DEF TlInv, After

LEMMA Step_completed == ASSUME TlInv, completed PROVE TlInv'
<1>. DEFINE t == Tail(stack)
<1>1. TlTypes /\ Exact /\ Zeroed /\ Relied /\ Stacked /\ Registered /\ Flagged /\ Finished
  BY DEF TlInv
<1>2. Running("completed", t)
  BY <1>1, TopFacts DEF completed, Has
<1>3. ForeignHeld \in Nat /\ InHand \in Nat /\ ForeignHeld' = ForeignHeld /\ InHand' = InHand
  BY <1>1, OutsideNat, OutsideSame DEF completed, foreign, Has
<1>4. refs \in Nat /\ runq \in Nat /\ ownerW \in Nat /\ chanWake \in Nat /\ chanCleanup \in Nat
  BY <1>1, <1>2, RefsInt, RefsNat DEF TlTypes
<1>5. CASE ~Has("HANDLE") \/ Has("CLOSED")
  <2>1. stack' = Push("user", Push("ready_end", t))
    BY <1>2, <1>5 DEF completed, Has, Running, Return, Push
  <2>2. Fits("ready_end", Members(t)) /\ Fits("user", Members(t) \cup {"ready_end"})
    BY <1>1, <1>2, <1>3, <1>4, <1>5
       DEF Running, Fits, Ordered, Leans, Names, Protecting, Bare, Neutral, SchedEnds, RunFrames,
           Holding
  <2>3. /\ After(Members(t) \cup {"user", "ready_end"},
             RefsOf(t) + Weight("user") + Weight("ready_end"))
        /\ Top' = "user"
    BY <1>1, <1>2, <1>3, <1>4, <1>5, <2>1, <2>2, Push2 DEF Running
  <2>4. RefsOf(stack') = RefsOf(stack) /\ RefsOf(stack) \in Nat /\ RefsOf(stack') \in Nat
    BY <1>1, <1>2, <1>3, <1>4, <1>5, <2>3 DEF Running, After, Weight, Holding
  <2>5. /\ UNCHANGED <<refs, freed, registryRef, handle, runq, ownerW, chanWake, chanCleanup,
             fpc, foreignW, seen>>
    BY <1>1, <1>2, <1>3, <1>4, <1>5 DEF completed, Has, header, places, executor, channel, foreign
  <2>6. Balanced
    BY <1>4, <1>5, <2>4, <2>5 DEF Balanced
  <2>7. Exact'
    BY <1>1, <1>3, <2>4, <2>5, <2>6, Recount
  <2>8. Zeroed' /\ Relied'
    BY <1>1, <1>2, <1>3, <1>4, <1>5, <2>5 DEF Zeroed, Relied
  <2>9. TlTypes'
    BY <1>1, <1>2, <1>3, <1>4, <1>5, <2>3, <2>5
       DEF TlTypes, After, completed, Has, header, places, executor, channel, foreign
  <2>10. Registered'
    BY <1>1, <1>2, <1>3, <1>4, <1>5, <2>3
       DEF Registered, Has, Running, After, Ordered, SchedEnds, RunFrames, completed, Has,
           header, places, executor, channel, foreign
  <2>11. Flagged'
    BY <1>1, <1>2, <1>3, <1>4, <1>5, <2>3
       DEF Flagged, Has, Running, After, Ordered, SchedEnds, RunFrames, completed, Has, header,
           places, executor, channel, foreign
  <2>12. Finished'
    BY <1>1, <1>2, <1>3, <1>4, <1>5, <2>3, <2>11
       DEF Finished, Registered, Flagged, Ended, Has, Running, After, Ordered, SchedEnds,
           RunFrames, completed, Has, header, places, executor, channel, foreign
  <2>. QED
    BY <2>3, <2>7, <2>8, <2>9, <2>10, <2>11, <2>12 DEF TlInv, After
<1>6. CASE ~(~Has("HANDLE") \/ Has("CLOSED"))
  <2>1. stack' = Push("ready_end", t)
    BY <1>2, <1>6 DEF completed, Has, Running, Return, Push
  <2>2. Fits("ready_end", Members(t))
    BY <1>1, <1>2, <1>3, <1>4, <1>6
       DEF Running, Fits, Ordered, Leans, Names, Protecting, Bare, Neutral, SchedEnds, RunFrames,
           Holding
  <2>3. /\ After(Members(t) \cup {"ready_end"}, RefsOf(t) + Weight("ready_end"))
        /\ Top' = "ready_end"
    BY <1>1, <1>2, <1>3, <1>4, <1>6, <2>1, <2>2, Push1 DEF Running
  <2>4. RefsOf(stack') = RefsOf(stack) /\ RefsOf(stack) \in Nat /\ RefsOf(stack') \in Nat
    BY <1>1, <1>2, <1>3, <1>4, <1>6, <2>3 DEF Running, After, Weight, Holding
  <2>5. /\ UNCHANGED <<refs, freed, registryRef, handle, runq, ownerW, chanWake, chanCleanup,
             fpc, foreignW, seen>>
    BY <1>1, <1>2, <1>3, <1>4, <1>6 DEF completed, Has, header, places, executor, channel, foreign
  <2>6. Balanced
    BY <1>4, <1>6, <2>4, <2>5 DEF Balanced
  <2>7. Exact'
    BY <1>1, <1>3, <2>4, <2>5, <2>6, Recount
  <2>8. Zeroed' /\ Relied'
    BY <1>1, <1>2, <1>3, <1>4, <1>6, <2>5 DEF Zeroed, Relied
  <2>9. TlTypes'
    BY <1>1, <1>2, <1>3, <1>4, <1>6, <2>3, <2>5
       DEF TlTypes, After, completed, Has, header, places, executor, channel, foreign
  <2>10. Registered'
    BY <1>1, <1>2, <1>3, <1>4, <1>6, <2>3
       DEF Registered, Has, Running, After, Ordered, SchedEnds, RunFrames, completed, Has,
           header, places, executor, channel, foreign
  <2>11. Flagged'
    BY <1>1, <1>2, <1>3, <1>4, <1>6, <2>3
       DEF Flagged, Has, Running, After, Ordered, SchedEnds, RunFrames, completed, Has, header,
           places, executor, channel, foreign
  <2>12. Finished'
    BY <1>1, <1>2, <1>3, <1>4, <1>6, <2>3, <2>11
       DEF Finished, Registered, Flagged, Ended, Has, Running, After, Ordered, SchedEnds,
           RunFrames, completed, Has, header, places, executor, channel, foreign
  <2>. QED
    BY <2>3, <2>7, <2>8, <2>9, <2>10, <2>11, <2>12 DEF TlInv, After
<1>. QED
  BY <1>5, <1>6, <1>1 DEF completed, Has

LEMMA Step_poll_panic == ASSUME TlInv, poll_panic PROVE TlInv'
<1>. DEFINE t == Tail(stack)
<1>1. TlTypes /\ Exact /\ Zeroed /\ Relied /\ Stacked /\ Registered /\ Flagged /\ Finished
  BY DEF TlInv
<1>2. Running("poll", t)
  BY <1>1, TopFacts DEF poll_panic
<1>3. ForeignHeld \in Nat /\ InHand \in Nat /\ ForeignHeld' = ForeignHeld /\ InHand' = InHand
  BY <1>1, OutsideNat, OutsideSame DEF poll_panic, foreign
<1>4. refs \in Nat /\ runq \in Nat /\ ownerW \in Nat /\ chanWake \in Nat /\ chanCleanup \in Nat
  BY <1>1, <1>2, RefsInt, RefsNat DEF TlTypes
<1>5. /\ stack' = Push("drop_future", Push("pending_closed_end", Push("finish", Push("release",
           t))))
  BY <1>2 DEF poll_panic, Running, Return, Push
<1>6. /\ Fits("release", Members(t)) /\ Fits("finish", Members(t) \cup {"release"})
      /\ Fits("pending_closed_end", Members(t) \cup {"finish", "release"})
      /\ Fits("drop_future", Members(t) \cup {"pending_closed_end", "finish", "release"})
  BY <1>1, <1>2, <1>3, <1>4
     DEF Running, Fits, Ordered, Leans, Names, Protecting, Bare, Neutral, SchedEnds, RunFrames,
         Holding
<1>7. /\ After(Members(t) \cup {"drop_future", "pending_closed_end", "finish", "release"},
           RefsOf(t) + Weight("drop_future") + Weight("pending_closed_end") + Weight("finish")
             + Weight("release"))
      /\ Top' = "drop_future"
  BY <1>1, <1>2, <1>3, <1>4, <1>5, <1>6, Push4 DEF Running
<1>8. RefsOf(stack') = RefsOf(stack) /\ RefsOf(stack) \in Nat /\ RefsOf(stack') \in Nat
  BY <1>1, <1>2, <1>3, <1>4, <1>7 DEF Running, After, Weight, Holding
<1>9. /\ UNCHANGED <<refs, freed, registryRef, handle, runq, ownerW, chanWake, chanCleanup, fpc,
           foreignW, seen>>
  BY <1>1, <1>2, <1>3, <1>4 DEF poll_panic, header, places, executor, channel, foreign
<1>10. Balanced
  BY <1>4, <1>8, <1>9 DEF Balanced
<1>11. Exact'
  BY <1>1, <1>3, <1>8, <1>9, <1>10, Recount
<1>12. Zeroed' /\ Relied'
  BY <1>1, <1>2, <1>3, <1>4, <1>9 DEF Zeroed, Relied
<1>13. TlTypes'
  BY <1>1, <1>2, <1>3, <1>4, <1>7, <1>9
     DEF TlTypes, After, poll_panic, header, places, executor, channel, foreign
<1>14. Registered'
  BY <1>1, <1>2, <1>3, <1>4, <1>7
     DEF Registered, Has, Running, After, Ordered, SchedEnds, RunFrames, poll_panic, header,
         places, executor, channel, foreign
<1>15. Flagged'
  BY <1>1, <1>2, <1>3, <1>4, <1>7
     DEF Flagged, Has, Running, After, Ordered, SchedEnds, RunFrames, poll_panic, header, places,
         executor, channel, foreign
<1>16. Finished'
  BY <1>1, <1>2, <1>3, <1>4, <1>7, <1>15
     DEF Finished, Registered, Flagged, Ended, Has, Running, After, Ordered, SchedEnds,
         RunFrames, poll_panic, header, places, executor, channel, foreign
<1>. QED
  BY <1>7, <1>11, <1>12, <1>13, <1>14, <1>15, <1>16 DEF TlInv, After

LEMMA Step_end_run == ASSUME TlInv, end_run PROVE TlInv'
<1>. DEFINE t == Tail(stack)
<1>1. TlTypes /\ Exact /\ Zeroed /\ Relied /\ Stacked /\ Registered /\ Flagged /\ Finished
  BY DEF TlInv
<1>2. Running("end_run", t)
  BY <1>1, TopFacts DEF end_run
<1>3. ForeignHeld \in Nat /\ InHand \in Nat /\ ForeignHeld' = ForeignHeld /\ InHand' = InHand
  BY <1>1, OutsideNat, OutsideSame DEF end_run, foreign
<1>4. refs \in Nat /\ runq \in Nat /\ ownerW \in Nat /\ chanWake \in Nat /\ chanCleanup \in Nat
  BY <1>1, <1>2, RefsInt, RefsNat DEF TlTypes
<1>5. CASE CanCleanup
  <2>1. registryRef
    BY <1>1, <1>2, <1>3, <1>4, <1>5 DEF CanCleanup, Registered
  <2>2. stack' = Push("release2", t)
    BY <1>2, <1>5, <2>1 DEF end_run, CleanupOwner, CanCleanup, Running, Return, Push
  <2>3. Fits("release2", Members(t))
    BY <1>1, <1>2, <1>3, <1>4, <1>5, <2>1
       DEF Running, Fits, Ordered, Leans, Names, Protecting, Bare, Neutral, SchedEnds, RunFrames,
           Holding
  <2>4. After(Members(t) \cup {"release2"}, RefsOf(t) + Weight("release2")) /\ Top' = "release2"
    BY <1>1, <1>2, <1>3, <1>4, <1>5, <2>1, <2>2, <2>3, Push1 DEF Running
  <2>5. RefsOf(stack') = RefsOf(stack) + 1 /\ RefsOf(stack) \in Nat /\ RefsOf(stack') \in Nat
    BY <1>1, <1>2, <1>3, <1>4, <1>5, <2>1, <2>4 DEF Running, After, Weight, Holding
  <2>6. /\ ~registryRef'
        /\ UNCHANGED <<refs, freed, handle, runq, ownerW, chanWake, chanCleanup, fpc, foreignW,
             seen>>
    BY <1>1, <1>2, <1>3, <1>4, <1>5, <2>1
       DEF end_run, CleanupOwner, CanCleanup, header, places, executor, channel, foreign
  <2>7. Exact'
    BY <1>1, <1>2, <1>3, <1>4, <1>5, <2>1, <2>5, <2>6, CleanupCounts
  <2>8. Zeroed' /\ Relied'
    BY <1>1, <1>2, <1>3, <1>4, <1>5, <2>1, <2>6 DEF Zeroed, Relied
  <2>9. TlTypes'
    BY <1>1, <1>2, <1>3, <1>4, <1>5, <2>1, <2>4, <2>6
       DEF TlTypes, After, end_run, CleanupOwner, CanCleanup, header, places, executor, channel,
           foreign
  <2>10. Registered'
    BY <1>1, <1>2, <1>3, <1>4, <1>5, <2>1, <2>4
       DEF Registered, Has, Running, After, Ordered, SchedEnds, RunFrames, end_run, CleanupOwner,
           CanCleanup, header, places, executor, channel, foreign
  <2>11. Flagged'
    BY <1>1, <1>2, <1>3, <1>4, <1>5, <2>1, <2>4
       DEF Flagged, Has, Running, After, Ordered, SchedEnds, RunFrames, end_run, CleanupOwner,
           CanCleanup, header, places, executor, channel, foreign
  <2>12. Finished'
    BY <1>1, <1>2, <1>3, <1>4, <1>5, <2>1, <2>4, <2>11
       DEF Finished, Registered, Flagged, Ended, Has, Running, After, Ordered, SchedEnds,
           RunFrames, end_run, CleanupOwner, CanCleanup, header, places, executor, channel,
           foreign
  <2>. QED
    BY <2>4, <2>7, <2>8, <2>9, <2>10, <2>11, <2>12 DEF TlInv, After
<1>6. CASE ~CanCleanup
  <2>1. stack' = Push("drop_waker", t)
    BY <1>2, <1>6 DEF end_run, Running, Return, Push
  <2>2. Fits("drop_waker", Members(t))
    BY <1>1, <1>2, <1>3, <1>4, <1>6
       DEF Running, Fits, Ordered, Leans, Names, Protecting, Bare, Neutral, SchedEnds, RunFrames,
           Holding
  <2>3. /\ After(Members(t) \cup {"drop_waker"}, RefsOf(t) + Weight("drop_waker"))
        /\ Top' = "drop_waker"
    BY <1>1, <1>2, <1>3, <1>4, <1>6, <2>1, <2>2, Push1 DEF Running
  <2>4. RefsOf(stack') = RefsOf(stack) /\ RefsOf(stack) \in Nat /\ RefsOf(stack') \in Nat
    BY <1>1, <1>2, <1>3, <1>4, <1>6, <2>3 DEF Running, After, Weight, Holding
  <2>5. /\ UNCHANGED <<refs, freed, registryRef, handle, runq, ownerW, chanWake, chanCleanup,
             fpc, foreignW, seen>>
    BY <1>1, <1>2, <1>3, <1>4, <1>6 DEF end_run, header, places, executor, channel, foreign
  <2>6. Balanced
    BY <1>4, <1>6, <2>4, <2>5 DEF Balanced
  <2>7. Exact'
    BY <1>1, <1>3, <2>4, <2>5, <2>6, Recount
  <2>8. Zeroed' /\ Relied'
    BY <1>1, <1>2, <1>3, <1>4, <1>6, <2>5 DEF Zeroed, Relied
  <2>9. TlTypes'
    BY <1>1, <1>2, <1>3, <1>4, <1>6, <2>3, <2>5
       DEF TlTypes, After, end_run, header, places, executor, channel, foreign
  <2>10. Registered'
    BY <1>1, <1>2, <1>3, <1>4, <1>6, <2>3
       DEF Registered, Has, Running, After, Ordered, SchedEnds, RunFrames, end_run, header,
           places, executor, channel, foreign
  <2>11. Flagged'
    BY <1>1, <1>2, <1>3, <1>4, <1>6, <2>3
       DEF Flagged, Has, Running, After, Ordered, SchedEnds, RunFrames, end_run, header, places,
           executor, channel, foreign
  <2>12. Finished'
    BY <1>1, <1>2, <1>3, <1>4, <1>6, <2>3, <2>11
       DEF Finished, Registered, Flagged, Ended, Has, Running, After, Ordered, SchedEnds,
           RunFrames, end_run, header, places, executor, channel, foreign
  <2>. QED
    BY <2>3, <2>7, <2>8, <2>9, <2>10, <2>11, <2>12 DEF TlInv, After
<1>. QED
  BY <1>5, <1>6, <1>1 DEF end_run

LEMMA Step_close_foreign_wakes == ASSUME TlInv, close_foreign_wakes PROVE TlInv'
<1>. DEFINE t == Tail(stack)
<1>1. TlTypes /\ Exact /\ Zeroed /\ Relied /\ Stacked /\ Registered /\ Flagged /\ Finished
  BY DEF TlInv
<1>2. Running("close_foreign_wakes", t)
  BY <1>1, TopFacts DEF close_foreign_wakes
<1>3. ForeignHeld \in Nat /\ InHand \in Nat /\ ForeignHeld' = ForeignHeld /\ InHand' = InHand
  BY <1>1, OutsideNat, OutsideSame DEF close_foreign_wakes, foreign
<1>4. refs \in Nat /\ runq \in Nat /\ ownerW \in Nat /\ chanWake \in Nat /\ chanCleanup \in Nat
  BY <1>1, <1>2, RefsInt, RefsNat DEF TlTypes
<1>5. CASE chanWake > 0 /\ chanWake' = chanWake - 1 /\ UNCHANGED chanCleanup
             /\ Return(<<"drop_waker", "close_foreign_wakes">>)
  <2>1. stack' = Push("drop_waker", Push("close_foreign_wakes", t))
    BY <1>2, <1>5 DEF Running, Return, Push
  <2>2. /\ Fits("close_foreign_wakes", Members(t))
        /\ Fits("drop_waker", Members(t) \cup {"close_foreign_wakes"})
    BY <1>1, <1>2, <1>3, <1>4, <1>5
       DEF Running, Fits, Ordered, Leans, Names, Protecting, Bare, Neutral, SchedEnds, RunFrames,
           Holding
  <2>3. /\ After(Members(t) \cup {"drop_waker", "close_foreign_wakes"},
             RefsOf(t) + Weight("drop_waker") + Weight("close_foreign_wakes"))
        /\ Top' = "drop_waker"
    BY <1>1, <1>2, <1>3, <1>4, <1>5, <2>1, <2>2, Push2 DEF Running
  <2>4. RefsOf(stack') = RefsOf(stack) + 1 /\ RefsOf(stack) \in Nat /\ RefsOf(stack') \in Nat
    BY <1>1, <1>2, <1>3, <1>4, <1>5, <2>3 DEF Running, After, Weight, Holding
  <2>5. /\ chanWake' = chanWake - 1
        /\ UNCHANGED <<refs, freed, registryRef, handle, runq, ownerW, chanCleanup, fpc,
             foreignW, seen>>
    BY <1>1, <1>2, <1>3, <1>4, <1>5
       DEF close_foreign_wakes, header, places, executor, channel, foreign
  <2>6. Balanced
    BY <1>4, <1>5, <2>4, <2>5 DEF Balanced
  <2>7. Exact'
    BY <1>1, <1>3, <2>4, <2>5, <2>6, Recount
  <2>8. Zeroed' /\ Relied'
    BY <1>1, <1>2, <1>3, <1>4, <1>5, <2>5 DEF Zeroed, Relied
  <2>9. TlTypes'
    BY <1>1, <1>2, <1>3, <1>4, <1>5, <2>3, <2>5
       DEF TlTypes, After, close_foreign_wakes, header, places, executor, channel, foreign
  <2>10. Registered'
    BY <1>1, <1>2, <1>3, <1>4, <1>5, <2>3
       DEF Registered, Has, Running, After, Ordered, SchedEnds, RunFrames, close_foreign_wakes,
           header, places, executor, channel, foreign
  <2>11. Flagged'
    BY <1>1, <1>2, <1>3, <1>4, <1>5, <2>3
       DEF Flagged, Has, Running, After, Ordered, SchedEnds, RunFrames, close_foreign_wakes,
           header, places, executor, channel, foreign
  <2>12. Finished'
    BY <1>1, <1>2, <1>3, <1>4, <1>5, <2>3, <2>11
       DEF Finished, Registered, Flagged, Ended, Has, Running, After, Ordered, SchedEnds,
           RunFrames, close_foreign_wakes, header, places, executor, channel, foreign
  <2>. QED
    BY <2>3, <2>7, <2>8, <2>9, <2>10, <2>11, <2>12 DEF TlInv, After
<1>6. CASE chanCleanup > 0 /\ chanCleanup' = chanCleanup - 1 /\ UNCHANGED chanWake
             /\ Return(<<"drop_waker", "close_foreign_wakes">>)
  <2>1. stack' = Push("drop_waker", Push("close_foreign_wakes", t))
    BY <1>2, <1>6 DEF Running, Return, Push
  <2>2. /\ Fits("close_foreign_wakes", Members(t))
        /\ Fits("drop_waker", Members(t) \cup {"close_foreign_wakes"})
    BY <1>1, <1>2, <1>3, <1>4, <1>6
       DEF Running, Fits, Ordered, Leans, Names, Protecting, Bare, Neutral, SchedEnds, RunFrames,
           Holding
  <2>3. /\ After(Members(t) \cup {"drop_waker", "close_foreign_wakes"},
             RefsOf(t) + Weight("drop_waker") + Weight("close_foreign_wakes"))
        /\ Top' = "drop_waker"
    BY <1>1, <1>2, <1>3, <1>4, <1>6, <2>1, <2>2, Push2 DEF Running
  <2>4. RefsOf(stack') = RefsOf(stack) + 1 /\ RefsOf(stack) \in Nat /\ RefsOf(stack') \in Nat
    BY <1>1, <1>2, <1>3, <1>4, <1>6, <2>3 DEF Running, After, Weight, Holding
  <2>5. /\ chanCleanup' = chanCleanup - 1
        /\ UNCHANGED <<refs, freed, registryRef, handle, runq, ownerW, chanWake, fpc, foreignW,
             seen>>
    BY <1>1, <1>2, <1>3, <1>4, <1>6
       DEF close_foreign_wakes, header, places, executor, channel, foreign
  <2>6. Balanced
    BY <1>4, <1>6, <2>4, <2>5 DEF Balanced
  <2>7. Exact'
    BY <1>1, <1>3, <2>4, <2>5, <2>6, Recount
  <2>8. Zeroed' /\ Relied'
    BY <1>1, <1>2, <1>3, <1>4, <1>6, <2>5 DEF Zeroed, Relied
  <2>9. TlTypes'
    BY <1>1, <1>2, <1>3, <1>4, <1>6, <2>3, <2>5
       DEF TlTypes, After, close_foreign_wakes, header, places, executor, channel, foreign
  <2>10. Registered'
    BY <1>1, <1>2, <1>3, <1>4, <1>6, <2>3
       DEF Registered, Has, Running, After, Ordered, SchedEnds, RunFrames, close_foreign_wakes,
           header, places, executor, channel, foreign
  <2>11. Flagged'
    BY <1>1, <1>2, <1>3, <1>4, <1>6, <2>3
       DEF Flagged, Has, Running, After, Ordered, SchedEnds, RunFrames, close_foreign_wakes,
           header, places, executor, channel, foreign
  <2>12. Finished'
    BY <1>1, <1>2, <1>3, <1>4, <1>6, <2>3, <2>11
       DEF Finished, Registered, Flagged, Ended, Has, Running, After, Ordered, SchedEnds,
           RunFrames, close_foreign_wakes, header, places, executor, channel, foreign
  <2>. QED
    BY <2>3, <2>7, <2>8, <2>9, <2>10, <2>11, <2>12 DEF TlInv, After
<1>7. CASE chanWake = 0 /\ chanCleanup = 0 /\ UNCHANGED <<chanWake, chanCleanup>> /\ Return(<<>>)
  <2>1. stack' = t
    BY <1>2, <1>7 DEF close_foreign_wakes, Running, Return
  <2>2. After(Members(t), RefsOf(t))
    BY <1>1, <1>2, <1>3, <1>4, <1>7, <2>1, Push0 DEF Running
  <2>3. RefsOf(stack') = RefsOf(stack) /\ RefsOf(stack) \in Nat /\ RefsOf(stack') \in Nat
    BY <1>1, <1>2, <1>3, <1>4, <1>7, <2>2 DEF Running, After, Weight, Holding
  <2>4. /\ UNCHANGED <<refs, freed, registryRef, handle, runq, ownerW, chanWake, chanCleanup,
             fpc, foreignW, seen>>
    BY <1>1, <1>2, <1>3, <1>4, <1>7
       DEF close_foreign_wakes, header, places, executor, channel, foreign
  <2>5. Balanced
    BY <1>4, <1>7, <2>3, <2>4 DEF Balanced
  <2>6. Exact'
    BY <1>1, <1>3, <2>3, <2>4, <2>5, Recount
  <2>7. Zeroed' /\ Relied'
    BY <1>1, <1>2, <1>3, <1>4, <1>7, <2>4 DEF Zeroed, Relied
  <2>8. TlTypes'
    BY <1>1, <1>2, <1>3, <1>4, <1>7, <2>2, <2>4
       DEF TlTypes, After, close_foreign_wakes, header, places, executor, channel, foreign
  <2>9. Registered'
    BY <1>1, <1>2, <1>3, <1>4, <1>7, <2>2
       DEF Registered, Has, Running, After, Ordered, SchedEnds, RunFrames, close_foreign_wakes,
           header, places, executor, channel, foreign
  <2>10. Flagged'
    BY <1>1, <1>2, <1>3, <1>4, <1>7, <2>2
       DEF Flagged, Has, Running, After, Ordered, SchedEnds, RunFrames, close_foreign_wakes,
           header, places, executor, channel, foreign
  <2>11. Finished'
    BY <1>1, <1>2, <1>3, <1>4, <1>7, <2>2, <2>1, <2>10
       DEF Finished, Registered, Flagged, Ended, Has, Running, After, Ordered, SchedEnds,
           RunFrames, close_foreign_wakes, header, places, executor, channel, foreign
  <2>. QED
    BY <2>2, <2>6, <2>7, <2>8, <2>9, <2>10, <2>11 DEF TlInv, After
<1>. QED
  BY <1>5, <1>6, <1>7, <1>1 DEF close_foreign_wakes

LEMMA Step_finish_shutdown == ASSUME TlInv, finish_shutdown PROVE TlInv'
<1>. DEFINE t == Tail(stack)
<1>1. TlTypes /\ Exact /\ Zeroed /\ Relied /\ Stacked /\ Registered /\ Flagged /\ Finished
  BY DEF TlInv
<1>2. Running("finish_shutdown", t)
  BY <1>1, TopFacts DEF finish_shutdown
<1>3. ForeignHeld \in Nat /\ InHand \in Nat /\ ForeignHeld' = ForeignHeld /\ InHand' = InHand
  BY <1>1, OutsideNat, OutsideSame DEF finish_shutdown, foreign
<1>4. refs \in Nat /\ runq \in Nat /\ ownerW \in Nat /\ chanWake \in Nat /\ chanCleanup \in Nat
  BY <1>1, <1>2, RefsInt, RefsNat DEF TlTypes
<1>5. CASE linked
  <2>1. stack' = Push("shutdown", Push("finish_shutdown", t))
    BY <1>2, <1>5 DEF finish_shutdown, Running, Return, Push
  <2>2. /\ Fits("finish_shutdown", Members(t))
        /\ (Fits("shutdown", Members(t) \cup {"finish_shutdown"}) \/ Leans("shutdown")')
        /\ Ordered("shutdown", Members(t) \cup {"finish_shutdown"})
    BY <1>1, <1>2, <1>3, <1>4, <1>5
       DEF Running, Fits, Ordered, Leans, Names, Protecting, Bare, Neutral, SchedEnds, RunFrames,
           Holding, finish_shutdown, Registered, Flagged, Has, header, places, executor, channel,
           foreign
  <2>3. /\ After(Members(t) \cup {"shutdown", "finish_shutdown"},
             RefsOf(t) + Weight("shutdown") + Weight("finish_shutdown"))
        /\ Top' = "shutdown"
    BY <1>1, <1>2, <1>3, <1>4, <1>5, <2>1, <2>2, PushLean2 DEF Running
  <2>4. RefsOf(stack') = RefsOf(stack) /\ RefsOf(stack) \in Nat /\ RefsOf(stack') \in Nat
    BY <1>1, <1>2, <1>3, <1>4, <1>5, <2>3 DEF Running, After, Weight, Holding
  <2>5. /\ UNCHANGED <<refs, freed, registryRef, handle, runq, ownerW, chanWake, chanCleanup,
             fpc, foreignW, seen>>
    BY <1>1, <1>2, <1>3, <1>4, <1>5
       DEF finish_shutdown, header, places, executor, channel, foreign
  <2>6. Balanced
    BY <1>4, <1>5, <2>4, <2>5 DEF Balanced
  <2>7. Exact'
    BY <1>1, <1>3, <2>4, <2>5, <2>6, Recount
  <2>8. Zeroed' /\ Relied'
    BY <1>1, <1>2, <1>3, <1>4, <1>5, <2>5 DEF Zeroed, Relied
  <2>9. TlTypes'
    BY <1>1, <1>2, <1>3, <1>4, <1>5, <2>3, <2>5
       DEF TlTypes, After, finish_shutdown, header, places, executor, channel, foreign
  <2>10. Registered'
    BY <1>1, <1>2, <1>3, <1>4, <1>5, <2>3
       DEF Registered, Has, Running, After, Ordered, SchedEnds, RunFrames, finish_shutdown,
           header, places, executor, channel, foreign
  <2>11. Flagged'
    BY <1>1, <1>2, <1>3, <1>4, <1>5, <2>3
       DEF Flagged, Has, Running, After, Ordered, SchedEnds, RunFrames, finish_shutdown, header,
           places, executor, channel, foreign
  <2>12. Finished'
    BY <1>1, <1>2, <1>3, <1>4, <1>5, <2>3, <2>11
       DEF Finished, Registered, Flagged, Ended, Has, Running, After, Ordered, SchedEnds,
           RunFrames, finish_shutdown, header, places, executor, channel, foreign
  <2>. QED
    BY <2>3, <2>7, <2>8, <2>9, <2>10, <2>11, <2>12 DEF TlInv, After
<1>6. CASE ~linked /\ runq > 0
  <2>1. stack' = <<"close", "finish", "release", "finish_shutdown">> \o t /\ runq' = runq - 1
    BY <1>2, <1>6 DEF finish_shutdown, DropTask, Running, Return
  <2>2. stack' = Push("close", Push("finish", Push("release", Push("finish_shutdown", t))))
    BY <2>1 DEF Running, Return, Push
  <2>3. /\ Fits("finish_shutdown", Members(t))
        /\ Fits("release", Members(t) \cup {"finish_shutdown"})
        /\ Fits("finish", Members(t) \cup {"release", "finish_shutdown"})
        /\ Fits("close", Members(t) \cup {"finish", "release", "finish_shutdown"})
    BY <1>1, <1>2, <1>3, <1>4, <1>6, <2>1
       DEF Running, Fits, Ordered, Leans, Names, Protecting, Bare, Neutral, SchedEnds, RunFrames,
           Holding
  <2>4. /\ After(Members(t) \cup {"close", "finish", "release", "finish_shutdown"},
             RefsOf(t) + Weight("close") + Weight("finish") + Weight("release")
               + Weight("finish_shutdown"))
        /\ Top' = "close"
    BY <1>1, <1>2, <1>3, <1>4, <1>6, <2>1, <2>2, <2>3, Push4 DEF Running
  <2>5. RefsOf(stack') = RefsOf(stack) + 1 /\ RefsOf(stack) \in Nat /\ RefsOf(stack') \in Nat
    BY <1>1, <1>2, <1>3, <1>4, <1>6, <2>1, <2>4 DEF Running, After, Weight, Holding
  <2>6. /\ runq' = runq - 1
        /\ UNCHANGED <<refs, freed, registryRef, handle, ownerW, chanWake, chanCleanup, fpc,
             foreignW, seen>>
    BY <1>1, <1>2, <1>3, <1>4, <1>6, <2>1
       DEF finish_shutdown, header, places, executor, channel, foreign
  <2>7. Balanced
    BY <1>4, <1>6, <2>5, <2>6 DEF Balanced
  <2>8. Exact'
    BY <1>1, <1>3, <2>5, <2>6, <2>7, Recount
  <2>9. Zeroed' /\ Relied'
    BY <1>1, <1>2, <1>3, <1>4, <1>6, <2>1, <2>6 DEF Zeroed, Relied
  <2>10. TlTypes'
    BY <1>1, <1>2, <1>3, <1>4, <1>6, <2>1, <2>4, <2>6, SMTT(60)
       DEF TlTypes, After, finish_shutdown, header, places, executor, channel, foreign
  <2>11. Registered'
    BY <1>1, <1>2, <1>3, <1>4, <1>6, <2>1, <2>4
       DEF Registered, Has, Running, After, Ordered, SchedEnds, RunFrames, finish_shutdown,
           header, places, executor, channel, foreign
  <2>12. Flagged'
    BY <1>1, <1>2, <1>3, <1>4, <1>6, <2>1, <2>4
       DEF Flagged, Has, Running, After, Ordered, SchedEnds, RunFrames, finish_shutdown, header,
           places, executor, channel, foreign
  <2>13. Finished'
    BY <1>1, <1>2, <1>3, <1>4, <1>6, <2>1, <2>4, <2>12
       DEF Finished, Registered, Flagged, Ended, Has, Running, After, Ordered, SchedEnds,
           RunFrames, finish_shutdown, header, places, executor, channel, foreign
  <2>. QED
    BY <2>4, <2>8, <2>9, <2>10, <2>11, <2>12, <2>13 DEF TlInv, After
<1>7. CASE ~linked /\ runq = 0
  <2>1. stack' = t
    BY <1>2, <1>7 DEF finish_shutdown, Running, Return
  <2>2. After(Members(t), RefsOf(t))
    BY <1>1, <1>2, <1>3, <1>4, <1>7, <2>1, Push0 DEF Running
  <2>3. RefsOf(stack') = RefsOf(stack) /\ RefsOf(stack) \in Nat /\ RefsOf(stack') \in Nat
    BY <1>1, <1>2, <1>3, <1>4, <1>7, <2>2 DEF Running, After, Weight, Holding
  <2>4. /\ UNCHANGED <<refs, freed, registryRef, handle, runq, ownerW, chanWake, chanCleanup,
             fpc, foreignW, seen>>
    BY <1>1, <1>2, <1>3, <1>4, <1>7
       DEF finish_shutdown, header, places, executor, channel, foreign
  <2>5. Balanced
    BY <1>4, <1>7, <2>3, <2>4 DEF Balanced
  <2>6. Exact'
    BY <1>1, <1>3, <2>3, <2>4, <2>5, Recount
  <2>7. Zeroed' /\ Relied'
    BY <1>1, <1>2, <1>3, <1>4, <1>7, <2>4 DEF Zeroed, Relied
  <2>8. TlTypes'
    BY <1>1, <1>2, <1>3, <1>4, <1>7, <2>2, <2>4
       DEF TlTypes, After, finish_shutdown, header, places, executor, channel, foreign
  <2>9. Registered'
    BY <1>1, <1>2, <1>3, <1>4, <1>7, <2>2
       DEF Registered, Has, Running, After, Ordered, SchedEnds, RunFrames, finish_shutdown,
           header, places, executor, channel, foreign
  <2>10. Flagged'
    BY <1>1, <1>2, <1>3, <1>4, <1>7, <2>2
       DEF Flagged, Has, Running, After, Ordered, SchedEnds, RunFrames, finish_shutdown, header,
           places, executor, channel, foreign
  <2>11. Finished'
    BY <1>1, <1>2, <1>3, <1>4, <1>7, <2>2, <2>1, <2>10
       DEF Finished, Registered, Flagged, Ended, Has, Running, After, Ordered, SchedEnds,
           RunFrames, finish_shutdown, header, places, executor, channel, foreign
  <2>. QED
    BY <2>2, <2>6, <2>7, <2>8, <2>9, <2>10, <2>11 DEF TlInv, After
<1>. QED
  BY <1>5, <1>6, <1>7, <1>1 DEF finish_shutdown

LEMMA Step_schedule_owned == ASSUME TlInv, schedule_owned PROVE TlInv'
<1>. DEFINE e == IF scheduling THEN "schedule_end_T" ELSE "schedule_end_F"
<1>. DEFINE t == Tail(stack)
<1>1. TlTypes /\ Exact /\ Zeroed /\ Relied /\ Stacked /\ Registered /\ Flagged /\ Finished
  BY DEF TlInv
<1>2. Running("schedule_owned", t)
  BY <1>1, TopFacts DEF schedule_owned
<1>3. ForeignHeld \in Nat /\ InHand \in Nat /\ ForeignHeld' = ForeignHeld /\ InHand' = InHand
  BY <1>1, OutsideNat, OutsideSame DEF schedule_owned, foreign
<1>4. refs \in Nat /\ runq \in Nat /\ ownerW \in Nat /\ chanWake \in Nat /\ chanCleanup \in Nat
  BY <1>1, <1>2, RefsInt, RefsNat DEF TlTypes
<1>5. (scheduling <=> Members(t) \cap SchedEnds # {})
  BY <1>1, <1>2 DEF Registered, Running, SchedEnds
<1>6. e \in SchedEnds /\ (e = "schedule_end_T" <=> scheduling)
      /\ e = IF scheduling THEN "schedule_end_T" ELSE "schedule_end_F"
  BY DEF SchedEnds
<1>. HIDE DEF e
<1>7. Weight(e) = 0
  BY <1>6 DEF Weight, SchedEnds, Holding
<1>8. CASE Has("SCHEDULE_DROPPED")
  <2>1. stack' = Push("release", t)
    BY <1>2, <1>5, <1>6, <1>7, <1>8 DEF schedule_owned, Running, Return, Push
  <2>2. Fits("release", Members(t))
    BY <1>1, <1>2, <1>3, <1>4, <1>5, <1>6, <1>7, <1>8
       DEF Running, Fits, Ordered, Leans, Names, Protecting, Bare, Neutral, SchedEnds, RunFrames,
           Holding
  <2>3. After(Members(t) \cup {"release"}, RefsOf(t) + Weight("release")) /\ Top' = "release"
    BY <1>1, <1>2, <1>3, <1>4, <1>5, <1>6, <1>7, <1>8, <2>1, <2>2, Push1 DEF Running
  <2>4. RefsOf(stack') = RefsOf(stack) /\ RefsOf(stack) \in Nat /\ RefsOf(stack') \in Nat
    BY <1>1, <1>2, <1>3, <1>4, <1>5, <1>6, <1>7, <1>8, <2>3 DEF Running, After, Weight, Holding
  <2>5. /\ UNCHANGED <<refs, freed, registryRef, handle, runq, ownerW, chanWake, chanCleanup,
             fpc, foreignW, seen>>
    BY <1>1, <1>2, <1>3, <1>4, <1>5, <1>6, <1>7, <1>8
       DEF schedule_owned, header, places, executor, channel, foreign
  <2>6. Balanced
    BY <1>4, <1>8, <2>4, <2>5 DEF Balanced
  <2>7. Exact'
    BY <1>1, <1>3, <2>4, <2>5, <2>6, Recount
  <2>8. Zeroed' /\ Relied'
    BY <1>1, <1>2, <1>3, <1>4, <1>5, <1>6, <1>7, <1>8, <2>5 DEF Zeroed, Relied
  <2>9. TlTypes'
    BY <1>1, <1>2, <1>3, <1>4, <1>5, <1>6, <1>7, <1>8, <2>3, <2>5
       DEF TlTypes, After, schedule_owned, header, places, executor, channel, foreign
  <2>10. Registered'
    BY <1>1, <1>2, <1>3, <1>4, <1>5, <1>6, <1>7, <1>8, <2>3
       DEF Registered, Has, Running, After, Ordered, SchedEnds, RunFrames, schedule_owned,
           header, places, executor, channel, foreign
  <2>11. Flagged'
    BY <1>1, <1>2, <1>3, <1>4, <1>5, <1>6, <1>7, <1>8, <2>3
       DEF Flagged, Has, Running, After, Ordered, SchedEnds, RunFrames, schedule_owned, header,
           places, executor, channel, foreign
  <2>12. Finished'
    BY <1>1, <1>2, <1>3, <1>4, <1>5, <1>6, <1>7, <1>8, <2>3, <2>11
       DEF Finished, Registered, Flagged, Ended, Has, Running, After, Ordered, SchedEnds,
           RunFrames, schedule_owned, header, places, executor, channel, foreign
  <2>. QED
    BY <2>3, <2>7, <2>8, <2>9, <2>10, <2>11, <2>12 DEF TlInv, After
<1>9. CASE ~Has("SCHEDULE_DROPPED") /\ ~queueGone /\ (Entered \/ (exec = "idle"
             /\ ~Has("CLOSED")))
  <2>1. stack' = <<e>> \o t /\ scheduling' = TRUE
    BY <1>2, <1>6, <1>9 DEF schedule_owned, DropTask, Entered, Running, Return
  <2>2. stack' = Push(e, t)
    BY <2>1 DEF Running, Return, Push
  <2>3. Fits(e, Members(t))
    BY <1>1, <1>2, <1>3, <1>4, <1>5, <1>6, <1>7, <1>9, <2>1
       DEF Running, Fits, Ordered, Leans, Names, Protecting, Bare, Neutral, SchedEnds, RunFrames,
           Holding
  <2>4. After(Members(t) \cup {e}, RefsOf(t) + Weight(e)) /\ Top' = e
    BY <1>1, <1>2, <1>3, <1>4, <1>5, <1>6, <1>7, <1>9, <2>1, <2>2, <2>3, Push1 DEF Running
  <2>5. Weight(e) = 0 /\ Weight("schedule_owned") = 1
    BY <1>1, <1>2, <1>3, <1>4, <1>5, <1>6, <1>7, <1>9 DEF Weight, Holding
  <2>6. RefsOf(stack') = RefsOf(stack) - 1 /\ RefsOf(stack) \in Nat /\ RefsOf(stack') \in Nat
    BY <1>2, <2>4, <2>5 DEF Running, After
  <2>7. /\ runq' = runq + 1
        /\ UNCHANGED <<refs, freed, registryRef, handle, ownerW, chanWake, chanCleanup, fpc,
             foreignW, seen>>
    BY <1>1, <1>2, <1>3, <1>4, <1>5, <1>6, <1>7, <1>9, <2>1
       DEF schedule_owned, Entered, header, places, executor, channel, foreign
  <2>8. Balanced
    BY <1>4, <1>9, <2>6, <2>7 DEF Balanced
  <2>9. Exact'
    BY <1>1, <1>3, <2>6, <2>7, <2>8, Recount
  <2>10. Zeroed' /\ Relied'
    BY <1>1, <1>2, <1>3, <1>4, <1>5, <1>6, <1>7, <1>9, <2>1, <2>7 DEF Zeroed, Relied
  <2>11. TlTypes'
    BY <1>1, <2>1, <2>4, <2>7 DEF TlTypes, After
  <2>12. Registered'
    BY <1>1, <1>2, <1>3, <1>4, <1>5, <1>6, <1>7, <1>9, <2>1, <2>4
       DEF Registered, Has, Running, After, Ordered, SchedEnds, RunFrames, schedule_owned,
           Entered, header, places, executor, channel, foreign
  <2>13. Flagged'
    BY <1>1, <1>2, <1>3, <1>4, <1>5, <1>6, <1>7, <1>9, <2>1, <2>4
       DEF Flagged, Has, Running, After, Ordered, SchedEnds, RunFrames, schedule_owned, Entered,
           header, places, executor, channel, foreign
  <2>14. Finished'
    BY <1>1, <1>2, <1>3, <1>4, <1>5, <1>6, <1>7, <1>9, <2>1, <2>4, <2>13
       DEF Finished, Registered, Flagged, Ended, Has, Running, After, Ordered, SchedEnds,
           RunFrames, schedule_owned, Entered, header, places, executor, channel, foreign
  <2>. QED
    BY <2>4, <2>9, <2>10, <2>11, <2>12, <2>13, <2>14 DEF TlInv, After
<1>10. CASE ~Has("SCHEDULE_DROPPED") /\ queueGone /\ Entered
  <2>1. stack' = <<"cancel", "push", e>> \o t /\ scheduling' = TRUE
    BY <1>2, <1>6, <1>10 DEF schedule_owned, DropTask, Entered, Running, Return
  <2>2. stack' = Push("cancel", Push("push", Push(e, t)))
    BY <2>1 DEF Running, Return, Push
  <2>3. /\ Fits(e, Members(t)) /\ Fits("push", Members(t) \cup {e})
        /\ Fits("cancel", Members(t) \cup {"push", e})
    BY <1>1, <1>2, <1>3, <1>4, <1>5, <1>6, <1>7, <1>10, <2>1
       DEF Running, Fits, Ordered, Leans, Names, Protecting, Bare, Neutral, SchedEnds, RunFrames,
           Holding
  <2>4. /\ After(Members(t) \cup {"cancel", "push", e},
             RefsOf(t) + Weight("cancel") + Weight("push") + Weight(e))
        /\ Top' = "cancel"
    BY <1>1, <1>2, <1>3, <1>4, <1>5, <1>6, <1>7, <1>10, <2>1, <2>2, <2>3, Push3 DEF Running
  <2>5. /\ Weight("cancel") = 0 /\ Weight("push") = 1 /\ Weight(e) = 0
        /\ Weight("schedule_owned") = 1
    BY <1>1, <1>2, <1>3, <1>4, <1>5, <1>6, <1>7, <1>10 DEF Weight, Holding
  <2>6. RefsOf(stack') = RefsOf(stack) /\ RefsOf(stack) \in Nat /\ RefsOf(stack') \in Nat
    BY <1>2, <2>4, <2>5 DEF Running, After
  <2>7. /\ UNCHANGED <<refs, freed, registryRef, handle, runq, ownerW, chanWake, chanCleanup,
             fpc, foreignW, seen>>
    BY <1>1, <1>2, <1>3, <1>4, <1>5, <1>6, <1>7, <1>10, <2>1
       DEF schedule_owned, Entered, header, places, executor, channel, foreign
  <2>8. Balanced
    BY <1>4, <1>10, <2>6, <2>7 DEF Balanced
  <2>9. Exact'
    BY <1>1, <1>3, <2>6, <2>7, <2>8, Recount
  <2>10. Zeroed' /\ Relied'
    BY <1>1, <1>2, <1>3, <1>4, <1>5, <1>6, <1>7, <1>10, <2>1, <2>7 DEF Zeroed, Relied
  <2>11. TlTypes'
    BY <1>1, <2>1, <2>4, <2>7 DEF TlTypes, After
  <2>12. Registered'
    BY <1>1, <1>2, <1>3, <1>4, <1>5, <1>6, <1>7, <1>10, <2>1, <2>4
       DEF Registered, Has, Running, After, Ordered, SchedEnds, RunFrames, schedule_owned,
           Entered, header, places, executor, channel, foreign
  <2>13. Flagged'
    BY <1>1, <1>2, <1>3, <1>4, <1>5, <1>6, <1>7, <1>10, <2>1, <2>4
       DEF Flagged, Has, Running, After, Ordered, SchedEnds, RunFrames, schedule_owned, Entered,
           header, places, executor, channel, foreign
  <2>14. Finished'
    BY <1>1, <1>2, <1>3, <1>4, <1>5, <1>6, <1>7, <1>10, <2>1, <2>4, <2>13
       DEF Finished, Registered, Flagged, Ended, Has, Running, After, Ordered, SchedEnds,
           RunFrames, schedule_owned, Entered, header, places, executor, channel, foreign
  <2>. QED
    BY <2>4, <2>9, <2>10, <2>11, <2>12, <2>13, <2>14 DEF TlInv, After
<1>11. CASE ~Has("SCHEDULE_DROPPED") /\ exec = "idle" /\ (queueGone \/ Has("CLOSED"))
  <2>1. stack' = <<"close", "finish", "release", "leave", e>> \o t /\ scheduling' = TRUE
    BY <1>2, <1>6, <1>11 DEF schedule_owned, DropTask, Entered, Running, Return
  <2>2. stack' = Push("close", Push("finish", Push("release", Push("leave", Push(e, t)))))
    BY <2>1 DEF Running, Return, Push
  <2>3. /\ Fits(e, Members(t)) /\ Fits("leave", Members(t) \cup {e})
        /\ Fits("release", Members(t) \cup {"leave", e})
        /\ Fits("finish", Members(t) \cup {"release", "leave", e})
        /\ Fits("close", Members(t) \cup {"finish", "release", "leave", e})
    BY <1>1, <1>2, <1>3, <1>4, <1>5, <1>6, <1>7, <1>11, <2>1
       DEF Running, Fits, Ordered, Leans, Names, Protecting, Bare, Neutral, SchedEnds, RunFrames,
           Holding
  <2>4. /\ After(Members(t) \cup {"close", "finish", "release", "leave", e},
             RefsOf(t) + Weight("close") + Weight("finish") + Weight("release")
               + Weight("leave") + Weight(e))
        /\ Top' = "close"
    BY <1>1, <1>2, <1>3, <1>4, <1>5, <1>6, <1>7, <1>11, <2>1, <2>2, <2>3, Push5 DEF Running
  <2>5. /\ Weight("close") = 0 /\ Weight("finish") = 0 /\ Weight("release") = 1
        /\ Weight("leave") = 0 /\ Weight(e) = 0 /\ Weight("schedule_owned") = 1
    BY <1>1, <1>2, <1>3, <1>4, <1>5, <1>6, <1>7, <1>11 DEF Weight, Holding
  <2>6. RefsOf(stack') = RefsOf(stack) /\ RefsOf(stack) \in Nat /\ RefsOf(stack') \in Nat
    BY <1>2, <2>4, <2>5 DEF Running, After
  <2>7. /\ UNCHANGED <<refs, freed, registryRef, handle, runq, ownerW, chanWake, chanCleanup,
             fpc, foreignW, seen>>
    BY <1>1, <1>2, <1>3, <1>4, <1>5, <1>6, <1>7, <1>11, <2>1
       DEF schedule_owned, Entered, header, places, executor, channel, foreign
  <2>8. Balanced
    BY <1>4, <1>11, <2>6, <2>7 DEF Balanced
  <2>9. Exact'
    BY <1>1, <1>3, <2>6, <2>7, <2>8, Recount
  <2>10. Zeroed' /\ Relied'
    BY <1>1, <1>2, <1>3, <1>4, <1>5, <1>6, <1>7, <1>11, <2>1, <2>7 DEF Zeroed, Relied
  <2>11. TlTypes'
    BY <1>1, <2>1, <2>4, <2>7 DEF TlTypes, After
  <2>12. Registered'
    BY <1>1, <1>2, <1>3, <1>4, <1>5, <1>6, <1>7, <1>11, <2>1, <2>4
       DEF Registered, Has, Running, After, Ordered, SchedEnds, RunFrames, schedule_owned,
           Entered, header, places, executor, channel, foreign
  <2>13. Flagged'
    BY <1>1, <1>2, <1>3, <1>4, <1>5, <1>6, <1>7, <1>11, <2>1, <2>4
       DEF Flagged, Has, Running, After, Ordered, SchedEnds, RunFrames, schedule_owned, Entered,
           header, places, executor, channel, foreign
  <2>14. Finished'
    BY <1>1, <1>2, <1>3, <1>4, <1>5, <1>6, <1>7, <1>11, <2>1, <2>4, <2>13
       DEF Finished, Registered, Flagged, Ended, Has, Running, After, Ordered, SchedEnds,
           RunFrames, schedule_owned, Entered, header, places, executor, channel, foreign
  <2>. QED
    BY <2>4, <2>9, <2>10, <2>11, <2>12, <2>13, <2>14 DEF TlInv, After
<1>12. CASE ~Has("SCHEDULE_DROPPED") /\ exec = "gone"
  <2>1. stack' = <<"close", "finish", "release", e>> \o t /\ scheduling' = TRUE
    BY <1>2, <1>6, <1>12 DEF schedule_owned, DropTask, Entered, Running, Return
  <2>2. stack' = Push("close", Push("finish", Push("release", Push(e, t))))
    BY <2>1 DEF Running, Return, Push
  <2>3. /\ Fits(e, Members(t)) /\ Fits("release", Members(t) \cup {e})
        /\ Fits("finish", Members(t) \cup {"release", e})
        /\ Fits("close", Members(t) \cup {"finish", "release", e})
    BY <1>1, <1>2, <1>3, <1>4, <1>5, <1>6, <1>7, <1>12, <2>1
       DEF Running, Fits, Ordered, Leans, Names, Protecting, Bare, Neutral, SchedEnds, RunFrames,
           Holding
  <2>4. /\ After(Members(t) \cup {"close", "finish", "release", e},
             RefsOf(t) + Weight("close") + Weight("finish") + Weight("release") + Weight(e))
        /\ Top' = "close"
    BY <1>1, <1>2, <1>3, <1>4, <1>5, <1>6, <1>7, <1>12, <2>1, <2>2, <2>3, Push4 DEF Running
  <2>5. /\ Weight("close") = 0 /\ Weight("finish") = 0 /\ Weight("release") = 1 /\ Weight(e) = 0
        /\ Weight("schedule_owned") = 1
    BY <1>1, <1>2, <1>3, <1>4, <1>5, <1>6, <1>7, <1>12 DEF Weight, Holding
  <2>6. RefsOf(stack') = RefsOf(stack) /\ RefsOf(stack) \in Nat /\ RefsOf(stack') \in Nat
    BY <1>2, <2>4, <2>5 DEF Running, After
  <2>7. /\ UNCHANGED <<refs, freed, registryRef, handle, runq, ownerW, chanWake, chanCleanup,
             fpc, foreignW, seen>>
    BY <1>1, <1>2, <1>3, <1>4, <1>5, <1>6, <1>7, <1>12, <2>1
       DEF schedule_owned, Entered, header, places, executor, channel, foreign
  <2>8. Balanced
    BY <1>4, <1>12, <2>6, <2>7 DEF Balanced
  <2>9. Exact'
    BY <1>1, <1>3, <2>6, <2>7, <2>8, Recount
  <2>10. Zeroed' /\ Relied'
    BY <1>1, <1>2, <1>3, <1>4, <1>5, <1>6, <1>7, <1>12, <2>1, <2>7 DEF Zeroed, Relied
  <2>11. TlTypes'
    BY <1>1, <2>1, <2>4, <2>7 DEF TlTypes, After
  <2>12. Registered'
    BY <1>1, <1>2, <1>3, <1>4, <1>5, <1>6, <1>7, <1>12, <2>1, <2>4
       DEF Registered, Has, Running, After, Ordered, SchedEnds, RunFrames, schedule_owned,
           Entered, header, places, executor, channel, foreign
  <2>13. Flagged'
    BY <1>1, <1>2, <1>3, <1>4, <1>5, <1>6, <1>7, <1>12, <2>1, <2>4
       DEF Flagged, Has, Running, After, Ordered, SchedEnds, RunFrames, schedule_owned, Entered,
           header, places, executor, channel, foreign
  <2>14. Finished'
    BY <1>1, <1>2, <1>3, <1>4, <1>5, <1>6, <1>7, <1>12, <2>1, <2>4, <2>13
       DEF Finished, Registered, Flagged, Ended, Has, Running, After, Ordered, SchedEnds,
           RunFrames, schedule_owned, Entered, header, places, executor, channel, foreign
  <2>. QED
    BY <2>4, <2>9, <2>10, <2>11, <2>12, <2>13, <2>14 DEF TlInv, After
<1>. QED
  BY <1>8, <1>9, <1>10, <1>11, <1>12, <1>1 DEF schedule_owned

LEMMA Step_schedule_end_T == ASSUME TlInv, schedule_end, Top = "schedule_end_T" PROVE TlInv'
<1>. DEFINE t == Tail(stack)
<1>1. TlTypes /\ Exact /\ Zeroed /\ Relied /\ Stacked /\ Registered /\ Flagged /\ Finished
  BY DEF TlInv
<1>2. Running("schedule_end_T", t)
  BY <1>1, TopFacts DEF schedule_end
<1>3. ForeignHeld \in Nat /\ InHand \in Nat /\ ForeignHeld' = ForeignHeld /\ InHand' = InHand
  BY <1>1, OutsideNat, OutsideSame DEF schedule_end, foreign
<1>4. refs \in Nat /\ runq \in Nat /\ ownerW \in Nat /\ chanWake \in Nat /\ chanCleanup \in Nat
  BY <1>1, <1>2, RefsInt, RefsNat DEF TlTypes
<1>5. stack' = Push("finish", t)
  BY <1>2 DEF schedule_end, Running, Return, Push
<1>6. (Fits("finish", Members(t)) \/ Leans("finish")') /\ Ordered("finish", Members(t))
  BY <1>1, <1>2, <1>3, <1>4
     DEF Running, Fits, Ordered, Leans, Names, Protecting, Bare, Neutral, SchedEnds, RunFrames,
         Holding, schedule_end, Registered, Flagged, Has, header, places, executor, channel,
         foreign
<1>7. After(Members(t) \cup {"finish"}, RefsOf(t) + Weight("finish")) /\ Top' = "finish"
  BY <1>1, <1>2, <1>3, <1>4, <1>5, <1>6, PushLean1 DEF Running
<1>8. RefsOf(stack') = RefsOf(stack) /\ RefsOf(stack) \in Nat /\ RefsOf(stack') \in Nat
  BY <1>1, <1>2, <1>3, <1>4, <1>7 DEF Running, After, Weight, Holding
<1>9. /\ UNCHANGED <<refs, freed, registryRef, handle, runq, ownerW, chanWake, chanCleanup, fpc,
           foreignW, seen>>
  BY <1>1, <1>2, <1>3, <1>4 DEF schedule_end, header, places, executor, channel, foreign
<1>10. Balanced
  BY <1>4, <1>8, <1>9 DEF Balanced
<1>11. Exact'
  BY <1>1, <1>3, <1>8, <1>9, <1>10, Recount
<1>12. Zeroed' /\ Relied'
  BY <1>1, <1>2, <1>3, <1>4, <1>9 DEF Zeroed, Relied
<1>13. TlTypes'
  BY <1>1, <1>2, <1>3, <1>4, <1>7, <1>9
     DEF TlTypes, After, schedule_end, header, places, executor, channel, foreign
<1>14. Registered'
  BY <1>1, <1>2, <1>3, <1>4, <1>7
     DEF Registered, Has, Running, After, Ordered, SchedEnds, RunFrames, schedule_end, header,
         places, executor, channel, foreign
<1>15. Flagged'
  BY <1>1, <1>2, <1>3, <1>4, <1>7
     DEF Flagged, Has, Running, After, Ordered, SchedEnds, RunFrames, schedule_end, header,
         places, executor, channel, foreign
<1>16. Finished'
  BY <1>1, <1>2, <1>3, <1>4, <1>7, <1>15
     DEF Finished, Registered, Flagged, Ended, Has, Running, After, Ordered, SchedEnds,
         RunFrames, schedule_end, header, places, executor, channel, foreign
<1>. QED
  BY <1>7, <1>11, <1>12, <1>13, <1>14, <1>15, <1>16 DEF TlInv, After

LEMMA Step_schedule_end_F == ASSUME TlInv, schedule_end, Top = "schedule_end_F" PROVE TlInv'
<1>. DEFINE t == Tail(stack)
<1>1. TlTypes /\ Exact /\ Zeroed /\ Relied /\ Stacked /\ Registered /\ Flagged /\ Finished
  BY DEF TlInv
<1>2. Running("schedule_end_F", t)
  BY <1>1, TopFacts DEF schedule_end
<1>3. ForeignHeld \in Nat /\ InHand \in Nat /\ ForeignHeld' = ForeignHeld /\ InHand' = InHand
  BY <1>1, OutsideNat, OutsideSame DEF schedule_end, foreign
<1>4. refs \in Nat /\ runq \in Nat /\ ownerW \in Nat /\ chanWake \in Nat /\ chanCleanup \in Nat
  BY <1>1, <1>2, RefsInt, RefsNat DEF TlTypes
<1>5. stack' = Push("finish", t)
  BY <1>2 DEF schedule_end, Running, Return, Push
<1>6. (Fits("finish", Members(t)) \/ Leans("finish")') /\ Ordered("finish", Members(t))
  BY <1>1, <1>2, <1>3, <1>4
     DEF Running, Fits, Ordered, Leans, Names, Protecting, Bare, Neutral, SchedEnds, RunFrames,
         Holding, schedule_end, Registered, Flagged, Has, header, places, executor, channel,
         foreign
<1>7. After(Members(t) \cup {"finish"}, RefsOf(t) + Weight("finish")) /\ Top' = "finish"
  BY <1>1, <1>2, <1>3, <1>4, <1>5, <1>6, PushLean1 DEF Running
<1>8. RefsOf(stack') = RefsOf(stack) /\ RefsOf(stack) \in Nat /\ RefsOf(stack') \in Nat
  BY <1>1, <1>2, <1>3, <1>4, <1>7 DEF Running, After, Weight, Holding
<1>9. /\ UNCHANGED <<refs, freed, registryRef, handle, runq, ownerW, chanWake, chanCleanup, fpc,
           foreignW, seen>>
  BY <1>1, <1>2, <1>3, <1>4 DEF schedule_end, header, places, executor, channel, foreign
<1>10. Balanced
  BY <1>4, <1>8, <1>9 DEF Balanced
<1>11. Exact'
  BY <1>1, <1>3, <1>8, <1>9, <1>10, Recount
<1>12. Zeroed' /\ Relied'
  BY <1>1, <1>2, <1>3, <1>4, <1>9 DEF Zeroed, Relied
<1>13. TlTypes'
  BY <1>1, <1>2, <1>3, <1>4, <1>7, <1>9
     DEF TlTypes, After, schedule_end, header, places, executor, channel, foreign
<1>14. Registered'
  BY <1>1, <1>2, <1>3, <1>4, <1>7
     DEF Registered, Has, Running, After, Ordered, SchedEnds, RunFrames, schedule_end, header,
         places, executor, channel, foreign
<1>15. Flagged'
  BY <1>1, <1>2, <1>3, <1>4, <1>7
     DEF Flagged, Has, Running, After, Ordered, SchedEnds, RunFrames, schedule_end, header,
         places, executor, channel, foreign
<1>16. Finished'
  BY <1>1, <1>2, <1>3, <1>4, <1>7, <1>15
     DEF Finished, Registered, Flagged, Ended, Has, Running, After, Ordered, SchedEnds,
         RunFrames, schedule_end, header, places, executor, channel, foreign
<1>. QED
  BY <1>7, <1>11, <1>12, <1>13, <1>14, <1>15, <1>16 DEF TlInv, After

LEMMA Step_dtor_return == ASSUME TlInv, user_return, Top = "dtor" PROVE TlInv'
<1>. DEFINE t == Tail(stack)
<1>1. TlTypes /\ Exact /\ Zeroed /\ Relied /\ Stacked /\ Registered /\ Flagged /\ Finished
  BY DEF TlInv
<1>2. Running("dtor", t)
  BY <1>1, TopFacts DEF user_return
<1>3. ForeignHeld \in Nat /\ InHand \in Nat /\ ForeignHeld' = ForeignHeld /\ InHand' = InHand
  BY <1>1, OutsideNat, OutsideSame DEF user_return, foreign
<1>4. refs \in Nat /\ runq \in Nat /\ ownerW \in Nat /\ chanWake \in Nat /\ chanCleanup \in Nat
  BY <1>1, <1>2, RefsInt, RefsNat DEF TlTypes
<1>5. stack' = t
  BY <1>2 DEF user_return, Running, Return
<1>6. After(Members(t), RefsOf(t))
  BY <1>1, <1>2, <1>3, <1>4, <1>5, Push0 DEF Running
<1>7. RefsOf(stack') = RefsOf(stack) /\ RefsOf(stack) \in Nat /\ RefsOf(stack') \in Nat
  BY <1>1, <1>2, <1>3, <1>4, <1>6 DEF Running, After, Weight, Holding
<1>8. /\ UNCHANGED <<refs, freed, registryRef, handle, runq, ownerW, chanWake, chanCleanup, fpc,
           foreignW, seen>>
  BY <1>1, <1>2, <1>3, <1>4 DEF user_return, header, places, executor, channel, foreign
<1>9. Balanced
  BY <1>4, <1>7, <1>8 DEF Balanced
<1>10. Exact'
  BY <1>1, <1>3, <1>7, <1>8, <1>9, Recount
<1>11. Zeroed' /\ Relied'
  BY <1>1, <1>2, <1>3, <1>4, <1>8 DEF Zeroed, Relied
<1>12. TlTypes'
  BY <1>1, <1>2, <1>3, <1>4, <1>6, <1>8
     DEF TlTypes, After, user_return, header, places, executor, channel, foreign
<1>13. Registered'
  BY <1>1, <1>2, <1>3, <1>4, <1>6
     DEF Registered, Has, Running, After, Ordered, SchedEnds, RunFrames, user_return, header,
         places, executor, channel, foreign
<1>14. Flagged'
  BY <1>1, <1>2, <1>3, <1>4, <1>6
     DEF Flagged, Has, Running, After, Ordered, SchedEnds, RunFrames, user_return, header,
         places, executor, channel, foreign
<1>15. Finished'
  BY <1>1, <1>2, <1>3, <1>4, <1>6, <1>5, <1>14
     DEF Finished, Registered, Flagged, Ended, Has, Running, After, Ordered, SchedEnds,
         RunFrames, user_return, header, places, executor, channel, foreign
<1>. QED
  BY <1>6, <1>10, <1>11, <1>12, <1>13, <1>14, <1>15 DEF TlInv, After

LEMMA Step_user_return == ASSUME TlInv, user_return, Top = "user" PROVE TlInv'
<1>. DEFINE t == Tail(stack)
<1>1. TlTypes /\ Exact /\ Zeroed /\ Relied /\ Stacked /\ Registered /\ Flagged /\ Finished
  BY DEF TlInv
<1>2. Running("user", t)
  BY <1>1, TopFacts DEF user_return
<1>3. ForeignHeld \in Nat /\ InHand \in Nat /\ ForeignHeld' = ForeignHeld /\ InHand' = InHand
  BY <1>1, OutsideNat, OutsideSame DEF user_return, foreign
<1>4. refs \in Nat /\ runq \in Nat /\ ownerW \in Nat /\ chanWake \in Nat /\ chanCleanup \in Nat
  BY <1>1, <1>2, RefsInt, RefsNat DEF TlTypes
<1>5. stack' = t
  BY <1>2 DEF user_return, Running, Return
<1>6. After(Members(t), RefsOf(t))
  BY <1>1, <1>2, <1>3, <1>4, <1>5, Push0 DEF Running
<1>7. RefsOf(stack') = RefsOf(stack) /\ RefsOf(stack) \in Nat /\ RefsOf(stack') \in Nat
  BY <1>1, <1>2, <1>3, <1>4, <1>6 DEF Running, After, Weight, Holding
<1>8. /\ UNCHANGED <<refs, freed, registryRef, handle, runq, ownerW, chanWake, chanCleanup, fpc,
           foreignW, seen>>
  BY <1>1, <1>2, <1>3, <1>4 DEF user_return, header, places, executor, channel, foreign
<1>9. Balanced
  BY <1>4, <1>7, <1>8 DEF Balanced
<1>10. Exact'
  BY <1>1, <1>3, <1>7, <1>8, <1>9, Recount
<1>11. Zeroed' /\ Relied'
  BY <1>1, <1>2, <1>3, <1>4, <1>8 DEF Zeroed, Relied
<1>12. TlTypes'
  BY <1>1, <1>2, <1>3, <1>4, <1>6, <1>8
     DEF TlTypes, After, user_return, header, places, executor, channel, foreign
<1>13. Registered'
  BY <1>1, <1>2, <1>3, <1>4, <1>6
     DEF Registered, Has, Running, After, Ordered, SchedEnds, RunFrames, user_return, header,
         places, executor, channel, foreign
<1>14. Flagged'
  BY <1>1, <1>2, <1>3, <1>4, <1>6
     DEF Flagged, Has, Running, After, Ordered, SchedEnds, RunFrames, user_return, header,
         places, executor, channel, foreign
<1>15. Finished'
  BY <1>1, <1>2, <1>3, <1>4, <1>6, <1>5, <1>14
     DEF Finished, Registered, Flagged, Ended, Has, Running, After, Ordered, SchedEnds,
         RunFrames, user_return, header, places, executor, channel, foreign
<1>. QED
  BY <1>6, <1>10, <1>11, <1>12, <1>13, <1>14, <1>15 DEF TlInv, After

LEMMA Step_poll_pending == ASSUME TlInv, poll_pending PROVE TlInv'
<1>. DEFINE t == Tail(stack)
<1>1. TlTypes /\ Exact /\ Zeroed /\ Relied /\ Stacked /\ Registered /\ Flagged /\ Finished
  BY DEF TlInv
<1>2. Running("poll", t)
  BY <1>1, TopFacts DEF poll_pending
<1>3. ForeignHeld \in Nat /\ InHand \in Nat /\ ForeignHeld' = ForeignHeld /\ InHand' = InHand
  BY <1>1, OutsideNat, OutsideSame DEF poll_pending, foreign
<1>4. refs \in Nat /\ runq \in Nat /\ ownerW \in Nat /\ chanWake \in Nat /\ chanCleanup \in Nat
  BY <1>1, <1>2, RefsInt, RefsNat DEF TlTypes
<1>5. CASE Has("CLOSED")
  <2>1. stack' = Push("drop_future", Push("pending_closed_end", Push("end_run", t)))
    BY <1>2, <1>5 DEF poll_pending, Running, Return, Push
  <2>2. /\ Fits("end_run", Members(t))
        /\ Fits("pending_closed_end", Members(t) \cup {"end_run"})
        /\ Fits("drop_future", Members(t) \cup {"pending_closed_end", "end_run"})
    BY <1>1, <1>2, <1>3, <1>4, <1>5
       DEF Running, Fits, Ordered, Leans, Names, Protecting, Bare, Neutral, SchedEnds, RunFrames,
           Holding
  <2>3. /\ After(Members(t) \cup {"drop_future", "pending_closed_end", "end_run"},
             RefsOf(t) + Weight("drop_future") + Weight("pending_closed_end") + Weight("end_run"))
        /\ Top' = "drop_future"
    BY <1>1, <1>2, <1>3, <1>4, <1>5, <2>1, <2>2, Push3 DEF Running
  <2>4. RefsOf(stack') = RefsOf(stack) /\ RefsOf(stack) \in Nat /\ RefsOf(stack') \in Nat
    BY <1>1, <1>2, <1>3, <1>4, <1>5, <2>3 DEF Running, After, Weight, Holding
  <2>5. /\ UNCHANGED <<refs, freed, registryRef, handle, runq, ownerW, chanWake, chanCleanup,
             fpc, foreignW, seen>>
    BY <1>1, <1>2, <1>3, <1>4, <1>5 DEF poll_pending, header, places, executor, channel, foreign
  <2>6. Balanced
    BY <1>4, <1>5, <2>4, <2>5 DEF Balanced
  <2>7. Exact'
    BY <1>1, <1>3, <2>4, <2>5, <2>6, Recount
  <2>8. Zeroed' /\ Relied'
    BY <1>1, <1>2, <1>3, <1>4, <1>5, <2>5 DEF Zeroed, Relied
  <2>9. TlTypes'
    BY <1>1, <1>2, <1>3, <1>4, <1>5, <2>3, <2>5
       DEF TlTypes, After, poll_pending, header, places, executor, channel, foreign
  <2>10. Registered'
    BY <1>1, <1>2, <1>3, <1>4, <1>5, <2>3
       DEF Registered, Has, Running, After, Ordered, SchedEnds, RunFrames, poll_pending, header,
           places, executor, channel, foreign
  <2>11. Flagged'
    BY <1>1, <1>2, <1>3, <1>4, <1>5, <2>3
       DEF Flagged, Has, Running, After, Ordered, SchedEnds, RunFrames, poll_pending, header,
           places, executor, channel, foreign
  <2>12. Finished'
    BY <1>1, <1>2, <1>3, <1>4, <1>5, <2>3, <2>11
       DEF Finished, Registered, Flagged, Ended, Has, Running, After, Ordered, SchedEnds,
           RunFrames, poll_pending, header, places, executor, channel, foreign
  <2>. QED
    BY <2>3, <2>7, <2>8, <2>9, <2>10, <2>11, <2>12 DEF TlInv, After
<1>6. CASE ~Has("CLOSED") /\ Has("SCHEDULED")
  <2>1. stack' = Push("schedule_owned", t)
    BY <1>2, <1>6 DEF poll_pending, Running, Return, Push
  <2>2. Fits("schedule_owned", Members(t))
    BY <1>1, <1>2, <1>3, <1>4, <1>6
       DEF Running, Fits, Ordered, Leans, Names, Protecting, Bare, Neutral, SchedEnds, RunFrames,
           Holding
  <2>3. /\ After(Members(t) \cup {"schedule_owned"}, RefsOf(t) + Weight("schedule_owned"))
        /\ Top' = "schedule_owned"
    BY <1>1, <1>2, <1>3, <1>4, <1>6, <2>1, <2>2, Push1 DEF Running
  <2>4. RefsOf(stack') = RefsOf(stack) /\ RefsOf(stack) \in Nat /\ RefsOf(stack') \in Nat
    BY <1>1, <1>2, <1>3, <1>4, <1>6, <2>3 DEF Running, After, Weight, Holding
  <2>5. /\ UNCHANGED <<refs, freed, registryRef, handle, runq, ownerW, chanWake, chanCleanup,
             fpc, foreignW, seen>>
    BY <1>1, <1>2, <1>3, <1>4, <1>6 DEF poll_pending, header, places, executor, channel, foreign
  <2>6. Balanced
    BY <1>4, <1>6, <2>4, <2>5 DEF Balanced
  <2>7. Exact'
    BY <1>1, <1>3, <2>4, <2>5, <2>6, Recount
  <2>8. Zeroed' /\ Relied'
    BY <1>1, <1>2, <1>3, <1>4, <1>6, <2>5 DEF Zeroed, Relied
  <2>9. TlTypes'
    BY <1>1, <1>2, <1>3, <1>4, <1>6, <2>3, <2>5
       DEF TlTypes, After, poll_pending, header, places, executor, channel, foreign
  <2>10. Registered'
    BY <1>1, <1>2, <1>3, <1>4, <1>6, <2>3
       DEF Registered, Has, Running, After, Ordered, SchedEnds, RunFrames, poll_pending, header,
           places, executor, channel, foreign
  <2>11. Flagged'
    BY <1>1, <1>2, <1>3, <1>4, <1>6, <2>3
       DEF Flagged, Has, Running, After, Ordered, SchedEnds, RunFrames, poll_pending, header,
           places, executor, channel, foreign
  <2>12. Finished'
    BY <1>1, <1>2, <1>3, <1>4, <1>6, <2>3, <2>11
       DEF Finished, Registered, Flagged, Ended, Has, Running, After, Ordered, SchedEnds,
           RunFrames, poll_pending, header, places, executor, channel, foreign
  <2>. QED
    BY <2>3, <2>7, <2>8, <2>9, <2>10, <2>11, <2>12 DEF TlInv, After
<1>7. CASE ~Has("CLOSED") /\ ~Has("SCHEDULED") /\ ~Has("HANDLE") /\ refs = 2
  <2>1. stack' = Push("close", Push("end_run", t))
    BY <1>2, <1>7 DEF poll_pending, Running, Return, Push
  <2>2. Fits("end_run", Members(t)) /\ Fits("close", Members(t) \cup {"end_run"})
    BY <1>1, <1>2, <1>3, <1>4, <1>7
       DEF Running, Fits, Ordered, Leans, Names, Protecting, Bare, Neutral, SchedEnds, RunFrames,
           Holding
  <2>3. /\ After(Members(t) \cup {"close", "end_run"},
             RefsOf(t) + Weight("close") + Weight("end_run"))
        /\ Top' = "close"
    BY <1>1, <1>2, <1>3, <1>4, <1>7, <2>1, <2>2, Push2 DEF Running
  <2>4. RefsOf(stack') = RefsOf(stack) /\ RefsOf(stack) \in Nat /\ RefsOf(stack') \in Nat
    BY <1>1, <1>2, <1>3, <1>4, <1>7, <2>3 DEF Running, After, Weight, Holding
  <2>5. /\ UNCHANGED <<refs, freed, registryRef, handle, runq, ownerW, chanWake, chanCleanup,
             fpc, foreignW, seen>>
    BY <1>1, <1>2, <1>3, <1>4, <1>7 DEF poll_pending, header, places, executor, channel, foreign
  <2>6. Balanced
    BY <1>4, <1>7, <2>4, <2>5 DEF Balanced
  <2>7. Exact'
    BY <1>1, <1>3, <2>4, <2>5, <2>6, Recount
  <2>8. Zeroed' /\ Relied'
    BY <1>1, <1>2, <1>3, <1>4, <1>7, <2>5 DEF Zeroed, Relied
  <2>9. TlTypes'
    BY <1>1, <1>2, <1>3, <1>4, <1>7, <2>3, <2>5
       DEF TlTypes, After, poll_pending, header, places, executor, channel, foreign
  <2>10. Registered'
    BY <1>1, <1>2, <1>3, <1>4, <1>7, <2>3
       DEF Registered, Has, Running, After, Ordered, SchedEnds, RunFrames, poll_pending, header,
           places, executor, channel, foreign
  <2>11. Flagged'
    BY <1>1, <1>2, <1>3, <1>4, <1>7, <2>3
       DEF Flagged, Has, Running, After, Ordered, SchedEnds, RunFrames, poll_pending, header,
           places, executor, channel, foreign
  <2>12. Finished'
    BY <1>1, <1>2, <1>3, <1>4, <1>7, <2>3, <2>11
       DEF Finished, Registered, Flagged, Ended, Has, Running, After, Ordered, SchedEnds,
           RunFrames, poll_pending, header, places, executor, channel, foreign
  <2>. QED
    BY <2>3, <2>7, <2>8, <2>9, <2>10, <2>11, <2>12 DEF TlInv, After
<1>8. CASE ~Has("CLOSED") /\ ~Has("SCHEDULED") /\ ~(~Has("HANDLE") /\ refs = 2)
  <2>1. stack' = Push("end_run", t)
    BY <1>2, <1>8 DEF poll_pending, Running, Return, Push
  <2>2. Fits("end_run", Members(t))
    BY <1>1, <1>2, <1>3, <1>4, <1>8
       DEF Running, Fits, Ordered, Leans, Names, Protecting, Bare, Neutral, SchedEnds, RunFrames,
           Holding
  <2>3. After(Members(t) \cup {"end_run"}, RefsOf(t) + Weight("end_run")) /\ Top' = "end_run"
    BY <1>1, <1>2, <1>3, <1>4, <1>8, <2>1, <2>2, Push1 DEF Running
  <2>4. RefsOf(stack') = RefsOf(stack) /\ RefsOf(stack) \in Nat /\ RefsOf(stack') \in Nat
    BY <1>1, <1>2, <1>3, <1>4, <1>8, <2>3 DEF Running, After, Weight, Holding
  <2>5. /\ UNCHANGED <<refs, freed, registryRef, handle, runq, ownerW, chanWake, chanCleanup,
             fpc, foreignW, seen>>
    BY <1>1, <1>2, <1>3, <1>4, <1>8 DEF poll_pending, header, places, executor, channel, foreign
  <2>6. Balanced
    BY <1>4, <1>8, <2>4, <2>5 DEF Balanced
  <2>7. Exact'
    BY <1>1, <1>3, <2>4, <2>5, <2>6, Recount
  <2>8. Zeroed' /\ Relied'
    BY <1>1, <1>2, <1>3, <1>4, <1>8, <2>5 DEF Zeroed, Relied
  <2>9. TlTypes'
    BY <1>1, <1>2, <1>3, <1>4, <1>8, <2>3, <2>5
       DEF TlTypes, After, poll_pending, header, places, executor, channel, foreign
  <2>10. Registered'
    BY <1>1, <1>2, <1>3, <1>4, <1>8, <2>3
       DEF Registered, Has, Running, After, Ordered, SchedEnds, RunFrames, poll_pending, header,
           places, executor, channel, foreign
  <2>11. Flagged'
    BY <1>1, <1>2, <1>3, <1>4, <1>8, <2>3
       DEF Flagged, Has, Running, After, Ordered, SchedEnds, RunFrames, poll_pending, header,
           places, executor, channel, foreign
  <2>12. Finished'
    BY <1>1, <1>2, <1>3, <1>4, <1>8, <2>3, <2>11
       DEF Finished, Registered, Flagged, Ended, Has, Running, After, Ordered, SchedEnds,
           RunFrames, poll_pending, header, places, executor, channel, foreign
  <2>. QED
    BY <2>3, <2>7, <2>8, <2>9, <2>10, <2>11, <2>12 DEF TlInv, After
<1>. QED
  BY <1>5, <1>6, <1>7, <1>8, <1>1 DEF poll_pending

LEMMA Step_drop_handle == ASSUME TlInv, drop_handle PROVE TlInv'
<1>. DEFINE t == Tail(stack)
<1>1. TlTypes /\ Exact /\ Zeroed /\ Relied /\ Stacked /\ Registered /\ Flagged /\ Finished
  BY DEF TlInv
<1>2. Running("drop_handle", t)
  BY <1>1, TopFacts DEF drop_handle
<1>3. ForeignHeld \in Nat /\ InHand \in Nat /\ ForeignHeld' = ForeignHeld /\ InHand' = InHand
  BY <1>1, OutsideNat, OutsideSame DEF drop_handle, foreign
<1>4. refs \in Nat /\ runq \in Nat /\ ownerW \in Nat /\ chanWake \in Nat /\ chanCleanup \in Nat
  BY <1>1, <1>2, RefsInt, RefsNat DEF TlTypes
<1>5. CASE Has("SCHEDULE_DROPPED") /\ refs = 1 /\ Has("OUTPUT_PRESENT")
  <2>1. stack' = <<"user">> \o t
    BY <1>2, <1>5 DEF drop_handle, Running, Return
  <2>2. stack' = Push("user", t)
    BY <2>1 DEF Running, Return, Push
  <2>3. Fits("user", Members(t))
    BY <1>1, <1>2, <1>3, <1>4, <1>5, <2>1
       DEF Running, Fits, Ordered, Leans, Names, Protecting, Bare, Neutral, SchedEnds, RunFrames,
           Holding
  <2>4. After(Members(t) \cup {"user"}, RefsOf(t) + Weight("user")) /\ Top' = "user"
    BY <1>1, <1>2, <1>3, <1>4, <1>5, <2>1, <2>2, <2>3, Push1 DEF Running
  <2>5. RefsOf(stack') = RefsOf(stack) - 1 /\ RefsOf(stack) \in Nat /\ RefsOf(stack') \in Nat
    BY <1>1, <1>2, <1>3, <1>4, <1>5, <2>1, <2>4 DEF Running, After, Weight, Holding
  <2>6. /\ refs' = 0
        /\ UNCHANGED <<registryRef, handle, runq, ownerW, chanWake, chanCleanup, fpc, foreignW,
             seen>>
    BY <1>1, <1>2, <1>3, <1>4, <1>5, <2>1
       DEF drop_handle, header, places, executor, channel, foreign
  <2>7. Balanced
    BY <1>4, <1>5, <2>5, <2>6 DEF Balanced
  <2>8. Exact'
    BY <1>1, <1>3, <2>5, <2>6, <2>7, Recount
  <2>9. freed' => refs = 1
    BY <1>1, <1>2, <1>3, <1>4, <1>5, <2>1, Zenon DEF drop_handle
  <2>10. Zeroed' /\ Relied'
    BY <1>1, <1>2, <1>3, <1>4, <1>5, <2>1, <2>6, <2>9 DEF Zeroed, Relied
  <2>11. TlTypes'
    BY <1>1, <1>2, <1>3, <1>4, <1>5, <2>1, <2>4, <2>6
       DEF TlTypes, After, drop_handle, header, places, executor, channel, foreign
  <2>12. Registered'
    BY <1>1, <1>2, <1>3, <1>4, <1>5, <2>1, <2>4
       DEF Registered, Has, Running, After, Ordered, SchedEnds, RunFrames, drop_handle, header,
           places, executor, channel, foreign
  <2>13. Flagged'
    BY <1>1, <1>2, <1>3, <1>4, <1>5, <2>1, <2>4
       DEF Flagged, Has, Running, After, Ordered, SchedEnds, RunFrames, drop_handle, header,
           places, executor, channel, foreign
  <2>14. Finished'
    BY <1>1, <1>2, <1>3, <1>4, <1>5, <2>1, <2>4, <2>13
       DEF Finished, Registered, Flagged, Ended, Has, Running, After, Ordered, SchedEnds,
           RunFrames, drop_handle, header, places, executor, channel, foreign
  <2>. QED
    BY <2>4, <2>8, <2>10, <2>11, <2>12, <2>13, <2>14 DEF TlInv, After
<1>6. CASE Has("SCHEDULE_DROPPED") /\ refs = 1 /\ ~Has("OUTPUT_PRESENT")
  <2>1. stack' = <<>> \o t
    BY <1>2, <1>6 DEF drop_handle, Running, Return
  <2>2. stack' = t
    BY <2>1 DEF Running, Return
  <2>3. After(Members(t), RefsOf(t))
    BY <1>1, <1>2, <1>3, <1>4, <1>6, <2>1, <2>2, Push0 DEF Running
  <2>4. RefsOf(stack') = RefsOf(stack) - 1 /\ RefsOf(stack) \in Nat /\ RefsOf(stack') \in Nat
    BY <1>1, <1>2, <1>3, <1>4, <1>6, <2>1, <2>3 DEF Running, After, Weight, Holding
  <2>5. /\ refs' = 0
        /\ UNCHANGED <<registryRef, handle, runq, ownerW, chanWake, chanCleanup, fpc, foreignW,
             seen>>
    BY <1>1, <1>2, <1>3, <1>4, <1>6, <2>1
       DEF drop_handle, header, places, executor, channel, foreign
  <2>6. Balanced
    BY <1>4, <1>6, <2>4, <2>5 DEF Balanced
  <2>7. Exact'
    BY <1>1, <1>3, <2>4, <2>5, <2>6, Recount
  <2>8. freed' => refs = 1
    BY <1>1, <1>2, <1>3, <1>4, <1>6, <2>1, Zenon DEF drop_handle
  <2>9. Zeroed' /\ Relied'
    BY <1>1, <1>2, <1>3, <1>4, <1>6, <2>1, <2>5, <2>8 DEF Zeroed, Relied
  <2>10. TlTypes'
    BY <1>1, <1>2, <1>3, <1>4, <1>6, <2>1, <2>3, <2>5
       DEF TlTypes, After, drop_handle, header, places, executor, channel, foreign
  <2>11. Registered'
    BY <1>1, <1>2, <1>3, <1>4, <1>6, <2>1, <2>3
       DEF Registered, Has, Running, After, Ordered, SchedEnds, RunFrames, drop_handle, header,
           places, executor, channel, foreign
  <2>12. Flagged'
    BY <1>1, <1>2, <1>3, <1>4, <1>6, <2>1, <2>3
       DEF Flagged, Has, Running, After, Ordered, SchedEnds, RunFrames, drop_handle, header,
           places, executor, channel, foreign
  <2>13. Finished'
    BY <1>1, <1>2, <1>3, <1>4, <1>6, <2>1, <2>3, <2>2, <2>12
       DEF Finished, Registered, Flagged, Ended, Has, Running, After, Ordered, SchedEnds,
           RunFrames, drop_handle, header, places, executor, channel, foreign
  <2>. QED
    BY <2>3, <2>7, <2>9, <2>10, <2>11, <2>12, <2>13 DEF TlInv, After
<1>7. CASE ~(Has("SCHEDULE_DROPPED") /\ refs = 1) /\ Has("OUTPUT_PRESENT")
  <2>1. stack' = <<"finish", "abandon", "drop_waker", "user">> \o t
    BY <1>2, <1>7 DEF drop_handle, Running, Return
  <2>2. stack' = Push("finish", Push("abandon", Push("drop_waker", Push("user", t))))
    BY <2>1 DEF Running, Return, Push
  <2>3. /\ Fits("user", Members(t)) /\ Fits("drop_waker", Members(t) \cup {"user"})
        /\ Fits("abandon", Members(t) \cup {"drop_waker", "user"})
        /\ Fits("finish", Members(t) \cup {"abandon", "drop_waker", "user"})
    BY <1>1, <1>2, <1>3, <1>4, <1>7, <2>1
       DEF Running, Fits, Ordered, Leans, Names, Protecting, Bare, Neutral, SchedEnds, RunFrames,
           Holding
  <2>4. /\ After(Members(t) \cup {"finish", "abandon", "drop_waker", "user"},
             RefsOf(t) + Weight("finish") + Weight("abandon") + Weight("drop_waker")
               + Weight("user"))
        /\ Top' = "finish"
    BY <1>1, <1>2, <1>3, <1>4, <1>7, <2>1, <2>2, <2>3, Push4 DEF Running
  <2>5. RefsOf(stack') = RefsOf(stack) /\ RefsOf(stack) \in Nat /\ RefsOf(stack') \in Nat
    BY <1>1, <1>2, <1>3, <1>4, <1>7, <2>1, <2>4 DEF Running, After, Weight, Holding
  <2>6. /\ UNCHANGED <<refs, freed, registryRef, handle, runq, ownerW, chanWake, chanCleanup,
             fpc, foreignW, seen>>
    BY <1>1, <1>2, <1>3, <1>4, <1>7, <2>1
       DEF drop_handle, header, places, executor, channel, foreign
  <2>7. Balanced
    BY <1>4, <1>7, <2>5, <2>6 DEF Balanced
  <2>8. Exact'
    BY <1>1, <1>3, <2>5, <2>6, <2>7, Recount
  <2>9. Zeroed' /\ Relied'
    BY <1>1, <1>2, <1>3, <1>4, <1>7, <2>1, <2>6 DEF Zeroed, Relied
  <2>10. TlTypes'
    BY <1>1, <1>2, <1>3, <1>4, <1>7, <2>1, <2>4, <2>6
       DEF TlTypes, After, drop_handle, header, places, executor, channel, foreign
  <2>11. Registered'
    BY <1>1, <1>2, <1>3, <1>4, <1>7, <2>1, <2>4
       DEF Registered, Has, Running, After, Ordered, SchedEnds, RunFrames, drop_handle, header,
           places, executor, channel, foreign
  <2>12. Flagged'
    BY <1>1, <1>2, <1>3, <1>4, <1>7, <2>1, <2>4
       DEF Flagged, Has, Running, After, Ordered, SchedEnds, RunFrames, drop_handle, header,
           places, executor, channel, foreign
  <2>13. Finished'
    BY <1>1, <1>2, <1>3, <1>4, <1>7, <2>1, <2>4, <2>12
       DEF Finished, Registered, Flagged, Ended, Has, Running, After, Ordered, SchedEnds,
           RunFrames, drop_handle, header, places, executor, channel, foreign
  <2>. QED
    BY <2>4, <2>8, <2>9, <2>10, <2>11, <2>12, <2>13 DEF TlInv, After
<1>8. CASE ~(Has("SCHEDULE_DROPPED") /\ refs = 1) /\ ~Has("OUTPUT_PRESENT")
  <2>1. stack' = <<"finish", "abandon", "drop_waker">> \o t
    BY <1>2, <1>8 DEF drop_handle, Running, Return
  <2>2. stack' = Push("finish", Push("abandon", Push("drop_waker", t)))
    BY <2>1 DEF Running, Return, Push
  <2>3. /\ Fits("drop_waker", Members(t)) /\ Fits("abandon", Members(t) \cup {"drop_waker"})
        /\ Fits("finish", Members(t) \cup {"abandon", "drop_waker"})
    BY <1>1, <1>2, <1>3, <1>4, <1>8, <2>1
       DEF Running, Fits, Ordered, Leans, Names, Protecting, Bare, Neutral, SchedEnds, RunFrames,
           Holding
  <2>4. /\ After(Members(t) \cup {"finish", "abandon", "drop_waker"},
             RefsOf(t) + Weight("finish") + Weight("abandon") + Weight("drop_waker"))
        /\ Top' = "finish"
    BY <1>1, <1>2, <1>3, <1>4, <1>8, <2>1, <2>2, <2>3, Push3 DEF Running
  <2>5. RefsOf(stack') = RefsOf(stack) /\ RefsOf(stack) \in Nat /\ RefsOf(stack') \in Nat
    BY <1>1, <1>2, <1>3, <1>4, <1>8, <2>1, <2>4 DEF Running, After, Weight, Holding
  <2>6. /\ UNCHANGED <<refs, freed, registryRef, handle, runq, ownerW, chanWake, chanCleanup,
             fpc, foreignW, seen>>
    BY <1>1, <1>2, <1>3, <1>4, <1>8, <2>1
       DEF drop_handle, header, places, executor, channel, foreign
  <2>7. Balanced
    BY <1>4, <1>8, <2>5, <2>6 DEF Balanced
  <2>8. Exact'
    BY <1>1, <1>3, <2>5, <2>6, <2>7, Recount
  <2>9. Zeroed' /\ Relied'
    BY <1>1, <1>2, <1>3, <1>4, <1>8, <2>1, <2>6 DEF Zeroed, Relied
  <2>10. TlTypes'
    BY <1>1, <1>2, <1>3, <1>4, <1>8, <2>1, <2>4, <2>6
       DEF TlTypes, After, drop_handle, header, places, executor, channel, foreign
  <2>11. Registered'
    BY <1>1, <1>2, <1>3, <1>4, <1>8, <2>1, <2>4
       DEF Registered, Has, Running, After, Ordered, SchedEnds, RunFrames, drop_handle, header,
           places, executor, channel, foreign
  <2>12. Flagged'
    BY <1>1, <1>2, <1>3, <1>4, <1>8, <2>1, <2>4
       DEF Flagged, Has, Running, After, Ordered, SchedEnds, RunFrames, drop_handle, header,
           places, executor, channel, foreign
  <2>13. Finished'
    BY <1>1, <1>2, <1>3, <1>4, <1>8, <2>1, <2>4, <2>12
       DEF Finished, Registered, Flagged, Ended, Has, Running, After, Ordered, SchedEnds,
           RunFrames, drop_handle, header, places, executor, channel, foreign
  <2>. QED
    BY <2>4, <2>8, <2>9, <2>10, <2>11, <2>12, <2>13 DEF TlInv, After
<1>. QED
  BY <1>5, <1>6, <1>7, <1>8, <1>1 DEF drop_handle

LEMMA Step_handle_cancel == ASSUME TlInv, handle_cancel PROVE TlInv'
<1>1. TlTypes /\ Exact /\ Zeroed /\ Relied /\ Stacked /\ Registered /\ Flagged /\ Finished
  BY DEF TlInv
<1>2. Nested(stack) /\ stack \in Seq(Names) /\ Frames = Members(stack) /\ RefsOf(stack) \in Nat
  BY <1>1, UserNested DEF handle_cancel, HandleOp
<1>3. ForeignHeld \in Nat /\ InHand \in Nat /\ ForeignHeld' = ForeignHeld /\ InHand' = InHand
  BY <1>1, OutsideNat, OutsideSame DEF handle_cancel, foreign, HandleOp
<1>4. refs \in Nat /\ runq \in Nat /\ ownerW \in Nat /\ chanWake \in Nat /\ chanCleanup \in Nat
  BY <1>1, <1>2, RefsInt, RefsNat DEF TlTypes
<1>5. ("cancel_in_place" \in Frames => Ended) /\ ~(Has("RUNNING") /\ Has("SCHEDULE_DROPPED"))
  BY <1>1, UserPlain DEF handle_cancel, HandleOp
<1>6. stack' = Push("cancel", Push("unborrow", stack))
  BY <1>2, <1>5 DEF handle_cancel, HandleOp, Call, Push
<1>7. Fits("unborrow", Members(stack)) /\ Fits("cancel", Members(stack) \cup {"unborrow"})
  BY <1>1, <1>2, <1>3, <1>4, <1>5
     DEF Fits, Ordered, Leans, Names, Protecting, Bare, Neutral, SchedEnds, RunFrames, Holding
<1>8. /\ After(Members(stack) \cup {"cancel", "unborrow"},
           RefsOf(stack) + Weight("cancel") + Weight("unborrow"))
      /\ Top' = "cancel"
  BY <1>1, <1>2, <1>3, <1>4, <1>5, <1>6, <1>7, Push2
<1>9. RefsOf(stack') = RefsOf(stack) /\ RefsOf(stack) \in Nat /\ RefsOf(stack') \in Nat
  BY <1>1, <1>2, <1>3, <1>4, <1>5, <1>8 DEF After, Weight, Holding
<1>10. /\ UNCHANGED <<refs, freed, registryRef, handle, runq, ownerW, chanWake, chanCleanup, fpc,
            foreignW, seen>>
  BY <1>1, <1>2, <1>3, <1>4, <1>5
     DEF handle_cancel, HandleOp, header, places, executor, channel, foreign
<1>11. Balanced
  BY <1>4, <1>9, <1>10 DEF Balanced
<1>12. Exact'
  BY <1>1, <1>3, <1>9, <1>10, <1>11, Recount
<1>13. Zeroed' /\ Relied'
  BY <1>1, <1>2, <1>3, <1>4, <1>5, <1>10 DEF Zeroed, Relied
<1>14. TlTypes'
  BY <1>1, <1>2, <1>3, <1>4, <1>5, <1>8, <1>10
     DEF TlTypes, After, handle_cancel, HandleOp, header, places, executor, channel, foreign
<1>15. Registered'
  BY <1>1, <1>2, <1>3, <1>4, <1>5, <1>8
     DEF Registered, Has, After, Ordered, SchedEnds, RunFrames, handle_cancel, HandleOp, header,
         places, executor, channel, foreign
<1>16. Flagged'
  BY <1>1, <1>2, <1>3, <1>4, <1>5, <1>8
     DEF Flagged, Has, After, Ordered, SchedEnds, RunFrames, handle_cancel, HandleOp, header,
         places, executor, channel, foreign
<1>17. Finished'
  BY <1>1, <1>2, <1>3, <1>4, <1>5, <1>8, <1>16
     DEF Finished, Registered, Flagged, Ended, Has, After, Ordered, SchedEnds, RunFrames,
         handle_cancel, HandleOp, header, places, executor, channel, foreign
<1>. QED
  BY <1>8, <1>12, <1>13, <1>14, <1>15, <1>16, <1>17 DEF TlInv, After

LEMMA Step_handle_cancel_in_place == ASSUME TlInv, handle_cancel_in_place PROVE TlInv'
<1>1. TlTypes /\ Exact /\ Zeroed /\ Relied /\ Stacked /\ Registered /\ Flagged /\ Finished
  BY DEF TlInv
<1>2. Nested(stack) /\ stack \in Seq(Names) /\ Frames = Members(stack) /\ RefsOf(stack) \in Nat
  BY <1>1, UserNested DEF handle_cancel_in_place, HandleOp
<1>3. ForeignHeld \in Nat /\ InHand \in Nat /\ ForeignHeld' = ForeignHeld /\ InHand' = InHand
  BY <1>1, OutsideNat, OutsideSame DEF handle_cancel_in_place, foreign, HandleOp
<1>4. refs \in Nat /\ runq \in Nat /\ ownerW \in Nat /\ chanWake \in Nat /\ chanCleanup \in Nat
  BY <1>1, <1>2, RefsInt, RefsNat DEF TlTypes
<1>5. ("cancel_in_place" \in Frames => Ended) /\ ~(Has("RUNNING") /\ Has("SCHEDULE_DROPPED"))
  BY <1>1, UserPlain DEF handle_cancel_in_place, HandleOp
<1>6. stack' = Push("cancel", Push("cancel_in_place", Push("unborrow", stack)))
  BY <1>2, <1>5 DEF handle_cancel_in_place, HandleOp, Call, Push
<1>7. /\ Fits("unborrow", Members(stack))
      /\ Fits("cancel_in_place", Members(stack) \cup {"unborrow"})
      /\ Fits("cancel", Members(stack) \cup {"cancel_in_place", "unborrow"})
  BY <1>1, <1>2, <1>3, <1>4, <1>5
     DEF Fits, Ordered, Leans, Names, Protecting, Bare, Neutral, SchedEnds, RunFrames, Holding
<1>8. /\ After(Members(stack) \cup {"cancel", "cancel_in_place", "unborrow"},
           RefsOf(stack) + Weight("cancel") + Weight("cancel_in_place") + Weight("unborrow"))
      /\ Top' = "cancel"
  BY <1>1, <1>2, <1>3, <1>4, <1>5, <1>6, <1>7, Push3
<1>9. RefsOf(stack') = RefsOf(stack) /\ RefsOf(stack) \in Nat /\ RefsOf(stack') \in Nat
  BY <1>1, <1>2, <1>3, <1>4, <1>5, <1>8 DEF After, Weight, Holding
<1>10. /\ UNCHANGED <<refs, freed, registryRef, handle, runq, ownerW, chanWake, chanCleanup, fpc,
            foreignW, seen>>
  BY <1>1, <1>2, <1>3, <1>4, <1>5
     DEF handle_cancel_in_place, HandleOp, header, places, executor, channel, foreign
<1>11. Balanced
  BY <1>4, <1>9, <1>10 DEF Balanced
<1>12. Exact'
  BY <1>1, <1>3, <1>9, <1>10, <1>11, Recount
<1>13. Zeroed' /\ Relied'
  BY <1>1, <1>2, <1>3, <1>4, <1>5, <1>10 DEF Zeroed, Relied
<1>14. TlTypes'
  BY <1>1, <1>2, <1>3, <1>4, <1>5, <1>8, <1>10
     DEF TlTypes, After, handle_cancel_in_place, HandleOp, header, places, executor, channel,
         foreign
<1>15. Registered'
  BY <1>1, <1>2, <1>3, <1>4, <1>5, <1>8
     DEF Registered, Has, After, Ordered, SchedEnds, RunFrames, handle_cancel_in_place, HandleOp,
         header, places, executor, channel, foreign
<1>16. Flagged'
  BY <1>1, <1>2, <1>3, <1>4, <1>5, <1>8
     DEF Flagged, Has, After, Ordered, SchedEnds, RunFrames, handle_cancel_in_place, HandleOp,
         header, places, executor, channel, foreign
<1>17. Finished'
  BY <1>1, <1>2, <1>3, <1>4, <1>5, <1>8, <1>16
     DEF Finished, Registered, Flagged, Ended, Has, After, Ordered, SchedEnds, RunFrames,
         handle_cancel_in_place, HandleOp, header, places, executor, channel, foreign
<1>. QED
  BY <1>8, <1>12, <1>13, <1>14, <1>15, <1>16, <1>17 DEF TlInv, After

LEMMA Step_handle_drop == ASSUME TlInv, handle_drop PROVE TlInv'
<1>1. TlTypes /\ Exact /\ Zeroed /\ Relied /\ Stacked /\ Registered /\ Flagged /\ Finished
  BY DEF TlInv
<1>2. Nested(stack) /\ stack \in Seq(Names) /\ Frames = Members(stack) /\ RefsOf(stack) \in Nat
  BY <1>1, UserNested DEF handle_drop
<1>3. ForeignHeld \in Nat /\ InHand \in Nat /\ ForeignHeld' = ForeignHeld /\ InHand' = InHand
  BY <1>1, OutsideNat, OutsideSame DEF handle_drop, foreign
<1>4. refs \in Nat /\ runq \in Nat /\ ownerW \in Nat /\ chanWake \in Nat /\ chanCleanup \in Nat
  BY <1>1, <1>2, RefsInt, RefsNat DEF TlTypes
<1>5. ("cancel_in_place" \in Frames => Ended) /\ ~(Has("RUNNING") /\ Has("SCHEDULE_DROPPED"))
  BY <1>1, UserPlain DEF handle_drop
<1>6. stack' = Push("drop_handle", stack)
  BY <1>2, <1>5 DEF handle_drop, Call, Push
<1>7. Fits("drop_handle", Members(stack))
  BY <1>1, <1>2, <1>3, <1>4, <1>5
     DEF Fits, Ordered, Leans, Names, Protecting, Bare, Neutral, SchedEnds, RunFrames, Holding
<1>8. /\ After(Members(stack) \cup {"drop_handle"}, RefsOf(stack) + Weight("drop_handle"))
      /\ Top' = "drop_handle"
  BY <1>1, <1>2, <1>3, <1>4, <1>5, <1>6, <1>7, Push1
<1>9. RefsOf(stack') = RefsOf(stack) + 1 /\ RefsOf(stack) \in Nat /\ RefsOf(stack') \in Nat
  BY <1>1, <1>2, <1>3, <1>4, <1>5, <1>8 DEF After, Weight, Holding
<1>10. /\ handle' = "dropped"
       /\ UNCHANGED <<refs, freed, registryRef, runq, ownerW, chanWake, chanCleanup, fpc,
            foreignW, seen>>
  BY <1>1, <1>2, <1>3, <1>4, <1>5 DEF handle_drop, header, places, executor, channel, foreign
<1>11. Exact'
  BY <1>1, <1>2, <1>3, <1>4, <1>5, <1>9, <1>10, HandleCounts DEF handle_drop
<1>12. Zeroed' /\ Relied'
  BY <1>1, <1>2, <1>3, <1>4, <1>5, <1>10 DEF Zeroed, Relied
<1>13. TlTypes'
  BY <1>1, <1>2, <1>3, <1>4, <1>5, <1>8, <1>10
     DEF TlTypes, After, handle_drop, header, places, executor, channel, foreign
<1>14. Registered'
  BY <1>1, <1>2, <1>3, <1>4, <1>5, <1>8
     DEF Registered, Has, After, Ordered, SchedEnds, RunFrames, handle_drop, header, places,
         executor, channel, foreign
<1>15. Flagged'
  BY <1>1, <1>2, <1>3, <1>4, <1>5, <1>8
     DEF Flagged, Has, After, Ordered, SchedEnds, RunFrames, handle_drop, header, places,
         executor, channel, foreign
<1>16. Finished'
  BY <1>1, <1>2, <1>3, <1>4, <1>5, <1>8, <1>15
     DEF Finished, Registered, Flagged, Ended, Has, After, Ordered, SchedEnds, RunFrames,
         handle_drop, header, places, executor, channel, foreign
<1>. QED
  BY <1>8, <1>11, <1>12, <1>13, <1>14, <1>15, <1>16 DEF TlInv, After

LEMMA Step_waker_wake_by_ref == ASSUME TlInv, waker_wake_by_ref PROVE TlInv'
<1>1. TlTypes /\ Exact /\ Zeroed /\ Relied /\ Stacked /\ Registered /\ Flagged /\ Finished
  BY DEF TlInv
<1>2. Nested(stack) /\ stack \in Seq(Names) /\ Frames = Members(stack) /\ RefsOf(stack) \in Nat
  BY <1>1, UserNested DEF waker_wake_by_ref, CanUseWaker
<1>3. ForeignHeld \in Nat /\ InHand \in Nat /\ ForeignHeld' = ForeignHeld /\ InHand' = InHand
  BY <1>1, OutsideNat, OutsideSame DEF waker_wake_by_ref, foreign, CanUseWaker
<1>4. refs \in Nat /\ runq \in Nat /\ ownerW \in Nat /\ chanWake \in Nat /\ chanCleanup \in Nat
  BY <1>1, <1>2, RefsInt, RefsNat DEF TlTypes
<1>5. ("cancel_in_place" \in Frames => Ended) /\ ~(Has("RUNNING") /\ Has("SCHEDULE_DROPPED"))
  BY <1>1, UserPlain DEF waker_wake_by_ref, CanUseWaker
<1>6. ownerW > 0 \/ "poll" \in Members(stack)
  BY <1>1, <1>2, WakerHeld DEF waker_wake_by_ref
<1>7. stack' = Push("do_wake", stack)
  BY <1>2, <1>5, <1>6 DEF waker_wake_by_ref, CanUseWaker, Call, Push
<1>8. /\ (Fits("do_wake", Members(stack)) \/ Leans("do_wake")')
      /\ Ordered("do_wake", Members(stack))
  BY <1>1, <1>2, <1>3, <1>4, <1>5, <1>6
     DEF Fits, Ordered, Leans, Names, Protecting, Bare, Neutral, SchedEnds, RunFrames, Holding,
         waker_wake_by_ref, CanUseWaker, Registered, Flagged, Has, header, places, executor,
         channel, foreign
<1>9. /\ After(Members(stack) \cup {"do_wake"}, RefsOf(stack) + Weight("do_wake"))
      /\ Top' = "do_wake"
  BY <1>1, <1>2, <1>3, <1>4, <1>5, <1>6, <1>7, <1>8, PushLean1
<1>10. RefsOf(stack') = RefsOf(stack) /\ RefsOf(stack) \in Nat /\ RefsOf(stack') \in Nat
  BY <1>1, <1>2, <1>3, <1>4, <1>5, <1>6, <1>9 DEF After, Weight, Holding
<1>11. /\ UNCHANGED <<refs, freed, registryRef, handle, runq, ownerW, chanWake, chanCleanup, fpc,
            foreignW, seen>>
  BY <1>1, <1>2, <1>3, <1>4, <1>5, <1>6
     DEF waker_wake_by_ref, CanUseWaker, header, places, executor, channel, foreign
<1>12. Balanced
  BY <1>4, <1>10, <1>11 DEF Balanced
<1>13. Exact'
  BY <1>1, <1>3, <1>10, <1>11, <1>12, Recount
<1>14. Zeroed' /\ Relied'
  BY <1>1, <1>2, <1>3, <1>4, <1>5, <1>6, <1>11 DEF Zeroed, Relied
<1>15. TlTypes'
  BY <1>1, <1>2, <1>3, <1>4, <1>5, <1>6, <1>9, <1>11
     DEF TlTypes, After, waker_wake_by_ref, CanUseWaker, header, places, executor, channel,
         foreign
<1>16. Registered'
  BY <1>1, <1>2, <1>3, <1>4, <1>5, <1>6, <1>9
     DEF Registered, Has, After, Ordered, SchedEnds, RunFrames, waker_wake_by_ref, CanUseWaker,
         header, places, executor, channel, foreign
<1>17. Flagged'
  BY <1>1, <1>2, <1>3, <1>4, <1>5, <1>6, <1>9
     DEF Flagged, Has, After, Ordered, SchedEnds, RunFrames, waker_wake_by_ref, CanUseWaker,
         header, places, executor, channel, foreign
<1>18. Finished'
  BY <1>1, <1>2, <1>3, <1>4, <1>5, <1>6, <1>9, <1>17
     DEF Finished, Registered, Flagged, Ended, Has, After, Ordered, SchedEnds, RunFrames,
         waker_wake_by_ref, CanUseWaker, header, places, executor, channel, foreign
<1>. QED
  BY <1>9, <1>13, <1>14, <1>15, <1>16, <1>17, <1>18 DEF TlInv, After

LEMMA Step_waker_wake == ASSUME TlInv, waker_wake PROVE TlInv'
<1>1. TlTypes /\ Exact /\ Zeroed /\ Relied /\ Stacked /\ Registered /\ Flagged /\ Finished
  BY DEF TlInv
<1>2. Nested(stack) /\ stack \in Seq(Names) /\ Frames = Members(stack) /\ RefsOf(stack) \in Nat
  BY <1>1, UserNested DEF waker_wake
<1>3. ForeignHeld \in Nat /\ InHand \in Nat /\ ForeignHeld' = ForeignHeld /\ InHand' = InHand
  BY <1>1, OutsideNat, OutsideSame DEF waker_wake, foreign
<1>4. refs \in Nat /\ runq \in Nat /\ ownerW \in Nat /\ chanWake \in Nat /\ chanCleanup \in Nat
  BY <1>1, <1>2, RefsInt, RefsNat DEF TlTypes
<1>5. ("cancel_in_place" \in Frames => Ended) /\ ~(Has("RUNNING") /\ Has("SCHEDULE_DROPPED"))
  BY <1>1, UserPlain DEF waker_wake
<1>6. stack' = Push("do_wake", Push("drop_waker", stack))
  BY <1>2, <1>5 DEF waker_wake, Call, Push
<1>7. Fits("drop_waker", Members(stack)) /\ Fits("do_wake", Members(stack) \cup {"drop_waker"})
  BY <1>1, <1>2, <1>3, <1>4, <1>5
     DEF Fits, Ordered, Leans, Names, Protecting, Bare, Neutral, SchedEnds, RunFrames, Holding
<1>8. /\ After(Members(stack) \cup {"do_wake", "drop_waker"},
           RefsOf(stack) + Weight("do_wake") + Weight("drop_waker"))
      /\ Top' = "do_wake"
  BY <1>1, <1>2, <1>3, <1>4, <1>5, <1>6, <1>7, Push2
<1>9. RefsOf(stack') = RefsOf(stack) + 1 /\ RefsOf(stack) \in Nat /\ RefsOf(stack') \in Nat
  BY <1>1, <1>2, <1>3, <1>4, <1>5, <1>8 DEF After, Weight, Holding
<1>10. /\ ownerW' = ownerW - 1
       /\ UNCHANGED <<refs, freed, registryRef, handle, runq, chanWake, chanCleanup, fpc,
            foreignW, seen>>
  BY <1>1, <1>2, <1>3, <1>4, <1>5 DEF waker_wake, header, places, executor, channel, foreign
<1>11. Balanced
  BY <1>4, <1>9, <1>10 DEF Balanced
<1>12. Exact'
  BY <1>1, <1>3, <1>9, <1>10, <1>11, Recount
<1>13. Zeroed' /\ Relied'
  BY <1>1, <1>2, <1>3, <1>4, <1>5, <1>10 DEF Zeroed, Relied
<1>14. TlTypes'
  BY <1>1, <1>2, <1>3, <1>4, <1>5, <1>8, <1>10
     DEF TlTypes, After, waker_wake, header, places, executor, channel, foreign
<1>15. Registered'
  BY <1>1, <1>2, <1>3, <1>4, <1>5, <1>8
     DEF Registered, Has, After, Ordered, SchedEnds, RunFrames, waker_wake, header, places,
         executor, channel, foreign
<1>16. Flagged'
  BY <1>1, <1>2, <1>3, <1>4, <1>5, <1>8
     DEF Flagged, Has, After, Ordered, SchedEnds, RunFrames, waker_wake, header, places,
         executor, channel, foreign
<1>17. Finished'
  BY <1>1, <1>2, <1>3, <1>4, <1>5, <1>8, <1>16
     DEF Finished, Registered, Flagged, Ended, Has, After, Ordered, SchedEnds, RunFrames,
         waker_wake, header, places, executor, channel, foreign
<1>. QED
  BY <1>8, <1>12, <1>13, <1>14, <1>15, <1>16, <1>17 DEF TlInv, After

LEMMA Step_waker_drop == ASSUME TlInv, waker_drop PROVE TlInv'
<1>1. TlTypes /\ Exact /\ Zeroed /\ Relied /\ Stacked /\ Registered /\ Flagged /\ Finished
  BY DEF TlInv
<1>2. Nested(stack) /\ stack \in Seq(Names) /\ Frames = Members(stack) /\ RefsOf(stack) \in Nat
  BY <1>1, UserNested DEF waker_drop
<1>3. ForeignHeld \in Nat /\ InHand \in Nat /\ ForeignHeld' = ForeignHeld /\ InHand' = InHand
  BY <1>1, OutsideNat, OutsideSame DEF waker_drop, foreign
<1>4. refs \in Nat /\ runq \in Nat /\ ownerW \in Nat /\ chanWake \in Nat /\ chanCleanup \in Nat
  BY <1>1, <1>2, RefsInt, RefsNat DEF TlTypes
<1>5. ("cancel_in_place" \in Frames => Ended) /\ ~(Has("RUNNING") /\ Has("SCHEDULE_DROPPED"))
  BY <1>1, UserPlain DEF waker_drop
<1>6. stack' = Push("drop_waker", stack)
  BY <1>2, <1>5 DEF waker_drop, Call, Push
<1>7. Fits("drop_waker", Members(stack))
  BY <1>1, <1>2, <1>3, <1>4, <1>5
     DEF Fits, Ordered, Leans, Names, Protecting, Bare, Neutral, SchedEnds, RunFrames, Holding
<1>8. /\ After(Members(stack) \cup {"drop_waker"}, RefsOf(stack) + Weight("drop_waker"))
      /\ Top' = "drop_waker"
  BY <1>1, <1>2, <1>3, <1>4, <1>5, <1>6, <1>7, Push1
<1>9. RefsOf(stack') = RefsOf(stack) + 1 /\ RefsOf(stack) \in Nat /\ RefsOf(stack') \in Nat
  BY <1>1, <1>2, <1>3, <1>4, <1>5, <1>8 DEF After, Weight, Holding
<1>10. /\ ownerW' = ownerW - 1
       /\ UNCHANGED <<refs, freed, registryRef, handle, runq, chanWake, chanCleanup, fpc,
            foreignW, seen>>
  BY <1>1, <1>2, <1>3, <1>4, <1>5 DEF waker_drop, header, places, executor, channel, foreign
<1>11. Balanced
  BY <1>4, <1>9, <1>10 DEF Balanced
<1>12. Exact'
  BY <1>1, <1>3, <1>9, <1>10, <1>11, Recount
<1>13. Zeroed' /\ Relied'
  BY <1>1, <1>2, <1>3, <1>4, <1>5, <1>10 DEF Zeroed, Relied
<1>14. TlTypes'
  BY <1>1, <1>2, <1>3, <1>4, <1>5, <1>8, <1>10
     DEF TlTypes, After, waker_drop, header, places, executor, channel, foreign
<1>15. Registered'
  BY <1>1, <1>2, <1>3, <1>4, <1>5, <1>8
     DEF Registered, Has, After, Ordered, SchedEnds, RunFrames, waker_drop, header, places,
         executor, channel, foreign
<1>16. Flagged'
  BY <1>1, <1>2, <1>3, <1>4, <1>5, <1>8
     DEF Flagged, Has, After, Ordered, SchedEnds, RunFrames, waker_drop, header, places,
         executor, channel, foreign
<1>17. Finished'
  BY <1>1, <1>2, <1>3, <1>4, <1>5, <1>8, <1>16
     DEF Finished, Registered, Flagged, Ended, Has, After, Ordered, SchedEnds, RunFrames,
         waker_drop, header, places, executor, channel, foreign
<1>. QED
  BY <1>8, <1>12, <1>13, <1>14, <1>15, <1>16, <1>17 DEF TlInv, After

LEMMA Step_run_one == ASSUME TlInv, run_one PROVE TlInv'
<1>1. TlTypes /\ Exact /\ Zeroed /\ Relied /\ Stacked /\ Registered /\ Flagged /\ Finished
  BY DEF TlInv
<1>2. Nested(stack) /\ stack \in Seq(Names) /\ Frames = Members(stack) /\ RefsOf(stack) \in Nat
  BY <1>1, UserNested DEF run_one, UserCode
<1>3. ForeignHeld \in Nat /\ InHand \in Nat /\ ForeignHeld' = ForeignHeld /\ InHand' = InHand
  BY <1>1, OutsideNat, OutsideSame DEF run_one, foreign, UserCode
<1>4. refs \in Nat /\ runq \in Nat /\ ownerW \in Nat /\ chanWake \in Nat /\ chanCleanup \in Nat
  BY <1>1, <1>2, RefsInt, RefsNat DEF TlTypes
<1>5. ("cancel_in_place" \in Frames => Ended) /\ ~(Has("RUNNING") /\ Has("SCHEDULE_DROPPED"))
  BY <1>1, UserPlain DEF run_one, UserCode
<1>6. Members(stack) = {}
  BY DEF run_one, Members
<1>7. stack' = Push("run", stack)
  BY <1>2, <1>5, <1>6 DEF run_one, UserCode, Call, Push
<1>8. Fits("run", Members(stack))
  BY <1>1, <1>2, <1>3, <1>4, <1>5, <1>6, <1>6
     DEF Fits, Ordered, Leans, Names, Protecting, Bare, Neutral, SchedEnds, RunFrames, Holding
<1>9. After(Members(stack) \cup {"run"}, RefsOf(stack) + Weight("run")) /\ Top' = "run"
  BY <1>1, <1>2, <1>3, <1>4, <1>5, <1>6, <1>7, <1>8, Push1
<1>10. RefsOf(stack') = RefsOf(stack) + 1 /\ RefsOf(stack) \in Nat /\ RefsOf(stack') \in Nat
  BY <1>1, <1>2, <1>3, <1>4, <1>5, <1>6, <1>9 DEF After, Weight, Holding
<1>11. /\ runq' = runq - 1
       /\ UNCHANGED <<refs, freed, registryRef, handle, ownerW, chanWake, chanCleanup, fpc,
            foreignW, seen>>
  BY <1>1, <1>2, <1>3, <1>4, <1>5, <1>6
     DEF run_one, UserCode, header, places, executor, channel, foreign
<1>12. Balanced
  BY <1>4, <1>10, <1>11 DEF Balanced
<1>13. Exact'
  BY <1>1, <1>3, <1>10, <1>11, <1>12, Recount
<1>14. Zeroed' /\ Relied'
  BY <1>1, <1>2, <1>3, <1>4, <1>5, <1>6, <1>11 DEF Zeroed, Relied
<1>15. TlTypes'
  BY <1>1, <1>2, <1>3, <1>4, <1>5, <1>6, <1>9, <1>11
     DEF TlTypes, After, run_one, UserCode, header, places, executor, channel, foreign
<1>16. Registered'
  BY <1>1, <1>2, <1>3, <1>4, <1>5, <1>6, <1>9
     DEF Registered, Has, After, Ordered, SchedEnds, RunFrames, run_one, UserCode, header,
         places, executor, channel, foreign
<1>17. Flagged'
  BY <1>1, <1>2, <1>3, <1>4, <1>5, <1>6, <1>9
     DEF Flagged, Has, After, Ordered, SchedEnds, RunFrames, run_one, UserCode, header, places,
         executor, channel, foreign
<1>18. Finished'
  BY <1>1, <1>2, <1>3, <1>4, <1>5, <1>6, <1>9, <1>17
     DEF Finished, Registered, Flagged, Ended, Has, After, Ordered, SchedEnds, RunFrames,
         run_one, UserCode, header, places, executor, channel, foreign
<1>. QED
  BY <1>9, <1>13, <1>14, <1>15, <1>16, <1>17, <1>18 DEF TlInv, After

LEMMA Step_process_foreign_wakes == ASSUME TlInv, process_foreign_wakes PROVE TlInv'
<1>1. TlTypes /\ Exact /\ Zeroed /\ Relied /\ Stacked /\ Registered /\ Flagged /\ Finished
  BY DEF TlInv
<1>2. Nested(stack) /\ stack \in Seq(Names) /\ Frames = Members(stack) /\ RefsOf(stack) \in Nat
  BY <1>1, UserNested DEF process_foreign_wakes, UserCode
<1>3. ForeignHeld \in Nat /\ InHand \in Nat /\ ForeignHeld' = ForeignHeld /\ InHand' = InHand
  BY <1>1, OutsideNat, OutsideSame DEF process_foreign_wakes, foreign, UserCode
<1>4. refs \in Nat /\ runq \in Nat /\ ownerW \in Nat /\ chanWake \in Nat /\ chanCleanup \in Nat
  BY <1>1, <1>2, RefsInt, RefsNat DEF TlTypes
<1>5. ("cancel_in_place" \in Frames => Ended) /\ ~(Has("RUNNING") /\ Has("SCHEDULE_DROPPED"))
  BY <1>1, UserPlain DEF process_foreign_wakes, UserCode
<1>6. CASE chanWake > 0 /\ chanWake' = chanWake - 1 /\ UNCHANGED chanCleanup /\ Call(<<"do_wake",
           "drop_waker">>)
  <2>1. stack' = Push("do_wake", Push("drop_waker", stack))
    BY <1>6 DEF Call, Push
  <2>2. /\ Fits("drop_waker", Members(stack))
        /\ Fits("do_wake", Members(stack) \cup {"drop_waker"})
    BY <1>1, <1>2, <1>3, <1>4, <1>5, <1>6
       DEF Fits, Ordered, Leans, Names, Protecting, Bare, Neutral, SchedEnds, RunFrames, Holding
  <2>3. /\ After(Members(stack) \cup {"do_wake", "drop_waker"},
             RefsOf(stack) + Weight("do_wake") + Weight("drop_waker"))
        /\ Top' = "do_wake"
    BY <1>1, <1>2, <1>3, <1>4, <1>5, <1>6, <2>1, <2>2, Push2
  <2>4. RefsOf(stack') = RefsOf(stack) + 1 /\ RefsOf(stack) \in Nat /\ RefsOf(stack') \in Nat
    BY <1>1, <1>2, <1>3, <1>4, <1>5, <1>6, <2>3 DEF After, Weight, Holding
  <2>5. /\ chanWake' = chanWake - 1
        /\ UNCHANGED <<refs, freed, registryRef, handle, runq, ownerW, chanCleanup, fpc,
             foreignW, seen>>
    BY <1>1, <1>2, <1>3, <1>4, <1>5, <1>6
       DEF process_foreign_wakes, UserCode, header, places, executor, channel, foreign
  <2>6. Balanced
    BY <1>4, <1>6, <2>4, <2>5 DEF Balanced
  <2>7. Exact'
    BY <1>1, <1>3, <2>4, <2>5, <2>6, Recount
  <2>8. Zeroed' /\ Relied'
    BY <1>1, <1>2, <1>3, <1>4, <1>5, <1>6, <2>5 DEF Zeroed, Relied
  <2>9. TlTypes'
    BY <1>1, <1>2, <1>3, <1>4, <1>5, <1>6, <2>3, <2>5
       DEF TlTypes, After, process_foreign_wakes, UserCode, header, places, executor, channel,
           foreign
  <2>10. Registered'
    BY <1>1, <1>2, <1>3, <1>4, <1>5, <1>6, <2>3
       DEF Registered, Has, After, Ordered, SchedEnds, RunFrames, process_foreign_wakes,
           UserCode, header, places, executor, channel, foreign
  <2>11. Flagged'
    BY <1>1, <1>2, <1>3, <1>4, <1>5, <1>6, <2>3
       DEF Flagged, Has, After, Ordered, SchedEnds, RunFrames, process_foreign_wakes, UserCode,
           header, places, executor, channel, foreign
  <2>12. Finished'
    BY <1>1, <1>2, <1>3, <1>4, <1>5, <1>6, <2>3, <2>11
       DEF Finished, Registered, Flagged, Ended, Has, After, Ordered, SchedEnds, RunFrames,
           process_foreign_wakes, UserCode, header, places, executor, channel, foreign
  <2>. QED
    BY <2>3, <2>7, <2>8, <2>9, <2>10, <2>11, <2>12 DEF TlInv, After
<1>7. CASE chanCleanup > 0 /\ chanCleanup' = chanCleanup - 1 /\ UNCHANGED chanWake
             /\ Call(<<"do_cleanup", "drop_waker">>)
  <2>1. stack' = Push("do_cleanup", Push("drop_waker", stack))
    BY <1>7 DEF Call, Push
  <2>2. /\ Fits("drop_waker", Members(stack))
        /\ Fits("do_cleanup", Members(stack) \cup {"drop_waker"})
    BY <1>1, <1>2, <1>3, <1>4, <1>5, <1>7
       DEF Fits, Ordered, Leans, Names, Protecting, Bare, Neutral, SchedEnds, RunFrames, Holding
  <2>3. /\ After(Members(stack) \cup {"do_cleanup", "drop_waker"},
             RefsOf(stack) + Weight("do_cleanup") + Weight("drop_waker"))
        /\ Top' = "do_cleanup"
    BY <1>1, <1>2, <1>3, <1>4, <1>5, <1>7, <2>1, <2>2, Push2
  <2>4. RefsOf(stack') = RefsOf(stack) + 1 /\ RefsOf(stack) \in Nat /\ RefsOf(stack') \in Nat
    BY <1>1, <1>2, <1>3, <1>4, <1>5, <1>7, <2>3 DEF After, Weight, Holding
  <2>5. /\ chanCleanup' = chanCleanup - 1
        /\ UNCHANGED <<refs, freed, registryRef, handle, runq, ownerW, chanWake, fpc, foreignW,
             seen>>
    BY <1>1, <1>2, <1>3, <1>4, <1>5, <1>7
       DEF process_foreign_wakes, UserCode, header, places, executor, channel, foreign
  <2>6. Balanced
    BY <1>4, <1>7, <2>4, <2>5 DEF Balanced
  <2>7. Exact'
    BY <1>1, <1>3, <2>4, <2>5, <2>6, Recount
  <2>8. Zeroed' /\ Relied'
    BY <1>1, <1>2, <1>3, <1>4, <1>5, <1>7, <2>5 DEF Zeroed, Relied
  <2>9. TlTypes'
    BY <1>1, <1>2, <1>3, <1>4, <1>5, <1>7, <2>3, <2>5
       DEF TlTypes, After, process_foreign_wakes, UserCode, header, places, executor, channel,
           foreign
  <2>10. Registered'
    BY <1>1, <1>2, <1>3, <1>4, <1>5, <1>7, <2>3
       DEF Registered, Has, After, Ordered, SchedEnds, RunFrames, process_foreign_wakes,
           UserCode, header, places, executor, channel, foreign
  <2>11. Flagged'
    BY <1>1, <1>2, <1>3, <1>4, <1>5, <1>7, <2>3
       DEF Flagged, Has, After, Ordered, SchedEnds, RunFrames, process_foreign_wakes, UserCode,
           header, places, executor, channel, foreign
  <2>12. Finished'
    BY <1>1, <1>2, <1>3, <1>4, <1>5, <1>7, <2>3, <2>11
       DEF Finished, Registered, Flagged, Ended, Has, After, Ordered, SchedEnds, RunFrames,
           process_foreign_wakes, UserCode, header, places, executor, channel, foreign
  <2>. QED
    BY <2>3, <2>7, <2>8, <2>9, <2>10, <2>11, <2>12 DEF TlInv, After
<1>. QED
  BY <1>6, <1>7, <1>1 DEF process_foreign_wakes, UserCode

LEMMA Step_drop_executor == ASSUME TlInv, drop_executor PROVE TlInv'
<1>1. TlTypes /\ Exact /\ Zeroed /\ Relied /\ Stacked /\ Registered /\ Flagged /\ Finished
  BY DEF TlInv
<1>2. Nested(stack) /\ stack \in Seq(Names) /\ Frames = Members(stack) /\ RefsOf(stack) \in Nat
  BY <1>1, UserNested DEF drop_executor, UserCode
<1>3. ForeignHeld \in Nat /\ InHand \in Nat /\ ForeignHeld' = ForeignHeld /\ InHand' = InHand
  BY <1>1, OutsideNat, OutsideSame DEF drop_executor, foreign, UserCode
<1>4. refs \in Nat /\ runq \in Nat /\ ownerW \in Nat /\ chanWake \in Nat /\ chanCleanup \in Nat
  BY <1>1, <1>2, RefsInt, RefsNat DEF TlTypes
<1>5. ("cancel_in_place" \in Frames => Ended) /\ ~(Has("RUNNING") /\ Has("SCHEDULE_DROPPED"))
  BY <1>1, UserPlain DEF drop_executor, UserCode
<1>6. CASE stack = <<>> /\ exec = "idle"
  <2>1. stack' = Push("close_foreign_wakes", Push("request_shutdown", Push("leave", stack)))
    BY <1>2, <1>5, <1>6 DEF drop_executor, UserCode, Call, Push
  <2>2. /\ Fits("leave", Members(stack))
        /\ Fits("request_shutdown", Members(stack) \cup {"leave"})
        /\ Fits("close_foreign_wakes", Members(stack) \cup {"request_shutdown", "leave"})
    BY <1>1, <1>2, <1>3, <1>4, <1>5, <1>6
       DEF Fits, Ordered, Leans, Names, Protecting, Bare, Neutral, SchedEnds, RunFrames, Holding
  <2>3. /\ After(Members(stack) \cup {"close_foreign_wakes", "request_shutdown", "leave"},
             RefsOf(stack) + Weight("close_foreign_wakes") + Weight("request_shutdown")
               + Weight("leave"))
        /\ Top' = "close_foreign_wakes"
    BY <1>1, <1>2, <1>3, <1>4, <1>5, <1>6, <2>1, <2>2, Push3
  <2>4. RefsOf(stack') = RefsOf(stack) /\ RefsOf(stack) \in Nat /\ RefsOf(stack') \in Nat
    BY <1>1, <1>2, <1>3, <1>4, <1>5, <1>6, <2>3 DEF After, Weight, Holding
  <2>5. /\ UNCHANGED <<refs, freed, registryRef, handle, runq, ownerW, chanWake, chanCleanup,
             fpc, foreignW, seen>>
    BY <1>1, <1>2, <1>3, <1>4, <1>5, <1>6
       DEF drop_executor, UserCode, header, places, executor, channel, foreign
  <2>6. Balanced
    BY <1>4, <1>6, <2>4, <2>5 DEF Balanced
  <2>7. Exact'
    BY <1>1, <1>3, <2>4, <2>5, <2>6, Recount
  <2>8. Zeroed' /\ Relied'
    BY <1>1, <1>2, <1>3, <1>4, <1>5, <1>6, <2>5 DEF Zeroed, Relied
  <2>9. TlTypes'
    BY <1>1, <1>2, <1>3, <1>4, <1>5, <1>6, <2>3, <2>5
       DEF TlTypes, After, drop_executor, UserCode, header, places, executor, channel, foreign
  <2>10. Registered'
    BY <1>1, <1>2, <1>3, <1>4, <1>5, <1>6, <2>3
       DEF Registered, Has, After, Ordered, SchedEnds, RunFrames, drop_executor, UserCode,
           header, places, executor, channel, foreign
  <2>11. Flagged'
    BY <1>1, <1>2, <1>3, <1>4, <1>5, <1>6, <2>3
       DEF Flagged, Has, After, Ordered, SchedEnds, RunFrames, drop_executor, UserCode, header,
           places, executor, channel, foreign
  <2>12. Finished'
    BY <1>1, <1>2, <1>3, <1>4, <1>5, <1>6, <2>3, <2>11
       DEF Finished, Registered, Flagged, Ended, Has, After, Ordered, SchedEnds, RunFrames,
           drop_executor, UserCode, header, places, executor, channel, foreign
  <2>. QED
    BY <2>3, <2>7, <2>8, <2>9, <2>10, <2>11, <2>12 DEF TlInv, After
<1>7. CASE ~(stack = <<>> /\ exec = "idle")
  <2>1. stack' = Push("close_foreign_wakes", Push("request_shutdown", stack))
    BY <1>2, <1>5, <1>7 DEF drop_executor, UserCode, Call, Push
  <2>2. /\ Fits("request_shutdown", Members(stack))
        /\ Fits("close_foreign_wakes", Members(stack) \cup {"request_shutdown"})
    BY <1>1, <1>2, <1>3, <1>4, <1>5, <1>7
       DEF Fits, Ordered, Leans, Names, Protecting, Bare, Neutral, SchedEnds, RunFrames, Holding
  <2>3. /\ After(Members(stack) \cup {"close_foreign_wakes", "request_shutdown"},
             RefsOf(stack) + Weight("close_foreign_wakes") + Weight("request_shutdown"))
        /\ Top' = "close_foreign_wakes"
    BY <1>1, <1>2, <1>3, <1>4, <1>5, <1>7, <2>1, <2>2, Push2
  <2>4. RefsOf(stack') = RefsOf(stack) /\ RefsOf(stack) \in Nat /\ RefsOf(stack') \in Nat
    BY <1>1, <1>2, <1>3, <1>4, <1>5, <1>7, <2>3 DEF After, Weight, Holding
  <2>5. /\ UNCHANGED <<refs, freed, registryRef, handle, runq, ownerW, chanWake, chanCleanup,
             fpc, foreignW, seen>>
    BY <1>1, <1>2, <1>3, <1>4, <1>5, <1>7
       DEF drop_executor, UserCode, header, places, executor, channel, foreign
  <2>6. Balanced
    BY <1>4, <1>7, <2>4, <2>5 DEF Balanced
  <2>7. Exact'
    BY <1>1, <1>3, <2>4, <2>5, <2>6, Recount
  <2>8. Zeroed' /\ Relied'
    BY <1>1, <1>2, <1>3, <1>4, <1>5, <1>7, <2>5 DEF Zeroed, Relied
  <2>9. TlTypes'
    BY <1>1, <1>2, <1>3, <1>4, <1>5, <1>7, <2>3, <2>5
       DEF TlTypes, After, drop_executor, UserCode, header, places, executor, channel, foreign
  <2>10. Registered'
    BY <1>1, <1>2, <1>3, <1>4, <1>5, <1>7, <2>3
       DEF Registered, Has, After, Ordered, SchedEnds, RunFrames, drop_executor, UserCode,
           header, places, executor, channel, foreign
  <2>11. Flagged'
    BY <1>1, <1>2, <1>3, <1>4, <1>5, <1>7, <2>3
       DEF Flagged, Has, After, Ordered, SchedEnds, RunFrames, drop_executor, UserCode, header,
           places, executor, channel, foreign
  <2>12. Finished'
    BY <1>1, <1>2, <1>3, <1>4, <1>5, <1>7, <2>3, <2>11
       DEF Finished, Registered, Flagged, Ended, Has, After, Ordered, SchedEnds, RunFrames,
           drop_executor, UserCode, header, places, executor, channel, foreign
  <2>. QED
    BY <2>3, <2>7, <2>8, <2>9, <2>10, <2>11, <2>12 DEF TlInv, After
<1>. QED
  BY <1>6, <1>7, <1>1 DEF drop_executor, UserCode

LEMMA Step_enter_run == ASSUME TlInv, enter_run PROVE TlInv'
<1>1. TlTypes /\ Exact /\ Zeroed /\ Relied /\ Stacked /\ Registered /\ Flagged /\ Finished
  BY DEF TlInv
<1>2. Nested(stack) /\ stack \in Seq(Names) /\ Frames = Members(stack) /\ RefsOf(stack) \in Nat
  BY <1>1, UserNested DEF enter_run, UserCode
<1>3. ForeignHeld \in Nat /\ InHand \in Nat /\ ForeignHeld' = ForeignHeld /\ InHand' = InHand
  BY <1>1, OutsideNat, OutsideSame DEF enter_run, foreign, UserCode
<1>4. refs \in Nat /\ runq \in Nat /\ ownerW \in Nat /\ chanWake \in Nat /\ chanCleanup \in Nat
  BY <1>1, <1>2, RefsInt, RefsNat DEF TlTypes
<1>5. ("cancel_in_place" \in Frames => Ended) /\ ~(Has("RUNNING") /\ Has("SCHEDULE_DROPPED"))
  BY <1>1, UserPlain DEF enter_run, UserCode
<1>6. stack' = stack
  BY <1>2, <1>5 DEF enter_run, UserCode, Call
<1>7. After(Members(stack), RefsOf(stack))
  BY <1>1, <1>2, <1>3, <1>4, <1>5, <1>6, Push0
<1>8. RefsOf(stack') = RefsOf(stack) /\ RefsOf(stack) \in Nat /\ RefsOf(stack') \in Nat
  BY <1>1, <1>2, <1>3, <1>4, <1>5, <1>7 DEF After, Weight, Holding
<1>9. /\ UNCHANGED <<refs, freed, registryRef, handle, runq, ownerW, chanWake, chanCleanup, fpc,
           foreignW, seen>>
  BY <1>1, <1>2, <1>3, <1>4, <1>5
     DEF enter_run, UserCode, header, places, executor, channel, foreign
<1>10. Balanced
  BY <1>4, <1>8, <1>9 DEF Balanced
<1>11. Exact'
  BY <1>1, <1>3, <1>8, <1>9, <1>10, Recount
<1>12. Zeroed' /\ Relied'
  BY <1>1, <1>2, <1>3, <1>4, <1>5, <1>9 DEF Zeroed, Relied
<1>13. TlTypes'
  BY <1>1, <1>2, <1>3, <1>4, <1>5, <1>7, <1>9
     DEF TlTypes, After, enter_run, UserCode, header, places, executor, channel, foreign
<1>14. Registered'
  BY <1>1, <1>2, <1>3, <1>4, <1>5, <1>7
     DEF Registered, Has, After, Ordered, SchedEnds, RunFrames, enter_run, UserCode, header,
         places, executor, channel, foreign
<1>15. Flagged'
  BY <1>1, <1>2, <1>3, <1>4, <1>5, <1>7
     DEF Flagged, Has, After, Ordered, SchedEnds, RunFrames, enter_run, UserCode, header, places,
         executor, channel, foreign
<1>16. Finished'
  BY <1>1, <1>2, <1>3, <1>4, <1>5, <1>7, <1>6, <1>15
     DEF Finished, Registered, Flagged, Ended, Has, After, Ordered, SchedEnds, RunFrames,
         enter_run, UserCode, header, places, executor, channel, foreign
<1>. QED
  BY <1>7, <1>11, <1>12, <1>13, <1>14, <1>15, <1>16 DEF TlInv, After

LEMMA Step_leave_run == ASSUME TlInv, leave_run PROVE TlInv'
<1>1. TlTypes /\ Exact /\ Zeroed /\ Relied /\ Stacked /\ Registered /\ Flagged /\ Finished
  BY DEF TlInv
<1>2. Nested(stack) /\ stack \in Seq(Names) /\ Frames = Members(stack) /\ RefsOf(stack) \in Nat
  BY <1>1, UserNested DEF leave_run, UserCode
<1>3. ForeignHeld \in Nat /\ InHand \in Nat /\ ForeignHeld' = ForeignHeld /\ InHand' = InHand
  BY <1>1, OutsideNat, OutsideSame DEF leave_run, foreign, UserCode
<1>4. refs \in Nat /\ runq \in Nat /\ ownerW \in Nat /\ chanWake \in Nat /\ chanCleanup \in Nat
  BY <1>1, <1>2, RefsInt, RefsNat DEF TlTypes
<1>5. ("cancel_in_place" \in Frames => Ended) /\ ~(Has("RUNNING") /\ Has("SCHEDULE_DROPPED"))
  BY <1>1, UserPlain DEF leave_run, UserCode
<1>6. stack' = stack
  BY <1>2, <1>5 DEF leave_run, UserCode, Call
<1>7. After(Members(stack), RefsOf(stack))
  BY <1>1, <1>2, <1>3, <1>4, <1>5, <1>6, Push0
<1>8. RefsOf(stack') = RefsOf(stack) /\ RefsOf(stack) \in Nat /\ RefsOf(stack') \in Nat
  BY <1>1, <1>2, <1>3, <1>4, <1>5, <1>7 DEF After, Weight, Holding
<1>9. /\ UNCHANGED <<refs, freed, registryRef, handle, runq, ownerW, chanWake, chanCleanup, fpc,
           foreignW, seen>>
  BY <1>1, <1>2, <1>3, <1>4, <1>5
     DEF leave_run, UserCode, header, places, executor, channel, foreign
<1>10. Balanced
  BY <1>4, <1>8, <1>9 DEF Balanced
<1>11. Exact'
  BY <1>1, <1>3, <1>8, <1>9, <1>10, Recount
<1>12. Zeroed' /\ Relied'
  BY <1>1, <1>2, <1>3, <1>4, <1>5, <1>9 DEF Zeroed, Relied
<1>13. TlTypes'
  BY <1>1, <1>2, <1>3, <1>4, <1>5, <1>7, <1>9
     DEF TlTypes, After, leave_run, UserCode, header, places, executor, channel, foreign
<1>14. Registered'
  BY <1>1, <1>2, <1>3, <1>4, <1>5, <1>7
     DEF Registered, Has, After, Ordered, SchedEnds, RunFrames, leave_run, UserCode, header,
         places, executor, channel, foreign
<1>15. Flagged'
  BY <1>1, <1>2, <1>3, <1>4, <1>5, <1>7
     DEF Flagged, Has, After, Ordered, SchedEnds, RunFrames, leave_run, UserCode, header, places,
         executor, channel, foreign
<1>16. Finished'
  BY <1>1, <1>2, <1>3, <1>4, <1>5, <1>7, <1>6, <1>15
     DEF Finished, Registered, Flagged, Ended, Has, After, Ordered, SchedEnds, RunFrames,
         leave_run, UserCode, header, places, executor, channel, foreign
<1>. QED
  BY <1>7, <1>11, <1>12, <1>13, <1>14, <1>15, <1>16 DEF TlInv, After

LEMMA Step_remove_task_queue == ASSUME TlInv, remove_task_queue PROVE TlInv'
<1>1. TlTypes /\ Exact /\ Zeroed /\ Relied /\ Stacked /\ Registered /\ Flagged /\ Finished
  BY DEF TlInv
<1>2. Nested(stack) /\ stack \in Seq(Names) /\ Frames = Members(stack) /\ RefsOf(stack) \in Nat
  BY <1>1, UserNested DEF remove_task_queue, UserCode
<1>3. ForeignHeld \in Nat /\ InHand \in Nat /\ ForeignHeld' = ForeignHeld /\ InHand' = InHand
  BY <1>1, OutsideNat, OutsideSame DEF remove_task_queue, foreign, UserCode
<1>4. refs \in Nat /\ runq \in Nat /\ ownerW \in Nat /\ chanWake \in Nat /\ chanCleanup \in Nat
  BY <1>1, <1>2, RefsInt, RefsNat DEF TlTypes
<1>5. ("cancel_in_place" \in Frames => Ended) /\ ~(Has("RUNNING") /\ Has("SCHEDULE_DROPPED"))
  BY <1>1, UserPlain DEF remove_task_queue, UserCode
<1>6. stack' = stack
  BY <1>2, <1>5 DEF remove_task_queue, UserCode, Call
<1>7. After(Members(stack), RefsOf(stack))
  BY <1>1, <1>2, <1>3, <1>4, <1>5, <1>6, Push0
<1>8. RefsOf(stack') = RefsOf(stack) /\ RefsOf(stack) \in Nat /\ RefsOf(stack') \in Nat
  BY <1>1, <1>2, <1>3, <1>4, <1>5, <1>7 DEF After, Weight, Holding
<1>9. /\ UNCHANGED <<refs, freed, registryRef, handle, runq, ownerW, chanWake, chanCleanup, fpc,
           foreignW, seen>>
  BY <1>1, <1>2, <1>3, <1>4, <1>5
     DEF remove_task_queue, UserCode, header, places, executor, channel, foreign
<1>10. Balanced
  BY <1>4, <1>8, <1>9 DEF Balanced
<1>11. Exact'
  BY <1>1, <1>3, <1>8, <1>9, <1>10, Recount
<1>12. Zeroed' /\ Relied'
  BY <1>1, <1>2, <1>3, <1>4, <1>5, <1>9 DEF Zeroed, Relied
<1>13. TlTypes'
  BY <1>1, <1>2, <1>3, <1>4, <1>5, <1>7, <1>9
     DEF TlTypes, After, remove_task_queue, UserCode, header, places, executor, channel, foreign
<1>14. Registered'
  BY <1>1, <1>2, <1>3, <1>4, <1>5, <1>7
     DEF Registered, Has, After, Ordered, SchedEnds, RunFrames, remove_task_queue, UserCode,
         header, places, executor, channel, foreign
<1>15. Flagged'
  BY <1>1, <1>2, <1>3, <1>4, <1>5, <1>7
     DEF Flagged, Has, After, Ordered, SchedEnds, RunFrames, remove_task_queue, UserCode, header,
         places, executor, channel, foreign
<1>16. Finished'
  BY <1>1, <1>2, <1>3, <1>4, <1>5, <1>7, <1>6, <1>15
     DEF Finished, Registered, Flagged, Ended, Has, After, Ordered, SchedEnds, RunFrames,
         remove_task_queue, UserCode, header, places, executor, channel, foreign
<1>. QED
  BY <1>7, <1>11, <1>12, <1>13, <1>14, <1>15, <1>16 DEF TlInv, After

LEMMA Step_handle_poll == ASSUME TlInv, handle_poll PROVE TlInv'
<1>1. TlTypes /\ Exact /\ Zeroed /\ Relied /\ Stacked /\ Registered /\ Flagged /\ Finished
  BY DEF TlInv
<1>2. Nested(stack) /\ stack \in Seq(Names) /\ Frames = Members(stack) /\ RefsOf(stack) \in Nat
  BY <1>1, UserNested DEF handle_poll
<1>3. ForeignHeld \in Nat /\ InHand \in Nat /\ ForeignHeld' = ForeignHeld /\ InHand' = InHand
  BY <1>1, OutsideNat, OutsideSame DEF handle_poll, foreign
<1>4. refs \in Nat /\ runq \in Nat /\ ownerW \in Nat /\ chanWake \in Nat /\ chanCleanup \in Nat
  BY <1>1, <1>2, RefsInt, RefsNat DEF TlTypes
<1>5. ("cancel_in_place" \in Frames => Ended) /\ ~(Has("RUNNING") /\ Has("SCHEDULE_DROPPED"))
  BY <1>1, UserPlain DEF handle_poll
<1>6. stack' = stack
  BY <1>2, <1>5 DEF handle_poll, Call
<1>7. After(Members(stack), RefsOf(stack))
  BY <1>1, <1>2, <1>3, <1>4, <1>5, <1>6, Push0
<1>8. RefsOf(stack') = RefsOf(stack) /\ RefsOf(stack) \in Nat /\ RefsOf(stack') \in Nat
  BY <1>1, <1>2, <1>3, <1>4, <1>5, <1>7 DEF After, Weight, Holding
<1>9. /\ UNCHANGED <<refs, freed, registryRef, handle, runq, ownerW, chanWake, chanCleanup, fpc,
           foreignW, seen>>
  BY <1>1, <1>2, <1>3, <1>4, <1>5 DEF handle_poll, header, places, executor, channel, foreign
<1>10. Balanced
  BY <1>4, <1>8, <1>9 DEF Balanced
<1>11. Exact'
  BY <1>1, <1>3, <1>8, <1>9, <1>10, Recount
<1>12. Zeroed' /\ Relied'
  BY <1>1, <1>2, <1>3, <1>4, <1>5, <1>9 DEF Zeroed, Relied
<1>13. TlTypes'
  BY <1>1, <1>2, <1>3, <1>4, <1>5, <1>7, <1>9
     DEF TlTypes, After, handle_poll, header, places, executor, channel, foreign
<1>14. Registered'
  BY <1>1, <1>2, <1>3, <1>4, <1>5, <1>7
     DEF Registered, Has, After, Ordered, SchedEnds, RunFrames, handle_poll, header, places,
         executor, channel, foreign
<1>15. Flagged'
  BY <1>1, <1>2, <1>3, <1>4, <1>5, <1>7
     DEF Flagged, Has, After, Ordered, SchedEnds, RunFrames, handle_poll, header, places,
         executor, channel, foreign
<1>16. Finished'
  BY <1>1, <1>2, <1>3, <1>4, <1>5, <1>7, <1>6, <1>15
     DEF Finished, Registered, Flagged, Ended, Has, After, Ordered, SchedEnds, RunFrames,
         handle_poll, header, places, executor, channel, foreign
<1>. QED
  BY <1>7, <1>11, <1>12, <1>13, <1>14, <1>15, <1>16 DEF TlInv, After

LEMMA Step_waker_clone == ASSUME TlInv, waker_clone PROVE TlInv'
<1>1. TlTypes /\ Exact /\ Zeroed /\ Relied /\ Stacked /\ Registered /\ Flagged /\ Finished
  BY DEF TlInv
<1>2. Nested(stack) /\ stack \in Seq(Names) /\ Frames = Members(stack) /\ RefsOf(stack) \in Nat
  BY <1>1, UserNested DEF waker_clone, CanUseWaker
<1>3. ForeignHeld \in Nat /\ InHand \in Nat /\ ForeignHeld' = ForeignHeld /\ InHand' = InHand
  BY <1>1, OutsideNat, OutsideSame DEF waker_clone, foreign, CanUseWaker
<1>4. refs \in Nat /\ runq \in Nat /\ ownerW \in Nat /\ chanWake \in Nat /\ chanCleanup \in Nat
  BY <1>1, <1>2, RefsInt, RefsNat DEF TlTypes
<1>5. ("cancel_in_place" \in Frames => Ended) /\ ~(Has("RUNNING") /\ Has("SCHEDULE_DROPPED"))
  BY <1>1, UserPlain DEF waker_clone, CanUseWaker
<1>6. refs > 0
  BY <1>1, WakerAlive DEF waker_clone
<1>7. stack' = stack
  BY <1>2, <1>5, <1>6 DEF waker_clone, CanUseWaker, Call
<1>8. After(Members(stack), RefsOf(stack))
  BY <1>1, <1>2, <1>3, <1>4, <1>5, <1>6, <1>7, Push0
<1>9. RefsOf(stack') = RefsOf(stack) /\ RefsOf(stack) \in Nat /\ RefsOf(stack') \in Nat
  BY <1>1, <1>2, <1>3, <1>4, <1>5, <1>6, <1>8 DEF After, Weight, Holding
<1>10. /\ refs' = refs + 1 /\ ownerW' = ownerW + 1
       /\ UNCHANGED <<freed, registryRef, handle, runq, chanWake, chanCleanup, fpc, foreignW,
            seen>>
  BY <1>1, <1>2, <1>3, <1>4, <1>5, <1>6
     DEF waker_clone, CanUseWaker, header, places, executor, channel, foreign
<1>11. Balanced
  BY <1>4, <1>9, <1>10 DEF Balanced
<1>12. Exact'
  BY <1>1, <1>3, <1>9, <1>10, <1>11, Recount
<1>13. Zeroed' /\ Relied'
  BY <1>1, <1>2, <1>3, <1>4, <1>5, <1>6, <1>10 DEF Zeroed, Relied
<1>14. TlTypes'
  BY <1>1, <1>2, <1>3, <1>4, <1>5, <1>6, <1>8, <1>10
     DEF TlTypes, After, waker_clone, CanUseWaker, header, places, executor, channel, foreign
<1>15. Registered'
  BY <1>1, <1>2, <1>3, <1>4, <1>5, <1>6, <1>8
     DEF Registered, Has, After, Ordered, SchedEnds, RunFrames, waker_clone, CanUseWaker, header,
         places, executor, channel, foreign
<1>16. Flagged'
  BY <1>1, <1>2, <1>3, <1>4, <1>5, <1>6, <1>8
     DEF Flagged, Has, After, Ordered, SchedEnds, RunFrames, waker_clone, CanUseWaker, header,
         places, executor, channel, foreign
<1>17. Finished'
  BY <1>1, <1>2, <1>3, <1>4, <1>5, <1>6, <1>8, <1>7, <1>16
     DEF Finished, Registered, Flagged, Ended, Has, After, Ordered, SchedEnds, RunFrames,
         waker_clone, CanUseWaker, header, places, executor, channel, foreign
<1>. QED
  BY <1>8, <1>12, <1>13, <1>14, <1>15, <1>16, <1>17 DEF TlInv, After

----------------------------------------------------------------------------------
(* Foreign threads.                                                             *)

Hand(pc) == IF pc \in {"idle", "wake_find"} THEN 0 ELSE 1

LEMMA HeldMoves ==
  ASSUME TlTypes, NEW t \in Foreign, NEW n \in Nat, foreignW' = [foreignW EXCEPT ![t] = n]
  PROVE  /\ ForeignHeld' = ForeignHeld - foreignW[t] + n
         /\ ForeignHeld \in Nat /\ ForeignHeld' \in Nat /\ ForeignHeld >= foreignW[t]
         /\ foreignW[t] \in Nat /\ foreignW' \in [Foreign -> Nat]
<1>. DEFINE R == Foreign \ {t}
            v == [foreignW EXCEPT ![t] = n]
<1>1. /\ foreignW \in [Foreign -> Nat] /\ v \in [Foreign -> Nat] /\ v[t] = n
      /\ R \in SUBSET Foreign /\ Foreign \in SUBSET Foreign /\ t \notin R
  BY DEF TlTypes
<1>. DEFINE c == Cardinality(Pairs(R, foreignW))
            a == ForeignHeld
            b == Cardinality(Pairs(Foreign, v))
<1>2. Cardinality(Pairs(Foreign, foreignW)) = c + foreignW[t]
  BY <1>1, ForeignAssumption, PairsRemove
<1>3. b = Cardinality(Pairs(R, v)) + v[t]
  <2>. HIDE DEF v
  <2>. QED
    BY <1>1, ForeignAssumption, PairsRemove
<1>4. Cardinality(Pairs(R, v)) = c
  BY <1>1, ForeignAssumption, PairsSame, ZenonT(60)
<1>5. ForeignHeld = Cardinality(Pairs(Foreign, foreignW))
  BY DEF ForeignHeld, Pairs
<1>6. ForeignHeld' = b
  BY DEF ForeignHeld, Pairs
<1>7. c \in Nat
  BY <1>1, ForeignAssumption, PairsFinite
<1>8. a = c + foreignW[t] /\ b = c + n /\ foreignW[t] \in Nat
  BY <1>1, <1>2, <1>3, <1>4, <1>5
<1>. HIDE DEF a, b, c, v, R
<1>9. b = a - foreignW[t] + n /\ a \in Nat /\ b \in Nat /\ a >= foreignW[t]
  BY <1>7, <1>8
<1>. QED
  BY <1>1, <1>6, <1>8, <1>9 DEF a, v

LEMMA HandMoves ==
  ASSUME TlTypes, NEW t \in Foreign, NEW pc, fpc' = [fpc EXCEPT ![t] = pc]
  PROVE  /\ InHand' = InHand - Hand(fpc[t]) + Hand(pc)
         /\ InHand \in Nat /\ InHand' \in Nat /\ InHand >= Hand(fpc[t])
         /\ fpc'[t] = pc /\ \A u \in Foreign \ {t} : fpc'[u] = fpc[u]
         /\ fpc' = [u \in Foreign |-> fpc'[u]]
<1>. DEFINE Out == {"idle", "wake_find"}
            S == {u \in Foreign : fpc[u] \notin Out}
            V == {u \in Foreign : fpc'[u] \notin Out}
            R == S \ {t}
<1>1. /\ fpc'[t] = pc /\ (\A u \in Foreign \ {t} : fpc'[u] = fpc[u])
      /\ fpc' = [u \in Foreign |-> fpc'[u]]
  BY DEF TlTypes
<1>2. IsFiniteSet(R) /\ IsFiniteSet(S) /\ Cardinality(R) \in Nat
  <2>1. R \in SUBSET Foreign /\ S \in SUBSET Foreign
    OBVIOUS
  <2>. HIDE DEF R, S
  <2>. QED
    BY <2>1, ForeignAssumption, FS_Subset, FS_CardinalityType
<1>3. Cardinality(S) = Cardinality(R) + Hand(fpc[t])
  <2>1. CASE fpc[t] \in Out
    <3>1. R = S /\ Hand(fpc[t]) = 0
      BY <2>1 DEF Hand
    <3>. HIDE DEF R, S
    <3>. QED
      BY <1>2, <3>1
  <2>2. CASE fpc[t] \notin Out
    <3>1. S = R \cup {t} /\ t \notin R /\ Hand(fpc[t]) = 1
      BY <2>2 DEF Hand
    <3>. HIDE DEF R, S
    <3>2. Cardinality(R \cup {t}) = Cardinality(R) + 1
      BY <1>2, <3>1, CountAdd
    <3>. QED
      BY <3>1, <3>2
  <2>. QED
    BY <2>1, <2>2
<1>4. Cardinality(V) = Cardinality(R) + Hand(pc)
  <2>1. CASE pc \in Out
    <3>1. V = R /\ Hand(pc) = 0
      BY <1>1, <2>1 DEF Hand
    <3>. HIDE DEF R, V
    <3>. QED
      BY <1>2, <3>1
  <2>2. CASE pc \notin Out
    <3>1. V = R \cup {t} /\ t \notin R /\ Hand(pc) = 1
      BY <1>1, <2>2 DEF Hand
    <3>. HIDE DEF R, V
    <3>2. Cardinality(R \cup {t}) = Cardinality(R) + 1
      BY <1>2, <3>1, CountAdd
    <3>. QED
      BY <3>1, <3>2
  <2>. QED
    BY <2>1, <2>2
<1>5. InHand = Cardinality(S) /\ InHand' = Cardinality(V)
  BY DEF InHand
<1>6. Hand(pc) \in Nat /\ Hand(fpc[t]) \in Nat
  BY DEF Hand
<1>. DEFINE c == Cardinality(R)
            a == Cardinality(S)
            b == Cardinality(V)
            h == Hand(fpc[t])
            k == Hand(pc)
<1>7. a = c + h /\ b = c + k /\ c \in Nat /\ h \in Nat /\ k \in Nat
  BY <1>2, <1>3, <1>4, <1>6
<1>8. InHand = a /\ InHand' = b
  BY <1>5
<1>. HIDE DEF a, b, c, h, k, R, S, V
<1>9. b = a - h + k /\ a \in Nat /\ b \in Nat /\ a >= h
  BY <1>7
<1>. QED
  BY <1>1, <1>8, <1>9 DEF h, k

(* What the owner has is left alone.                                            *)
LEMMA OwnerSame ==
  ASSUME TlInv, UNCHANGED ownerSide
  PROVE  /\ Stacked' /\ Registered' /\ Flagged' /\ Finished' /\ RefsOf(stack') = RefsOf(stack)
         /\ RefsOf(stack) \in Nat /\ refs \in Nat
         /\ runq \in Nat /\ ownerW \in Nat /\ chanWake \in Nat /\ chanCleanup \in Nat
<1>1. /\ UNCHANGED <<st, active, linked, scheduling, awaiter, registryRef>>
      /\ UNCHANGED <<handle, runq, ownerW, stack>>
  BY DEF ownerSide, header, places
<1>2. Stacked /\ Registered /\ Flagged /\ Finished /\ TlTypes /\ Exact
  BY DEF TlInv
<1>3. Frames' = Frames /\ Top' = Top
  BY <1>1 DEF Frames, Top
<1>4. Stacked'
  BY <1>1, <1>2 DEF Stacked, Leans
<1>5. Registered'
  BY <1>1, <1>2, <1>3 DEF Registered, Has
<1>6. Flagged'
  BY <1>1, <1>2, <1>3 DEF Flagged, Has
<1>7. Finished'
  BY <1>1, <1>2, <1>3 DEF Finished, Has, Ended
<1>8. RefsOf(stack) \in Nat /\ refs \in Nat
  BY <1>2, RefsNat, RefsInt DEF TlTypes
<1>. QED
  BY <1>1, <1>2, <1>4, <1>5, <1>6, <1>7, <1>8 DEF TlTypes

(* The count changes as what the foreign threads hold.                          *)
Traded ==
  /\ refs' \in Int /\ chanWake' \in Int /\ chanCleanup' \in Int
  /\ ForeignHeld \in Int /\ ForeignHeld' \in Int /\ InHand \in Int /\ InHand' \in Int
  /\ refs' - refs = (chanWake' - chanWake) + (chanCleanup' - chanCleanup)
                    + (ForeignHeld' - ForeignHeld) + (InHand' - InHand)

LEMMA ForeignRecount ==
  ASSUME TlInv, UNCHANGED ownerSide, Traded PROVE Exact'
<1>. DEFINE k == Bit(registryRef)
            h == Bit(handle # "dropped")
            u == runq
            o == ownerW
            q == RefsOf(stack)
            f == ForeignHeld
            f1 == ForeignHeld'
            i == InHand
            i1 == InHand'
            r == refs
            r1 == refs'
            w == chanWake
            w1 == chanWake'
            c == chanCleanup
            c1 == chanCleanup'
<1>1. k \in Nat /\ h \in Nat /\ u \in Nat /\ o \in Nat /\ q \in Nat /\ r \in Nat /\ w \in Nat
        /\ c \in Nat
  BY OwnerSame DEF Bit
<1>2. /\ f \in Int /\ f1 \in Int /\ i \in Int /\ i1 \in Int /\ r1 \in Int /\ w1 \in Int
             /\ c1 \in Int
      /\ r1 - r = (w1 - w) + (c1 - c) + (f1 - f) + (i1 - i)
  BY DEF Traded
<1>3. r = k + h + u + (o + f + w + c) + q + i
  BY DEF TlInv, Exact, Wakers
<1>4. Exact' <=> r1 = k + h + u + (o + f1 + w1 + c1) + q + i1
  BY OwnerSame DEF Exact, Wakers, ownerSide, header, places
<1>. HIDE DEF k, h, u, o, q, f, f1, i, i1, r, r1, w, w1, c, c1
<1>5. r1 = k + h + u + (o + f1 + w1 + c1) + q + i1
  BY <1>1, <1>2, <1>3
<1>. QED
  BY <1>4, <1>5

(* A thread with a waker or a reference in its hands keeps the task.            *)
LEMMA HolderAlive ==
  ASSUME TlInv, ForeignHeld + InHand >= 1 PROVE refs >= 1 /\ ~freed
<1>. DEFINE k == Bit(registryRef)
            h == Bit(handle # "dropped")
            q == RefsOf(stack)
            f == ForeignHeld
            i == InHand
<1>1. TlTypes /\ Exact /\ Zeroed
  BY DEF TlInv
<1>2. /\ k \in Nat /\ h \in Nat /\ q \in Nat /\ f \in Nat /\ i \in Nat /\ f + i >= 1
      /\ runq \in Nat /\ ownerW \in Nat /\ chanWake \in Nat /\ chanCleanup \in Nat
  BY <1>1, OutsideNat, RefsNat DEF Bit, TlTypes
<1>3. refs = k + h + runq + (ownerW + f + chanWake + chanCleanup) + q + i
  BY <1>1 DEF Exact, Wakers
<1>. HIDE DEF k, h, q, f, i
<1>4. refs >= 1 /\ refs # 0
  BY <1>2, <1>3
<1>. QED
  BY <1>1, <1>4 DEF Zeroed

LEMMA HeldAtLeast ==
  ASSUME TlTypes, NEW t \in Foreign PROVE ForeignHeld >= foreignW[t] /\ foreignW[t] \in Nat
<1>1. foreignW \in [Foreign -> Nat] /\ Foreign \in SUBSET Foreign
        /\ Foreign \ {t} \in SUBSET Foreign
  BY DEF TlTypes
<1>2. Cardinality(Pairs(Foreign, foreignW)) = Cardinality(Pairs(Foreign \ {t},
      foreignW)) + foreignW[t]
  BY <1>1, ForeignAssumption, PairsRemove
<1>3. Cardinality(Pairs(Foreign \ {t}, foreignW)) \in Nat
  BY <1>1, ForeignAssumption, PairsFinite
<1>4. ForeignHeld = Cardinality(Pairs(Foreign, foreignW))
  BY DEF ForeignHeld, Pairs
<1>. QED
  BY <1>1, <1>2, <1>3, <1>4

(* A step of the thread t, given what became of its waker and its hands.        *)
LEMMA ForeignKeeps ==
  ASSUME TlInv, NEW t \in Foreign, UNCHANGED ownerSide, Traded, chanWake' \in Nat,
         chanCleanup' \in Nat,
         foreignW' \in [Foreign -> Nat], fpc' = [u \in Foreign |-> fpc'[u]],
         seen' \in [Foreign -> Nat],
         freed' => refs' = 0, Relied'
  PROVE  TlInv'
<1>1. Stacked' /\ Registered' /\ Flagged' /\ Finished'
  BY OwnerSame
<1>2. Exact'
  BY ForeignRecount
<1>3. TlTypes'
  BY DEF TlInv, TlTypes, ownerSide, header, places
<1>4. Zeroed'
  BY DEF Zeroed
<1>. QED
  BY <1>1, <1>2, <1>3, <1>4 DEF TlInv

LEMMA Step_foreign_clone ==
  ASSUME TlInv, NEW t \in Foreign, foreign_clone(t) PROVE TlInv'
<1>0. TlTypes /\ Relied /\ Zeroed
  BY DEF TlInv
<1>1. /\ UNCHANGED ownerSide /\ refs' = refs + 1 /\ UNCHANGED <<freed, chanWake, chanCleanup,
           fpc, seen>>
      /\ foreignW' = [foreignW EXCEPT ![t] = foreignW[t] + 1] /\ foreignW[t] > 0
  BY DEF foreign_clone, channel
<1>2. foreignW[t] + 1 \in Nat
  BY <1>0 DEF TlTypes
<1>3. /\ ForeignHeld' = ForeignHeld - foreignW[t] + (foreignW[t] + 1)
      /\ ForeignHeld \in Nat /\ ForeignHeld' \in Nat /\ ForeignHeld >= foreignW[t]
      /\ foreignW[t] \in Nat /\ foreignW' \in [Foreign -> Nat]
  BY <1>0, <1>1, <1>2, HeldMoves
<1>4. InHand' = InHand /\ InHand \in Nat
  BY <1>0, <1>1, OutsideNat DEF InHand
<1>5. refs \in Nat /\ chanWake \in Nat /\ chanCleanup \in Nat
  BY <1>1, OwnerSame
<1>6. Traded
  BY <1>1, <1>3, <1>4, <1>5 DEF Traded
<1>7. ForeignHeld + InHand >= 1
  BY <1>1, <1>3, <1>4
<1>8. ~freed'
  BY <1>1, <1>7, HolderAlive
<1>9. Relied'
  BY <1>0, <1>1 DEF Relied, TlTypes
<1>. QED
  BY <1>0, <1>1, <1>3, <1>5, <1>6, <1>8, <1>9, ForeignKeeps DEF TlTypes

(* A step that only moves the thread's counter.                                 *)
LEMMA ForeignMoves ==
  ASSUME TlInv, NEW t \in Foreign, NEW pc, UNCHANGED ownerSide,
         UNCHANGED <<refs, freed, chanWake, chanCleanup, foreignW, seen>>,
         fpc' = [fpc EXCEPT ![t] = pc], Hand(pc) = Hand(fpc[t]),
         pc = "wake_find" => foreignW[t] > 0
  PROVE  TlInv'
<1>0. TlTypes /\ Relied /\ Zeroed
  BY DEF TlInv
<1>1. /\ InHand' = InHand - Hand(fpc[t]) + Hand(pc)
      /\ InHand \in Nat /\ InHand' \in Nat
      /\ fpc'[t] = pc /\ (\A u \in Foreign \ {t} : fpc'[u] = fpc[u])
      /\ fpc' = [u \in Foreign |-> fpc'[u]]
  BY <1>0, HandMoves
<1>2. ForeignHeld' = ForeignHeld /\ ForeignHeld \in Nat
  BY <1>0, OutsideNat DEF ForeignHeld
<1>3. refs \in Nat /\ chanWake \in Nat /\ chanCleanup \in Nat
  BY OwnerSame
<1>4. Hand(pc) \in Int
  BY DEF Hand
<1>5. InHand' = InHand
  BY <1>1, <1>4
<1>6. Traded
  BY <1>1, <1>2, <1>3, <1>5 DEF Traded
<1>7. Relied'
  BY <1>0, <1>1 DEF Relied
<1>8. freed' => refs' = 0
  BY <1>0 DEF Zeroed
<1>. QED
  BY <1>0, <1>1, <1>3, <1>6, <1>7, <1>8, ForeignKeeps DEF TlTypes

LEMMA Step_foreign_wake ==
  ASSUME TlInv, NEW t \in Foreign, foreign_wake(t) PROVE TlInv'
<1>. DEFINE pc == IF active THEN "wake_find" ELSE "idle"
<1>1. /\ UNCHANGED ownerSide /\ UNCHANGED <<refs, freed, chanWake, chanCleanup, foreignW, seen>>
      /\ fpc' = [fpc EXCEPT ![t] = pc] /\ foreignW[t] > 0 /\ fpc[t] = "idle"
  BY DEF foreign_wake, FGoto, channel
<1>2. Hand(pc) = Hand(fpc[t])
  BY <1>1 DEF Hand
<1>. HIDE DEF pc
<1>. QED
  BY <1>1, <1>2, ForeignMoves

LEMMA Step_foreign_drop_active ==
  ASSUME TlInv, NEW t \in Foreign, foreign_drop_active(t) PROVE TlInv'
<1>. DEFINE pc == IF active THEN "drop_find" ELSE "drop_cas"
<1>1. /\ UNCHANGED ownerSide /\ UNCHANGED <<refs, freed, chanWake, chanCleanup, foreignW, seen>>
      /\ fpc' = [fpc EXCEPT ![t] = pc] /\ fpc[t] = "drop_active"
  BY DEF foreign_drop_active, FGoto, channel
<1>2. Hand(pc) = Hand(fpc[t]) /\ pc # "wake_find"
  BY <1>1 DEF Hand
<1>. HIDE DEF pc
<1>. QED
  BY <1>1, <1>2, ForeignMoves

LEMMA Step_foreign_drop_find ==
  ASSUME TlInv, NEW t \in Foreign, foreign_drop_find(t) PROVE TlInv'
<1>. DEFINE pc == IF Accepts THEN "drop_queue" ELSE "drop_cas"
<1>1. /\ UNCHANGED ownerSide /\ UNCHANGED <<refs, freed, chanWake, chanCleanup, foreignW, seen>>
      /\ fpc' = [fpc EXCEPT ![t] = pc] /\ fpc[t] = "drop_find"
  BY DEF foreign_drop_find, FGoto, channel
<1>2. Hand(pc) = Hand(fpc[t]) /\ pc # "wake_find"
  BY <1>1 DEF Hand
<1>. HIDE DEF pc
<1>. QED
  BY <1>1, <1>2, ForeignMoves

LEMMA Step_foreign_wake_find ==
  ASSUME TlInv, NEW t \in Foreign, foreign_wake_find(t) PROVE TlInv'
<1>0. TlTypes /\ Relied /\ Zeroed
  BY DEF TlInv
<1>1. CASE exec = "gone"
  <2>1. /\ UNCHANGED ownerSide /\ UNCHANGED <<refs, freed, chanWake, chanCleanup, foreignW, seen>>
        /\ fpc' = [fpc EXCEPT ![t] = "idle"] /\ fpc[t] = "wake_find"
    BY <1>1 DEF foreign_wake_find, FGoto, channel
  <2>2. Hand("idle") = Hand(fpc[t])
    BY <2>1 DEF Hand
  <2>. QED
    BY <2>1, <2>2, ForeignMoves
<1>2. CASE exec # "gone"
  <2>1. /\ UNCHANGED ownerSide /\ UNCHANGED <<freed, chanWake, chanCleanup, foreignW, seen>>
        /\ refs' = refs + 1 /\ fpc' = [fpc EXCEPT ![t] = "wake_queue"] /\ fpc[t] = "wake_find"
    BY <1>2 DEF foreign_wake_find, FGoto, channel
  <2>2. /\ InHand' = InHand - Hand(fpc[t]) + Hand("wake_queue")
        /\ InHand \in Nat /\ InHand' \in Nat
        /\ fpc'[t] = "wake_queue" /\ (\A u \in Foreign \ {t} : fpc'[u] = fpc[u])
        /\ fpc' = [u \in Foreign |-> fpc'[u]]
    BY <1>0, <2>1, HandMoves
  <2>3. InHand' = InHand + 1
    BY <2>1, <2>2 DEF Hand
  <2>4. foreignW[t] > 0
    BY <1>0, <2>1 DEF Relied
  <2>5. ForeignHeld' = ForeignHeld /\ ForeignHeld \in Nat
    BY <1>0, <2>1, OutsideNat DEF ForeignHeld
  <2>6. ForeignHeld >= foreignW[t] /\ foreignW[t] \in Nat
    BY <1>0, HeldAtLeast
  <2>7. refs \in Nat /\ chanWake \in Nat /\ chanCleanup \in Nat
    BY <2>1, OwnerSame
  <2>8. Traded
    BY <2>1, <2>2, <2>3, <2>5, <2>7 DEF Traded
  <2>9. ForeignHeld + InHand >= 1
    BY <2>2, <2>4, <2>5, <2>6
  <2>10. ~freed'
    BY <2>1, <2>9, HolderAlive
  <2>11. Relied'
    BY <1>0, <2>1, <2>2 DEF Relied
  <2>. QED
    BY <1>0, <2>1, <2>2, <2>7, <2>8, <2>10, <2>11, ForeignKeeps DEF TlTypes
<1>. QED
  BY <1>1, <1>2

(* The waker in hand goes into a channel, or is dropped if that is closed.      *)
LEMMA Step_foreign_queue ==
  ASSUME TlInv, NEW t \in Foreign, foreign_wake_queue(t) \/ foreign_drop_queue(t) PROVE TlInv'
<1>0. TlTypes /\ Relied /\ Zeroed
  BY DEF TlInv
<1>1. /\ UNCHANGED ownerSide /\ UNCHANGED <<refs, freed, foreignW, seen>>
      /\ fpc[t] \in {"wake_queue", "drop_queue"}
  BY DEF foreign_wake_queue, foreign_drop_queue
<1>2. CASE closed
  <2>1. UNCHANGED <<chanWake, chanCleanup>> /\ fpc' = [fpc EXCEPT ![t] = "drop_load"]
    BY <1>2 DEF foreign_wake_queue, foreign_drop_queue, FGoto
  <2>2. Hand("drop_load") = Hand(fpc[t])
    BY <1>1 DEF Hand
  <2>. QED
    BY <1>1, <2>1, <2>2, ForeignMoves
<1>3. CASE ~closed
  <2>1. /\ fpc' = [fpc EXCEPT ![t] = "idle"]
        /\ \/ chanWake' = chanWake + 1 /\ chanCleanup' = chanCleanup
           \/ chanWake' = chanWake /\ chanCleanup' = chanCleanup + 1
    BY <1>3 DEF foreign_wake_queue, foreign_drop_queue, FGoto
  <2>2. /\ InHand' = InHand - Hand(fpc[t]) + Hand("idle")
        /\ InHand \in Nat /\ InHand' \in Nat
        /\ fpc'[t] = "idle" /\ (\A u \in Foreign \ {t} : fpc'[u] = fpc[u])
        /\ fpc' = [u \in Foreign |-> fpc'[u]]
    BY <1>0, <2>1, HandMoves
  <2>3. InHand' = InHand - 1
    BY <1>1, <2>2 DEF Hand
  <2>4. ForeignHeld' = ForeignHeld /\ ForeignHeld \in Nat
    BY <1>0, <1>1, OutsideNat DEF ForeignHeld
  <2>5. refs \in Nat /\ chanWake \in Nat /\ chanCleanup \in Nat
    BY <1>1, OwnerSame
  <2>6. Traded /\ chanWake' \in Nat /\ chanCleanup' \in Nat
    BY <1>1, <2>1, <2>2, <2>3, <2>4, <2>5 DEF Traded
  <2>7. freed' => refs' = 0
    BY <1>0, <1>1 DEF Zeroed
  <2>8. Relied'
    BY <1>0, <1>1, <2>2 DEF Relied
  <2>. QED
    BY <1>0, <1>1, <2>2, <2>6, <2>7, <2>8, ForeignKeeps DEF TlTypes
<1>. QED
  BY <1>2, <1>3

LEMMA Step_foreign_drop ==
  ASSUME TlInv, NEW t \in Foreign, foreign_drop(t) PROVE TlInv'
<1>0. TlTypes /\ Relied /\ Zeroed
  BY DEF TlInv
<1>1. /\ UNCHANGED ownerSide /\ UNCHANGED <<refs, freed, chanWake, chanCleanup, seen>>
      /\ foreignW' = [foreignW EXCEPT ![t] = foreignW[t] - 1] /\ foreignW[t] > 0
      /\ fpc' = [fpc EXCEPT ![t] = "drop_load"] /\ fpc[t] = "idle"
  BY DEF foreign_drop, FGoto, channel
<1>2. foreignW[t] - 1 \in Nat /\ \A u \in Foreign \ {t} : foreignW'[u] = foreignW[u]
  BY <1>0, <1>1 DEF TlTypes
<1>3. /\ ForeignHeld' = ForeignHeld - foreignW[t] + (foreignW[t] - 1)
      /\ ForeignHeld \in Nat /\ ForeignHeld' \in Nat
      /\ foreignW[t] \in Nat /\ foreignW' \in [Foreign -> Nat]
  BY <1>0, <1>1, <1>2, HeldMoves
<1>4. /\ InHand' = InHand - Hand(fpc[t]) + Hand("drop_load")
      /\ InHand \in Nat /\ InHand' \in Nat
      /\ fpc'[t] = "drop_load" /\ (\A u \in Foreign \ {t} : fpc'[u] = fpc[u])
      /\ fpc' = [u \in Foreign |-> fpc'[u]]
  BY <1>0, <1>1, HandMoves
<1>5. InHand' = InHand + 1
  BY <1>1, <1>4 DEF Hand
<1>6. refs \in Nat /\ chanWake \in Nat /\ chanCleanup \in Nat
  BY <1>1, OwnerSame
<1>7. Traded
  BY <1>1, <1>3, <1>4, <1>5, <1>6 DEF Traded
<1>8. freed' => refs' = 0
  BY <1>0, <1>1 DEF Zeroed
<1>9. Relied'
  BY <1>0, <1>1, <1>2, <1>4 DEF Relied
<1>. QED
  BY <1>0, <1>1, <1>3, <1>4, <1>6, <1>7, <1>8, <1>9, ForeignKeeps DEF TlTypes

(* The last reference is dropped, or the count is remembered.                   *)
LEMMA InspectKeeps ==
  ASSUME TlInv, NEW t \in Foreign, fpc[t] \in {"drop_load", "drop_cas"}, Inspect(t),
         UNCHANGED ownerSide, UNCHANGED <<chanWake, chanCleanup, foreignW>>
  PROVE  TlInv'
<1>0. TlTypes /\ Relied /\ Zeroed
  BY DEF TlInv
<1>1. refs \in Nat /\ chanWake \in Nat /\ chanCleanup \in Nat
  BY OwnerSame
<1>2. seen' \in [Foreign -> Nat] /\ \A u \in Foreign : seen'[u] >= 2
  BY <1>0, <1>1 DEF Inspect, TlTypes, Relied
<1>3. ForeignHeld' = ForeignHeld /\ ForeignHeld \in Nat
  BY <1>0, OutsideNat DEF ForeignHeld
<1>4. CASE refs = 1
  <2>1. refs' = 0 /\ fpc' = [fpc EXCEPT ![t] = "idle"]
    BY <1>4 DEF Inspect, FGoto
  <2>2. /\ InHand' = InHand - Hand(fpc[t]) + Hand("idle")
        /\ InHand \in Nat /\ InHand' \in Nat
        /\ fpc'[t] = "idle" /\ (\A u \in Foreign \ {t} : fpc'[u] = fpc[u])
        /\ fpc' = [u \in Foreign |-> fpc'[u]]
    BY <1>0, <2>1, HandMoves
  <2>3. InHand' = InHand - 1
    BY <2>2 DEF Hand
  <2>4. Traded
    BY <1>1, <1>3, <1>4, <2>1, <2>2, <2>3 DEF Traded
  <2>5. Relied'
    BY <1>0, <1>2, <2>2 DEF Relied
  <2>. QED
    BY <1>0, <1>1, <1>2, <2>1, <2>2, <2>4, <2>5, ForeignKeeps DEF TlTypes
<1>5. CASE refs # 1
  <2>. DEFINE pc == IF refs = 2 THEN "drop_active" ELSE "drop_cas"
  <2>1. UNCHANGED <<refs, freed>> /\ fpc' = [fpc EXCEPT ![t] = pc]
    BY <1>5 DEF Inspect, FGoto
  <2>2. Hand(pc) = 1 /\ Hand(fpc[t]) = 1 /\ pc # "wake_find"
    BY DEF Hand
  <2>. HIDE DEF pc
  <2>3. /\ InHand' = InHand - Hand(fpc[t]) + Hand(pc)
        /\ InHand \in Nat /\ InHand' \in Nat
        /\ fpc'[t] = pc /\ (\A u \in Foreign \ {t} : fpc'[u] = fpc[u])
        /\ fpc' = [u \in Foreign |-> fpc'[u]]
    BY <1>0, <2>1, HandMoves
  <2>4. InHand' = InHand
    BY <2>2, <2>3
  <2>5. Traded
    BY <1>1, <1>3, <2>1, <2>3, <2>4 DEF Traded
  <2>6. Relied'
    BY <1>0, <1>2, <2>2, <2>3 DEF Relied
  <2>7. freed' => refs' = 0
    BY <1>0, <2>1 DEF Zeroed
  <2>. QED
    BY <1>0, <1>1, <1>2, <2>3, <2>5, <2>6, <2>7, ForeignKeeps DEF TlTypes
<1>. QED
  BY <1>4, <1>5

LEMMA Step_foreign_drop_load ==
  ASSUME TlInv, NEW t \in Foreign, foreign_drop_load(t) PROVE TlInv'
<1>1. /\ fpc[t] = "drop_load" /\ Inspect(t)
      /\ UNCHANGED ownerSide /\ UNCHANGED <<chanWake, chanCleanup, foreignW>>
  BY DEF foreign_drop_load, channel
<1>. QED
  BY <1>1, InspectKeeps

LEMMA Step_foreign_drop_cas ==
  ASSUME TlInv, NEW t \in Foreign, foreign_drop_cas(t) PROVE TlInv'
<1>0. TlTypes /\ Relied /\ Zeroed
  BY DEF TlInv
<1>1. /\ fpc[t] = "drop_cas"
      /\ UNCHANGED ownerSide /\ UNCHANGED <<chanWake, chanCleanup, foreignW>>
  BY DEF foreign_drop_cas, channel
<1>2. CASE refs # seen[t]
  BY <1>1, <1>2, InspectKeeps DEF foreign_drop_cas
<1>3. CASE refs = seen[t]
  <2>1. /\ refs' = refs - 1 /\ UNCHANGED freed /\ fpc' = [fpc EXCEPT ![t] = "idle"]
        /\ seen' = [seen EXCEPT ![t] = 2]
    BY <1>3 DEF foreign_drop_cas, FGoto
  <2>2. refs \in Nat /\ chanWake \in Nat /\ chanCleanup \in Nat
    BY <1>1, OwnerSame
  <2>3. refs >= 2
    BY <1>0, <1>3 DEF Relied
  <2>4. ~freed'
    BY <1>0, <2>1, <2>3 DEF Zeroed
  <2>5. seen' \in [Foreign -> Nat] /\ \A u \in Foreign : seen'[u] >= 2
    BY <1>0, <2>1 DEF TlTypes, Relied
  <2>6. ForeignHeld' = ForeignHeld /\ ForeignHeld \in Nat
    BY <1>0, <1>1, OutsideNat DEF ForeignHeld
  <2>7. /\ InHand' = InHand - Hand(fpc[t]) + Hand("idle")
        /\ InHand \in Nat /\ InHand' \in Nat
        /\ fpc'[t] = "idle" /\ (\A u \in Foreign \ {t} : fpc'[u] = fpc[u])
        /\ fpc' = [u \in Foreign |-> fpc'[u]]
    BY <1>0, <2>1, HandMoves
  <2>8. InHand' = InHand - 1
    BY <1>1, <2>7 DEF Hand
  <2>9. Traded
    BY <1>1, <2>1, <2>2, <2>6, <2>7, <2>8 DEF Traded
  <2>10. Relied'
    BY <1>0, <1>1, <2>5, <2>7 DEF Relied
  <2>. QED
    BY <1>0, <1>1, <2>2, <2>4, <2>5, <2>7, <2>9, <2>10, ForeignKeeps DEF TlTypes
<1>. QED
  BY <1>2, <1>3

----------------------------------------------------------------------------------
(* The handle is returned, and a waker sent to another thread.                  *)

LEMMA Step_spawned == ASSUME TlInv, spawned PROVE TlInv'
<1>1. TlTypes /\ Exact /\ Zeroed /\ Relied /\ Stacked /\ Registered /\ Flagged /\ Finished
  BY DEF TlInv
<1>2. /\ UNCHANGED <<st, active, linked, scheduling, awaiter, registryRef>>
      /\ UNCHANGED <<refs, freed, runq, ownerW, chanWake, chanCleanup, foreignW, fpc, seen,
           stack>>
      /\ handle = "spawning" /\ handle' = "held"
  BY DEF spawned, header, channel, foreign
<1>3. Frames' = Frames /\ Top' = Top
  BY <1>2 DEF Frames, Top
<1>4. ForeignHeld' = ForeignHeld /\ InHand' = InHand
  BY <1>2, OutsideSame
<1>5. Bit(handle # "dropped")' = Bit(handle # "dropped") /\ Bit(registryRef)' = Bit(registryRef)
  BY <1>2 DEF Bit
<1>6. Exact'
  BY <1>1, <1>2, <1>4, <1>5 DEF Exact, Wakers
<1>7. TlTypes' /\ Zeroed' /\ Relied'
  BY <1>1, <1>2 DEF TlTypes, Zeroed, Relied
<1>8. Stacked'
  BY <1>1, <1>2 DEF Stacked, Leans
<1>9. Registered' /\ Flagged'
  BY <1>1, <1>2, <1>3 DEF Registered, Flagged, Has
<1>10. Finished'
  BY <1>1, <1>2, <1>3 DEF Finished, Has, Ended
<1>. QED
  BY <1>6, <1>7, <1>8, <1>9, <1>10 DEF TlInv

LEMMA Step_waker_send ==
  ASSUME TlInv, NEW t \in Foreign, waker_send(t) PROVE TlInv'
<1>1. TlTypes /\ Exact /\ Zeroed /\ Relied /\ Stacked /\ Registered /\ Flagged /\ Finished
  BY DEF TlInv
<1>2. /\ UNCHANGED <<st, active, linked, scheduling, awaiter, registryRef>>
      /\ UNCHANGED <<refs, freed, handle, runq, chanWake, chanCleanup, fpc, seen, stack>>
      /\ ownerW > 0 /\ ownerW' = ownerW - 1
      /\ foreignW' = [foreignW EXCEPT ![t] = foreignW[t] + 1] /\ UserCode
  BY DEF waker_send, header, channel
<1>3. Nested(stack) /\ stack \in Seq(Names) /\ RefsOf(stack) \in Nat
  BY <1>1, <1>2, UserNested
<1>4. stack' = stack
  BY <1>2
<1>5. Stacked' /\ Frames' = Members(stack)
  BY <1>3, <1>4, Push0 DEF After
<1>6. Frames' = Frames /\ Top' = Top
  BY <1>2 DEF Frames, Top
<1>7. foreignW[t] + 1 \in Nat /\ (\A u \in Foreign \ {t} : foreignW'[u] = foreignW[u])
      /\ foreignW'[t] = foreignW[t] + 1
  BY <1>1, <1>2 DEF TlTypes
<1>8. /\ ForeignHeld' = ForeignHeld - foreignW[t] + (foreignW[t] + 1)
      /\ ForeignHeld \in Nat /\ ForeignHeld' \in Nat /\ foreignW[t] \in Nat
      /\ foreignW' \in [Foreign -> Nat]
  BY <1>1, <1>2, <1>7, HeldMoves
<1>9. ForeignHeld' = ForeignHeld + 1
  BY <1>8
<1>10. InHand' = InHand
  BY <1>2 DEF InHand
<1>11. Wakers' = Wakers
  <2>1. ownerW \in Nat /\ chanWake \in Nat /\ chanCleanup \in Nat
    BY <1>1 DEF TlTypes
  <2>. QED
    BY <1>2, <1>8, <1>9, <2>1 DEF Wakers
<1>12. Bit(handle # "dropped")' = Bit(handle # "dropped") /\ Bit(registryRef)' = Bit(registryRef)
  BY <1>2 DEF Bit
<1>13. Exact'
  BY <1>1, <1>2, <1>10, <1>11, <1>12 DEF Exact
<1>14. TlTypes'
  BY <1>1, <1>2, <1>8, SMTT(60) DEF TlTypes
<1>15. Zeroed' /\ Relied'
  BY <1>1, <1>2, <1>7, <1>8 DEF Zeroed, Relied
<1>16. Registered' /\ Flagged'
  BY <1>1, <1>2, <1>6 DEF Registered, Flagged, Has
<1>17. Finished'
  BY <1>1, <1>2, <1>6 DEF Finished, Has, Ended
<1>. QED
  BY <1>5, <1>13, <1>14, <1>15, <1>16, <1>17 DEF TlInv

----------------------------------------------------------------------------------
(* The invariant.                                                               *)

LEMMA TlInit == Init => TlInv
<1>. SUFFICES ASSUME Init PROVE TlInv
  OBVIOUS
<1>0. Names # {} /\ "run" \in Names /\ "schedule_owned" \in Names
  BY DEF Names, Protecting, Holding
<1>1. PICK x \in {"run", "schedule_owned"} : stack = <<x>>
  BY DEF Init
<1>2. stack \in Seq(Names) /\ stack # <<>> /\ Head(stack) = x /\ Tail(stack) = <<>>
  BY <1>0, <1>1
<1>3. Members(<<>>) = {} /\ Nested(<<>>)
  BY DEF Members, Nested
<1>4. Frames = {x} /\ Top = x
  BY <1>1 DEF Frames, Top
<1>5. Ordered(x, {}) /\ Fits(x, {})
  BY <1>0 DEF Ordered, Fits, RunFrames, Bare
<1>6. Stacked
  BY <1>2, <1>3, <1>5 DEF Stacked
<1>7. TlTypes
  BY <1>2 DEF Init, TlTypes
<1>8. RefsOf(stack) = 1
  <2>1. RefsOf(stack) = RefsOf(<<>>) + Weight(x)
    BY <1>2, PopOne
  <2>2. RefsOf(<<>>) = 0
    <3>1. {i \in 1 .. Len(<<>>) : <<>>[i] \in Holding} = {}
      OBVIOUS
    <3>2. {i \in 1 .. Len(<<>>) : <<>>[i] = "release2"} = {}
      OBVIOUS
    <3>. QED
      BY <3>1, <3>2, FS_EmptySet DEF RefsOf
  <2>3. Weight(x) = 1
    BY DEF Weight, Holding
  <2>. QED
    BY <2>1, <2>2, <2>3
<1>9. ForeignHeld = 0 /\ InHand = 0
  <2>1. UNION {{t} \X (1 .. foreignW[t]) : t \in Foreign} = {}
    BY DEF Init
  <2>2. {t \in Foreign : fpc[t] \notin {"idle", "wake_find"}} = {}
    BY DEF Init
  <2>. QED
    BY <2>1, <2>2, FS_EmptySet DEF ForeignHeld, InHand
<1>10. Exact
  BY <1>8, <1>9 DEF Exact, Init, Wakers, Bit
<1>11. Zeroed /\ Relied
  BY DEF Init, Zeroed, Relied
<1>12. Registered
  BY <1>4 DEF Init, Registered, Has, SchedEnds
<1>13. Flagged
  BY <1>4 DEF Init, Flagged, Has, RunFrames
<1>14. Finished
  BY <1>4 DEF Init, Finished, Has
<1>. QED
  BY <1>6, <1>7, <1>10, <1>11, <1>12, <1>13, <1>14 DEF TlInv

LEMMA TlNext == TlInv /\ [Next]_vars => TlInv'
<1>. SUFFICES ASSUME TlInv, [Next]_vars PROVE TlInv'
  OBVIOUS
<1>1. CASE Frame
  BY <1>1, Step_release, Step_release2, Step_drop_waker, Step_finish, Step_drop_future,
     Step_close,
     Step_close_end, Step_pending_closed_end, Step_ready_end, Step_shutdown, Step_do_wake,
     Step_do_cleanup, Step_cancel, Step_notify, Step_cancel_in_place, Step_in_place_end,
     Step_schedule, Step_schedule_owned, Step_push, Step_schedule_end_T,
     Step_schedule_end_F, Step_run, Step_completed,
     Step_end_run, Step_drop_handle, Step_abandon, Step_unborrow, Step_close_foreign_wakes,
     Step_request_shutdown, Step_leave, Step_finish_shutdown DEF Frame, schedule_end
<1>2. CASE PollReturns
  BY <1>2, Step_poll_ready, Step_poll_pending, Step_poll_panic DEF PollReturns
<1>3. CASE user_return
  BY <1>3, Step_dtor_return, Step_user_return DEF user_return
<1>4. CASE User
  BY <1>4, Step_spawned, Step_handle_cancel, Step_handle_cancel_in_place, Step_handle_drop,
     Step_handle_poll, Step_waker_clone, Step_waker_wake_by_ref, Step_waker_wake, Step_waker_drop,
     Step_waker_send DEF User
<1>5. CASE Executor
  BY <1>5, Step_run_one, Step_process_foreign_wakes, Step_enter_run, Step_leave_run,
     Step_remove_task_queue, Step_drop_executor DEF Executor
<1>6. CASE \E t \in Foreign : ForeignStep(t) \/ ForeignCall(t)
  BY <1>6, Step_foreign_clone, Step_foreign_wake, Step_foreign_wake_find, Step_foreign_queue,
     Step_foreign_drop, Step_foreign_drop_load, Step_foreign_drop_active, Step_foreign_drop_find,
     Step_foreign_drop_cas DEF ForeignStep, ForeignCall
<1>7. CASE UNCHANGED vars
  <2>1. /\ UNCHANGED ownerSide /\ UNCHANGED <<refs, freed, chanWake, chanCleanup, foreignW, fpc,
             seen>>
    BY <1>7 DEF vars, ownerSide, header, places, executor, channel, foreign
  <2>2. Stacked' /\ Registered' /\ Flagged' /\ Finished'
    BY <2>1, OwnerSame
  <2>3. TlTypes /\ Exact /\ Zeroed /\ Relied
    BY DEF TlInv
  <2>4. ForeignHeld' = ForeignHeld /\ InHand' = InHand
    BY <2>1, OutsideSame
  <2>5. UNCHANGED <<registryRef, handle, runq, ownerW, stack, scheduling>>
    BY <2>1 DEF ownerSide, header, places
  <2>6. Exact'
    BY <2>1, <2>3, <2>4, <2>5 DEF Exact, Wakers
  <2>7. TlTypes' /\ Zeroed' /\ Relied'
    BY <2>1, <2>3, <2>5 DEF TlTypes, Zeroed, Relied
  <2>. QED
    BY <2>2, <2>6, <2>7 DEF TlInv
<1>. QED
  BY <1>1, <1>2, <1>3, <1>4, <1>5, <1>6, <1>7 DEF Next

(* Invariant of every behaviour: the count is the number of places that hold a  *)
(* reference, a freed task has none, and every frame of the owner that touches  *)
(* the task has a reference below it.                                           *)
THEOREM Invariance == Spec => []TlInv
BY TlInit, TlNext, PTL DEF Spec

(* Header.references is exact at every step of every interleaving, for every    *)
(* set of foreign threads and any depth of reentrant calls.                     *)
THEOREM RefsAreExact == Spec => []RefsExact
<1>1. TlInv => RefsExact
  BY DEF TlInv, Exact, RefsExact
<1>. QED
  BY <1>1, Invariance, PTL

(* When the count is zero, nobody holds anything.                               *)
LEMMA NothingHeld ==
  ASSUME TlInv, refs = 0
  PROVE  /\ ~registryRef /\ handle = "dropped" /\ runq = 0 /\ Wakers = 0 /\ ownerW = 0
         /\ RefsOf(stack) = 0 /\ InHand = 0 /\ ForeignHeld = 0
<1>. DEFINE g == Bit(registryRef)
            h == Bit(handle # "dropped")
            s == RefsOf(stack)
            f == ForeignHeld
            i == InHand
<1>1. TlTypes /\ Exact
  BY DEF TlInv
<1>2. s \in Nat
  BY <1>1, RefsNat DEF TlTypes
<1>3. f \in Nat /\ i \in Nat
  BY <1>1, OutsideNat
<1>4. g \in Nat /\ h \in Nat
  BY DEF Bit
<1>5. runq \in Nat /\ ownerW \in Nat /\ chanWake \in Nat /\ chanCleanup \in Nat
  BY <1>1 DEF TlTypes
<1>6. 0 = g + h + runq + (ownerW + f + chanWake + chanCleanup) + s + i
  BY <1>1 DEF Exact, Wakers
<1>7. g = 0 => ~registryRef
  BY DEF Bit
<1>8. h = 0 => handle = "dropped"
  BY DEF Bit
<1>9. Wakers = ownerW + f + chanWake + chanCleanup
  BY DEF Wakers
<1>. HIDE DEF g, h, s, f, i
<1>10. /\ g = 0 /\ h = 0 /\ runq = 0 /\ ownerW = 0 /\ f = 0 /\ chanWake = 0 /\ chanCleanup = 0
       /\ s = 0 /\ i = 0
  BY <1>2, <1>3, <1>4, <1>5, <1>6
<1>. QED
  BY <1>7, <1>8, <1>9, <1>10 DEF s, f, i

(* Without a frame that holds a reference, and with nothing to lean on, no      *)
(* frame of the owner touches the task.                                         *)
LEMMA OnlyNeutral ==
  ASSUME TlInv, refs = 0
  PROVE  Frames \subseteq Neutral
<1>1. TlTypes /\ Exact /\ Stacked /\ Registered /\ Flagged
  BY DEF TlInv
<1>2. ~registryRef /\ ownerW = 0
  BY NothingHeld
<1>3. Frames \cap Protecting = {}
  BY <1>1, ProtectedAlive
<1>4. CASE stack = <<>>
  BY <1>4 DEF Frames
<1>5. CASE stack # <<>>
  <2>. DEFINE x == Head(stack)
              t == Tail(stack)
  <2>1. stack \in Seq(Names)
    BY <1>1 DEF TlTypes
  <2>2. /\ t \in Seq(Names) /\ x \in Names /\ Members(stack) = Members(t) \cup {x}
    BY <1>5, <2>1, PopOne
  <2>3. Nested(t) /\ (Fits(x, Members(t)) \/ Leans(x))
    BY <1>1, <1>5 DEF Stacked
  <2>4. ~Leans(x)
    BY <1>2 DEF Leans
  <2>. HIDE DEF x, t
  <2>5. Members(t) \cap Protecting = {} /\ x \notin Protecting
    BY <1>3, <2>2, FramesAreMembers
  <2>6. x \in Neutral
    BY <2>2, <2>3, <2>4, <2>5 DEF Fits, Names
  <2>7. ASSUME NEW y \in Members(t) PROVE y \in Neutral
    <3>1. PICK k \in 1 .. Len(t) : y = t[k]
      BY DEF Members
    <3>2. Fits(y, From(t, k + 1))
      BY <2>3, <3>1 DEF Nested
    <3>3. From(t, k + 1) \subseteq Members(t)
      <4>1. Len(t) \in Nat
        BY <2>2
      <4>2. \A j \in k + 1 .. Len(t) : j \in 1 .. Len(t)
        BY <3>1, <4>1
      <4>. QED
        BY <4>2 DEF From, Members
    <3>4. From(t, k + 1) \cap Protecting = {} /\ y \notin Protecting
      BY <2>5, <3>3
    <3>. QED
      BY <3>2, <3>4 DEF Fits, Ordered, Names
  <2>. QED
    BY <2>2, <2>6, <2>7, FramesAreMembers
<1>. QED
  BY <1>4, <1>5

(* Nor is any foreign thread inside an operation on it.                         *)
LEMMA ForeignIdle ==
  ASSUME TlInv, refs = 0, NEW t \in Foreign
  PROVE  fpc[t] = "idle"
<1>1. TlTypes /\ Relied
  BY DEF TlInv
<1>2. InHand = 0 /\ ForeignHeld = 0
  BY NothingHeld
<1>3. fpc[t] # "wake_find"
  BY <1>1, <1>2, HeldAtLeast DEF Relied
<1>. DEFINE S == {u \in Foreign : fpc[u] \notin {"idle", "wake_find"}}
<1>4. IsFiniteSet(S)
  BY ForeignAssumption, FS_Subset
<1>5. Cardinality(S) = 0
  BY <1>2 DEF InHand
<1>6. S = {}
  <2>. HIDE DEF S
  <2>. QED
    BY <1>4, <1>5, FS_EmptySet
<1>. QED
  BY <1>3, <1>6

(* A task is freed only when its handle, its wakers and its runnable are gone,  *)
(* its future, output and schedule closure were dropped, the registry forgot it *)
(* and no thread is inside an operation that touches it: whatever the foreign   *)
(* threads and the reentrant calls of the owner, no access is to freed memory.  *)
THEOREM FreedIsUntouched == Spec => []NoUseAfterFree
<1>1. ASSUME TlInv PROVE NoUseAfterFree
  <2>. SUFFICES ASSUME freed PROVE NoUseAfterFree
    BY DEF NoUseAfterFree
  <2>1. Zeroed /\ Registered /\ Flagged /\ Finished
    BY <1>1 DEF TlInv
  <2>2. refs = 0
    BY <2>1 DEF Zeroed
  <2>3. handle = "dropped" /\ runq = 0 /\ Wakers = 0 /\ ~registryRef
    BY <1>1, <2>2, NothingHeld
  <2>4. Frames \subseteq Neutral
    BY <1>1, <2>2, OnlyNeutral
  <2>5. \A t \in Foreign : fpc[t] = "idle"
    BY <1>1, <2>2, ForeignIdle
  <2>6. Has("SCHEDULE_DROPPED") /\ ~linked
    BY <2>1, <2>3 DEF Registered
  <2>7. Has("FUTURE_DROPPED") /\ ~awaiter
    BY <2>1, <2>6 DEF Finished
  <2>8. ~Has("HANDLE") /\ ~Has("OUTPUT_PRESENT")
    <3>1. "drop_handle" \notin Frames
      BY <2>4 DEF Neutral
    <3>. QED
      BY <2>1, <2>3, <3>1 DEF Flagged
  <2>9. /\ {"FUTURE_DROPPED", "SCHEDULE_DROPPED"} \subseteq st
        /\ st \cap {"OUTPUT_PRESENT", "HANDLE"} = {}
    BY <2>6, <2>7, <2>8 DEF Has
  <2>. QED
    BY <2>3, <2>4, <2>5, <2>6, <2>7, <2>9 DEF NoUseAfterFree, Neutral
<1>. QED
  BY <1>1, Invariance, PTL

==================================================================================
