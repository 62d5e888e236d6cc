----------------------------- MODULE SpscQueueProofs -----------------------------
(* SpscQueue is safe for every capacity, every index width and every set of    *)
(* values: the type invariant, SlotOwnership, RefusesOnlyWhenFull and          *)
(* RoomIsKept; and it implements BoundedFifo.                                  *)
EXTENDS SpscQueue, SequenceTheorems, TLAPS

----------------------------------------------------------------------------------
(* Arithmetic modulo the capacity.                                             *)

(* Euclidean division: what i / C and i % C are.                               *)
LEMMA DivMod ==
  ASSUME NEW C \in Nat \ {0}, NEW i \in Int
  PROVE  /\ i = C * (i \div C) + (i % C)
         /\ i % C \in 0 .. (C - 1) /\ (i \div C) \in Int
  BY SMT

(* Quotient and remainder are unique.                                          *)
LEMMA DivUnique ==
  ASSUME NEW C \in Nat \ {0}, NEW q \in Int, NEW r \in 0 .. (C - 1),
         NEW p \in Int, NEW s \in 0 .. (C - 1), C * q + r = C * p + s
  PROVE  q = p /\ r = s
  <1>1. C * (q - p) = s - r /\ s - r < C /\ s - r > 0 - C /\ q - p \in Int
    BY SMT
  <1>2. ASSUME q - p >= 1 PROVE FALSE
    <2>1. C * (q - p) >= C
      BY <1>1, <1>2, SMT
    <2> QED BY <2>1, <1>1, SMT
  <1>3. ASSUME q - p <= -1 PROVE FALSE
    <2>1. C * (q - p) <= 0 - C
      BY <1>1, <1>3, SMT
    <2> QED BY <2>1, <1>1, SMT
  <1>4. q = p
    BY <1>1, <1>2, <1>3, SMT
  <1> QED BY <1>4, SMT

(* A number written as C * q + r has remainder r.                              *)
LEMMA ModOf ==
  ASSUME NEW C \in Nat \ {0}, NEW q \in Int, NEW r \in 0 .. (C - 1)
  PROVE  (C * q + r) % C = r
  <1>1. C * q + r \in Int
    BY SMT
  <1> QED BY <1>1, DivMod, DivUnique

(* The sum and the difference of two numbers below W, modulo W.                *)
LEMMA ModSum ==
  ASSUME NEW W \in Nat \ {0}, NEW i \in 0 .. (W - 1), NEW n \in 0 .. (W - 1)
  PROVE  (i + n) % W = IF i + n < W THEN i + n ELSE i + n - W
  <1>1. CASE i + n < W
    <2>1. i + n = W * 0 + (i + n) /\ i + n \in 0 .. (W - 1)
      BY <1>1, SMT
    <2>2. (W * 0 + (i + n)) % W = i + n
      BY <2>1, ModOf
    <2> QED BY <1>1, <2>1, <2>2, SMT
  <1>2. CASE i + n >= W
    <2>1. i + n = W * 1 + (i + n - W) /\ i + n - W \in 0 .. (W - 1)
      BY <1>2, SMT
    <2>2. (W * 1 + (i + n - W)) % W = i + n - W
      BY <2>1, ModOf
    <2> QED BY <1>2, <2>1, <2>2, SMT
  <1> QED BY <1>1, <1>2, SMT

(* The same for a difference: how far an index is behind another one.          *)
LEMMA ModDifference ==
  ASSUME NEW W \in Nat \ {0}, NEW i \in 0 .. (W - 1), NEW n \in 0 .. W
  PROVE  (i - n) % W = IF i >= n THEN i - n ELSE i - n + W
  <1>1. CASE i >= n
    <2>1. i - n = W * 0 + (i - n) /\ i - n \in 0 .. (W - 1)
      BY <1>1, SMT
    <2>2. (W * 0 + (i - n)) % W = i - n
      BY <2>1, ModOf
    <2> QED BY <1>1, <2>1, <2>2, SMT
  <1>2. CASE i < n
    <2>1. i - n = W * (-1) + (i - n + W) /\ i - n + W \in 0 .. (W - 1)
      BY <1>2, SMT
    <2>2. (W * (-1) + (i - n + W)) % W = i - n + W
      BY <2>1, ModOf
    <2> QED BY <1>2, <2>1, <2>2, SMT
  <1> QED BY <1>1, <1>2, SMT

(* What the assumptions say of the constants.                                  *)
LEMMA ConstantFacts ==
  /\ Capacity \in Nat \ {0} /\ Word \in Nat \ {0} /\ Word >= 4 * Capacity
  /\ \E k \in Int : Word = k * Capacity
  /\ Lookahead \in 1 .. Capacity /\ (Lookahead < Capacity \/ Capacity = 1)
  <1>1. Capacity \in Nat \ {0}
    BY CapacityAssumption
  <1>2. PICK k \in 4 .. Word : Word = k * Capacity
    BY WordAssumption
  <1>3. k * Capacity >= 4 * Capacity
    BY <1>1, <1>2, WordAssumption, SMT
  <1>4. Word \in Nat \ {0} /\ Word >= 4 * Capacity
    BY <1>1, <1>2, <1>3, WordAssumption, SMT
  <1>5. (Capacity \div 4) \in Nat /\ (Capacity \div 4) < Capacity
    BY <1>1, SMT
  <1>6. Lookahead \in 1 .. Capacity /\ (Lookahead < Capacity \/ Capacity = 1)
    BY <1>1, <1>5, LookaheadAssumption, SMT DEF Lookahead
  <1> QED BY <1>1, <1>2, <1>4, <1>6

(* wrapping_add, for the amounts that try_push and try_pop add.                *)
LEMMA WrapNear ==
  ASSUME NEW i \in Index, NEW n \in 0 .. Capacity
  PROVE  /\ WrappingAdd(i, n) = IF i + n < Word THEN i + n ELSE i + n - Word
         /\ WrappingAdd(i, n) \in Index
  <1>1. Word \in Nat \ {0} /\ i \in 0 .. (Word - 1) /\ n \in 0 .. (Word - 1)
    BY ConstantFacts, SMT DEF Index
  <1>2. (i + n) % Word = IF i + n < Word THEN i + n ELSE i + n - Word
    BY <1>1, ModSum
  <1> QED BY <1>1, <1>2, SMT DEF WrappingAdd, Index

(* The slot of an index n further on: because Word is a multiple of Capacity,  *)
(* the mask goes round the ring also where the index wraps.                    *)
LEMMA SlotAdd ==
  ASSUME NEW i \in Index, NEW n \in 0 .. Capacity
  PROVE  /\ Slot(i) \in Slots
         /\ Slot(WrappingAdd(i, n)) = IF Slot(i) + n < Capacity THEN Slot(i) + n
                                                        ELSE Slot(i) + n - Capacity
  <1> DEFINE q == i \div Capacity
             r == i % Capacity
  <1>1. i = Capacity * q + r /\ r \in 0 .. (Capacity - 1) /\ q \in Int
    BY DivMod, ConstantFacts DEF Index
  <1>2. PICK k \in Int : Word = k * Capacity
    BY ConstantFacts
  <1> HIDE DEF q, r
  <1> DEFINE s == IF r + n < Capacity THEN r + n ELSE r + n - Capacity
             p == IF r + n < Capacity THEN q ELSE q + 1
  <1>3. s \in 0 .. (Capacity - 1) /\ p \in Int /\ i + n = Capacity * p + s
    <2>1. Capacity * (q + 1) = Capacity * q + Capacity
      BY <1>1, ConstantFacts, SMT
    <2> QED BY <1>1, <2>1, ConstantFacts, SMT
  <1> HIDE DEF s, p
  <1>4. i + n - Word = Capacity * (p - k) + s /\ p - k \in Int
    <2>1. Capacity * (p - k) = Capacity * p - k * Capacity
      BY <1>2, <1>3, ConstantFacts, SMT
    <2> QED BY <1>2, <1>3, <2>1, ConstantFacts, SMT DEF Index
  <1>5. (i + n) % Capacity = s /\ (i + n - Word) % Capacity = s
    BY <1>3, <1>4, ModOf, ConstantFacts
  <1>6. Slot(WrappingAdd(i, n)) = s
    BY <1>5, WrapNear DEF Slot
  <1>7. Slot(i) = r
    BY DEF Slot, r
  <1> QED BY <1>1, <1>6, <1>7 DEF s, Slots

----------------------------------------------------------------------------------
(* The ring between two indices: lo is the oldest value, hi the next to write. *)

(* How far b is ahead of a, for indices and for slots.                         *)
Gap(a, b) == IF b >= a THEN b - a ELSE b - a + Word
Around(a, b) == IF b >= a THEN b - a ELSE b - a + Capacity

Ring(lo, hi, f) ==
  /\ lo \in Index /\ hi \in Index
  /\ Gap(lo, hi) <= Capacity
  /\ \A s \in Slots : f[s] <=> Around(Slot(lo), s) < Gap(lo, hi)
  /\ Around(Slot(lo), Slot(hi)) = IF Gap(lo, hi) = Capacity THEN 0 ELSE Gap(lo, hi)

(* The next index and its slot, as PushAdvance and PopAdvance compute them.    *)
LEMMA SlotNear ==
  ASSUME NEW i \in Index
  PROVE  /\ Slot(i) \in Slots
         /\ WrappingAdd(i, 1) \in Index
         /\ WrappingAdd(i, 1) = IF i + 1 < Word THEN i + 1 ELSE 0
         /\ Slot(WrappingAdd(i, 1)) = IF Slot(i) + 1 < Capacity THEN Slot(i) + 1 ELSE 0
  <1>1. 1 \in 0 .. Capacity
    BY ConstantFacts, SMT
  <1>2. /\ WrappingAdd(i, 1) = IF i + 1 < Word THEN i + 1 ELSE i + 1 - Word
        /\ WrappingAdd(i, 1) \in Index
    BY <1>1, WrapNear
  <1>3. /\ Slot(i) \in Slots
        /\ Slot(WrappingAdd(i, 1)) = IF Slot(i) + 1 < Capacity THEN Slot(i) + 1
                                                        ELSE Slot(i) + 1 - Capacity
    BY <1>1, SlotAdd
  <1> HIDE DEF WrappingAdd, Slot
  <1> QED BY <1>2, <1>3, ConstantFacts, SMT DEF Index, Slots

(* The slot to write is occupied only in a full ring, the slot to read exactly *)
(* in a ring that is not empty.                                                *)
LEMMA RingEnds ==
  ASSUME NEW lo, NEW hi, NEW f \in [Slots -> BOOLEAN], Ring(lo, hi, f)
  PROVE  /\ Gap(lo, hi) \in 0 .. Capacity
         /\ f[Slot(hi)] <=> Gap(lo, hi) = Capacity
         /\ f[Slot(lo)] <=> Gap(lo, hi) > 0
  <1>1. Slot(lo) \in Slots /\ Slot(hi) \in Slots
    BY SlotNear DEF Ring
  <1>2. Gap(lo, hi) \in 0 .. Capacity
    BY ConstantFacts, SMT DEF Ring, Gap, Index
  <1>3. Around(Slot(lo), Slot(lo)) = 0
    BY <1>1, ConstantFacts, SMT DEF Around, Slots
  <1> QED BY <1>1, <1>2, <1>3, ConstantFacts, SMT DEF Ring

(* An empty slot Lookahead ahead: the slots up to it are empty too.            *)
LEMMA RingLookahead ==
  ASSUME NEW lo, NEW hi, NEW f \in [Slots -> BOOLEAN], Ring(lo, hi, f),
         ~f[Slot(WrappingAdd(hi, Lookahead))]
  PROVE  /\ WrappingAdd(hi, Lookahead) \in Index
         /\ Gap(hi, WrappingAdd(hi, Lookahead)) = Lookahead
         /\ Lookahead + Gap(lo, hi) <= Capacity
  <1> DEFINE x == WrappingAdd(hi, Lookahead)
             n == Lookahead
             sx == Slot(x)
             sh == Slot(hi)
             sl == Slot(lo)
             g == Gap(lo, hi)
  <1>1. n \in 1 .. Capacity /\ (n < Capacity \/ Capacity = 1) /\ hi \in Index
    BY ConstantFacts DEF Ring
  <1>2. x = (IF hi + n < Word THEN hi + n ELSE hi + n - Word) /\ x \in Index
    BY <1>1, WrapNear, ConstantFacts, SMT
  <1>3. sx = IF sh + n < Capacity THEN sh + n ELSE sh + n - Capacity
    BY <1>1, SlotAdd, ConstantFacts, SMT
  <1>4. sl \in Slots /\ sh \in Slots /\ sx \in Slots
    BY <1>2, SlotNear DEF Ring
  <1>5. g \in 0 .. Capacity
    BY RingEnds
  <1>6. ~(Around(sl, sx) < g)
    BY <1>4 DEF Ring
  <1>7. Around(sl, sh) = IF g = Capacity THEN 0 ELSE g
    BY DEF Ring
  <1> HIDE DEF x, n, sx, sh, sl, g
  <1>8. n + g <= Capacity
    BY <1>1, <1>3, <1>4, <1>5, <1>6, <1>7, ConstantFacts, SMT DEF Around, Slots
  <1>9. Gap(hi, x) = n
    BY <1>1, <1>2, ConstantFacts, SMT DEF Gap, Index
  <1> QED BY <1>2, <1>8, <1>9 DEF x, n, g

(* Storing TRUE in the flag of hi moves hi on.                                 *)
LEMMA RingPublish ==
  ASSUME NEW lo, NEW hi, NEW f \in [Slots -> BOOLEAN], Ring(lo, hi, f),
         Gap(lo, hi) < Capacity
  PROVE  /\ Ring(lo, WrappingAdd(hi, 1), [f EXCEPT ![Slot(hi)] = TRUE])
         /\ Gap(lo, WrappingAdd(hi, 1)) = Gap(lo, hi) + 1
  <1> DEFINE x == WrappingAdd(hi, 1)
             sx == Slot(x)
             sh == Slot(hi)
             sl == Slot(lo)
             g == Gap(lo, hi)
             h == [f EXCEPT ![sh] = TRUE]
  <1>1. lo \in Index /\ hi \in Index /\ x \in Index /\ x = IF hi + 1 < Word THEN hi + 1 ELSE 0
    BY SlotNear DEF Ring
  <1>2. /\ sl \in Slots /\ sh \in Slots /\ sx \in Slots
        /\ sx = IF sh + 1 < Capacity THEN sh + 1 ELSE 0
    BY <1>1, SlotNear
  <1>3. g \in 0 .. Capacity /\ g < Capacity
    BY RingEnds
  <1>4. Around(sl, sh) = g
    BY <1>3 DEF Ring
  <1>5. \A s \in Slots : f[s] <=> Around(sl, s) < g
    BY DEF Ring
  <1>6. Gap(lo, x) = g + 1
    <2> HIDE DEF x
    <2> QED BY <1>1, <1>3, ConstantFacts, SMT DEF Gap, Index, g
  <1> HIDE DEF x, sx, sh, sl, g
  <1>7. \A s \in Slots : h[s] <=> Around(sl, s) < g + 1
    <2> SUFFICES ASSUME NEW s \in Slots PROVE h[s] <=> Around(sl, s) < g + 1
      OBVIOUS
    <2>1. CASE s = sh
      BY <2>1, <1>2, <1>3, <1>4, SMT
    <2>2. CASE s # sh
      <3>1. h[s] = f[s]
        BY <2>2
      <3>2. Around(sl, s) # g /\ Around(sl, s) \in Int
        BY <2>2, <1>2, <1>4, ConstantFacts, SMT DEF Around, Slots
      <3>3. (Around(sl, s) < g) <=> (Around(sl, s) < g + 1)
        BY <3>2, <1>3, ConstantFacts, SMT
      <3> QED BY <3>1, <3>3, <1>5
    <2> QED BY <2>1, <2>2
  <1>8. Around(sl, sx) = IF g + 1 = Capacity THEN 0 ELSE g + 1
    BY <1>2, <1>3, <1>4, ConstantFacts, SMT DEF Around, Slots
  <1>9. g + 1 <= Capacity
    BY <1>3, ConstantFacts, SMT
  <1> QED BY <1>1, <1>6, <1>7, <1>8, <1>9 DEF Ring, x, sx, sh, sl, g

(* Storing FALSE in the flag of lo moves lo on.                                *)
LEMMA RingConsume ==
  ASSUME NEW lo, NEW hi, NEW f \in [Slots -> BOOLEAN], Ring(lo, hi, f),
         Gap(lo, hi) > 0
  PROVE  /\ Ring(WrappingAdd(lo, 1), hi, [f EXCEPT ![Slot(lo)] = FALSE])
         /\ Gap(WrappingAdd(lo, 1), hi) = Gap(lo, hi) - 1
  <1> DEFINE x == WrappingAdd(lo, 1)
             sx == Slot(x)
             sh == Slot(hi)
             sl == Slot(lo)
             g == Gap(lo, hi)
             h == [f EXCEPT ![sl] = FALSE]
  <1>1. lo \in Index /\ hi \in Index /\ x \in Index /\ x = IF lo + 1 < Word THEN lo + 1 ELSE 0
    BY SlotNear DEF Ring
  <1>2. /\ sl \in Slots /\ sh \in Slots /\ sx \in Slots
        /\ sx = IF sl + 1 < Capacity THEN sl + 1 ELSE 0
    BY <1>1, SlotNear
  <1>3. g \in 0 .. Capacity /\ g > 0
    BY RingEnds
  <1>4. Around(sl, sh) = IF g = Capacity THEN 0 ELSE g
    BY DEF Ring
  <1>5. \A s \in Slots : f[s] <=> Around(sl, s) < g
    BY DEF Ring
  <1>6. Gap(x, hi) = g - 1
    <2> HIDE DEF x
    <2> QED BY <1>1, <1>3, ConstantFacts, SMT DEF Gap, Index, g
  <1> HIDE DEF x, sx, sh, sl, g
  <1>7. \A s \in Slots : h[s] <=> Around(sx, s) < g - 1
    <2> SUFFICES ASSUME NEW s \in Slots PROVE h[s] <=> Around(sx, s) < g - 1
      OBVIOUS
    <2>1. CASE s = sl
      <3>1. h[s] = FALSE
        BY <2>1, <1>2
      <3>2. Around(sx, s) = Capacity - 1
        BY <2>1, <1>2, ConstantFacts, SMT DEF Around, Slots
      <3> QED BY <3>1, <3>2, <1>3, ConstantFacts, SMT
    <2>2. CASE s # sl
      <3>1. h[s] = f[s]
        BY <2>2
      <3>2. Around(sx, s) = Around(sl, s) - 1 /\ Around(sl, s) \in Int
        BY <2>2, <1>2, ConstantFacts, SMT DEF Around, Slots
      <3>3. (Around(sl, s) < g) <=> (Around(sx, s) < g - 1)
        BY <3>2, <1>3, ConstantFacts, SMT
      <3> QED BY <3>1, <3>3, <1>5
    <2> QED BY <2>1, <2>2
  <1>8. Around(sx, sh) = IF g - 1 = Capacity THEN 0 ELSE g - 1
    BY <1>2, <1>3, <1>4, ConstantFacts, SMT DEF Around, Slots
  <1>9. g - 1 <= Capacity
    BY <1>3, ConstantFacts, SMT
  <1> QED BY <1>1, <1>6, <1>7, <1>8, <1>9 DEF Ring, x, sx, sh, sl, g

----------------------------------------------------------------------------------
(* The inductive invariant.                                                    *)

(* The occupied slots are those from Lo up to Hi: the consumer gives a slot    *)
(* back when it clears the flag, before head moves, and the producer hands one *)
(* over when it sets the flag, before tail moves.                              *)
Lo == IF consumerPc = "advance" THEN WrappingAdd(head, 1) ELSE head
Hi == IF producerPc = "advance" THEN WrappingAdd(tail, 1) ELSE tail

(* The slots between tail and limit are empty: limit is a stale promise, but   *)
(* the consumer only ever adds to it.                                          *)
LimitOK ==
  /\ Gap(Hi, limit) + Gap(Lo, Hi) <= Capacity
  /\ producerPc \in {"look", "recheck"} => tail = limit
  /\ producerPc \in {"write", "publish"} => Gap(Hi, limit) >= 1

(* A slot's value is initialised while its flag is set, except that the        *)
(* producer writes it just before and the consumer moves it out just before.   *)
ValuesOK ==
  /\ producerPc # "idle" => arg \in Values
  /\ \A s \in Slots :
       value[s] # NoValue <=> \/ hasValue[s] /\ ~(consumerPc = "clear" /\ s = Slot(head))
                              \/ producerPc = "publish" /\ s = Slot(tail)

RoomOK == promised /\ producerPc # "advance" => Gap(Lo, Hi) < Capacity

IInv ==
  /\ TypeOK
  /\ Ring(Lo, Hi, hasValue)
  /\ LimitOK
  /\ consumerPc \in {"read", "clear"} => Gap(Lo, Hi) > 0
  /\ ValuesOK
  /\ RoomOK

(* What the ring depends on: a step that leaves these alone keeps IInv.        *)
ringVars == <<tail, limit, head, value, hasValue, producerPc, arg, consumerPc>>

(* TypeOK is inductive by itself.                                              *)
LEMMA TypeOKStep == TypeOK /\ [Next]_vars => TypeOK'
  <1> SUFFICES ASSUME TypeOK, [Next]_vars PROVE TypeOK'
    OBVIOUS
  <1>0. \A i \in Index : WrappingAdd(i, 1) \in Index /\ Slot(i) \in Slots
    BY SlotNear
  <1>1. \A i \in Index : WrappingAdd(i, Lookahead) \in Index
    <2>1. Lookahead \in 0 .. Capacity
      BY ConstantFacts, SMT
    <2> QED BY <2>1, WrapNear
  <1> HIDE DEF WrappingAdd, Slot, Lookahead, Index, Slots
  <1> USE DEF TypeOK, prodVars, consVars, slotVars, lifeVars, vars, Halves
  <1>2. CASE PushRefused \/ \E v \in Values : PushStart(v)
    BY <1>2 DEF PushRefused, PushStart
  <1>3. CASE PushLook
    BY <1>0, <1>1, <1>3 DEF PushLook
  <1>4. CASE PushRecheck
    BY <1>0, <1>4 DEF PushRecheck
  <1>5. CASE PushWrite
    BY <1>0, <1>5 DEF PushWrite
  <1>6. CASE PushPublish
    BY <1>0, <1>6 DEF PushPublish
  <1>7. CASE PushAdvance
    BY <1>0, <1>7 DEF PushAdvance
  <1>8. CASE SeeRoom
    BY <1>8 DEF SeeRoom
  <1>9. CASE PopStart \/ PopClear
    BY <1>0, <1>9 DEF PopStart, PopClear
  <1>10. CASE PopRead
    BY <1>0, <1>10 DEF PopRead
  <1>11. CASE PopAdvance
    BY <1>0, <1>11 DEF PopAdvance
  <1>12. CASE FreeBuffer
    BY <1>12 DEF FreeBuffer
  <1>13. CASE ConnectProducer \/ ConnectConsumer \/ DisconnectProducer \/ DisconnectConsumer
    BY <1>13 DEF ConnectProducer, ConnectConsumer, DisconnectProducer, DisconnectConsumer
  <1>14. CASE DropProducer \/ DropConsumer
    BY <1>14 DEF DropProducer, DropConsumer
  <1>15. CASE UNCHANGED vars
    BY <1>15
  <1> QED
    BY <1>2, <1>3, <1>4, <1>5, <1>6, <1>7, <1>8, <1>9, <1>10, <1>11, <1>12, <1>13,
       <1>14, <1>15 DEF Next, Producer, Consumer, PopStep

(* inner_make starts with indices in the word and an empty ring.               *)
LEMMA TypeOKInit == Init => TypeOK
  <1>1. InitialValue \in Index
    BY InitialAssumption DEF Index
  <1> HIDE DEF Index, Slots
  <1> QED BY <1>1 DEF Init, TypeOK, Halves

(* Every variable always has its type; in particular the indices never leave   *)
(* the machine word, whatever the capacity and the starting index.             *)
THEOREM Typing == Spec => []TypeOK
  <1> QED BY TypeOKInit, TypeOKStep, PTL DEF Spec

(* The invariant holds of the empty ring that inner_make returns.              *)
LEMMA IInvInit == Init => IInv
  <1> SUFFICES ASSUME Init PROVE IInv
    OBVIOUS
  <1>1. TypeOK
    BY TypeOKInit
  <1>2. /\ Lo = InitialValue /\ Hi = InitialValue /\ limit = InitialValue
        /\ InitialValue \in Index
    BY InitialAssumption DEF Init, Lo, Hi, Index
  <1>3. Slot(InitialValue) \in Slots
    BY <1>2, SlotNear
  <1> HIDE DEF Slot
  <1>4. Gap(InitialValue, InitialValue) = 0 /\ Around(Slot(InitialValue), Slot(InitialValue)) = 0
    BY <1>2, <1>3, ConstantFacts, SMT DEF Gap, Around, Index, Slots
  <1>6. \A s \in Slots : hasValue[s] <=> Around(Slot(InitialValue), s) < 0
    <2>1. \A s \in Slots : ~hasValue[s]
      BY DEF Init
    <2>2. \A s \in Slots : ~(Around(Slot(InitialValue), s) < 0)
      BY <1>3, ConstantFacts, SMT DEF Around, Slots
    <2> QED BY <2>1, <2>2
  <1>7. Ring(Lo, Hi, hasValue)
    BY <1>2, <1>4, <1>6, ConstantFacts DEF Ring
  <1>8. LimitOK /\ RoomOK
    BY <1>2, <1>4, ConstantFacts, SMT DEF Init, LimitOK, RoomOK
  <1>9. ValuesOK
    BY DEF Init, ValuesOK
  <1> QED BY <1>1, <1>7, <1>8, <1>9 DEF IInv, Init

(* The same facts at both ends of the ring, in the terms of the variables.     *)
LEMMA IInvFacts ==
  ASSUME IInv
  PROVE  /\ Lo \in Index /\ Hi \in Index /\ head \in Index /\ tail \in Index /\ limit \in Index
         /\ Slot(head) \in Slots /\ Slot(tail) \in Slots
         /\ hasValue \in [Slots -> BOOLEAN] /\ value \in [Slots -> Values \cup {NoValue}]
         /\ Gap(Lo, Hi) \in 0 .. Capacity
         /\ Gap(Hi, limit) \in 0 .. Capacity
         /\ hasValue[Slot(Hi)] <=> Gap(Lo, Hi) = Capacity
         /\ hasValue[Slot(Lo)] <=> Gap(Lo, Hi) > 0
  <1>1. /\ head \in Index /\ tail \in Index /\ limit \in Index /\ hasValue \in [Slots -> BOOLEAN]
        /\ value \in [Slots -> Values \cup {NoValue}]
        /\ Lo \in Index /\ Hi \in Index /\ Ring(Lo, Hi, hasValue)
    BY DEF IInv, TypeOK, Ring
  <1>2. Slot(head) \in Slots /\ Slot(tail) \in Slots
    BY <1>1, SlotNear
  <1>3. /\ Gap(Lo, Hi) \in 0 .. Capacity
        /\ hasValue[Slot(Hi)] <=> Gap(Lo, Hi) = Capacity
        /\ hasValue[Slot(Lo)] <=> Gap(Lo, Hi) > 0
    BY <1>1, RingEnds
  <1>4. Gap(Hi, limit) \in Nat
    <2> HIDE DEF Lo, Hi
    <2> QED BY <1>1, ConstantFacts, SMT DEF Gap, Index
  <1>5. Gap(Hi, limit) \in 0 .. Capacity
    <2> HIDE DEF Lo, Hi, Gap
    <2> QED BY <1>3, <1>4, ConstantFacts, SMT DEF IInv, LimitOK
  <1> QED BY <1>1, <1>2, <1>3, <1>5

(* The producer's steps before it touches a slot.                              *)
LEMMA ProducerLooks ==
  ASSUME IInv, TypeOK',
         PushRefused \/ (\E v \in Values : PushStart(v)) \/ PushLook \/ PushRecheck \/ SeeRoom
  PROVE  IInv'
  <1> USE IInvFacts
  <1> USE DEF prodVars, consVars, slotVars, lifeVars
  <1>1. /\ producerPc # "advance" /\ producerPc' # "advance" /\ producerPc # "publish"
        /\ producerPc' # "publish" /\ UNCHANGED <<tail, head, consumerPc, value, hasValue>>
    BY DEF PushRefused, PushStart, PushLook, PushRecheck, SeeRoom, TypeOK
  <1>2. Lo' = Lo /\ Hi' = Hi /\ Hi = tail
    BY <1>1 DEF Lo, Hi
  <1>3. Ring(Lo, Hi, hasValue)' /\ Gap(Lo, Hi)' = Gap(Lo, Hi)
    BY <1>1, <1>2 DEF IInv, Ring, Gap
  <1>4. (consumerPc \in {"read", "clear"} => Gap(Lo, Hi) > 0)'
    BY <1>1, <1>3 DEF IInv
  <1>5. ValuesOK'
    <2>1. (producerPc # "idle" => arg \in Values)'
      BY DEF IInv, ValuesOK, PushRefused, PushStart, PushLook, PushRecheck, SeeRoom
    <2> QED BY <1>1, <2>1 DEF IInv, ValuesOK
  <1>6. CASE PushRefused
    BY <1>1, <1>2, <1>3, <1>4, <1>5, <1>6 DEF IInv, LimitOK, RoomOK, PushRefused, Gap
  <1>7. CASE \E v \in Values : PushStart(v)
    <2>1. tail # limit => Gap(Hi, limit) >= 1
      BY <1>2, ConstantFacts, SMT DEF Gap, Index
    <2>2. LimitOK'
      BY <1>2, <1>3, <1>7, <2>1 DEF IInv, LimitOK, PushStart, Gap
    <2> QED BY <1>1, <1>3, <1>4, <1>5, <1>7, <2>2 DEF IInv, RoomOK, PushStart
  <1>8. CASE PushLook
    <2>1. RoomOK'
      BY <1>1, <1>3, <1>8 DEF IInv, RoomOK, PushLook
    <2>2. CASE UNCHANGED limit /\ producerPc' = "recheck"
      BY <1>2, <1>3, <1>4, <1>5, <1>8, <2>1, <2>2 DEF IInv, LimitOK, PushLook, Gap
    <2>3. CASE ~hasValue[Slot(WrappingAdd(tail, Lookahead))] /\ producerPc' = "write"
               /\ limit' = WrappingAdd(tail, Lookahead)
      <3>1. /\ Gap(Hi, limit') = Lookahead /\ Lookahead + Gap(Lo, Hi) <= Capacity
            /\ Lookahead >= 1
        BY <1>2, <2>3, RingLookahead, ConstantFacts DEF IInv
      <3>2. Gap(Hi, limit)' = Gap(Hi, limit')
        BY <1>2 DEF Gap
      <3>3. LimitOK'
        BY <1>3, <2>3, <3>1, <3>2 DEF LimitOK
      <3> QED BY <1>3, <1>4, <1>5, <2>1, <3>3 DEF IInv
    <2> QED BY <1>8, <2>2, <2>3 DEF PushLook
  <1>9. CASE PushRecheck
    <2>1. RoomOK'
      BY <1>1, <1>3, <1>9 DEF IInv, RoomOK, PushRecheck
    <2>2. CASE UNCHANGED limit /\ producerPc' = "idle"
      BY <1>2, <1>3, <1>4, <1>5, <1>9, <2>1, <2>2 DEF IInv, LimitOK, Gap
    <2>3. CASE ~hasValue[Slot(tail)] /\ limit' = WrappingAdd(tail, 1) /\ producerPc' = "write"
      <3>1. Gap(Lo, Hi) < Capacity
        BY <1>2, <2>3, ConstantFacts, SMT
      <3>2. limit' = IF tail + 1 < Word THEN tail + 1 ELSE 0
        BY <2>3, SlotNear
      <3>3. Gap(tail, limit') = 1
        BY <3>2, ConstantFacts, SMT DEF Gap, Index
      <3>4. Gap(Hi, limit)' = 1
        BY <1>2, <3>3 DEF Gap
      <3>5. LimitOK'
        <4> HIDE DEF Gap
        <4> QED BY <1>3, <2>3, <3>1, <3>4, ConstantFacts DEF LimitOK
      <3> QED BY <1>3, <1>4, <1>5, <2>1, <3>5 DEF IInv
    <2> QED BY <1>9, <2>2, <2>3 DEF PushRecheck
  <1>10. CASE SeeRoom
    <2>1. tail >= head /\ tail - head < Capacity
      BY <1>10, ConstantFacts, SMT DEF SeeRoom, FreeSpace, Size, Index
    <2>2. Gap(Lo, Hi) < Capacity
      <3>1. CASE consumerPc = "advance"
        <4>1. Lo = IF head + 1 < Word THEN head + 1 ELSE 0
          BY <3>1, SlotNear DEF Lo
        <4> QED BY <1>2, <2>1, <4>1, ConstantFacts, SMT DEF Gap, Index
      <3>2. CASE consumerPc # "advance"
        BY <1>2, <2>1, <3>2, ConstantFacts, SMT DEF Gap, Index, Lo
      <3> QED BY <3>1, <3>2
    <2>3. RoomOK'
      BY <1>3, <2>2 DEF RoomOK
    <2>4. LimitOK'
      BY <1>2, <1>3, <1>10 DEF IInv, LimitOK, SeeRoom, Gap
    <2> QED BY <1>3, <1>4, <1>5, <2>3, <2>4 DEF IInv
  <1> QED BY <1>6, <1>7, <1>8, <1>9, <1>10

(* The producer's steps on the slot at tail.                                   *)
LEMMA ProducerWrites ==
  ASSUME IInv, TypeOK', PushWrite \/ PushPublish \/ PushAdvance
  PROVE  IInv'
  <1> USE IInvFacts
  <1> USE DEF prodVars, consVars, slotVars, lifeVars
  <1>1. UNCHANGED <<limit, head, consumerPc>>
    BY DEF PushWrite, PushPublish, PushAdvance
  <1>2. Lo' = Lo
    BY <1>1 DEF Lo
  <1>3. CASE PushWrite
    <2>1. Hi' = Hi /\ Hi = tail
      BY <1>3 DEF PushWrite, Hi
    <2>2. Ring(Lo, Hi, hasValue)' /\ Gap(Lo, Hi)' = Gap(Lo, Hi) /\ Gap(Hi, limit)' = Gap(Hi, limit)
      BY <1>1, <1>2, <1>3, <2>1 DEF IInv, Ring, Gap, PushWrite
    <2>3. arg \in Values
      BY <1>3 DEF PushWrite, IInv, ValuesOK
    <2>4. ValuesOK'
      <3>1. \A s \in Slots : value'[s] # NoValue <=>
               \/ hasValue[s] /\ ~(consumerPc = "clear" /\ s = Slot(head))
               \/ s = Slot(tail)
        BY <1>3, <2>3, ValuesAssumption DEF PushWrite, IInv, ValuesOK
      <3> QED BY <1>1, <1>3, <2>3, <3>1 DEF PushWrite, ValuesOK
    <2>5. LimitOK' /\ RoomOK'
      BY <1>3, <2>2 DEF PushWrite, IInv, LimitOK, RoomOK
    <2> QED BY <1>1, <2>2, <2>4, <2>5 DEF IInv
  <1>4. CASE PushPublish
    <2>1. Hi = tail /\ Hi' = WrappingAdd(tail, 1) /\ Gap(Hi, limit) >= 1
      BY <1>4 DEF PushPublish, Hi, IInv, LimitOK
    <2>2. Gap(Lo, Hi) < Capacity /\ ~hasValue[Slot(tail)]
      <3>1. Gap(Lo, Hi) < Capacity
        <4> HIDE DEF Gap, Lo, Hi
        <4> QED BY <2>1, ConstantFacts, SMT DEF IInv, LimitOK
      <3> QED BY <2>1, <3>1, ConstantFacts
    <2>3. /\ Ring(Lo, WrappingAdd(tail, 1), hasValue')
          /\ Gap(Lo, WrappingAdd(tail, 1)) = Gap(Lo, Hi) + 1
      BY <1>4, <2>1, <2>2, RingPublish DEF PushPublish, IInv
    <2>4. Ring(Lo, Hi, hasValue)' /\ Gap(Lo, Hi)' = Gap(Lo, Hi) + 1
      BY <1>2, <2>1, <2>3 DEF Ring, Gap
    <2>5. Gap(Hi, limit)' = Gap(Hi, limit) - 1
      <3>1. Hi' = IF tail + 1 < Word THEN tail + 1 ELSE 0
        BY <2>1, SlotNear
      <3>2. Gap(Hi', limit) = Gap(tail, limit) - 1
        BY <2>1, <3>1, ConstantFacts, SMT DEF Gap, Index
      <3> QED BY <1>1, <2>1, <3>2 DEF Gap
    <2>6. LimitOK' /\ RoomOK'
      <3>1. (Gap(Hi, limit) + Gap(Lo, Hi) <= Capacity)'
        <4> HIDE DEF Gap, Lo, Hi
        <4> QED BY <2>4, <2>5, ConstantFacts, SMT DEF IInv, LimitOK
      <3> QED BY <1>4, <3>1 DEF PushPublish, LimitOK, RoomOK
    <2>7. ValuesOK'
      <3>1. consumerPc = "clear" => Slot(tail) # Slot(head)
        BY <2>2 DEF IInv, Lo
      <3>2. \A s \in Slots : value[s] # NoValue <=>
               hasValue'[s] /\ ~(consumerPc = "clear" /\ s = Slot(head))
        BY <1>4, <3>1 DEF PushPublish, IInv, ValuesOK
      <3>3. arg' \in Values
        BY <1>4 DEF PushPublish, IInv, ValuesOK
      <3> QED BY <1>1, <1>4, <3>2, <3>3 DEF PushPublish, ValuesOK
    <2>8. (consumerPc \in {"read", "clear"} => Gap(Lo, Hi) > 0)'
      <3> HIDE DEF Gap, Lo, Hi
      <3> QED BY <1>1, <2>4, ConstantFacts, SMT DEF IInv
    <2> QED BY <2>4, <2>6, <2>7, <2>8 DEF IInv
  <1>5. CASE PushAdvance
    <2>1. Hi' = Hi
      BY <1>5 DEF PushAdvance, Hi
    <2>2. Ring(Lo, Hi, hasValue)' /\ Gap(Lo, Hi)' = Gap(Lo, Hi) /\ Gap(Hi, limit)' = Gap(Hi, limit)
      BY <1>1, <1>2, <1>5, <2>1 DEF IInv, Ring, Gap, PushAdvance
    <2>3. LimitOK' /\ RoomOK' /\ ValuesOK'
      BY <1>5, <2>2 DEF PushAdvance, IInv, LimitOK, RoomOK, ValuesOK
    <2> QED BY <1>1, <2>2, <2>3 DEF IInv
  <1> QED BY <1>3, <1>4, <1>5

(* The consumer's steps.                                                       *)
LEMMA ConsumerSteps ==
  ASSUME IInv, TypeOK', PopStep
  PROVE  IInv'
  <1> USE IInvFacts
  <1> USE DEF prodVars, consVars, slotVars, lifeVars
  <1>1. UNCHANGED <<limit, tail, producerPc, arg, promised>>
    BY DEF PopStep, PopStart, PopRead, PopClear, PopAdvance
  <1>2. Hi' = Hi
    BY <1>1 DEF Hi
  <1>3. CASE PopStart
    <2>1. Lo' = Lo /\ Lo = head
      BY <1>3 DEF PopStart, Lo
    <2>2. Ring(Lo, Hi, hasValue)' /\ Gap(Lo, Hi)' = Gap(Lo, Hi) /\ Gap(Hi, limit)' = Gap(Hi, limit)
      BY <1>1, <1>2, <1>3, <2>1 DEF IInv, Ring, Gap, PopStart
    <2>3. Gap(Lo, Hi) > 0
      BY <1>3, <2>1 DEF PopStart
    <2>4. LimitOK' /\ RoomOK' /\ ValuesOK'
      BY <1>1, <1>3, <2>2 DEF PopStart, IInv, LimitOK, RoomOK, ValuesOK
    <2> QED BY <2>2, <2>3, <2>4 DEF IInv
  <1>4. CASE PopRead
    <2>1. Lo' = Lo /\ Lo = head
      BY <1>4 DEF PopRead, Lo
    <2>2. Ring(Lo, Hi, hasValue)' /\ Gap(Lo, Hi)' = Gap(Lo, Hi) /\ Gap(Hi, limit)' = Gap(Hi, limit)
      BY <1>1, <1>2, <1>4, <2>1 DEF IInv, Ring, Gap, PopRead
    <2>3. Gap(Lo, Hi) > 0 /\ hasValue[Slot(head)]
      BY <1>4, <2>1 DEF PopRead, IInv
    <2>4. producerPc = "publish" => Slot(tail) # Slot(head)
      <3>1. SUFFICES ASSUME producerPc = "publish" PROVE ~hasValue[Slot(tail)]
        BY <2>3
      <3>2. Hi = tail /\ Gap(Hi, limit) >= 1
        BY <3>1 DEF Hi, IInv, LimitOK
      <3>3. Gap(Lo, Hi) # Capacity
        <4> HIDE DEF Gap, Lo, Hi
        <4> QED BY <3>2, ConstantFacts, SMT DEF IInv, LimitOK
      <3> QED BY <3>2, <3>3
    <2>5. ValuesOK'
      <3>1. \A s \in Slots : value'[s] # NoValue <=>
               \/ hasValue[s] /\ s # Slot(head)
               \/ producerPc = "publish" /\ s = Slot(tail)
        BY <1>4, <2>4 DEF PopRead, IInv, ValuesOK
      <3> QED BY <1>1, <1>4, <3>1 DEF PopRead, IInv, ValuesOK
    <2>6. LimitOK' /\ RoomOK'
      BY <1>1, <2>2 DEF IInv, LimitOK, RoomOK
    <2> QED BY <2>2, <2>3, <2>5, <2>6 DEF IInv
  <1>5. CASE PopClear
    <2>1. Lo = head /\ Lo' = WrappingAdd(head, 1) /\ Gap(Lo, Hi) > 0
      BY <1>5 DEF PopClear, Lo, IInv
    <2>2. /\ Ring(WrappingAdd(head, 1), Hi, hasValue')
          /\ Gap(WrappingAdd(head, 1), Hi) = Gap(Lo, Hi) - 1
      BY <1>5, <2>1, RingConsume DEF PopClear, IInv
    <2>3. /\ Ring(Lo, Hi, hasValue)' /\ Gap(Lo, Hi)' = Gap(Lo, Hi) - 1
          /\ Gap(Hi, limit)' = Gap(Hi, limit)
      BY <1>1, <1>2, <2>1, <2>2 DEF Ring, Gap
    <2>4. LimitOK' /\ RoomOK'
      <3> HIDE DEF Gap, Lo, Hi
      <3>1. (Gap(Hi, limit) + Gap(Lo, Hi) <= Capacity)' /\ (Gap(Lo, Hi) < Capacity)'
        BY <2>1, <2>3, ConstantFacts, SMT DEF IInv, LimitOK
      <3> QED BY <1>1, <2>3, <3>1 DEF IInv, LimitOK, RoomOK
    <2>5. ValuesOK'
      <3>1. \A s \in Slots : value[s] # NoValue <=>
               \/ hasValue'[s]
               \/ producerPc = "publish" /\ s = Slot(tail)
        BY <1>5 DEF PopClear, IInv, ValuesOK
      <3> QED BY <1>1, <1>5, <3>1 DEF PopClear, IInv, ValuesOK
    <2> QED BY <1>5, <2>3, <2>4, <2>5 DEF IInv, PopClear
  <1>6. CASE PopAdvance
    <2>1. Lo' = Lo
      BY <1>6 DEF PopAdvance, Lo
    <2>2. Ring(Lo, Hi, hasValue)' /\ Gap(Lo, Hi)' = Gap(Lo, Hi) /\ Gap(Hi, limit)' = Gap(Hi, limit)
      BY <1>1, <1>2, <1>6, <2>1 DEF IInv, Ring, Gap, PopAdvance
    <2>3. LimitOK' /\ RoomOK' /\ ValuesOK'
      BY <1>1, <1>6, <2>2 DEF PopAdvance, IInv, LimitOK, RoomOK, ValuesOK
    <2> QED BY <1>6, <2>2, <2>3 DEF IInv, PopAdvance
  <1> QED BY <1>3, <1>4, <1>5, <1>6 DEF PopStep

(* Connecting, disconnecting, dropping a half and freeing touch no slot.       *)
LEMMA LifeSteps ==
  ASSUME IInv, TypeOK', UNCHANGED <<ringVars, promised>>
  PROVE  IInv'
  <1>1. Lo' = Lo /\ Hi' = Hi /\ UNCHANGED <<tail, limit, head, value, hasValue>>
    BY DEF Lo, Hi, ringVars
  <1>2. Ring(Lo, Hi, hasValue)' /\ Gap(Lo, Hi)' = Gap(Lo, Hi) /\ Gap(Hi, limit)' = Gap(Hi, limit)
    BY <1>1 DEF IInv, Ring, Gap
  <1>3. LimitOK' /\ RoomOK' /\ ValuesOK'
    BY <1>2 DEF ringVars, IInv, LimitOK, RoomOK, ValuesOK
  <1> QED BY <1>2, <1>3 DEF IInv, ringVars

(* Every step of either thread preserves the invariant, as does stuttering.    *)
LEMMA IInvStep == IInv /\ [Next]_vars => IInv'
  <1> SUFFICES ASSUME IInv, [Next]_vars PROVE IInv'
    OBVIOUS
  <1>1. TypeOK'
    BY TypeOKStep DEF IInv
  <1>2. CASE PushRefused \/ (\E v \in Values : PushStart(v)) \/ PushLook \/ PushRecheck \/ SeeRoom
    BY <1>1, <1>2, ProducerLooks
  <1>3. CASE PushWrite \/ PushPublish \/ PushAdvance
    BY <1>1, <1>3, ProducerWrites
  <1>4. CASE PopStep
    BY <1>1, <1>4, ConsumerSteps
  <1>5. CASE \/ ConnectProducer \/ ConnectConsumer \/ DisconnectProducer
             \/ DisconnectConsumer \/ DropProducer \/ DropConsumer \/ FreeBuffer
    <2>1. UNCHANGED <<ringVars, promised>>
      BY <1>5 DEF ConnectProducer, ConnectConsumer, DisconnectProducer, DisconnectConsumer,
                  DropProducer, DropConsumer, FreeBuffer, ringVars, prodVars, consVars, slotVars
    <2> QED BY <1>1, <2>1, LifeSteps
  <1>6. CASE UNCHANGED vars
    <2>1. UNCHANGED <<ringVars, promised>>
      BY <1>6 DEF vars, ringVars, prodVars, consVars, slotVars
    <2> QED BY <1>1, <2>1, LifeSteps
  <1> QED BY <1>2, <1>3, <1>4, <1>5, <1>6 DEF Next, Producer, Consumer

(* The inductive invariant holds in every behaviour.                           *)
THEOREM Invariance == Spec => []IInv
  <1> QED BY IInvInit, IInvStep, PTL DEF Spec

----------------------------------------------------------------------------------
(* The properties.                                                             *)

(* The invariant keeps the two threads out of each other's slot.               *)
LEMMA Owned == IInv => SlotOwnership
  <1> SUFFICES ASSUME IInv PROVE SlotOwnership
    OBVIOUS
  <1> USE IInvFacts
  <1>1. producerPc \in {"write", "publish"} => ~hasValue[Slot(tail)]
    <2> SUFFICES ASSUME producerPc \in {"write", "publish"} PROVE ~hasValue[Slot(tail)]
      OBVIOUS
    <2>1. Hi = tail /\ Gap(Hi, limit) >= 1
      BY DEF Hi, IInv, LimitOK
    <2>2. Gap(Lo, Hi) # Capacity
      <3> HIDE DEF Gap, Lo, Hi
      <3> QED BY <2>1, ConstantFacts, SMT DEF IInv, LimitOK
    <2> QED BY <2>1, <2>2
  <1>2. producerPc = "write" => value[Slot(tail)] = NoValue
    BY <1>1 DEF IInv, ValuesOK
  <1>3. consumerPc = "read" => hasValue[Slot(head)]
    BY DEF IInv, Lo
  <1>4. consumerPc = "read" => value[Slot(head)] # NoValue
    BY <1>3 DEF IInv, ValuesOK
  <1> QED BY <1>1, <1>2, <1>3, <1>4 DEF SlotOwnership

(* Under the invariant an occupied slot at tail means a full ring.             *)
LEMMA Refused == IInv => RefusesOnlyWhenFull
  <1> SUFFICES ASSUME IInv, producerPc = "recheck", hasValue[Slot(tail)]
               PROVE  (tail - (IF consumerPc = "advance" THEN head + 1 ELSE head)) % Word = Capacity
    BY DEF RefusesOnlyWhenFull
  <1> USE IInvFacts
  <1> DEFINE n == IF consumerPc = "advance" THEN head + 1 ELSE head
  <1>1. Hi = tail /\ Gap(Lo, tail) = Capacity
    BY DEF Hi
  <1>2. n \in 0 .. Word /\ tail \in 0 .. (Word - 1)
    BY ConstantFacts, SMT DEF Index
  <1>3. (tail - n) % Word = IF tail >= n THEN tail - n ELSE tail - n + Word
    BY <1>2, ModDifference, ConstantFacts
  <1>4. Lo = IF n < Word THEN n ELSE 0
    <2>1. CASE consumerPc = "advance"
      BY <2>1, SlotNear DEF Lo
    <2>2. CASE consumerPc # "advance"
      BY <2>2, ConstantFacts, SMT DEF Lo, Index
    <2> QED BY <2>1, <2>2
  <1>5. (tail - n) % Word = Capacity
    <2> HIDE DEF n, Lo, Hi
    <2> QED BY <1>1, <1>2, <1>3, <1>4, ConstantFacts, SMT DEF Gap
  <1> QED BY <1>5

(* The invariant keeps the room that the producer saw.                         *)
LEMMA Kept == IInv => RoomIsKept
  <1> SUFFICES ASSUME IInv, producerPc = "recheck", promised PROVE ~hasValue[Slot(tail)]
    BY DEF RoomIsKept
  <1>1. Hi = tail /\ Gap(Lo, Hi) < Capacity
    BY DEF Hi, IInv, RoomOK
  <1>2. hasValue[Slot(Hi)] <=> Gap(Lo, Hi) = Capacity
    BY IInvFacts
  <1> HIDE DEF Gap, Lo, Hi
  <1> QED BY <1>1, <1>2, IInvFacts, ConstantFacts, SMT

(* The unsynchronised accesses of try_push and try_pop to a slot never meet,   *)
(* never overwrite a value that was not taken and never read one that is not   *)
(* there, for every capacity, lookahead, index width and starting index.       *)
THEOREM SlotsOwned == Spec => []SlotOwnership
  <1> QED BY Invariance, Owned, PTL

(* try_push gives a value back for lack of room only when the ring is full.    *)
THEOREM RefusalsJustified == Spec => []RefusesOnlyWhenFull
  <1> QED BY Invariance, Refused, PTL

(* The push after a positive free_space() finds room: ConnectedSender::send    *)
(* does not reach its panic, as far as stores become visible in order.        *)
THEOREM RoomKept == Spec => []RoomIsKept
  <1> QED BY Invariance, Kept, PTL

----------------------------------------------------------------------------------
(* The refinement: the values from the oldest one that was not read up to the  *)
(* last one that was published are the queue.                                  *)

(* n values of the ring f, from index b on.                                    *)
Stretch(b, n, f) == [i \in 1 .. n |-> f[Slot(WrappingAdd(b, i - 1))]]

(* The first index after the values that were read.                            *)
Base == IF consumerPc \in {"clear", "advance"} THEN WrappingAdd(head, 1) ELSE head

(* The index j + 1 after b is the index j after the one that follows b.        *)
LEMMA AddTwice ==
  ASSUME NEW b \in Index, NEW j \in 0 .. (Capacity - 1)
  PROVE  WrappingAdd(WrappingAdd(b, 1), j) = WrappingAdd(b, j + 1)
  <1> DEFINE x == WrappingAdd(b, 1)
  <1>1. x \in Index /\ x = IF b + 1 < Word THEN b + 1 ELSE 0
    BY SlotNear
  <1>2. j \in 0 .. Capacity /\ j + 1 \in 0 .. Capacity
    BY ConstantFacts, SMT
  <1> HIDE DEF x
  <1>3. WrappingAdd(x, j) = IF x + j < Word THEN x + j ELSE x + j - Word
    BY <1>1, <1>2, WrapNear
  <1>4. WrappingAdd(b, j + 1) = IF b + (j + 1) < Word THEN b + (j + 1) ELSE b + (j + 1) - Word
    BY <1>2, WrapNear
  <1> HIDE DEF WrappingAdd
  <1>5. WrappingAdd(x, j) = WrappingAdd(b, j + 1)
    BY <1>1, <1>2, <1>3, <1>4, ConstantFacts, SMT DEF Index
  <1> QED BY <1>5 DEF x

(* hi is Gap(lo, hi) indices after lo.                                         *)
LEMMA GapReaches ==
  ASSUME NEW lo \in Index, NEW hi \in Index, Gap(lo, hi) <= Capacity
  PROVE  Gap(lo, hi) \in 0 .. Capacity /\ WrappingAdd(lo, Gap(lo, hi)) = hi
  <1> DEFINE g == Gap(lo, hi)
  <1>1. g \in 0 .. Capacity /\ g = IF hi >= lo THEN hi - lo ELSE hi - lo + Word
    BY ConstantFacts, SMT DEF Gap, Index
  <1> HIDE DEF g
  <1>2. WrappingAdd(lo, g) = IF lo + g < Word THEN lo + g ELSE lo + g - Word
    BY <1>1, WrapNear
  <1> HIDE DEF WrappingAdd
  <1>3. WrappingAdd(lo, g) = hi
    BY <1>1, <1>2, ConstantFacts, SMT DEF Index
  <1> QED BY <1>1, <1>3 DEF g

(* The slots of a stretch are the occupied ones, each index its own slot.      *)
LEMMA StretchSlots ==
  ASSUME NEW lo, NEW hi, NEW f \in [Slots -> BOOLEAN], Ring(lo, hi, f),
         NEW j \in 0 .. (Gap(lo, hi) - 1)
  PROVE  /\ Slot(WrappingAdd(lo, j)) \in Slots
         /\ f[Slot(WrappingAdd(lo, j))]
         /\ j > 0 => Slot(WrappingAdd(lo, j)) # Slot(lo)
  <1> DEFINE x == Slot(WrappingAdd(lo, j))
             sl == Slot(lo)
             g == Gap(lo, hi)
  <1>1. lo \in Index /\ g \in 0 .. Capacity /\ \A s \in Slots : f[s] <=> Around(sl, s) < g
    BY RingEnds DEF Ring
  <1>2. j \in 0 .. Capacity /\ j < g
    BY <1>1, ConstantFacts, SMT
  <1>3. WrappingAdd(lo, j) \in Index /\ sl \in Slots
    BY <1>1, <1>2, WrapNear, SlotNear
  <1>4. x \in Slots /\ x = IF sl + j < Capacity THEN sl + j ELSE sl + j - Capacity
    BY <1>1, <1>2, <1>3, SlotAdd, SlotNear
  <1> HIDE DEF x, sl, g
  <1>5. Around(sl, x) = j /\ (j > 0 => x # sl)
    BY <1>1, <1>2, <1>3, <1>4, ConstantFacts, SMT DEF Around, Slots
  <1>6. f[x]
    BY <1>1, <1>2, <1>4, <1>5
  <1> QED BY <1>4, <1>5, <1>6 DEF x, sl

(* A stretch is a sequence.                                                    *)
LEMMA StretchIsSeq ==
  ASSUME NEW b \in Index, NEW n \in 0 .. Capacity, NEW V, NEW f \in [Slots -> V]
  PROVE  /\ Stretch(b, n, f) \in Seq(V) /\ Len(Stretch(b, n, f)) = n
         /\ \A i \in 1 .. n : Stretch(b, n, f)[i] = f[Slot(WrappingAdd(b, i - 1))]
  <1>1. \A i \in 1 .. n : f[Slot(WrappingAdd(b, i - 1))] \in V
    <2> SUFFICES ASSUME NEW i \in 1 .. n PROVE f[Slot(WrappingAdd(b, i - 1))] \in V
      OBVIOUS
    <2>1. i - 1 \in 0 .. Capacity
      BY ConstantFacts, SMT
    <2>2. Slot(WrappingAdd(b, i - 1)) \in Slots
      BY <2>1, WrapNear, SlotNear
    <2> QED BY <2>2
  <1>2. n \in Nat
    BY ConstantFacts, SMT
  <1> HIDE DEF Slot, WrappingAdd
  <1>3. Stretch(b, n, f) \in [1 .. n -> V]
    BY <1>1 DEF Stretch
  <1>4. Stretch(b, n, f) \in Seq(V)
    BY <1>2, <1>3, SeqDef
  <1>5. Len(Stretch(b, n, f)) = n
    BY <1>2, <1>3, <1>4, LenProperties
  <1> QED BY <1>4, <1>5 DEF Stretch

(* Publishing the value after a stretch appends it.                            *)
LEMMA StretchAppend ==
  ASSUME NEW b \in Index, NEW n \in 0 .. (Capacity - 1), NEW V, NEW f \in [Slots -> V]
  PROVE  Stretch(b, n + 1, f) = Append(Stretch(b, n, f), f[Slot(WrappingAdd(b, n))])
  <1> DEFINE v == f[Slot(WrappingAdd(b, n))]
             s == Stretch(b, n, f)
             t == Stretch(b, n + 1, f)
  <1>1. n \in 0 .. Capacity /\ n + 1 \in 0 .. Capacity /\ n \in Nat
    BY ConstantFacts, SMT
  <1>2. /\ s \in Seq(V) /\ Len(s) = n
        /\ \A i \in 1 .. n : s[i] = f[Slot(WrappingAdd(b, i - 1))]
    BY <1>1, StretchIsSeq
  <1>3. /\ t \in Seq(V) /\ Len(t) = n + 1
        /\ \A i \in 1 .. (n + 1) : t[i] = f[Slot(WrappingAdd(b, i - 1))]
    BY <1>1, StretchIsSeq
  <1>4. t[n + 1] = v
    <2>1. n + 1 \in 1 .. (n + 1) /\ (n + 1) - 1 = n
      BY <1>1, SMT
    <2> QED BY <1>3, <2>1
  <1>5. v \in V
    <2>1. Slot(WrappingAdd(b, n)) \in Slots
      BY <1>1, WrapNear, SlotNear
    <2> QED BY <2>1
  <1> HIDE DEF v, s, t
  <1>6. \A i \in 1 .. n : t[i] = s[i]
    BY <1>1, <1>2, <1>3, SMT
  <1>7. /\ Append(s, v) \in Seq(V) /\ Len(Append(s, v)) = n + 1
        /\ \A i \in 1 .. n : Append(s, v)[i] = s[i]
        /\ Append(s, v)[n + 1] = v
    BY <1>1, <1>2, <1>5, AppendProperties, SMT
  <1>8. \A i \in 1 .. (n + 1) : t[i] = Append(s, v)[i]
    BY <1>1, <1>4, <1>6, <1>7, SMT
  <1>9. t = Append(s, v)
    BY <1>3, <1>7, <1>8, SeqEqual
  <1> QED BY <1>9 DEF v, s, t

(* Reading the first value of a stretch leaves its tail.                       *)
LEMMA StretchTail ==
  ASSUME NEW b \in Index, NEW n \in 1 .. Capacity, NEW V, NEW f \in [Slots -> V]
  PROVE  /\ Stretch(b, n, f) # <<>>
         /\ Head(Stretch(b, n, f)) = f[Slot(b)]
         /\ Tail(Stretch(b, n, f)) = Stretch(WrappingAdd(b, 1), n - 1, f)
  <1> DEFINE s == Stretch(b, n, f)
             c == WrappingAdd(b, 1)
             t == Stretch(c, n - 1, f)
  <1>1. n \in 0 .. Capacity /\ n - 1 \in 0 .. Capacity /\ n \in Nat /\ c \in Index
    BY ConstantFacts, SlotNear, SMT
  <1>2. /\ s \in Seq(V) /\ Len(s) = n
        /\ \A i \in 1 .. n : s[i] = f[Slot(WrappingAdd(b, i - 1))]
    BY <1>1, StretchIsSeq
  <1>3. /\ t \in Seq(V) /\ Len(t) = n - 1
        /\ \A i \in 1 .. (n - 1) : t[i] = f[Slot(WrappingAdd(c, i - 1))]
    BY <1>1, StretchIsSeq
  <1>4. s[1] = f[Slot(b)]
    <2>1. WrappingAdd(b, 0) = IF b + 0 < Word THEN b + 0 ELSE b + 0 - Word
      BY WrapNear, ConstantFacts, SMT
    <2>2. 1 \in 1 .. n /\ 1 - 1 = 0
      BY <1>1, SMT
    <2>3. s[1] = f[Slot(WrappingAdd(b, 0))]
      BY <1>2, <2>2
    <2> HIDE DEF WrappingAdd, s
    <2>4. WrappingAdd(b, 0) = b
      BY <2>1, ConstantFacts, SMT DEF Index
    <2> QED BY <2>3, <2>4
  <1>5. s # <<>> /\ Head(s) = s[1]
    <2> HIDE DEF s
    <2>1. s # <<>>
      BY <1>1, <1>2, EmptySeq, SMT
    <2> QED BY <1>2, <2>1, SMT
  <1>6. \A i \in 1 .. (n - 1) : t[i] = s[i + 1]
    <2> SUFFICES ASSUME NEW i \in 1 .. (n - 1) PROVE t[i] = s[i + 1]
      OBVIOUS
    <2>1. i - 1 \in 0 .. (Capacity - 1) /\ (i - 1) + 1 = i /\ i + 1 \in 1 .. n /\ (i + 1) - 1 = i
      BY <1>1, ConstantFacts, SMT
    <2>2. WrappingAdd(c, i - 1) = WrappingAdd(b, i)
      BY <2>1, AddTwice
    <2>3. s[i + 1] = f[Slot(WrappingAdd(b, i))]
      BY <1>2, <2>1
    <2> QED BY <1>3, <2>2, <2>3
  <1> HIDE DEF s, t
  <1>7. /\ Tail(s) \in Seq(V) /\ Len(Tail(s)) = n - 1
        /\ \A i \in 1 .. (n - 1) : Tail(s)[i] = s[i + 1]
    BY <1>2, <1>5, HeadTailProperties
  <1>8. Tail(s) = t
    BY <1>3, <1>6, <1>7, SeqEqual
  <1> QED BY <1>4, <1>5, <1>8 DEF s, t

(* A stretch does not change when its slots do not.                            *)
LEMMA StretchSame ==
  ASSUME NEW b \in Index, NEW n \in 0 .. Capacity, NEW V, NEW f \in [Slots -> V],
         NEW h \in [Slots -> V],
         \A j \in 0 .. (n - 1) : h[Slot(WrappingAdd(b, j))] = f[Slot(WrappingAdd(b, j))]
  PROVE  Stretch(b, n, h) = Stretch(b, n, f)
  <1>1. \A i \in 1 .. n : h[Slot(WrappingAdd(b, i - 1))] = f[Slot(WrappingAdd(b, i - 1))]
    <2> SUFFICES ASSUME NEW i \in 1 .. n
                 PROVE  h[Slot(WrappingAdd(b, i - 1))] = f[Slot(WrappingAdd(b, i - 1))]
      OBVIOUS
    <2>1. i - 1 \in 0 .. (n - 1)
      BY ConstantFacts, SMT
    <2> QED BY <2>1
  <1> HIDE DEF Slot, WrappingAdd
  <1> QED BY <1>1 DEF Stretch

(* The same index, in and out of the word.                                     *)
LEMMA SameIndex ==
  ASSUME NEW i \in Index, NEW m \in Int, NEW k \in Int, m = Word * k + i
  PROVE  m % Word = i
  BY ModOf, ConstantFacts DEF Index

(* The consumer's end of the queue.  Between the read of a value and the store *)
(* of its flag the queue has one value less than the ring.                     *)
LEMMA BaseFacts ==
  ASSUME IInv
  PROVE  /\ Base \in Index /\ Gap(Base, Hi) \in 0 .. Capacity
         /\ consumerPc # "clear" => Base = Lo
         /\ consumerPc = "clear" => /\ Lo = head /\ Base = WrappingAdd(Lo, 1)
                                    /\ Gap(Base, Hi) = Gap(Lo, Hi) - 1
  <1> USE IInvFacts
  <1>1. CASE consumerPc = "clear"
    <2>1. Lo = head /\ Gap(Lo, Hi) > 0 /\ Base = WrappingAdd(Lo, 1)
      BY <1>1 DEF IInv, Lo, Base
    <2>2. Base \in Index /\ Base = IF Lo + 1 < Word THEN Lo + 1 ELSE 0
      BY <2>1, SlotNear
    <2> HIDE DEF Base, Lo, Hi
    <2>3. Gap(Base, Hi) = Gap(Lo, Hi) - 1
      BY <2>1, <2>2, ConstantFacts, SMT DEF Gap, Index
    <2> HIDE DEF Gap
    <2>4. Gap(Base, Hi) \in 0 .. Capacity
      BY <2>1, <2>3, ConstantFacts, SMT
    <2> QED BY <1>1, <2>1, <2>2, <2>3, <2>4
  <1>2. CASE consumerPc # "clear"
    BY <1>2 DEF Lo, Base
  <1> QED BY <1>1, <1>2

(* Items is the stretch of the ring between the two ends.                      *)
LEMMA ItemsAre ==
  IInv => Items = Stretch(Base, Gap(Base, Hi), value)
  <1> SUFFICES ASSUME IInv PROVE Items = Stretch(Base, Gap(Base, Hi), value)
    OBVIOUS
  <1> USE IInvFacts
  <1>1. Base \in Index /\ Gap(Base, Hi) \in 0 .. Capacity
    BY BaseFacts
  <1>2. PICK k \in {0, 1} : First = Word * k + Base
    <2>1. CASE consumerPc \in {"clear", "advance"}
      <3>1. First = head + 1 /\ Base = IF head + 1 < Word THEN head + 1 ELSE 0
        BY <2>1, SlotNear DEF First, Base
      <3>2. First = Word * 0 + Base \/ First = Word * 1 + Base
        BY <3>1, ConstantFacts, SMT DEF Index
      <3> QED BY <3>2
    <2>2. CASE consumerPc \notin {"clear", "advance"}
      <3>1. First = head /\ Base = head
        BY <2>2 DEF First, Base
      <3> HIDE DEF First, Base
      <3>2. First = Word * 0 + Base
        BY <3>1, ConstantFacts, SMT DEF Index
      <3> QED BY <3>2
    <2> QED BY <2>1, <2>2
  <1>3. PICK m \in {0, 1} : Beyond = Word * m + Hi
    <2>1. CASE producerPc = "advance"
      <3>1. Beyond = tail + 1 /\ Hi = IF tail + 1 < Word THEN tail + 1 ELSE 0
        BY <2>1, SlotNear DEF Beyond, Hi
      <3>2. Beyond = Word * 0 + Hi \/ Beyond = Word * 1 + Hi
        BY <3>1, ConstantFacts, SMT DEF Index
      <3> QED BY <3>2
    <2>2. CASE producerPc # "advance"
      <3>1. Beyond = tail /\ Hi = tail
        BY <2>2 DEF Beyond, Hi
      <3> HIDE DEF Beyond, Hi
      <3>2. Beyond = Word * 0 + Hi
        BY <3>1, ConstantFacts, SMT DEF Index
      <3> QED BY <3>2
    <2> QED BY <2>1, <2>2
  <1> HIDE DEF First, Beyond, Base, Hi
  <1>4. (Beyond - First) % Word = Gap(Base, Hi)
    <2> DEFINE g == Gap(Base, Hi)
    <2>1. g \in Index /\ g = IF Hi >= Base THEN Hi - Base ELSE Hi - Base + Word
      BY <1>1, ConstantFacts, SMT DEF Gap, Index
    <2> HIDE DEF g
    <2>2. PICK d \in Int : Beyond - First = Word * d + g
      <3>1. \/ Beyond - First = Word * (m - k) + g
            \/ Beyond - First = Word * (m - k - 1) + g
        BY <1>1, <1>2, <1>3, <2>1, ConstantFacts, SMT DEF Index
      <3> QED BY <3>1, SMT
    <2>3. Beyond - First \in Int
      BY <1>1, <1>2, <1>3, ConstantFacts, SMT DEF Index
    <2>4. (Beyond - First) % Word = g
      BY <2>1, <2>2, <2>3, SameIndex
    <2> QED BY <2>4 DEF g
  <1>5. ASSUME NEW i \in 1 .. Gap(Base, Hi)
        PROVE  (First + i - 1) % Word = WrappingAdd(Base, i - 1)
    <2> DEFINE w == WrappingAdd(Base, i - 1)
    <2>1. i - 1 \in 0 .. Capacity
      <3> HIDE DEF Gap
      <3> QED BY <1>1, ConstantFacts, SMT
    <2>2. w \in Index /\ w = IF Base + (i - 1) < Word THEN Base + (i - 1) ELSE Base + (i - 1) - Word
      BY <1>1, <2>1, WrapNear
    <2> HIDE DEF w
    <2>3. PICK d \in Int : First + i - 1 = Word * d + w
      <3>1. First + i - 1 = Word * k + w \/ First + i - 1 = Word * (k + 1) + w
        BY <1>1, <1>2, <2>1, <2>2, ConstantFacts, SMT DEF Index
      <3> QED BY <3>1, SMT
    <2>4. First + i - 1 \in Int
      BY <1>1, <1>2, <2>1, ConstantFacts, SMT DEF Index
    <2>5. (First + i - 1) % Word = w
      BY <2>2, <2>3, <2>4, SameIndex
    <2> QED BY <2>5 DEF w
  <1> HIDE DEF Gap, WrappingAdd, Slot
  <1> QED BY <1>4, <1>5 DEF Items, Stretch

(* A step that moves no end of the queue and leaves the values alone.          *)
LEMMA SameItems ==
  ASSUME IInv, IInv', Base' = Base, Hi' = Hi, value' = value
  PROVE  Items' = Items
  <1>1. Items = Stretch(Base, Gap(Base, Hi), value)
    BY ItemsAre
  <1>2. (Items = Stretch(Base, Gap(Base, Hi), value))'
    BY ItemsAre, PTL
  <1>3. (Stretch(Base, Gap(Base, Hi), value))' = Stretch(Base, Gap(Base, Hi), value)
    BY DEF Stretch, Gap
  <1> QED BY <1>1, <1>2, <1>3

(* try_push stores the flag: the value enters the queue.                       *)
LEMMA PublishIsPush ==
  ASSUME IInv, IInv', PushPublish
  PROVE  \E v \in Values : Fifo!Push(v)
  <1> USE IInvFacts
  <1> DEFINE V == Values \cup {NoValue}
             n == Gap(Base, Hi)
             v == value[Slot(tail)]
  <1>1. /\ Hi = tail /\ Hi' = WrappingAdd(Hi, 1) /\ Base' = Base /\ UNCHANGED <<value, got>>
        /\ Gap(Hi, limit) >= 1 /\ v \in Values
    BY DEF PushPublish, Hi, Base, IInv, LimitOK, ValuesOK, consVars, lifeVars
  <1>2. Base \in Index /\ n \in 0 .. Capacity /\ n <= Gap(Lo, Hi)
    <2>1. Base \in Index /\ n \in 0 .. Capacity
      BY BaseFacts
    <2>2. n = Gap(Lo, Hi) \/ n = Gap(Lo, Hi) - 1
      BY BaseFacts
    <2> HIDE DEF n, Gap, Lo, Hi
    <2> QED BY <2>1, <2>2, ConstantFacts, SMT
  <1>3. n \in 0 .. (Capacity - 1)
    <2> HIDE DEF n, Gap, Lo, Hi
    <2> QED BY <1>1, <1>2, ConstantFacts, SMT DEF IInv, LimitOK
  <1>4. Gap(Base, Hi)' = n + 1
    <2>1. Hi' = IF Hi + 1 < Word THEN Hi + 1 ELSE 0
      BY <1>1, SlotNear
    <2>2. Gap(Base, Hi') = Gap(Base, Hi) + 1
      <3> HIDE DEF Base, Hi
      <3> QED BY <1>2, <1>3, <2>1, ConstantFacts, SMT DEF Gap, Index
    <2> QED BY <1>1, <2>2 DEF Gap
  <1>5. Items = Stretch(Base, n, value)
    BY ItemsAre
  <1>6. Items' = Stretch(Base, n + 1, value)
    <2>1. (Items = Stretch(Base, Gap(Base, Hi), value))'
      BY ItemsAre, PTL
    <2> QED BY <1>1, <1>4, <2>1 DEF Stretch
  <1>7. WrappingAdd(Base, n) = tail
    BY <1>1, <1>2, GapReaches, ConstantFacts, SMT
  <1>8. /\ Stretch(Base, n + 1, value) = Append(Stretch(Base, n, value), v)
        /\ Len(Stretch(Base, n, value)) = n
    <2>1. value \in [Slots -> V]
      OBVIOUS
    <2> HIDE DEF n, Stretch, Base, V, WrappingAdd, Slot
    <2>2. Stretch(Base, n + 1, value) = Append(Stretch(Base, n, value), value[Slot(WrappingAdd(Base, n))])
      BY ONLY <1>2, <1>3, <2>1, StretchAppend
    <2>3. Len(Stretch(Base, n, value)) = n
      BY ONLY <1>2, <2>1, StretchIsSeq
    <2> QED BY <1>7, <2>2, <2>3
  <1>9. Len(Items) < Capacity /\ Items' = Append(Items, v) /\ UNCHANGED got
    <2> HIDE DEF n, v, Stretch, Base, Items
    <2> QED BY <1>1, <1>3, <1>5, <1>6, <1>8, ConstantFacts, SMT
  <1> QED BY <1>1, <1>9 DEF Fifo!Push

(* try_pop reads the value: it leaves the queue, which it was the head of.     *)
LEMMA ReadIsPop ==
  ASSUME IInv, IInv', PopRead
  PROVE  Fifo!Pop
  <1> USE IInvFacts
  <1> DEFINE V == Values \cup {NoValue}
             n == Gap(head, Hi)
  <1>1. /\ Base = head /\ Lo = head /\ Base' = WrappingAdd(head, 1) /\ Hi' = Hi
        /\ n \in 1 .. Capacity
        /\ got' = value[Slot(head)] /\ value' = [value EXCEPT ![Slot(head)] = NoValue]
    <2>1. /\ Base = head /\ Lo = head /\ Base' = WrappingAdd(head, 1) /\ Hi' = Hi /\ n > 0
          /\ got' = value[Slot(head)] /\ value' = [value EXCEPT ![Slot(head)] = NoValue]
      BY DEF PopRead, Base, Lo, Hi, IInv, prodVars, lifeVars
    <2> HIDE DEF Gap, Lo, Hi
    <2> QED BY <2>1, ConstantFacts, SMT
  <1>2. Gap(Base, Hi)' = n - 1 /\ Base' \in Index
    <2>1. Base' = (IF head + 1 < Word THEN head + 1 ELSE 0) /\ Base' \in Index
      BY <1>1, SlotNear
    <2>2. Gap(Base', Hi) = n - 1
      <3> HIDE DEF Base, Hi
      <3> QED BY <1>1, <2>1, ConstantFacts, SMT DEF Gap, Index
    <2> QED BY <1>1, <2>1, <2>2 DEF Gap
  <1>3. Items = Stretch(head, n, value)
    BY <1>1, ItemsAre
  <1>4. Items' = Stretch(WrappingAdd(head, 1), n - 1, value')
    <2>1. (Items = Stretch(Base, Gap(Base, Hi), value))'
      BY ItemsAre, PTL
    <2> QED BY <1>1, <1>2, <2>1 DEF Stretch
  <1>5. value \in [Slots -> V] /\ value' \in [Slots -> V]
    BY DEF IInv, TypeOK
  <1>6. \A j \in 0 .. ((n - 1) - 1) :
          value'[Slot(WrappingAdd(WrappingAdd(head, 1), j))]
            = value[Slot(WrappingAdd(WrappingAdd(head, 1), j))]
    <2> SUFFICES ASSUME NEW j \in 0 .. ((n - 1) - 1)
                 PROVE  value'[Slot(WrappingAdd(WrappingAdd(head, 1), j))]
                          = value[Slot(WrappingAdd(WrappingAdd(head, 1), j))]
      OBVIOUS
    <2>1. j + 1 \in 0 .. (n - 1) /\ j + 1 > 0 /\ j \in 0 .. (Capacity - 1)
      <3> HIDE DEF n
      <3> QED BY <1>1, ConstantFacts, SMT
    <2>2. /\ Slot(WrappingAdd(head, j + 1)) \in Slots
          /\ Slot(WrappingAdd(head, j + 1)) # Slot(head)
      BY <1>1, <2>1, StretchSlots DEF IInv
    <2>3. WrappingAdd(WrappingAdd(head, 1), j) = WrappingAdd(head, j + 1)
      BY <2>1, AddTwice
    <2> HIDE DEF WrappingAdd, Slot
    <2> QED BY <1>1, <2>2, <2>3
  <1>7. Stretch(WrappingAdd(head, 1), n - 1, value') = Stretch(WrappingAdd(head, 1), n - 1, value)
    <2>1. WrappingAdd(head, 1) \in Index /\ n - 1 \in 0 .. Capacity
      <3> HIDE DEF n
      <3>1. n - 1 \in 0 .. Capacity
        BY <1>1, ConstantFacts, SMT
      <3> QED BY <3>1, SlotNear
    <2> HIDE DEF n, Stretch, WrappingAdd, Slot, V
    <2> QED BY ONLY <1>5, <1>6, <2>1, StretchSame
  <1>8. /\ Stretch(head, n, value) # <<>>
        /\ Head(Stretch(head, n, value)) = value[Slot(head)]
        /\ Tail(Stretch(head, n, value)) = Stretch(WrappingAdd(head, 1), n - 1, value)
    <2>1. head \in Index
      OBVIOUS
    <2> HIDE DEF n, Stretch, V, WrappingAdd, Slot
    <2> QED BY ONLY <1>1, <1>5, <2>1, StretchTail
  <1> HIDE DEF Stretch, Items, n
  <1> QED BY <1>1, <1>3, <1>4, <1>7, <1>8 DEF Fifo!Pop

(* try_push writes the slot at tail, which is outside the queue.               *)
LEMMA WriteIsUnseen ==
  ASSUME IInv, IInv', PushWrite
  PROVE  Items' = Items
  <1> USE IInvFacts
  <1> DEFINE V == Values \cup {NoValue}
             n == Gap(Base, Hi)
  <1>1. /\ Hi = tail /\ Hi' = Hi /\ Base' = Base /\ value' = [value EXCEPT ![Slot(tail)] = arg]
        /\ Gap(Hi, limit) >= 1
    BY DEF PushWrite, Hi, Base, IInv, LimitOK, consVars, lifeVars
  <1>2. ~hasValue[Slot(tail)]
    <2>1. Gap(Lo, Hi) # Capacity
      <3> HIDE DEF Gap, Lo, Hi
      <3> QED BY <1>1, ConstantFacts, SMT DEF IInv, LimitOK
    <2> QED BY <1>1, <2>1
  <1>3. Base \in Index /\ n \in 0 .. Capacity
    BY BaseFacts
  <1>4. ASSUME NEW j \in 0 .. (n - 1)
        PROVE  hasValue[Slot(WrappingAdd(Base, j))] /\ Slot(WrappingAdd(Base, j)) \in Slots
    <2>1. CASE consumerPc # "clear"
      <3>1. Base = Lo
        BY <2>1, BaseFacts
      <3> QED BY <1>4, <3>1, StretchSlots DEF IInv
    <2>2. CASE consumerPc = "clear"
      <3>1. Base = WrappingAdd(Lo, 1) /\ n = Gap(Lo, Hi) - 1
        BY <2>2, BaseFacts
      <3>2. j + 1 \in 0 .. (Gap(Lo, Hi) - 1) /\ j \in 0 .. (Capacity - 1)
        <4> HIDE DEF n, Gap, Lo, Hi
        <4> QED BY <1>3, <1>4, <3>1, ConstantFacts, SMT
      <3>3. WrappingAdd(Base, j) = WrappingAdd(Lo, j + 1)
        BY <3>1, <3>2, AddTwice
      <3> QED BY <3>2, <3>3, StretchSlots DEF IInv
    <2> QED BY <2>1, <2>2
  <1>5. \A j \in 0 .. (n - 1) : value'[Slot(WrappingAdd(Base, j))] = value[Slot(WrappingAdd(Base, j))]
    <2> HIDE DEF n, Base, WrappingAdd, Slot
    <2> QED BY <1>1, <1>2, <1>4
  <1>6. value \in [Slots -> V] /\ value' \in [Slots -> V]
    BY DEF IInv, TypeOK
  <1>7. Stretch(Base, n, value') = Stretch(Base, n, value)
    <2> HIDE DEF n, Base, Stretch, WrappingAdd, Slot, V
    <2> QED BY ONLY <1>3, <1>5, <1>6, StretchSame
  <1>8. Items = Stretch(Base, n, value)
    BY ItemsAre
  <1>9. Items' = Stretch(Base, n, value')
    <2>1. (Items = Stretch(Base, Gap(Base, Hi), value))'
      BY ItemsAre, PTL
    <2> QED BY <1>1, <2>1 DEF Stretch, Gap
  <1> QED BY <1>7, <1>8, <1>9

(* Every step of the ring is a push, a pop or no step of the queue.            *)
LEMMA FifoStep ==
  ASSUME IInv, IInv', [Next]_vars
  PROVE  [Fifo!Next]_(Fifo!vars)
  <1> USE DEF prodVars, consVars, slotVars, lifeVars
  <1>1. CASE PushPublish
    BY <1>1, PublishIsPush DEF Fifo!Next
  <1>2. CASE PopRead
    BY <1>2, ReadIsPop DEF Fifo!Next
  <1>3. CASE PushWrite
    BY <1>3, WriteIsUnseen DEF Fifo!vars, PushWrite
  <1>4. ASSUME Base' = Base, Hi' = Hi, value' = value, got' = got
        PROVE  UNCHANGED Fifo!vars
    BY <1>4, SameItems DEF Fifo!vars
  <1>5. CASE PushRefused \/ (\E v \in Values : PushStart(v)) \/ PushLook \/ PushRecheck \/ SeeRoom
    BY <1>4, <1>5 DEF PushRefused, PushStart, PushLook, PushRecheck, SeeRoom, Base, Hi
  <1>6. CASE PushAdvance
    BY <1>4, <1>6 DEF PushAdvance, Base, Hi
  <1>7. CASE PopStart \/ PopClear
    BY <1>4, <1>7 DEF PopStart, PopClear, Base, Hi
  <1>8. CASE PopAdvance
    BY <1>4, <1>8 DEF PopAdvance, Base, Hi
  <1>9. CASE FreeBuffer \/ ConnectProducer \/ ConnectConsumer \/ DisconnectProducer
             \/ DisconnectConsumer \/ DropProducer \/ DropConsumer
    BY <1>4, <1>9 DEF FreeBuffer, ConnectProducer, ConnectConsumer, DisconnectProducer,
       DisconnectConsumer, DropProducer, DropConsumer, Base, Hi
  <1>10. CASE UNCHANGED vars
    BY <1>4, <1>10 DEF vars, Base, Hi
  <1> QED BY <1>1, <1>2, <1>3, <1>5, <1>6, <1>7, <1>8, <1>9, <1>10
          DEF Next, Producer, Consumer, PopStep

(* The empty ring is the empty queue.                                          *)
LEMMA FifoInit == Init => Fifo!Init
  <1> SUFFICES ASSUME Init PROVE Fifo!Init
    OBVIOUS
  <1>1. First = InitialValue /\ Beyond = InitialValue /\ got = NoValue
    BY DEF Init, First, Beyond
  <1>2. InitialValue \in Int /\ InitialValue - InitialValue = Word * 0 + 0 /\ 0 \in Index
    BY InitialAssumption, ConstantFacts, SMT DEF Index
  <1>3. (Beyond - First) % Word = 0
    BY <1>1, <1>2, SameIndex, SMT
  <1>4. Items = <<>>
    BY <1>3 DEF Items
  <1> QED BY <1>1, <1>4 DEF Fifo!Init

(* The ring implements the bounded first-in first-out queue: for every         *)
(* capacity, word and interleaving of try_push and try_pop, values come out    *)
(* once, in the order in which they went in, and never more than Capacity wait.*)
THEOREM RingIsFifo == Spec => ImplementsFifo
  <1>1. Spec => []IInv
    BY Invariance
  <1>2. IInv /\ IInv' /\ [Next]_vars => [Fifo!Next]_(Fifo!vars)
    BY FifoStep
  <1> QED BY <1>1, <1>2, FifoInit, PTL DEF Spec, ImplementsFifo, Fifo!Spec
==================================================================================
