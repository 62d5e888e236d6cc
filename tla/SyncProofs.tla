-------------------------------- MODULE SyncProofs --------------------------------
(* Proofs about the primitives of sync/, the local channel and the tasks of an  *)
(* executor.  The semaphore's module is extended; each of the others is an      *)
(* instance, with its variables under their names.                              *)
EXTENDS MCSync, WaitListProofs, TLAPS

----------------------------------------------------------------------------------
(* The semaphore: process_wakes.                                                *)

(* What is left, waiter by waiter.                                              *)
LEMMA LeftSteps ==
  ASSUME NEW n
  PROVE  \/ waiters \notin Seq(Tasks)
         \/ /\ Left(n)[0] = n
            /\ \A i \in 1 .. Len(waiters) :
                 Left(n)[i] = IF units[waiters[i]] <= Left(n)[i - 1]
                              THEN Left(n)[i - 1] - units[waiters[i]]
                              ELSE Left(n)[i - 1]
<1>. SUFFICES ASSUME waiters \in Seq(Tasks)
              PROVE  /\ Left(n)[0] = n
                     /\ \A i \in 1 .. Len(waiters) :
                          Left(n)[i] = IF units[waiters[i]] <= Left(n)[i - 1]
                                       THEN Left(n)[i - 1] - units[waiters[i]]
                                       ELSE Left(n)[i - 1]
  OBVIOUS
<1>0. Len(waiters) \in Nat
  OBVIOUS
<1>. DEFINE Step(i, v) == IF units[waiters[i]] <= v THEN v - units[waiters[i]] ELSE v
            Upto(f, m) == f[0] = n /\ \A i \in 1 .. m : f[i] = Step(i, f[i - 1])
            P == {m \in 0 .. Len(waiters) : \E f : Upto(f, m)}
<1>1. 0 \in P
  <2>. DEFINE f == [i \in {0} |-> n]
  <2>1. f[0] = n /\ 1 .. 0 = {}
    OBVIOUS
  <2>2. Upto(f, 0)
    BY <2>1
  <2>3. 0 \in 0 .. Len(waiters)
    BY <1>0
  <2>. QED
    BY <2>2, <2>3
<1>2. ASSUME NEW m \in 0 .. Len(waiters) - 1, m \in P
      PROVE  m + 1 \in P
  <2>1. PICK f : Upto(f, m)
    BY <1>2
  <2>. DEFINE g == [i \in 0 .. m + 1 |-> IF i <= m THEN f[i] ELSE Step(m + 1, f[m])]
  <2>. HIDE DEF Step
  <2>2. g[m + 1] = Step(m + 1, f[m]) /\ \A i \in 0 .. m : g[i] = f[i]
    BY <1>0
  <2>. HIDE DEF g
  <2>3. ASSUME NEW i \in 1 .. m + 1
        PROVE  g[i] = Step(i, g[i - 1])
    <3>1. CASE i = m + 1
      <4>1. g[i] = Step(m + 1, f[m]) /\ g[i - 1] = f[m]
        BY <1>0, <2>2, <3>1
      <4>. QED
        BY <3>1, <4>1
    <3>2. CASE i # m + 1
      <4>1. i \in 1 .. m /\ g[i] = f[i] /\ g[i - 1] = f[i - 1]
        BY <1>0, <2>2, <3>2
      <4>. QED
        BY <2>1, <4>1
    <3>. QED
      BY <3>1, <3>2
  <2>4. Upto(g, m + 1)
    BY <1>0, <2>1, <2>2, <2>3
  <2>5. m + 1 \in 0 .. Len(waiters)
    BY <1>0
  <2>. QED
    BY <2>4, <2>5
<1>3. 0 .. Len(waiters) \subseteq P
  <2>. HIDE DEF P
  <2>. QED
    BY <1>0, <1>1, <1>2, InductionUpTo
<1>4. PICK f : Upto(f, Len(waiters))
  BY <1>0, <1>3
<1>. DEFINE g == [i \in 0 .. Len(waiters) |-> f[i]]
<1>5. \A i \in 0 .. Len(waiters) : g[i] = f[i]
  OBVIOUS
<1>6. \A i \in 0 .. Len(waiters) :
        f[i] = IF i = 0 THEN n
               ELSE IF units[waiters[i]] <= g[i - 1] THEN g[i - 1] - units[waiters[i]]
               ELSE g[i - 1]
  <2>. SUFFICES ASSUME NEW i \in 0 .. Len(waiters), i # 0
                PROVE  f[i] = Step(i, g[i - 1])
    BY <1>4
  <2>1. i \in 1 .. Len(waiters) /\ g[i - 1] = f[i - 1]
    BY <1>0, <1>5
  <2>. HIDE DEF Step
  <2>. QED
    BY <1>4, <2>1
<1>7. g = [i \in 0 .. Len(waiters) |->
             IF i = 0 THEN n
             ELSE IF units[waiters[i]] <= g[i - 1] THEN g[i - 1] - units[waiters[i]]
             ELSE g[i - 1]]
  BY <1>6, Zenon
<1>. HIDE DEF g
<1>. DEFINE L == Left(n)
<1>8. L = [i \in 0 .. Len(waiters) |->
             IF i = 0 THEN n
             ELSE IF units[waiters[i]] <= L[i - 1] THEN L[i - 1] - units[waiters[i]]
             ELSE L[i - 1]]
  BY <1>7 DEF Left
<1>. HIDE DEF L
<1>9. \A i \in 0 .. Len(waiters) :
        L[i] = IF i = 0 THEN n
               ELSE IF units[waiters[i]] <= L[i - 1] THEN L[i - 1] - units[waiters[i]]
               ELSE L[i - 1]
  BY <1>8, Zenon
<1>10. 0 \in 0 .. Len(waiters) /\ \A i \in 1 .. Len(waiters) : i \in 0 .. Len(waiters) /\ i # 0
  BY <1>0
<1>11. L[0] = n /\ \A i \in 1 .. Len(waiters) :
         L[i] = IF units[waiters[i]] <= L[i - 1] THEN L[i - 1] - units[waiters[i]] ELSE L[i - 1]
  BY <1>9, <1>10, Zenon
<1>. QED
  BY <1>11, Zenon DEF L

(* The waiters that are woken want no more than n units together, and what they *)
(* leave is not enough for any that stays in the list.                          *)
LEMMA FitFacts ==
  ASSUME waiters \in Seq(Tasks), Distinct(waiters), units \in [Tasks -> Nat], NEW n \in Nat
  PROVE  /\ Fit(n) \subseteq Members(waiters)
         /\ \E rest \in Nat : /\ Cardinality(Pairs(Fit(n), units)) + rest = n
                              /\ \A t \in Members(waiters) \ Fit(n) : units[t] > rest
<1>. DEFINE L == Left(n)
            Fits(j) == units[waiters[j]] <= L[j - 1]
            C(m) == {waiters[j] : j \in {i \in 1 .. m : Fits(i)}}
            P == {m \in 0 .. Len(waiters) :
                    /\ L[m] \in Nat
                    /\ Cardinality(Pairs(C(m), units)) + L[m] = n
                    /\ \A j \in 1 .. m : ~Fits(j) => units[waiters[j]] > L[m]}
<1>0. /\ L[0] = n
      /\ \A i \in 1 .. Len(waiters) :
           L[i] = IF Fits(i) THEN L[i - 1] - units[waiters[i]] ELSE L[i - 1]
  BY LeftSteps
<1>. HIDE DEF L
<1>1. \A m \in 0 .. Len(waiters) : C(m) \in SUBSET Tasks
  OBVIOUS
<1>2. 0 \in P
  <2>1. C(0) = {} /\ Pairs({}, units) = {}
    BY DEF Pairs
  <2>2. Cardinality({}) = 0
    BY FS_EmptySet
  <2>3. Cardinality(Pairs(C(0), units)) = 0
    BY <2>1, <2>2
  <2>4. 0 \in 0 .. Len(waiters) /\ L[0] \in Nat /\ 0 + L[0] = n
    BY <1>0
  <2>. QED
    BY <2>3, <2>4
<1>3. ASSUME NEW m \in 0 .. Len(waiters) - 1, m \in P
      PROVE  m + 1 \in P
  <2>. DEFINE t == waiters[m + 1]
  <2>0. /\ L[m] \in Nat /\ Cardinality(Pairs(C(m), units)) + L[m] = n
        /\ \A j \in 1 .. m : ~Fits(j) => units[waiters[j]] > L[m]
        /\ m + 1 \in 1 .. Len(waiters) /\ m + 1 - 1 = m /\ t \in Tasks /\ units[t] \in Nat
        /\ C(m) \in SUBSET Tasks /\ m \in Nat
    BY <1>1, <1>3
  <2>1. L[m + 1] = IF Fits(m + 1) THEN L[m] - units[t] ELSE L[m]
    BY <1>0, <2>0
  <2>2. CASE Fits(m + 1)
    <3>1. C(m + 1) = C(m) \cup {t}
      <4>. HIDE DEF Fits
      <4>1. {i \in 1 .. m + 1 : Fits(i)} = {i \in 1 .. m : Fits(i)} \cup {m + 1}
        BY <2>0, <2>2
      <4>. QED
        BY <4>1
    <3>2. t \notin C(m)
      BY <2>0 DEF Distinct
    <3>3. Cardinality(Pairs(C(m + 1), units)) = Cardinality(Pairs(C(m), units)) + units[t]
      <4>. HIDE DEF C, t
      <4>. QED
        BY <2>0, <3>1, <3>2, TasksAssumption, PairsAdd
    <3>4. Cardinality(Pairs(C(m), units)) \in Nat
      <4>. HIDE DEF C
      <4>. QED
        BY <2>0, TasksAssumption, PairsFinite
    <3>5. units[t] <= L[m] /\ L[m + 1] = L[m] - units[t]
      BY <2>0, <2>1, <2>2
    <3>6. \A j \in 1 .. m + 1 : ~Fits(j) => j \in 1 .. m
      BY <2>0, <2>2
    <3>7. L[m + 1] \in Nat /\ Cardinality(Pairs(C(m + 1), units)) + L[m + 1] = n
      <4>. HIDE DEF C, t
      <4>. QED
        BY <2>0, <3>3, <3>4, <3>5
    <3>8. \A j \in 1 .. m + 1 : ~Fits(j) => units[waiters[j]] > L[m + 1]
      <4>. SUFFICES ASSUME NEW j \in 1 .. m + 1, ~Fits(j) PROVE units[waiters[j]] > L[m + 1]
        OBVIOUS
      <4>1. j \in 1 .. m /\ units[waiters[j]] > L[m] /\ units[waiters[j]] \in Nat
        BY <2>0, <3>6, SMTT(60)
      <4>. HIDE DEF t
      <4>. QED
        BY <2>0, <3>5, <4>1
    <3>. QED
      BY <2>0, <3>7, <3>8
  <2>3. CASE ~Fits(m + 1)
    <3>1. C(m + 1) = C(m)
      BY <2>0, <2>3
    <3>2. L[m + 1] = L[m] /\ units[t] > L[m]
      BY <2>0, <2>1, <2>3
    <3>3. \A j \in 1 .. m + 1 : ~Fits(j) => units[waiters[j]] > L[m + 1]
      BY <2>0, <3>2
    <3>4. L[m + 1] \in Nat /\ Cardinality(Pairs(C(m + 1), units)) + L[m + 1] = n /\ m + 1 \in 0 .. Len(waiters)
      <4>. HIDE DEF C
      <4>. QED
        BY <2>0, <3>1, <3>2
    <3>. HIDE DEF C, Fits
    <3>. QED
      BY <3>3, <3>4
  <2>. HIDE DEF P
  <2>. QED
    BY <2>2, <2>3
<1>4. 0 .. Len(waiters) \subseteq P
  <2>1. Len(waiters) \in Nat
    OBVIOUS
  <2>. HIDE DEF P
  <2>2. \A m \in 0 .. Len(waiters) - 1 : m \in P => m + 1 \in P
    BY <1>3
  <2>. QED
    BY ONLY <1>2, <2>1, <2>2, InductionUpTo
<1>5. Len(waiters) \in P
  <2>1. Len(waiters) \in 0 .. Len(waiters)
    OBVIOUS
  <2>. HIDE DEF P
  <2>. QED
    BY <1>4, <2>1
<1>6. Fit(n) = C(Len(waiters))
  BY DEF Fit, L
<1>7. /\ L[Len(waiters)] \in Nat /\ Cardinality(Pairs(Fit(n), units)) + L[Len(waiters)] = n
  BY <1>5, <1>6
<1>8. \A t \in Members(waiters) \ Fit(n) : units[t] > L[Len(waiters)]
  BY <1>5, <1>6 DEF Members
<1>9. Fit(n) \subseteq Members(waiters)
  BY <1>6 DEF Members
<1>. QED
  BY <1>7, <1>8, <1>9

----------------------------------------------------------------------------------
(* The inductive invariant.                                                     *)

Types ==
  /\ avail \in Nat /\ total \in Nat /\ closed \in BOOLEAN /\ amounts \in Workloads
  /\ phase \in [Tasks -> {"idle", "waiting", "holding"}] /\ units \in [Tasks -> Nat]
  /\ woken \in [Tasks -> BOOLEAN] /\ ready \in [Tasks -> BOOLEAN]

Woken == {t \in Tasks : woken[t] = TRUE}

(* A waiter is in the list at most once, and not if it was woken; a closed      *)
(* semaphore has no list.                                                       *)
List ==
  /\ waiters \in Seq(Tasks) /\ Distinct(waiters)
  /\ \A t \in Members(waiters) : phase[t] = "waiting" /\ woken[t] = FALSE
  /\ \A t \in Woken : phase[t] = "waiting"
  /\ closed => waiters = <<>>
  /\ \A t \in Tasks : phase[t] # "idle" => units[t] \in amounts

(* Units are conserved.                                                         *)
Conserved == avail + Cardinality(Pairs(Holding, units)) = total

(* When all requests are alike, what the woken waiters leave is not enough for  *)
(* one in the list.                                                             *)
Busy ==
  (\E n : amounts = {n}) =>
    \A t \in Members(waiters) : avail < Cardinality(Pairs(Woken, units)) + units[t]

IInv == Types /\ List /\ Conserved /\ Busy

(* Whoever the front of the list is looked at for, with the units there are:    *)
(* those that fit are woken and unlinked, together with the waiters of gone.    *)
LEMMA WakesEnough ==
  ASSUME Types, List, avail' \in Nat, NEW gone,
         waiters' = Without(waiters, Fit(avail') \cup gone),
         Fit(avail') \subseteq Woken', Woken' \subseteq Tasks,
         UNCHANGED <<units, amounts>>
  PROVE  /\ waiters' \in Seq(Tasks) /\ Distinct(waiters')
         /\ Members(waiters') = Members(waiters) \ (Fit(avail') \cup gone)
         /\ Busy'
<1>. DEFINE C == Fit(avail')
            n == avail'
<1>0. /\ waiters \in Seq(Tasks) /\ Distinct(waiters) /\ units \in [Tasks -> Nat] /\ n \in Nat
      /\ Members(waiters) \subseteq Tasks
  BY MembersEmpty DEF List, Types
<1>1. /\ waiters' \in Seq(Tasks) /\ Distinct(waiters')
      /\ Members(waiters') = Members(waiters) \ (C \cup gone)
  <2>. DEFINE w == Without(waiters, C \cup gone)
  <2>1. w \in Seq(Tasks) /\ Distinct(w) /\ Members(w) = Members(waiters) \ (C \cup gone)
    <3>. HIDE DEF C
    <3>. QED
      BY <1>0, WithoutFacts
  <2>. QED
    BY <2>1
<1>2. /\ C \subseteq Members(waiters)
      /\ \E rest \in Nat : /\ Cardinality(Pairs(C, units)) + rest = n
                           /\ \A t \in Members(waiters) \ C : units[t] > rest
  <2>1. \A m \in Nat :
          /\ Fit(m) \subseteq Members(waiters)
          /\ \E rest \in Nat : /\ Cardinality(Pairs(Fit(m), units)) + rest = m
                               /\ \A t \in Members(waiters) \ Fit(m) : units[t] > rest
    BY <1>0, FitFacts
  <2>. QED
    BY <1>0, <2>1
<1>3. PICK rest \in Nat : /\ Cardinality(Pairs(C, units)) + rest = n
                          /\ \A t \in Members(waiters) \ C : units[t] > rest
  BY <1>2
<1>. HIDE DEF C
<1>4. /\ Cardinality(Pairs(C, units)) <= Cardinality(Pairs(Woken', units))
      /\ Cardinality(Pairs(C, units)) \in Nat /\ Cardinality(Pairs(Woken', units)) \in Nat
  <2>1. C \subseteq Woken' /\ Woken' \in SUBSET Tasks /\ C \in SUBSET Tasks
    BY <1>0, <1>2 DEF C
  <2>. DEFINE W == Woken'
  <2>. HIDE DEF W
  <2>2. /\ Cardinality(Pairs(C, units)) <= Cardinality(Pairs(W, units))
        /\ Cardinality(Pairs(C, units)) \in Nat /\ Cardinality(Pairs(W, units)) \in Nat
    BY <1>0, <2>1, TasksAssumption, PairsMore, PairsFinite DEF W
  <2>. QED
    BY <2>2 DEF W
<1>5. ASSUME NEW t \in Members(waiters')
      PROVE  avail' < Cardinality(Pairs(Woken', units)) + units[t]
  <2>1. t \in Members(waiters) \ C /\ t \in Tasks
    BY <1>0, <1>1, <1>5
  <2>2. units[t] > rest /\ units[t] \in Nat
    BY <1>0, <1>3, <2>1
  <2>. QED
    BY <1>0, <1>3, <1>4, <2>2
<1>6. Busy'
  <2>1. \A t \in Members(waiters') : avail' < Cardinality(Pairs(Woken', units')) + units'[t]
    BY <1>5
  <2>. QED
    BY <2>1 DEF Busy
<1>. QED
  BY <1>1, <1>6 DEF C

LEMMA Amounts ==
  ASSUME Types
  PROVE  amounts \subseteq Nat \ {0} /\ IsFiniteSet(amounts)
BY WorkloadsAssumption DEF Types

(* A task takes n units.                                                        *)
LEMMA Takes ==
  ASSUME Types, Conserved, NEW t \in Tasks, phase[t] # "holding", NEW n \in Nat, n <= avail,
         avail' = avail - n, phase' = [phase EXCEPT ![t] = "holding"],
         units' = [units EXCEPT ![t] = n], UNCHANGED total
  PROVE  Conserved' /\ avail' \in Nat
<1>1. Holding' = Holding \cup {t} /\ t \notin Holding /\ Holding \in SUBSET Tasks
  BY DEF Holding, Types
<1>2. units \in [Tasks -> Nat] /\ units' \in [Tasks -> Nat] /\ units'[t] = n /\ avail \in Nat /\ total \in Nat
  BY DEF Types
<1>. DEFINE u == [units EXCEPT ![t] = n]
<1>3. u \in [Tasks -> Nat] /\ u[t] = n /\ Pairs(Holding, u) = Pairs(Holding, units)
  <2>1. u \in [Tasks -> Nat] /\ u[t] = n
    BY <1>2
  <2>2. Pairs(Holding, u) = Pairs(Holding, units)
    <3>1. \A x \in Holding : u[x] = units[x]
      BY <1>1, <1>2
    <3>. HIDE DEF u
    <3>. QED
      BY <3>1 DEF Pairs
  <2>. QED
    BY <2>1, <2>2
<1>. HIDE DEF u
<1>4. Cardinality(Pairs(Holding \cup {t}, u)) = Cardinality(Pairs(Holding, u)) + n
  BY <1>1, <1>3, TasksAssumption, PairsAdd
<1>5. Cardinality(Pairs(Holding, units)) \in Nat /\ avail + Cardinality(Pairs(Holding, units)) = total
  BY <1>1, <1>2, TasksAssumption, PairsFinite DEF Conserved
<1>6. avail' + Cardinality(Pairs(Holding \cup {t}, u)) = total
  BY <1>2, <1>3, <1>4, <1>5
<1>. QED
  BY <1>1, <1>2, <1>6 DEF Conserved, u

(* A task gives its units back.                                                 *)
LEMMA Gives ==
  ASSUME Types, Conserved, NEW t \in Tasks, phase[t] = "holding",
         avail' = avail + units[t], phase' = [phase EXCEPT ![t] = "idle"],
         UNCHANGED <<units, total>>
  PROVE  Conserved' /\ avail' \in Nat
<1>1. Holding' = Holding \ {t} /\ t \in Holding /\ Holding \in SUBSET Tasks
  BY DEF Holding, Types
<1>2. units \in [Tasks -> Nat] /\ units[t] \in Nat /\ avail \in Nat /\ total \in Nat
  BY DEF Types
<1>3. Cardinality(Pairs(Holding, units)) = Cardinality(Pairs(Holding \ {t}, units)) + units[t]
  BY <1>1, <1>2, TasksAssumption, PairsRemove
<1>4. Cardinality(Pairs(Holding \ {t}, units)) \in Nat
  BY <1>1, <1>2, TasksAssumption, PairsFinite
<1>5. avail' + Cardinality(Pairs(Holding \ {t}, units)) = total
  BY <1>2, <1>3, <1>4 DEF Conserved
<1>. QED
  BY <1>1, <1>2, <1>5 DEF Conserved

(* Nobody gets or gives units.                                                  *)
LEMMA Keeps ==
  ASSUME Types, Conserved, NEW t \in Tasks, phase[t] # "holding", NEW p, p # "holding", NEW n,
         phase' = [phase EXCEPT ![t] = p], units' = [units EXCEPT ![t] = n],
         UNCHANGED <<avail, total>>
  PROVE  Conserved'
<1>1. Holding' = Holding /\ t \notin Holding /\ Holding \in SUBSET Tasks
  BY DEF Holding, Types
<1>2. Pairs(Holding, [units EXCEPT ![t] = n]) = Pairs(Holding, units)
  BY <1>1, TasksAssumption, PairsSame, ZenonT(60) DEF Types
<1>. QED
  BY <1>1, <1>2 DEF Conserved

(* Fewer units, or fewer waiters, do not hurt the waiters that stay.            *)
LEMMA BusyStays ==
  ASSUME Types, Busy, Members(waiters') \subseteq Members(waiters), avail' \in Nat, avail' <= avail,
         Members(waiters) \subseteq Tasks,
         Pairs(Woken', units') = Pairs(Woken, units), \A t \in Members(waiters) : units'[t] = units[t],
         UNCHANGED amounts
  PROVE  Busy'
<1>1. Woken \in SUBSET Tasks /\ units \in [Tasks -> Nat] /\ avail \in Nat
  BY DEF Woken, Types
<1>2. Cardinality(Pairs(Woken, units)) \in Nat
  BY <1>1, TasksAssumption, PairsFinite
<1>3. ASSUME NEW n, amounts = {n}, NEW t \in Members(waiters')
      PROVE  avail' < Cardinality(Pairs(Woken', units')) + units'[t]
  <2>1. avail < Cardinality(Pairs(Woken, units)) + units[t] /\ units[t] \in Nat /\ units'[t] = units[t]
    BY <1>1, <1>3 DEF Busy
  <2>. QED
    BY <1>1, <1>2, <2>1
<1>. QED
  BY <1>3 DEF Busy

(* When all requests are alike and there are not enough units for one.          *)
LEMMA BusyShort ==
  ASSUME Types', List', NEW t \in Tasks, phase'[t] # "idle", avail' < units'[t]
  PROVE  Busy'
<1>1. ASSUME NEW n, amounts' = {n}, NEW x \in Members(waiters')
      PROVE  avail' < Cardinality(Pairs(Woken', units')) + units'[x]
  <2>1. Members(waiters') \subseteq Tasks
    BY MembersEmpty DEF List
  <2>2. x \in Tasks /\ phase'[x] = "waiting"
    BY <1>1, <2>1 DEF List
  <2>3. units'[x] = n /\ units'[t] = n
    BY <1>1, <2>2 DEF List
  <2>4. units' \in [Tasks -> Nat] /\ avail' \in Nat /\ Woken' \in SUBSET Tasks /\ n \in Nat
    BY <2>3 DEF Types, Woken
  <2>5. Cardinality(Pairs(Woken', units')) \in Nat
    BY <2>4, TasksAssumption, PairsFinite
  <2>. QED
    BY <2>3, <2>4, <2>5
<1>. QED
  BY <1>1 DEF Busy

LEMMA AcquireKeeps ==
  ASSUME IInv, NEW t \in Tasks, NEW n \in amounts, Acquire(t, n) \/ TryAcquire(t, n)
  PROVE  IInv'
<1>0. /\ Types /\ List /\ Conserved /\ Busy /\ n \in Nat
      /\ phase[t] = "idle" /\ ~closed /\ units' = [units EXCEPT ![t] = n]
      /\ UNCHANGED <<closed, woken, ready, amounts, total>>
      /\ units \in [Tasks -> Nat] /\ avail \in Nat
      /\ waiters \in Seq(Tasks) /\ Distinct(waiters) /\ Members(waiters) \subseteq Tasks
  BY Amounts, MembersEmpty DEF IInv, Types, List, Acquire, TryAcquire
<1>1. t \notin Members(waiters) /\ t \notin Woken /\ Woken' = Woken /\ Woken \in SUBSET Tasks
  BY <1>0 DEF List, Woken
<1>2. Pairs(Woken', units') = Pairs(Woken, units)
  BY <1>0, <1>1, TasksAssumption, PairsSame
<1>3. CASE /\ avail >= n /\ avail' = avail - n /\ phase' = [phase EXCEPT ![t] = "holding"]
           /\ UNCHANGED waiters
  <2>1. Conserved' /\ avail' \in Nat
    BY <1>0, <1>3, Takes
  <2>2. Types'
    BY <1>0, <1>3, <2>1 DEF Types
  <2>3. List'
    BY <1>0, <1>1, <1>3 DEF List, Types
  <2>4. Busy'
    <3>1. \A x \in Members(waiters) : units'[x] = units[x]
      BY <1>0, <1>1
    <3>2. avail' <= avail
      BY <1>0, <1>3
    <3>. QED
      BY <1>0, <1>2, <1>3, <2>1, <3>1, <3>2, BusyStays
  <2>. QED
    BY <2>1, <2>2, <2>3, <2>4 DEF IInv
<1>4. CASE /\ avail < n /\ waiters' = Append(waiters, t) /\ phase' = [phase EXCEPT ![t] = "waiting"]
           /\ UNCHANGED avail
  <2>1. Conserved'
    BY <1>0, <1>4, Keeps
  <2>2. Types'
    BY <1>0, <1>4 DEF Types
  <2>3. /\ waiters' \in Seq(Tasks) /\ Distinct(waiters')
        /\ Members(waiters') = Members(waiters) \cup {t}
    BY <1>0, <1>1, <1>4, AppendFacts
  <2>4. woken[t] = FALSE
    BY <1>0, <1>1 DEF Types, Woken
  <2>5. List'
    BY <1>0, <1>1, <1>4, <2>3, <2>4 DEF List, Types
  <2>6. Busy'
    <3>1. phase'[t] # "idle" /\ avail' < units'[t]
      BY <1>0, <1>4 DEF Types
    <3>. QED
      BY <2>2, <2>5, <3>1, BusyShort
  <2>. QED
    BY <2>1, <2>2, <2>5, <2>6 DEF IInv
<1>. QED
  BY <1>3, <1>4 DEF Acquire, TryAcquire

(* process_wakes after units came back, or were added.                          *)
LEMMA WakesKeep ==
  ASSUME Types, List, NEW n \in Nat, ProcessWakes(n), UNCHANGED <<closed, units, amounts>>,
         phase' \in [Tasks -> {"idle", "waiting", "holding"}],
         \A t \in Tasks : /\ phase[t] = "waiting" => phase'[t] = "waiting"
                          /\ phase'[t] # "idle" => phase[t] # "idle"
  PROVE  List' /\ Busy' /\ woken' \in [Tasks -> BOOLEAN] /\ ready' \in [Tasks -> BOOLEAN]
<1>. DEFINE C == Fit(avail')
<1>0. /\ avail' = avail + n /\ avail' \in Nat /\ waiters' = Without(waiters, C)
      /\ woken' = [t \in Tasks |-> t \in C \/ woken[t]]
      /\ ready' = [t \in Tasks |-> t \in C \/ ready[t]]
  BY DEF ProcessWakes, Types
<1>1. /\ C \subseteq Members(waiters) /\ Members(waiters) \subseteq Tasks
  <2>1. \A m \in Nat : Fit(m) \subseteq Members(waiters)
    BY FitFacts DEF List, Types
  <2>. QED
    BY <1>0, <2>1, MembersEmpty DEF List
<1>2. Woken' = Woken \cup C
  BY <1>0, <1>1 DEF Woken, Types
<1>3. C \cup {} = C /\ Woken' \subseteq Tasks /\ C \subseteq Woken'
  BY <1>1, <1>2 DEF Woken
<1>4. /\ waiters' \in Seq(Tasks) /\ Distinct(waiters')
      /\ Members(waiters') = Members(waiters) \ C
      /\ Busy'
  BY <1>0, <1>3, WakesEnough
<1>5. woken' \in [Tasks -> BOOLEAN] /\ ready' \in [Tasks -> BOOLEAN]
  BY <1>0, Zenon
<1>6. \A x \in Members(waiters') : woken'[x] = FALSE
  BY <1>0, <1>1, <1>4 DEF List
<1>7. closed' => waiters' = <<>>
  <2>1. closed => Members(waiters') = {}
    BY <1>4, MembersEmpty DEF List
  <2>2. Members(waiters') = {} => waiters' = <<>>
    BY <1>4, MembersEmpty
  <2>. QED
    BY <2>1, <2>2
<1>8. List'
  <2>1. \A t \in Members(waiters') : phase'[t] = "waiting"
    BY <1>1, <1>4 DEF List
  <2>2. \A t \in Woken' : phase'[t] = "waiting"
    BY <1>1, <1>2 DEF List, Woken
  <2>3. \A t \in Tasks : phase'[t] # "idle" => units'[t] \in amounts'
    BY DEF List
  <2>. QED
    BY <1>4, <1>6, <1>7, <2>1, <2>2, <2>3 DEF List
<1>. QED
  BY <1>4, <1>5, <1>8

LEMMA ReleaseKeeps ==
  ASSUME IInv, NEW t \in Tasks, Release(t)
  PROVE  IInv'
<1>0. /\ Types /\ List /\ Conserved /\ phase[t] = "holding" /\ phase' = [phase EXCEPT ![t] = "idle"]
      /\ ProcessWakes(units[t]) /\ UNCHANGED <<closed, units, amounts, total>>
      /\ units[t] \in Nat /\ phase \in [Tasks -> {"idle", "waiting", "holding"}]
  BY DEF IInv, Release, Types
<1>1. avail' = avail + units[t]
  BY <1>0 DEF ProcessWakes
<1>2. Conserved' /\ avail' \in Nat
  BY <1>0, <1>1, Gives
<1>3. /\ phase' \in [Tasks -> {"idle", "waiting", "holding"}]
      /\ \A x \in Tasks : /\ phase[x] = "waiting" => phase'[x] = "waiting"
                          /\ phase'[x] # "idle" => phase[x] # "idle"
  BY <1>0
<1>4. List' /\ Busy' /\ woken' \in [Tasks -> BOOLEAN] /\ ready' \in [Tasks -> BOOLEAN]
  BY <1>0, <1>3, WakesKeep
<1>5. Types'
  BY <1>0, <1>2, <1>3, <1>4 DEF Types
<1>. QED
  BY <1>2, <1>4, <1>5 DEF IInv

LEMMA SignalKeeps ==
  ASSUME IInv, NEW n \in amounts, Signal(n)
  PROVE  IInv'
<1>0. /\ Types /\ List /\ Conserved /\ total' = total + n
      /\ ProcessWakes(n) /\ UNCHANGED <<closed, phase, units, amounts>>
      /\ n \in Nat /\ avail \in Nat /\ total \in Nat
  BY Amounts DEF IInv, Signal, Types
<1>1. avail' = avail + n
  BY <1>0 DEF ProcessWakes
<1>2. Conserved' /\ avail' \in Nat
  <2>1. Holding \in SUBSET Tasks /\ units \in [Tasks -> Nat]
    BY <1>0 DEF Holding, Types
  <2>2. Cardinality(Pairs(Holding, units)) \in Nat
    BY <2>1, TasksAssumption, PairsFinite
  <2>3. avail' + Cardinality(Pairs(Holding, units)) = total'
    BY <1>0, <1>1, <2>2 DEF Conserved
  <2>4. Holding' = Holding
    BY <1>0 DEF Holding
  <2>. QED
    BY <1>0, <1>1, <2>3, <2>4 DEF Conserved
<1>3. List' /\ Busy' /\ woken' \in [Tasks -> BOOLEAN] /\ ready' \in [Tasks -> BOOLEAN]
  <2>1. /\ phase' \in [Tasks -> {"idle", "waiting", "holding"}]
        /\ \A x \in Tasks : /\ phase[x] = "waiting" => phase'[x] = "waiting"
                            /\ phase'[x] # "idle" => phase[x] # "idle"
    BY <1>0 DEF Types
  <2>. QED
    BY <1>0, <2>1, WakesKeep
<1>4. Types'
  BY <1>0, <1>2, <1>3 DEF Types
<1>. QED
  BY <1>2, <1>3, <1>4 DEF IInv

LEMMA CloseKeeps ==
  ASSUME IInv, Close
  PROVE  IInv'
<1>0. /\ Types /\ List /\ Conserved /\ closed' = TRUE /\ waiters' = <<>>
      /\ ready' = [t \in Tasks |-> Linked(t) \/ ready[t]]
      /\ UNCHANGED <<avail, phase, units, woken, amounts, total>>
  BY DEF IInv, Close
<1>1. ready' \in [Tasks -> BOOLEAN]
  BY <1>0, Zenon DEF Linked
<1>2. Members(<<>>) = {} /\ <<>> \in Seq(Tasks) /\ Distinct(<<>>)
  BY DEF Members, Distinct
<1>3. Types' /\ Woken' = Woken /\ Holding' = Holding
  BY <1>0, <1>1 DEF Types, Woken, Holding
<1>4. List'
  BY <1>0, <1>2, <1>3 DEF List
<1>5. Conserved' /\ Busy'
  BY <1>0, <1>2, <1>3 DEF Conserved, Busy
<1>. QED
  BY <1>3, <1>4, <1>5 DEF IInv

LEMMA DropKeeps ==
  ASSUME IInv, NEW t \in Tasks, DropWaiter(t)
  PROVE  IInv'
<1>. DEFINE C == IF woken[t] THEN Fit(avail) ELSE {}
<1>0. /\ Types /\ List /\ Conserved /\ Busy
      /\ phase[t] = "waiting" /\ phase' = [phase EXCEPT ![t] = "idle"]
      /\ waiters' = Without(waiters, C \cup {t})
      /\ woken' = [x \in Tasks |-> x # t /\ (x \in C \/ woken[x])]
      /\ ready' = [x \in Tasks |-> x # t /\ (x \in C \/ ready[x])]
      /\ UNCHANGED <<avail, closed, units, amounts, total>>
  BY DEF IInv, DropWaiter
<1>1. woken' \in [Tasks -> BOOLEAN] /\ ready' \in [Tasks -> BOOLEAN]
  BY <1>0, Zenon
<1>2. Types'
  BY <1>0, <1>1 DEF Types
<1>3. Conserved'
  <2>1. units' = [units EXCEPT ![t] = units[t]]
    BY <1>0 DEF Types
  <2>. QED
    BY <1>0, <2>1, Keeps
<1>4. /\ waiters \in Seq(Tasks) /\ Distinct(waiters) /\ Members(waiters) \subseteq Tasks
      /\ C \subseteq Members(waiters) /\ avail \in Nat
  BY <1>0, FitFacts, MembersEmpty DEF List, Types
<1>5. woken[t] = TRUE => t \notin Members(waiters)
  BY <1>0 DEF List
<1>6. Woken' = (Woken \ {t}) \cup (C \ {t})
  BY <1>0, <1>4 DEF Woken, Types
<1>7. /\ waiters' \in Seq(Tasks) /\ Distinct(waiters')
      /\ Members(waiters') = Members(waiters) \ (C \cup {t})
      /\ Busy'
  <2>1. CASE woken[t] = TRUE
    <3>1. C = Fit(avail') /\ C \subseteq Woken' /\ Woken' \subseteq Tasks
      BY <1>0, <1>4, <1>5, <1>6, <2>1 DEF Woken
    <3>. QED
      BY <1>0, <1>4, <3>1, WakesEnough
  <2>2. CASE woken[t] = FALSE
    <3>1. C = {} /\ Woken' = Woken /\ C \cup {t} = {t}
      BY <1>6, <2>2 DEF Woken
    <3>2. /\ waiters' \in Seq(Tasks) /\ Distinct(waiters')
          /\ Members(waiters') = Members(waiters) \ {t}
      <4>1. waiters' = Without(waiters, {t})
        BY <1>0, <3>1
      <4>2. LET w == Without(waiters, {t})
            IN  w \in Seq(Tasks) /\ Distinct(w) /\ Members(w) = Members(waiters) \ {t}
        BY <1>4, WithoutFacts
      <4>. QED
        BY <4>1, <4>2
    <3>3. Busy'
      <4>0. units' = units /\ amounts' = amounts /\ avail' = avail /\ Types /\ Busy
        BY <1>0
      <4>1. Members(waiters') \subseteq Members(waiters)
        BY <3>2
      <4>2. avail' <= avail /\ avail' \in Nat
        BY <4>0 DEF Types
      <4>3. Pairs(Woken', units') = Pairs(Woken, units)
        BY <3>1, <4>0
      <4>. QED
        BY <1>4, <4>0, <4>1, <4>2, <4>3, BusyStays
    <3>. QED
      BY <3>1, <3>2, <3>3
  <2>. QED
    BY <1>0, <2>1, <2>2 DEF Types
<1>8. List'
  <2>1. \A x \in Members(waiters') : phase'[x] = "waiting" /\ woken'[x] = FALSE
    BY <1>0, <1>4, <1>7 DEF List, Types
  <2>2. \A x \in Woken' : phase'[x] = "waiting"
    BY <1>0, <1>4, <1>6 DEF List, Woken, Types
  <2>3. closed' => waiters' = <<>>
    <3>1. closed => Members(waiters') = {}
      BY <1>0, <1>7, MembersEmpty DEF List
    <3>2. Members(waiters') = {} => waiters' = <<>>
      BY <1>7, MembersEmpty
    <3>. QED
      BY <1>0, <3>1, <3>2
  <2>4. \A x \in Tasks : phase'[x] # "idle" => units'[x] \in amounts'
    BY <1>0 DEF List, Types
  <2>. QED
    BY <1>7, <2>1, <2>2, <2>3, <2>4 DEF List
<1>. QED
  BY <1>2, <1>3, <1>7, <1>8 DEF IInv

LEMMA PollKeeps ==
  ASSUME IInv, NEW t \in Tasks, Poll(t)
  PROVE  IInv'
<1>0. /\ Types /\ List /\ Conserved /\ Busy /\ phase[t] = "waiting"
      /\ woken' = [woken EXCEPT ![t] = FALSE] /\ ready' = [ready EXCEPT ![t] = FALSE]
      /\ UNCHANGED <<closed, units, amounts, total>>
      /\ waiters \in Seq(Tasks) /\ Distinct(waiters) /\ Members(waiters) \subseteq Tasks
      /\ avail \in Nat /\ units \in [Tasks -> Nat] /\ units[t] \in Nat
      /\ phase \in [Tasks -> {"idle", "waiting", "holding"}]
  BY MembersEmpty DEF IInv, Poll, Types, List
<1>1. woken' \in [Tasks -> BOOLEAN] /\ ready' \in [Tasks -> BOOLEAN]
  BY <1>0 DEF Types
<1>2. Woken' = Woken \ {t} /\ Woken \in SUBSET Tasks /\ woken'[t] = FALSE
  BY <1>0 DEF Woken, Types
<1>3. units' = [units EXCEPT ![t] = units[t]]
  BY <1>0
<1>4. /\ Unlink(t) \in Seq(Tasks) /\ Distinct(Unlink(t))
      /\ Members(Unlink(t)) = Members(waiters) \ {t}
  BY <1>0, WithoutFacts DEF Unlink
<1>5. CASE /\ closed /\ phase' = [phase EXCEPT ![t] = "idle"] /\ waiters' = Unlink(t)
           /\ UNCHANGED avail
  <2>1. Conserved'
    BY <1>0, <1>3, <1>5, Keeps
  <2>2. Types'
    BY <1>0, <1>1, <1>5 DEF Types
  <2>3. Members(waiters) = {}
    BY <1>0, <1>5, MembersEmpty DEF List
  <2>4. waiters' \in Seq(Tasks) /\ Distinct(waiters') /\ Members(waiters') = {}
    BY <1>4, <1>5, <2>3
  <2>5. waiters' = <<>>
    BY <2>4, MembersEmpty
  <2>6. \A x \in Woken' : phase'[x] = "waiting"
    BY <1>0, <1>2, <1>5 DEF List
  <2>7. \A x \in Tasks : phase'[x] # "idle" => units'[x] \in amounts'
    BY <1>0, <1>5 DEF List
  <2>8. List'
    BY <2>4, <2>5, <2>6, <2>7 DEF List
  <2>9. Busy'
    BY <2>4 DEF Busy
  <2>. QED
    BY <2>1, <2>2, <2>8, <2>9 DEF IInv
<1>6. CASE /\ ~closed /\ avail >= units[t] /\ phase' = [phase EXCEPT ![t] = "holding"]
           /\ waiters' = Unlink(t) /\ avail' = avail - units[t]
  <2>1. Conserved' /\ avail' \in Nat
    BY <1>0, <1>3, <1>6, Takes
  <2>2. Types'
    BY <1>0, <1>1, <1>6, <2>1 DEF Types
  <2>3. waiters' \in Seq(Tasks) /\ Distinct(waiters') /\ Members(waiters') = Members(waiters) \ {t}
    BY <1>4, <1>6
  <2>4. \A x \in Members(waiters') : phase'[x] = "waiting" /\ woken'[x] = FALSE
    BY <1>0, <1>6, <2>3 DEF List, Types
  <2>5. \A x \in Woken' : phase'[x] = "waiting"
    BY <1>0, <1>2, <1>6 DEF List
  <2>6. \A x \in Tasks : phase'[x] # "idle" => units'[x] \in amounts'
    BY <1>0, <1>6 DEF List
  <2>7. List'
    BY <1>0, <1>6, <2>3, <2>4, <2>5, <2>6 DEF List
  <2>8. ASSUME NEW n, amounts = {n}, NEW x \in Members(waiters')
        PROVE  avail' < Cardinality(Pairs(Woken', units)) + units[x]
    <3>1. avail < Cardinality(Pairs(Woken, units)) + units[x] /\ units[x] \in Nat
      BY <1>0, <2>3, <2>8 DEF Busy
    <3>2. Cardinality(Pairs(Woken \ {t}, units)) \in Nat
      BY <1>0, <1>2, TasksAssumption, PairsFinite
    <3>3. Cardinality(Pairs(Woken, units)) <= Cardinality(Pairs(Woken \ {t}, units)) + units[t]
      <4>1. CASE t \in Woken
        <5>1. Cardinality(Pairs(Woken, units)) = Cardinality(Pairs(Woken \ {t}, units)) + units[t]
          BY <1>0, <1>2, <4>1, TasksAssumption, PairsRemove
        <5>. QED
          BY <1>0, <3>2, <5>1
      <4>2. CASE t \notin Woken
        <5>1. Woken \ {t} = Woken
          BY <4>2
        <5>2. Cardinality(Pairs(Woken, units)) = Cardinality(Pairs(Woken \ {t}, units))
          BY <5>1
        <5>3. units[t] \in Nat
          BY <1>0
        <5>. QED
          BY <3>2, <5>2, <5>3
      <4>. QED
        BY <4>1, <4>2
    <3>4. Cardinality(Pairs(Woken, units)) \in Nat
      BY <1>0, <1>2, TasksAssumption, PairsFinite
    <3>5. avail' < Cardinality(Pairs(Woken \ {t}, units)) + units[x]
      BY <1>0, <1>6, <3>1, <3>2, <3>3, <3>4
    <3>. QED
      BY <1>2, <3>5
  <2>9. Busy'
    BY <1>0, <2>8 DEF Busy
  <2>. QED
    BY <2>1, <2>2, <2>7, <2>9 DEF IInv
<1>7. CASE /\ ~closed /\ avail < units[t]
           /\ waiters' = (IF Linked(t) THEN waiters ELSE Append(waiters, t))
           /\ UNCHANGED <<phase, avail>>
  <2>1. Types' /\ phase' = [phase EXCEPT ![t] = "waiting"]
    BY <1>0, <1>1, <1>7 DEF Types
  <2>2. Conserved'
    <3>1. phase[t] # "holding" /\ UNCHANGED <<avail, total>> /\ "waiting" # "holding"
      BY <1>0, <1>7
    <3>2. Types /\ Conserved
      BY <1>0
    <3>. QED
      BY <1>3, <2>1, <3>1, <3>2, Keeps
  <2>3. waiters' \in Seq(Tasks) /\ Distinct(waiters') /\ Members(waiters') = Members(waiters) \cup {t}
    <3>1. /\ Append(waiters, t) \in Seq(Tasks)
          /\ Members(Append(waiters, t)) = Members(waiters) \cup {t}
          /\ t \notin Members(waiters) => Distinct(Append(waiters, t))
      BY <1>0, AppendFacts
    <3>. QED
      BY <1>0, <1>7, <3>1 DEF Linked
  <2>4. \A x \in Members(waiters') : phase'[x] = "waiting" /\ woken'[x] = FALSE
    BY <1>0, <1>2, <1>7, <2>3 DEF List, Types
  <2>5. \A x \in Woken' : phase'[x] = "waiting"
    BY <1>0, <1>2, <1>7 DEF List
  <2>6. \A x \in Tasks : phase'[x] # "idle" => units'[x] \in amounts'
    BY <1>0, <1>7 DEF List
  <2>7. List'
    BY <1>0, <1>7, <2>3, <2>4, <2>5, <2>6 DEF List
  <2>8. Busy'
    <3>1. phase'[t] # "idle" /\ avail' < units'[t]
      BY <1>0, <1>7
    <3>. QED
      BY <2>1, <2>7, <3>1, BusyShort
  <2>. QED
    BY <2>1, <2>2, <2>7, <2>8 DEF IInv
<1>. QED
  BY <1>5, <1>6, <1>7 DEF Poll

LEMMA InitHolds == Init => IInv
<1>. SUFFICES ASSUME Init PROVE IInv
  OBVIOUS
<1>1. Types
  BY UnitsAssumption DEF Init, Types
<1>2. Members(<<>>) = {} /\ <<>> \in Seq(Tasks) /\ Distinct(<<>>)
  BY DEF Members, Distinct
<1>3. List
  BY <1>2 DEF Init, List, Woken
<1>4. Conserved
  <2>1. Pairs(Holding, units) = {}
    BY DEF Init, Holding, Pairs
  <2>2. Cardinality(Pairs(Holding, units)) = 0
    BY <2>1, FS_EmptySet
  <2>. QED
    BY <2>2, UnitsAssumption DEF Init, Conserved
<1>5. Busy
  BY <1>2 DEF Init, Busy
<1>. QED
  BY <1>1, <1>3, <1>4, <1>5 DEF IInv

LEMMA StepHolds == IInv /\ [Next]_vars => IInv'
<1>. SUFFICES ASSUME IInv, [Next]_vars PROVE IInv'
  OBVIOUS
<1>1. ASSUME NEW t \in Tasks, NEW n \in amounts, Acquire(t, n) \/ TryAcquire(t, n) PROVE IInv'
  BY <1>1, AcquireKeeps
<1>2. ASSUME NEW t \in Tasks, Poll(t) PROVE IInv'
  BY <1>2, PollKeeps
<1>3. ASSUME NEW t \in Tasks, DropWaiter(t) PROVE IInv'
  BY <1>3, DropKeeps
<1>4. ASSUME NEW t \in Tasks, Release(t) PROVE IInv'
  BY <1>4, ReleaseKeeps
<1>5. ASSUME NEW n \in amounts, Signal(n) PROVE IInv'
  BY <1>5, SignalKeeps
<1>6. CASE Close
  BY <1>6, CloseKeeps
<1>7. CASE UNCHANGED vars
  BY <1>7 DEF vars, IInv, Types, List, Conserved, Busy, Woken, Holding
<1>. QED
  BY <1>1, <1>2, <1>3, <1>4, <1>5, <1>6, <1>7 DEF Next

LEMMA NothingLost == IInv => UnitsNotLost
<1>. SUFFICES ASSUME IInv PROVE UnitsNotLost
  OBVIOUS
<1>1. avail + Cardinality(UnitsOf(Holding)) = total
  <2>1. UnitsOf(Holding) = Pairs(Holding, units)
    BY DEF UnitsOf, Pairs
  <2>. QED
    BY <2>1 DEF IInv, Conserved
<1>2. ASSUME Cardinality(amounts) = 1, NEW t \in Tasks, Linked(t), units[t] <= avail
      PROVE  \E x \in Tasks : woken[x]
  <2>1. \E n : amounts = {n}
    BY <1>2, Amounts, FS_Singleton DEF IInv
  <2>2. avail < Cardinality(Pairs(Woken, units)) + units[t]
    BY <1>2, <2>1 DEF IInv, Busy, Linked
  <2>. SUFFICES ASSUME Woken = {} PROVE FALSE
    BY DEF Woken
  <2>3. Pairs(Woken, units) = {}
    BY DEF Pairs
  <2>4. Cardinality(Pairs(Woken, units)) = 0
    BY <2>3, FS_EmptySet
  <2>. QED
    BY <1>2, <2>2, <2>4 DEF IInv, Types
<1>. QED
  BY <1>1, <1>2 DEF UnitsNotLost, NotStranded

(* However acquisitions, cancelled waits, releases, signals and closing         *)
(* interleave, the units there are and the units held add up, and in a program  *)
(* whose requests are all of one amount no waiter stays suspended next to units *)
(* it could take with nobody about to be polled.                                *)
THEOREM NoUnitLost == Spec => []UnitsNotLost
<1>1. Init => IInv
  BY InitHolds
<1>2. IInv /\ [Next]_vars => IInv'
  BY StepHolds
<1>3. IInv => UnitsNotLost
  BY NothingLost
<1>. QED
  BY <1>1, <1>2, <1>3, PTL DEF Spec

----------------------------------------------------------------------------------
(* The gate.                                                                    *)

LEMMA GateCardinality ==
  ASSUME NEW S
  PROVE  Gt!Cardinality(S) = Cardinality(S)
BY Zenon DEF Gt!Cardinality, Cardinality

Passes == {t \in Tasks : Gt!Is(t, "pass")}

(* The states and roles of the gate, and whom it tells.                         *)
GateTypes ==
  /\ count \in Nat /\ gateState \in {"Open", "Closing", "Closed"}
  /\ gateRole \in [Tasks -> {"none", "pass", "closing", "closed"}]
  /\ closers \subseteq Tasks /\ notified \subseteq Tasks

(* Only a future that waits is told, and only that the gate is closed.          *)
GateTold ==
  /\ notified # {} => gateState = "Closed"
  /\ \A t \in notified : gateRole[t] = "closing"

GateInv == GateTypes /\ GateTold /\ Gt!ClosedMeansNoPass

LEMMA PassesFinite ==
  ASSUME IsFiniteSet(Tasks)
  PROVE  IsFiniteSet(Passes) /\ Cardinality(Passes) \in Nat /\ (Cardinality(Passes) = 0 <=> Passes = {})
<1>1. IsFiniteSet(Passes)
  BY FS_Subset DEF Passes
<1>. QED
  BY <1>1, FS_CardinalityType, FS_EmptySet

LEMMA GateInit ==
  ASSUME IsFiniteSet(Tasks), Gt!Init
  PROVE  GateInv
<1>1. Passes = {}
  BY DEF Passes, Gt!Init, Gt!Is
<1>. QED
  BY <1>1, GateCardinality, FS_EmptySet DEF Gt!Init, GateInv, GateTypes, GateTold, Gt!ClosedMeansNoPass, Passes, Gt!Is

LEMMA GateStep ==
  ASSUME IsFiniteSet(Tasks), GateInv, [Gt!Next]_(Gt!gateVars)
  PROVE  GateInv'
<1>. USE DEF GateInv, GateTypes, GateTold, Gt!ClosedMeansNoPass, Gt!Is, Gt!Become
<1>1. /\ IsFiniteSet(Passes) /\ Cardinality(Passes) = count /\ (count = 0 <=> Passes = {})
  BY PassesFinite, GateCardinality DEF Passes
<1>2. ASSUME NEW u \in Tasks, gateRole[u] = "none", gateState # "Closed", Gt!Become(u, "pass"), count' = count + 1,
             UNCHANGED <<gateState, closers, notified>>
      PROVE  GateInv'
  <2>1. Passes' = Passes \cup {u} /\ u \notin Passes
    BY <1>2 DEF Passes
  <2>2. Gt!Cardinality(Passes') = count'
    BY GateCardinality, <2>1, <1>1, <1>2, CountAdd
  <2>. QED
    BY <1>2, <2>2 DEF Passes
<1>3. ASSUME NEW t \in Tasks, Gt!Leave(t)
      PROVE  GateInv'
  <2>1. Passes' = Passes \ {t} /\ t \in Passes
    BY <1>3 DEF Passes, Gt!Leave
  <2>2. Gt!Cardinality(Passes') = count'
    BY GateCardinality, <2>1, <1>1, <1>3, CountRemove DEF Gt!Leave
  <2>3. gateState # "Closed" /\ count' \in Nat
    BY <2>1, <1>1, <1>3 DEF Gt!Leave
  <2>. QED
    BY <1>3, <2>2, <2>3 DEF Passes, Gt!Leave
<1>4. ASSUME NEW t \in Tasks, Gt!Close(t) \/ Gt!CloseReturns(t) \/ Gt!DropCloser(t)
      PROVE  GateInv'
  <2>1. Passes' = Passes
    BY <1>4 DEF Passes, Gt!Close, Gt!CloseReturns, Gt!DropCloser
  <2>2. Gt!Cardinality(Passes') = count'
    BY GateCardinality, <2>1, <1>1, <1>4 DEF Gt!Close, Gt!CloseReturns, Gt!DropCloser
  <2>3. CASE Gt!Close(t)
    BY <2>3, <2>2 DEF Passes, Gt!Close
  <2>4. CASE Gt!CloseReturns(t)
    BY <2>4, <2>2 DEF Passes, Gt!CloseReturns
  <2>5. CASE Gt!DropCloser(t)
    BY <2>5, <2>2 DEF Passes, Gt!DropCloser
  <2>. QED
    BY <1>4, <2>3, <2>4, <2>5
<1>5. CASE UNCHANGED Gt!gateVars
  BY <1>5 DEF Gt!gateVars
<1>6. ASSUME NEW t \in Tasks, NEW u \in Tasks, Gt!CloneIgnoringClosure(t, u)
      PROVE  GateInv'
  <2>1. gateState # "Closed"
    BY <1>1, <1>6 DEF Gt!CloneIgnoringClosure, Passes
  <2>. QED
    BY <2>1, <1>2, <1>6 DEF Gt!CloneIgnoringClosure
<1>7. ASSUME NEW t \in Tasks, Gt!Enter(t)
      PROVE  GateInv'
  BY <1>2, <1>7 DEF Gt!Enter
<1>. QED
  BY <1>3, <1>4, <1>5, <1>6, <1>7 DEF Gt!Next, Gt!TryClone

(* Closing is graceful (Gate::close, Pass::drop, notify_closed).                *)
THEOREM GateIsGraceful == Gt!Spec => []ClosedMeansNoPass
<1>1. Gt!Init => GateInv
  BY GateInit, TasksAssumption
<1>2. GateInv /\ [Gt!Next]_(Gt!gateVars) => GateInv'
  BY GateStep, TasksAssumption
<1>3. GateInv => ClosedMeansNoPass
  BY DEF GateInv, ClosedMeansNoPass
<1>. QED
  BY <1>1, <1>2, <1>3, PTL DEF Gt!Spec

----------------------------------------------------------------------------------
(* The reader-writer lock.                                                      *)

(* The operators of the instance are those of this module.                      *)
LEMMA RwOperators ==
  /\ \A S : Rw!Cardinality(S) = Cardinality(S)
  /\ \A ws : Rw!Members(ws) = Members(ws)
  /\ \A ws, gone : Rw!Without(ws, gone) = Without(ws, gone)
<1>1. \A S : Rw!Cardinality(S) = Cardinality(S)
  BY Zenon DEF Rw!Cardinality, Cardinality
<1>2. \A ws : Rw!Members(ws) = Members(ws)
  BY Zenon DEF Rw!Members, Members
<1>3. \A ws, gone : Rw!Without(ws, gone) = Without(ws, gone)
  BY Zenon DEF Rw!Without, Without, Rw!Kept, Kept
<1>. QED
  BY <1>1, <1>2, <1>3

RwTypes ==
  /\ readers \in Nat /\ writers \in Nat /\ queuedWriters \in Nat /\ rwClosed \in BOOLEAN
  /\ rwPhase \in [Tasks -> {"idle", "waiting", "holding"}]
  /\ kind \in [Tasks -> {"Reader", "Writer"}]
  /\ rwWoken \subseteq Tasks

(* The list has each waiter once, no more writers than queued_writers says, and *)
(* is empty once the lock is closed.                                            *)
LinkedWriters == Members(rwWaiters) \cap {t \in Tasks : kind[t] = "Writer"}
RwList ==
  /\ rwWaiters \in Seq(Tasks) /\ Distinct(rwWaiters)
  /\ Cardinality(LinkedWriters) <= queuedWriters
  /\ rwClosed => rwWaiters = <<>>

(* A task that waits is in the list or was woken.                               *)
RwPlaces ==
  /\ readers = 0 /\ writers = 0 /\ rwWaiters # <<>> => rwWoken # {}
  /\ \A t \in Tasks : rwPhase[t] = "waiting" <=> (t \in Members(rwWaiters) \/ t \in rwWoken)
  /\ \A t \in rwWoken : t \notin Members(rwWaiters)

RwInv == RwTypes /\ RwList /\ RwPlaces /\ GuardsExclude

(* The first n waiters are woken.                                               *)
LEMMA RwWakeFront ==
  ASSUME RwTypes, RwList, NEW n \in 0 .. Len(rwWaiters), NEW gone, Rw!WakeFront(n, gone),
         UNCHANGED kind
  PROVE  /\ rwWaiters' \in Seq(Tasks) /\ Distinct(rwWaiters')
         /\ Members(rwWaiters') = Members(rwWaiters) \ {rwWaiters[i] : i \in 1 .. n}
         /\ rwWoken' = (rwWoken \ gone) \cup {rwWaiters[i] : i \in 1 .. n}
         /\ {rwWaiters[i] : i \in 1 .. n} \subseteq Members(rwWaiters)
         /\ LinkedWriters' = LinkedWriters \ {rwWaiters[i] : i \in 1 .. n}
         /\ n = Len(rwWaiters) => rwWaiters' = <<>>
<1>1. rwWaiters \in Seq(Tasks) /\ Distinct(rwWaiters)
  BY DEF RwList
<1>2. rwWaiters' = SubSeq(rwWaiters, n + 1, Len(rwWaiters))
  BY DEF Rw!WakeFront
<1>3. /\ rwWaiters' \in Seq(Tasks) /\ Distinct(rwWaiters')
      /\ Members(rwWaiters') = Members(rwWaiters) \ {rwWaiters[i] : i \in 1 .. n}
  BY <1>1, <1>2, DropFrontFacts
<1>4. LinkedWriters' = LinkedWriters \ {rwWaiters[i] : i \in 1 .. n}
  BY <1>3 DEF LinkedWriters
<1>5. {rwWaiters[i] : i \in 1 .. n} \subseteq Members(rwWaiters)
  BY <1>1 DEF Members
<1>6. n = Len(rwWaiters) => rwWaiters' = <<>>
  BY <1>1, <1>2
<1>. QED
  BY <1>3, <1>4, <1>5, <1>6 DEF Rw!WakeFront

LEMMA LinkedWritersFinite ==
  ASSUME RwList
  PROVE  /\ IsFiniteSet(LinkedWriters) /\ Cardinality(LinkedWriters) \in Nat
         /\ \A F : /\ IsFiniteSet(LinkedWriters \ F)
                   /\ Cardinality(LinkedWriters \ F) \in Nat
                   /\ Cardinality(LinkedWriters \ F) <= Cardinality(LinkedWriters)
<1>1. IsFiniteSet(LinkedWriters)
  BY PositionsCount DEF LinkedWriters, RwList
<1>2. ASSUME NEW F
      PROVE  /\ IsFiniteSet(LinkedWriters \ F)
             /\ Cardinality(LinkedWriters \ F) \in Nat
             /\ Cardinality(LinkedWriters \ F) <= Cardinality(LinkedWriters)
  <2>1. LinkedWriters \ F \in SUBSET LinkedWriters
    OBVIOUS
  <2>. QED
    BY <1>1, <2>1, FS_Subset, FS_CardinalityType
<1>. QED
  BY <1>1, <1>2, FS_CardinalityType

(* Where the first writer is.                                                   *)
LEMMA FirstWriter ==
  ASSUME RwTypes, RwList
  PROVE  /\ Rw!TillFirstWriter \in 0 .. Len(rwWaiters)
         /\ Rw!ThroughFirstWriter \in 0 .. Len(rwWaiters)
         /\ Rw!QueuedOf("Writer") = {} => Rw!ThroughFirstWriter = Len(rwWaiters)
         /\ Rw!QueuedOf("Writer") # {} =>
              /\ Rw!ThroughFirstWriter > 0
              /\ rwWaiters[Rw!ThroughFirstWriter] \in LinkedWriters
         /\ Rw!QueuedOf("Writer") = {} => LinkedWriters = {}
<1>. DEFINE Q == Rw!QueuedOf("Writer")
<1>1. Q = {i \in 1 .. Len(rwWaiters) : kind[rwWaiters[i]] = "Writer"}
  BY DEF Rw!QueuedOf
<1>2. rwWaiters \in Seq(Tasks) /\ Len(rwWaiters) \in Nat
  BY DEF RwList
<1>. HIDE DEF Q
<1>3. ASSUME Q # {}
      PROVE  Rw!Min(Q) \in Q
  <2>1. Q \in SUBSET Nat
    BY <1>1, <1>2
  <2>2. \E x \in Q : \A y \in Q : x <= y
    BY <2>1, <1>3, LeastOf
  <2>. QED
    BY <2>2 DEF Rw!Min
<1>4. Q = {} => LinkedWriters = {}
  BY <1>1, <1>2 DEF LinkedWriters, Members
<1>5. Rw!TillFirstWriter = (IF Q = {} THEN Len(rwWaiters) + 1 ELSE Rw!Min(Q)) - 1
  BY DEF Rw!TillFirstWriter, Rw!All, Q
<1>6. Rw!ThroughFirstWriter = IF Q = {} THEN Len(rwWaiters) ELSE Rw!TillFirstWriter + 1
  BY DEF Rw!ThroughFirstWriter, Rw!All, Q
<1>7. CASE Q = {}
  <2>1. Rw!TillFirstWriter = Len(rwWaiters) /\ Rw!ThroughFirstWriter = Len(rwWaiters)
    BY <1>2, <1>5, <1>6, <1>7
  <2>. QED
    BY <1>2, <1>4, <1>7, <2>1 DEF Q
<1>8. CASE Q # {}
  <2>1. Rw!Min(Q) \in 1 .. Len(rwWaiters) /\ kind[rwWaiters[Rw!Min(Q)]] = "Writer"
    BY <1>1, <1>3, <1>8
  <2>2. rwWaiters[Rw!Min(Q)] \in LinkedWriters
    BY <2>1, <1>2 DEF LinkedWriters, Members
  <2>3. Rw!TillFirstWriter = Rw!Min(Q) - 1 /\ Rw!ThroughFirstWriter = Rw!Min(Q)
    BY <1>2, <1>5, <1>6, <1>8, <2>1
  <2>. QED
    BY <1>2, <1>8, <2>1, <2>2, <2>3 DEF Q
<1>. QED
  BY <1>7, <1>8

(* What wake_up_fibers does: it wakes some of the list, and some if the lock is *)
(* free and there are any, and leaves no more writers than it counts.           *)
LEMMA RwWakes ==
  ASSUME RwTypes, RwList, NEW r \in Nat, NEW w \in Nat, NEW gone, Rw!WakeUpFibers(r, w, gone),
         UNCHANGED <<kind, rwClosed>>
  PROVE  /\ RwList' /\ queuedWriters' \in Nat
         /\ \E front \in SUBSET Members(rwWaiters) :
              /\ Members(rwWaiters') = Members(rwWaiters) \ front
              /\ rwWoken' = (rwWoken \ gone) \cup front
              /\ r = 0 /\ w = 0 /\ rwWaiters' # <<>> => front # {}
<1>. DEFINE Front(n) == {rwWaiters[i] : i \in 1 .. n}
<1>0. rwWaiters \in Seq(Tasks) /\ Len(rwWaiters) \in Nat /\ queuedWriters \in Nat
  BY DEF RwList, RwTypes
<1>1. ASSUME NEW n \in 0 .. Len(rwWaiters), Rw!WakeFront(n, gone)
      PROVE  /\ rwWaiters' \in Seq(Tasks) /\ Distinct(rwWaiters')
             /\ Members(rwWaiters') = Members(rwWaiters) \ Front(n)
             /\ rwWoken' = (rwWoken \ gone) \cup Front(n)
             /\ Front(n) \in SUBSET Members(rwWaiters)
             /\ LinkedWriters' = LinkedWriters \ Front(n)
             /\ n = Len(rwWaiters) => rwWaiters' = <<>>
             /\ Cardinality(LinkedWriters') \in Nat
             /\ Cardinality(LinkedWriters') <= Cardinality(LinkedWriters)
             /\ rwClosed' => rwWaiters' = <<>>
             /\ Cardinality(LinkedWriters) \in Nat
             /\ n > 0 => Front(n) # {}
  <2>1. /\ rwWaiters' \in Seq(Tasks) /\ Distinct(rwWaiters')
        /\ Members(rwWaiters') = Members(rwWaiters) \ Front(n)
        /\ rwWoken' = (rwWoken \ gone) \cup Front(n)
        /\ Front(n) \in SUBSET Members(rwWaiters)
        /\ LinkedWriters' = LinkedWriters \ Front(n)
        /\ n = Len(rwWaiters) => rwWaiters' = <<>>
    BY <1>1, RwWakeFront
  <2>2. rwClosed' => rwWaiters' = <<>>
    BY <1>0, <2>1 DEF RwList
  <2>3. n > 0 => Front(n) # {}
    <3>1. n > 0 => rwWaiters[1] \in Front(n)
      OBVIOUS
    <3>. QED
      BY <3>1
  <2>. QED
    BY <2>1, <2>2, <2>3, LinkedWritersFinite
<1>. HIDE DEF Front
<1>2. CASE Rw!WakeFront(Rw!All, gone) /\ UNCHANGED queuedWriters
  <2>1. Rw!All = Len(rwWaiters) /\ Rw!All \in 0 .. Len(rwWaiters)
    BY <1>0 DEF Rw!All
  <2>. QED
    BY <1>0, <1>1, <1>2, <2>1 DEF RwList
<1>3. CASE Rw!WakeFront(0, gone) /\ w > 0 /\ UNCHANGED queuedWriters
  <2>1. 0 \in 0 .. Len(rwWaiters)
    BY <1>0
  <2>. QED
    BY <1>0, <1>1, <1>3, <2>1, SMTT(60) DEF RwList
<1>4. CASE Rw!WakeFront(Rw!TillFirstWriter, gone) /\ r > 0 /\ UNCHANGED queuedWriters
  <2>1. Rw!TillFirstWriter \in 0 .. Len(rwWaiters)
    BY FirstWriter
  <2>. QED
    BY <1>0, <1>1, <1>4, <2>1, SMTT(60) DEF RwList
<1>5. CASE /\ Rw!WakeFront(Rw!ThroughFirstWriter, gone) /\ queuedWriters > 0
           /\ queuedWriters' = queuedWriters - (IF Rw!QueuedOf("Writer") = {} THEN 0 ELSE 1)
  <2>. DEFINE n == Rw!ThroughFirstWriter
  <2>1. n \in 0 .. Len(rwWaiters)
    BY FirstWriter
  <2>2. /\ rwWaiters' \in Seq(Tasks) /\ Distinct(rwWaiters')
        /\ Members(rwWaiters') = Members(rwWaiters) \ Front(n)
        /\ rwWoken' = (rwWoken \ gone) \cup Front(n)
        /\ Front(n) \in SUBSET Members(rwWaiters)
        /\ LinkedWriters' = LinkedWriters \ Front(n)
        /\ n = Len(rwWaiters) => rwWaiters' = <<>>
        /\ Cardinality(LinkedWriters') \in Nat
        /\ Cardinality(LinkedWriters') <= Cardinality(LinkedWriters)
        /\ rwClosed' => rwWaiters' = <<>>
        /\ Cardinality(LinkedWriters) \in Nat
        /\ n > 0 => Front(n) # {}
    BY <1>1, <1>5, <2>1
  <2>3. CASE Rw!QueuedOf("Writer") = {}
    <3>1. n = Len(rwWaiters)
      BY <2>3, FirstWriter
    <3>2. queuedWriters' = queuedWriters /\ rwWaiters' = <<>>
      BY <1>0, <1>5, <2>2, <2>3, <3>1
    <3>3. RwList' /\ queuedWriters' \in Nat
      BY <1>0, <2>2, <3>2 DEF RwList
    <3>. QED
      BY <2>2, <3>2, <3>3
  <2>4. CASE Rw!QueuedOf("Writer") # {}
    <3>1. n > 0 /\ rwWaiters[n] \in LinkedWriters
      BY <2>4, FirstWriter
    <3>2. rwWaiters[n] \in Front(n)
      BY <2>1, <3>1 DEF Front
    <3>3. LinkedWriters' \in SUBSET (LinkedWriters \ {rwWaiters[n]})
      BY <2>2, <3>2
    <3>4. /\ IsFiniteSet(LinkedWriters \ {rwWaiters[n]})
          /\ Cardinality(LinkedWriters \ {rwWaiters[n]}) = Cardinality(LinkedWriters) - 1
      BY <3>1, LinkedWritersFinite, CountRemove
    <3>5. Cardinality(LinkedWriters') <= Cardinality(LinkedWriters) - 1
      BY <3>3, <3>4, FS_Subset
    <3>. QED
      BY <1>0, <1>5, <2>2, <2>4, <3>1, <3>5 DEF RwList
  <2>. QED
    BY <2>3, <2>4
<1>. QED
  BY <1>2, <1>3, <1>4, <1>5 DEF Rw!WakeUpFibers

(* register_in_waiting_queue                                                    *)
LEMMA RwRegisters ==
  ASSUME RwTypes, RwList, NEW t \in Tasks, NEW k \in {"Reader", "Writer"}, Rw!Register(t, k),
         rwPhase[t] # "waiting" => t \notin Members(rwWaiters),
         ~rwClosed, UNCHANGED rwClosed, kind' = [kind EXCEPT ![t] = k],
         t \in Members(rwWaiters) => kind[t] = k
  PROVE  /\ RwList' /\ queuedWriters' \in Nat
         /\ Members(rwWaiters') = Members(rwWaiters) \cup {t}
<1>0. rwWaiters \in Seq(Tasks) /\ queuedWriters \in Nat /\ Cardinality(LinkedWriters) \in Nat
  BY LinkedWritersFinite DEF RwList, RwTypes
<1>1. CASE t \in Members(rwWaiters)
  <2>1. UNCHANGED <<rwWaiters, queuedWriters, kind>>
    BY <1>0, <1>1, RwOperators DEF Rw!Register, Rw!Linked, RwTypes
  <2>. QED
    BY <1>0, <1>1, <2>1 DEF RwList, LinkedWriters
<1>2. CASE t \notin Members(rwWaiters)
  <2>1. rwWaiters' = Append(rwWaiters, t) /\ queuedWriters' = queuedWriters + (IF k = "Writer" THEN 1 ELSE 0)
    BY <1>2, RwOperators DEF Rw!Register, Rw!Linked
  <2>2. /\ rwWaiters' \in Seq(Tasks) /\ Distinct(rwWaiters')
        /\ Members(rwWaiters') = Members(rwWaiters) \cup {t}
    BY <1>0, <1>2, <2>1, AppendFacts DEF RwList
  <2>3. LinkedWriters' = IF k = "Writer" THEN LinkedWriters \cup {t} ELSE LinkedWriters
    BY <1>2, <2>2 DEF LinkedWriters, RwTypes
  <2>4. t \notin LinkedWriters
    BY <1>2 DEF LinkedWriters
  <2>5. Cardinality(LinkedWriters') = Cardinality(LinkedWriters) + (IF k = "Writer" THEN 1 ELSE 0)
    BY <1>0, <2>3, <2>4, LinkedWritersFinite, CountAdd
  <2>. QED
    BY <1>0, <2>1, <2>2, <2>5 DEF RwList
<1>. QED
  BY <1>1, <1>2

(* The waiter of t leaves the list.                                             *)
LEMMA RwUnlinks ==
  ASSUME RwTypes, RwList, NEW t \in Tasks, rwWaiters' = Rw!Without(rwWaiters, {t}),
         UNCHANGED <<kind, rwClosed, queuedWriters>>
  PROVE  RwList' /\ Members(rwWaiters') = Members(rwWaiters) \ {t}
<1>0. rwWaiters \in Seq(Tasks) /\ Distinct(rwWaiters) /\ queuedWriters \in Nat
  BY DEF RwList, RwTypes
<1>1. rwWaiters' = Without(rwWaiters, {t})
  BY RwOperators
<1>2. /\ rwWaiters' \in Seq(Tasks) /\ Distinct(rwWaiters')
      /\ Members(rwWaiters') = Members(rwWaiters) \ {t}
  <2>1. /\ Without(rwWaiters, {t}) \in Seq(Tasks)
        /\ Members(Without(rwWaiters, {t})) = Members(rwWaiters) \ {t}
        /\ Distinct(rwWaiters) => Distinct(Without(rwWaiters, {t}))
    BY <1>0, WithoutFacts
  <2>. QED
    BY <1>0, <1>1, <2>1
<1>3. LinkedWriters' = LinkedWriters \ {t}
  BY <1>2 DEF LinkedWriters
<1>4. Cardinality(LinkedWriters') <= queuedWriters'
  <2>1. Cardinality(LinkedWriters') <= Cardinality(LinkedWriters) /\ Cardinality(LinkedWriters') \in Nat
    BY <1>3, LinkedWritersFinite
  <2>2. Cardinality(LinkedWriters) <= queuedWriters /\ Cardinality(LinkedWriters) \in Nat
    BY LinkedWritersFinite DEF RwList
  <2>. QED
    BY <1>0, <2>1, <2>2
<1>5. rwClosed' => rwWaiters' = <<>>
  <2>. SUFFICES ASSUME rwClosed PROVE rwWaiters' = <<>>
    OBVIOUS
  <2>1. rwWaiters = <<>> /\ Members(<<>>) = {}
    BY DEF RwList, Members
  <2>2. Members(rwWaiters') = {}
    BY <1>2, <2>1
  <2>3. rwWaiters' \in Seq(Tasks) => (Members(rwWaiters') = {} <=> rwWaiters' = <<>>)
    BY MembersEmpty
  <2>. QED
    BY <1>2, <2>2, <2>3
<1>. QED
  BY <1>2, <1>4, <1>5 DEF RwList

(* The counters of a step that gives t a guard of kind k, or takes its guard.   *)
RwHolders(k) == {u \in Tasks : rwPhase[u] = "holding" /\ kind[u] = k}

LEMMA RwCounters ==
  ASSUME IsFiniteSet(Tasks), RwTypes, GuardsExclude
  PROVE  \A k \in {"Reader", "Writer"} : IsFiniteSet(RwHolders(k))
         /\ readers = Cardinality(RwHolders("Reader")) /\ writers = Cardinality(RwHolders("Writer"))
         /\ (readers = 0 <=> RwHolders("Reader") = {}) /\ (writers = 0 <=> RwHolders("Writer") = {})
<1>1. \A k \in {"Reader", "Writer"} : RwHolders(k) \in SUBSET Tasks
  BY DEF RwHolders
<1>2. \A k \in {"Reader", "Writer"} : IsFiniteSet(RwHolders(k))
  BY <1>1, FS_Subset
<1>3. readers = Cardinality(RwHolders("Reader")) /\ writers = Cardinality(RwHolders("Writer"))
  BY RwOperators DEF GuardsExclude, Rw!GuardsExclude, Rw!Holders, RwHolders
<1>. QED
  BY <1>2, <1>3, FS_EmptySet

LEMMA RwGrants ==
  ASSUME IsFiniteSet(Tasks), RwTypes, GuardsExclude, NEW t \in Tasks, NEW k \in {"Reader", "Writer"},
         rwPhase[t] # "holding", ~rwClosed, UNCHANGED rwClosed,
         Rw!Grants(k), Rw!Grant(k), kind' = [kind EXCEPT ![t] = k],
         rwPhase' = [rwPhase EXCEPT ![t] = "holding"]
  PROVE  GuardsExclude' /\ readers' \in Nat /\ writers' \in Nat
<1>. DEFINE Other == IF k = "Reader" THEN "Writer" ELSE "Reader"
<1>1. RwHolders(k)' = RwHolders(k) \cup {t} /\ t \notin RwHolders(k) /\ RwHolders(Other)' = RwHolders(Other)
  BY DEF RwHolders, RwTypes
<1>2. Cardinality(RwHolders(k)') = Cardinality(RwHolders(k)) + 1
  BY <1>1, RwCounters, CountAdd
<1>3. readers' = Cardinality(RwHolders("Reader")') /\ writers' = Cardinality(RwHolders("Writer")')
  BY <1>1, <1>2, RwCounters DEF Rw!Grant, RwTypes
<1>4. readers' \in Nat /\ writers' \in Nat /\ writers' <= 1 /\ (writers' > 0 => readers' = 0)
  BY DEF Rw!Grant, Rw!Grants, RwTypes
<1>. QED
  BY <1>3, <1>4, RwOperators DEF GuardsExclude, Rw!GuardsExclude, Rw!Holders, RwHolders

LEMMA RwNoGuard ==
  ASSUME IsFiniteSet(Tasks), RwTypes, GuardsExclude, NEW t \in Tasks, NEW p \in {"idle", "waiting"},
         rwPhase[t] # "holding", UNCHANGED <<rwClosed, readers, writers>>,
         NEW k \in {"Reader", "Writer"}, kind' = [kind EXCEPT ![t] = k],
         rwPhase' = [rwPhase EXCEPT ![t] = p]
  PROVE  GuardsExclude'
<1>1. RwHolders("Reader")' = RwHolders("Reader") /\ RwHolders("Writer")' = RwHolders("Writer")
  BY DEF RwHolders, RwTypes
<1>. QED
  BY <1>1, RwCounters, RwOperators DEF GuardsExclude, Rw!GuardsExclude, Rw!Holders, RwHolders

(* No step that leaves the lock free leaves a list of which nobody is woken.    *)
LEMMA RwStep ==
  ASSUME IsFiniteSet(Tasks), RwInv, [Rw!Next]_(Rw!rwVars)
  PROVE  RwInv'
<1>0. RwTypes /\ RwList /\ RwPlaces /\ GuardsExclude
  BY DEF RwInv
<1>1. /\ \A t \in Tasks : Rw!Linked(t) <=> t \in Members(rwWaiters)
      /\ rwWaiters \in Seq(Tasks) /\ Members(rwWaiters) \subseteq Tasks
      /\ (Members(rwWaiters) = {} <=> rwWaiters = <<>>)
      /\ readers \in Nat /\ writers \in Nat
  BY <1>0, RwOperators, MembersEmpty DEF Rw!Linked, RwList, RwTypes
<1>2. ASSUME NEW t \in Tasks, NEW k \in {"Reader", "Writer"}, rwPhase[t] = "idle",
             ~rwClosed, Rw!Grants(k), Rw!Grant(k), kind' = [kind EXCEPT ![t] = k],
             rwPhase' = [rwPhase EXCEPT ![t] = "holding"],
             UNCHANGED <<rwWaiters, queuedWriters, rwClosed, rwWoken>>
      PROVE  RwInv'
  <2>1. GuardsExclude' /\ readers' \in Nat /\ writers' \in Nat
    BY <1>0, <1>2, RwGrants
  <2>2. t \notin Members(rwWaiters) /\ t \notin rwWoken
    BY <1>0, <1>2 DEF RwPlaces
  <2>3. RwTypes'
    BY <1>0, <1>2, <2>1 DEF RwTypes
  <2>4. LinkedWriters' = LinkedWriters
    BY <1>0, <1>2, <2>2 DEF LinkedWriters, RwTypes
  <2>5. RwList'
    BY <1>0, <1>2, <2>4 DEF RwList
  <2>6. readers' # 0 \/ writers' # 0
    BY <1>2, <1>1 DEF Rw!Grant
  <2>7. RwPlaces'
    BY <1>0, <1>2, <2>2, <2>6 DEF RwPlaces, RwTypes
  <2>. QED
    BY <2>1, <2>3, <2>5, <2>7 DEF RwInv
<1>3. ASSUME NEW t \in Tasks, NEW k \in {"Reader", "Writer"}, rwPhase[t] \in {"idle", "waiting"},
             ~rwClosed, ~Rw!Grants(k), Rw!Register(t, k), kind' = [kind EXCEPT ![t] = k],
             rwPhase[t] = "waiting" => kind[t] = k, rwWoken' = rwWoken \ {t},
             rwPhase' = [rwPhase EXCEPT ![t] = "waiting"],
             UNCHANGED <<readers, writers, rwClosed>>
      PROVE  RwInv'
  <2>1. rwPhase[t] # "waiting" => t \notin Members(rwWaiters) /\ t \notin rwWoken
    BY <1>0 DEF RwPlaces
  <2>2. /\ RwList' /\ queuedWriters' \in Nat
        /\ Members(rwWaiters') = Members(rwWaiters) \cup {t}
    BY <1>0, <1>3, <2>1, RwRegisters
  <2>3. GuardsExclude'
    BY <1>0, <1>3, RwNoGuard
  <2>4. RwTypes'
    BY <1>0, <1>3, <2>2 DEF RwTypes
  <2>5. readers' # 0 \/ writers' # 0
    BY <1>3, <1>1 DEF Rw!Grants
  <2>6. RwPlaces'
    BY <1>0, <1>3, <2>2, <2>5 DEF RwPlaces, RwTypes
  <2>. QED
    BY <2>2, <2>3, <2>4, <2>6 DEF RwInv
<1>4. ASSUME NEW t \in Tasks, NEW k \in {"Reader", "Writer"}, Rw!Request(t, k) \/ Rw!TryLock(t, k)
      PROVE  RwInv'
  <2>1. CASE Rw!TryLock(t, k)
    BY <1>2, <2>1 DEF Rw!TryLock
  <2>2. CASE Rw!Request(t, k) /\ Rw!Grants(k)
    BY <1>2, <2>2 DEF Rw!Request
  <2>3. CASE Rw!Request(t, k) /\ ~Rw!Grants(k)
    <3>1. rwWoken' = rwWoken \ {t}
      BY <1>0, <2>3 DEF Rw!Request, RwPlaces
    <3>. QED
      BY <1>3, <2>3, <3>1 DEF Rw!Request
  <2>. QED
    BY <1>4, <2>1, <2>2, <2>3
<1>5. ASSUME NEW t \in Tasks, Rw!PollWaiter(t)
      PROVE  RwInv'
  <2>0. /\ rwPhase[t] = "waiting" /\ rwWoken' = rwWoken \ {t} /\ UNCHANGED <<kind, rwClosed>>
        /\ kind[t] \in {"Reader", "Writer"} /\ kind' = [kind EXCEPT ![t] = kind[t]]
    BY <1>0, <1>5 DEF Rw!PollWaiter, RwTypes
  <2>1. CASE rwClosed
    <3>1. /\ rwPhase' = [rwPhase EXCEPT ![t] = "idle"]
          /\ UNCHANGED <<readers, writers, rwWaiters, queuedWriters>>
      BY <1>5, <2>1 DEF Rw!PollWaiter
    <3>2. rwWaiters = <<>> /\ Members(rwWaiters) = {} /\ Members(rwWaiters') = {}
      BY <1>0, <1>1, <2>1, <3>1 DEF RwList
    <3>3. GuardsExclude'
      BY <1>0, <2>0, <3>1, RwNoGuard
    <3>4. RwTypes' /\ RwPlaces'
      BY <1>0, <2>0, <3>1, <3>2 DEF RwTypes, RwPlaces
    <3>5. RwList'
      BY <1>0, <2>0, <3>1 DEF RwList, LinkedWriters
    <3>. QED
      BY <3>3, <3>4, <3>5 DEF RwInv
  <2>2. CASE ~rwClosed /\ Rw!Grants(kind[t])
    <3>1. /\ Rw!Grant(kind[t]) /\ rwPhase' = [rwPhase EXCEPT ![t] = "holding"]
          /\ rwWaiters' = Rw!Without(rwWaiters, {t}) /\ UNCHANGED queuedWriters
      BY <1>5, <2>2 DEF Rw!PollWaiter
    <3>2. GuardsExclude' /\ readers' \in Nat /\ writers' \in Nat
      BY <1>0, <2>0, <2>2, <3>1, RwGrants
    <3>3. RwList' /\ Members(rwWaiters') = Members(rwWaiters) \ {t}
      BY <1>0, <2>0, <3>1, RwUnlinks
    <3>4. readers' # 0 \/ writers' # 0
      BY <1>1, <2>0, <3>1 DEF Rw!Grant
    <3>5. RwTypes' /\ RwPlaces'
      BY <1>0, <2>0, <3>1, <3>2, <3>3, <3>4 DEF RwTypes, RwPlaces
    <3>. QED
      BY <3>2, <3>3, <3>5 DEF RwInv
  <2>3. CASE ~rwClosed /\ ~Rw!Grants(kind[t])
    <3>1. Rw!Register(t, kind[t]) /\ UNCHANGED <<rwPhase, readers, writers>>
      BY <1>5, <2>3 DEF Rw!PollWaiter
    <3>2. rwPhase' = [rwPhase EXCEPT ![t] = "waiting"]
      BY <1>0, <2>0, <3>1 DEF RwTypes
    <3>. QED
      BY <1>3, <2>0, <2>3, <3>1, <3>2
  <2>. QED
    BY <2>1, <2>2, <2>3
<1>6. ASSUME NEW t \in Tasks, Rw!DropWaiter(t)
      PROVE  RwInv'
  <2>0. /\ rwPhase[t] = "waiting" /\ rwPhase' = [rwPhase EXCEPT ![t] = "idle"]
        /\ UNCHANGED <<readers, writers, rwClosed, kind>>
        /\ kind[t] \in {"Reader", "Writer"} /\ kind' = [kind EXCEPT ![t] = kind[t]]
    BY <1>0, <1>6 DEF Rw!DropWaiter, RwTypes
  <2>1. GuardsExclude'
    BY <1>0, <2>0, RwNoGuard
  <2>2. CASE t \in rwWoken /\ ~rwClosed
    <3>1. Rw!WakeUpFibers(readers, writers, {t})
      BY <1>6, <2>2 DEF Rw!DropWaiter
    <3>2. /\ RwList' /\ queuedWriters' \in Nat
          /\ \E front \in SUBSET Members(rwWaiters) :
               /\ Members(rwWaiters') = Members(rwWaiters) \ front
               /\ rwWoken' = (rwWoken \ {t}) \cup front
               /\ readers = 0 /\ writers = 0 /\ rwWaiters' # <<>> => front # {}
      BY <1>0, <1>1, <2>0, <3>1, RwWakes
    <3>3. PICK front \in SUBSET Members(rwWaiters) :
               /\ Members(rwWaiters') = Members(rwWaiters) \ front
               /\ rwWoken' = (rwWoken \ {t}) \cup front
               /\ readers = 0 /\ writers = 0 /\ rwWaiters' # <<>> => front # {}
      BY <3>2
    <3>4. RwTypes' /\ RwPlaces'
      BY <1>0, <1>1, <2>0, <2>2, <3>2, <3>3 DEF RwTypes, RwPlaces
    <3>. QED
      BY <2>1, <3>2, <3>4 DEF RwInv
  <2>3. CASE t \notin rwWoken \/ rwClosed
    <3>1. rwWaiters' = Rw!Without(rwWaiters, {t}) /\ rwWoken' = rwWoken \ {t} /\ UNCHANGED queuedWriters
      BY <1>6, <2>3 DEF Rw!DropWaiter
    <3>2. RwList' /\ Members(rwWaiters') = Members(rwWaiters) \ {t}
      BY <1>0, <2>0, <3>1, RwUnlinks
    <3>3. rwWaiters' # <<>> => rwWaiters # <<>> /\ ~rwClosed
      <4>1. rwWaiters' \in Seq(Tasks)
        BY <3>2 DEF RwList
      <4>2. Members(rwWaiters') = {} <=> rwWaiters' = <<>>
        BY <4>1, MembersEmpty
      <4>. QED
        BY <1>0, <1>1, <3>2, <4>2 DEF RwList
    <3>4. RwTypes'
      BY <1>0, <2>0, <3>1 DEF RwTypes
    <3>5. readers' = 0 /\ writers' = 0 /\ rwWaiters' # <<>> => rwWoken' # {}
      <4>. SUFFICES ASSUME readers' = 0, writers' = 0, rwWaiters' # <<>> PROVE rwWoken' # {}
        OBVIOUS
      <4>1. t \notin rwWoken /\ rwWaiters # <<>>
        BY <2>3, <3>3
      <4>. QED
        BY <1>0, <2>0, <3>1, <4>1 DEF RwPlaces
    <3>6. RwPlaces'
      BY <1>0, <2>0, <3>1, <3>2, <3>5 DEF RwTypes, RwPlaces
    <3>. QED
      BY <2>1, <3>2, <3>4, <3>6 DEF RwInv
  <2>. QED
    BY <2>2, <2>3
<1>7. ASSUME NEW t \in Tasks, Rw!DropGuard(t)
      PROVE  RwInv'
  <2>0. /\ rwPhase[t] = "holding" /\ ~rwClosed /\ rwPhase' = [rwPhase EXCEPT ![t] = "idle"]
        /\ readers' = readers - (IF kind[t] = "Reader" THEN 1 ELSE 0)
        /\ writers' = writers - (IF kind[t] = "Writer" THEN 1 ELSE 0)
        /\ Rw!WakeUpFibers(readers', writers', {})
        /\ UNCHANGED <<kind, rwClosed>>
    BY <1>7 DEF Rw!DropGuard
  <2>1. GuardsExclude' /\ readers' \in Nat /\ writers' \in Nat
    <3>. DEFINE Other == IF kind[t] = "Reader" THEN "Writer" ELSE "Reader"
    <3>1. /\ t \in RwHolders(kind[t]) /\ kind[t] \in {"Reader", "Writer"}
          /\ RwHolders(kind[t])' = RwHolders(kind[t]) \ {t} /\ RwHolders(Other)' = RwHolders(Other)
      BY <1>0, <2>0 DEF RwHolders, RwTypes
    <3>2. Cardinality(RwHolders(kind[t]) \ {t}) = Cardinality(RwHolders(kind[t])) - 1
      BY <1>0, <3>1, RwCounters, CountRemove
    <3>3. readers' = Cardinality(RwHolders("Reader")') /\ writers' = Cardinality(RwHolders("Writer")')
      <4>1. readers = Cardinality(RwHolders("Reader")) /\ writers = Cardinality(RwHolders("Writer"))
        BY <1>0, RwCounters
      <4>2. CASE kind[t] = "Reader"
        <5>1. RwHolders("Reader")' = RwHolders("Reader") \ {t} /\ RwHolders("Writer")' = RwHolders("Writer")
          BY <1>0, <2>0, <4>2 DEF RwHolders, RwTypes
        <5>2. Cardinality(RwHolders("Reader")') = readers - 1
          BY <3>2, <4>1, <4>2, <5>1
        <5>. QED
          BY <1>1, <2>0, <4>1, <4>2, <5>1, <5>2
      <4>3. CASE kind[t] = "Writer"
        <5>1. RwHolders("Writer")' = RwHolders("Writer") \ {t} /\ RwHolders("Reader")' = RwHolders("Reader")
          BY <1>0, <2>0, <4>3 DEF RwHolders, RwTypes
        <5>2. Cardinality(RwHolders("Writer")') = writers - 1
          BY <3>2, <4>1, <4>3, <5>1
        <5>. QED
          BY <1>1, <2>0, <4>1, <4>3, <5>1, <5>2
      <4>. QED
        BY <3>1, <4>2, <4>3
    <3>4. readers' \in Nat /\ writers' \in Nat /\ writers' <= 1 /\ (writers' > 0 => readers' = 0)
      <4>1. kind[t] = "Reader" => readers # 0
        BY <1>0, <3>1, RwCounters
      <4>2. kind[t] = "Writer" => writers # 0
        BY <1>0, <3>1, RwCounters
      <4>3. writers <= 1 /\ (writers > 0 => readers = 0)
        BY <1>0 DEF GuardsExclude, Rw!GuardsExclude
      <4>. QED
        BY <1>1, <2>0, <4>1, <4>2, <4>3
    <3>. QED
      BY <2>0, <3>3, <3>4, RwOperators DEF GuardsExclude, Rw!GuardsExclude, Rw!Holders, RwHolders
  <2>2. /\ RwList' /\ queuedWriters' \in Nat
        /\ \E front \in SUBSET Members(rwWaiters) :
             /\ Members(rwWaiters') = Members(rwWaiters) \ front
             /\ rwWoken' = (rwWoken \ {}) \cup front
             /\ readers' = 0 /\ writers' = 0 /\ rwWaiters' # <<>> => front # {}
    BY <1>0, <2>0, <2>1, RwWakes
  <2>3. PICK front \in SUBSET Members(rwWaiters) :
             /\ Members(rwWaiters') = Members(rwWaiters) \ front
             /\ rwWoken' = rwWoken \cup front
             /\ readers' = 0 /\ writers' = 0 /\ rwWaiters' # <<>> => front # {}
    BY <2>2
  <2>4. RwTypes' /\ RwPlaces'
    BY <1>0, <1>1, <2>0, <2>1, <2>2, <2>3 DEF RwTypes, RwPlaces
  <2>. QED
    BY <2>1, <2>2, <2>4 DEF RwInv
<1>8. ASSUME Rw!CloseLock
      PROVE  RwInv'
  <2>0. /\ readers = 0 /\ writers = 0 /\ rwClosed' = TRUE
        /\ UNCHANGED <<readers, writers, queuedWriters, rwPhase, kind>>
        /\ Rw!WakeFront(Rw!All, {}) /\ Rw!All = Len(rwWaiters) /\ Len(rwWaiters) \in 0 .. Len(rwWaiters)
    BY <1>1, <1>8 DEF Rw!CloseLock, Rw!All
  <2>1. /\ rwWaiters' \in Seq(Tasks) /\ Distinct(rwWaiters') /\ rwWaiters' = <<>>
        /\ LinkedWriters' = LinkedWriters \ {rwWaiters[i] : i \in 1 .. Len(rwWaiters)}
        /\ rwWoken' = rwWoken \cup Members(rwWaiters)
    BY <1>0, <2>0, RwWakeFront DEF Members
  <2>2. Members(rwWaiters') = {}
    BY <2>1, MembersEmpty
  <2>3. LinkedWriters' = {}
    BY <2>2 DEF LinkedWriters
  <2>4. RwTypes' /\ RwPlaces'
    BY <1>0, <1>1, <2>0, <2>1, <2>2 DEF RwTypes, RwPlaces
  <2>5. RwList'
    <3>1. Cardinality(LinkedWriters') = 0 /\ queuedWriters' \in Nat
      BY <1>0, <2>0, <2>3, FS_EmptySet DEF RwTypes
    <3>. QED
      BY <2>1, <3>1 DEF RwList
  <2>6. GuardsExclude'
    BY <1>0, <2>0 DEF GuardsExclude, Rw!GuardsExclude, Rw!Holders
  <2>. QED
    BY <2>4, <2>5, <2>6 DEF RwInv
<1>9. CASE UNCHANGED Rw!rwVars
  <2>1. UNCHANGED <<writers, readers, queuedWriters, rwWaiters, rwClosed, rwPhase, kind, rwWoken>>
    BY <1>9 DEF Rw!rwVars
  <2>. QED
    BY <1>0, <2>1 DEF RwInv, RwTypes, RwList, RwPlaces, LinkedWriters, GuardsExclude, Rw!GuardsExclude, Rw!Holders
<1>. QED
  BY <1>4, <1>5, <1>6, <1>7, <1>8, <1>9 DEF Rw!Next, Rw!Kinds

LEMMA RwInit ==
  ASSUME Rw!Init
  PROVE  RwInv
<1>1. rwWaiters = <<>> /\ rwWaiters \in Seq(Tasks) /\ Members(rwWaiters) = {} /\ Distinct(rwWaiters)
  BY DEF Rw!Init, Members, Distinct
<1>2. LinkedWriters = {} /\ RwHolders("Reader") = {} /\ RwHolders("Writer") = {}
  BY <1>1 DEF LinkedWriters, RwHolders, Rw!Init
<1>3. GuardsExclude
  BY <1>2, RwOperators, FS_EmptySet DEF Rw!Init, GuardsExclude, Rw!GuardsExclude, Rw!Holders, RwHolders
<1>4. RwTypes /\ RwPlaces
  BY <1>1 DEF Rw!Init, RwTypes, RwPlaces
<1>5. RwList
  BY <1>1, <1>2, FS_EmptySet DEF Rw!Init, RwList
<1>. QED
  BY <1>3, <1>4, <1>5 DEF RwInv

LEMMA RwWakesFree ==
  ASSUME RwInv
  PROVE  FreeLockWakes
<1>1. rwWaiters \in Seq(Tasks) /\ Distinct(rwWaiters) /\ Cardinality(LinkedWriters) <= queuedWriters
      /\ queuedWriters \in Nat
  BY DEF RwInv, RwList, RwTypes
<1>. DEFINE K == {t \in Tasks : kind[t] = "Writer"}
<1>2. Rw!QueuedOf("Writer") = {i \in 1 .. Len(rwWaiters) : rwWaiters[i] \in K}
  BY <1>1 DEF Rw!QueuedOf
<1>. HIDE DEF K
<1>3. Cardinality(Rw!QueuedOf("Writer")) = Cardinality(Members(rwWaiters) \cap K)
  BY <1>1, <1>2, PositionsCount
<1>4. queuedWriters >= Rw!Cardinality(Rw!QueuedOf("Writer"))
  <2>1. Cardinality(LinkedWriters) \in Nat
    BY LinkedWritersFinite DEF RwInv
  <2>. QED
    BY <1>1, <1>3, <2>1, RwOperators DEF LinkedWriters, K
<1>. QED
  BY <1>4, RwOperators DEF RwInv, RwPlaces, FreeLockWakes, Rw!FreeLockWakes, Rw!Linked

(* The counters of the lock are its guards, which exclude each other (try_read, *)
(* try_write, close, the drop of a guard).                                      *)
THEOREM GuardsDoExclude == Rw!Spec => []GuardsExclude
<1>1. Rw!Init => RwInv
  BY RwInit
<1>2. RwInv /\ [Rw!Next]_(Rw!rwVars) => RwInv'
  BY RwStep, TasksAssumption
<1>3. RwInv => GuardsExclude
  BY DEF RwInv
<1>. QED
  BY <1>1, <1>2, <1>3, PTL DEF Rw!Spec

(* Nobody sleeps next to a free lock, although queued_writers is never lowered  *)
(* for a writer that gave up (wake_up_fibers, Waiter::drop).                    *)
THEOREM FreeLockDoesWake == Rw!Spec => []FreeLockWakes
<1>1. Rw!Init => RwInv
  BY RwInit
<1>2. RwInv /\ [Rw!Next]_(Rw!rwVars) => RwInv'
  BY RwStep, TasksAssumption
<1>3. RwInv => FreeLockWakes
  BY RwWakesFree
<1>. QED
  BY <1>1, <1>2, <1>3, PTL DEF Rw!Spec

----------------------------------------------------------------------------------
(* The local channel.                                                           *)

(* The operators of the instance are those of this module.                      *)
LEMMA LcOperators ==
  /\ \A S : Lc!Cardinality(S) = Cardinality(S)
  /\ \A ws : Lc!Members(ws) = Members(ws)
  /\ \A ws, gone : Lc!Without(ws, gone) = Without(ws, gone)
<1>1. \A S : Lc!Cardinality(S) = Cardinality(S)
  BY Zenon DEF Lc!Cardinality, Cardinality
<1>2. \A ws : Lc!Members(ws) = Members(ws)
  BY Zenon DEF Lc!Members, Members
<1>3. \A ws, gone : Lc!Without(ws, gone) = Without(ws, gone)
  BY Zenon DEF Lc!Without, Without, Lc!Kept, Kept
<1>. QED
  BY <1>1, <1>2, <1>3

(* The tasks that wait on a side, and those of them that are about to be polled. *)
Waits(k) == {t \in Tasks : lcWait[t] = k}
Ready(k) == {t \in Tasks : lcWait[t] = k /\ t \in lcReady}

LcTypes ==
  /\ queued \in Nat /\ ends \subseteq {"Sender", "Receiver"}
  /\ lcWait \in [Tasks -> {"none", "Sender", "Receiver"}]
  /\ lcReady \subseteq Tasks /\ lcWoken \subseteq lcReady
  /\ \A t \in lcReady : lcWait[t] # "none"

(* A waiter is in its list unless it is about to be polled.                     *)
LcLists ==
  /\ sendWaiters \in Seq(Tasks) /\ Distinct(sendWaiters)
  /\ recvWaiters \in Seq(Tasks) /\ Distinct(recvWaiters)
  /\ Members(sendWaiters) = Waits("Sender") \ lcReady
  /\ Members(recvWaiters) = Waits("Receiver") \ lcReady

(* What holds once an end is gone: nobody waits for it who was not woken by its *)
(* drop, except a sender that finds the channel full and registers again.       *)
LcGone ==
  /\ \A t \in Ready("Receiver") : t \in lcWoken \/ "Sender" \notin ends
  /\ \A t \in Ready("Sender") : t \in lcWoken \/ "Receiver" \notin ends
  /\ "Sender" \notin ends => recvWaiters = <<>> /\ Waits("Sender") = {}
  /\ "Receiver" \notin ends => Waits("Receiver") = {}
  /\ "Receiver" \notin ends /\ sendWaiters # <<>> => queued >= Capacity

(* While someone sleeps, there are as many about to be polled as there are      *)
(* items, or as there is room.                                                  *)
LcCounts ==
  /\ recvWaiters # <<>> => queued <= Cardinality(Ready("Receiver"))
  /\ sendWaiters # <<>> => Capacity - queued <= Cardinality(Ready("Sender"))

LcInv == LcTypes /\ LcLists /\ LcGone /\ LcCounts

LEMMA LcRest ==
  ASSUME NEW ws \in Seq(Tasks), Distinct(ws)
  PROVE  /\ Lc!Rest(ws) \in Seq(Tasks) /\ Distinct(Lc!Rest(ws))
         /\ Members(Lc!Rest(ws)) = Members(ws) \ Lc!First(ws)
         /\ Lc!First(ws) \subseteq Members(ws)
         /\ \A x, y \in Lc!First(ws) : x = y
         /\ Lc!First(ws) = {} <=> ws = <<>>
         /\ Lc!Rest(ws) # <<>> => ws # <<>>
<1>1. CASE ws = <<>>
  <2>1. Lc!Rest(ws) = ws /\ Lc!First(ws) = {}
    BY <1>1 DEF Lc!Rest, Lc!First
  <2>. QED
    BY <1>1, <2>1
<1>2. CASE ws # <<>>
  <2>1. Lc!Rest(ws) = Tail(ws) /\ Lc!First(ws) = {Head(ws)}
    BY <1>2 DEF Lc!Rest, Lc!First
  <2>2. /\ Tail(ws) \in Seq(Tasks) /\ Head(ws) \in Members(ws)
        /\ Members(Tail(ws)) = Members(ws) \ {Head(ws)} /\ Distinct(Tail(ws))
    BY <1>2, TailFacts
  <2>. QED
    BY <1>2, <2>1, <2>2
<1>. QED
  BY <1>1, <1>2

LEMMA LcRegister ==
  ASSUME NEW ws \in Seq(Tasks), Distinct(ws), NEW t \in Tasks
  PROVE  /\ Lc!Register(ws, t) \in Seq(Tasks) /\ Distinct(Lc!Register(ws, t))
         /\ Members(Lc!Register(ws, t)) = Members(ws) \cup {t}
<1>1. Lc!Register(ws, t) = IF t \in Members(ws) THEN ws ELSE Append(ws, t)
  BY LcOperators DEF Lc!Register
<1>. QED
  BY <1>1, AppendFacts

LEMMA LcUnlink ==
  ASSUME NEW ws \in Seq(Tasks), Distinct(ws), NEW t
  PROVE  /\ Lc!Without(ws, {t}) \in Seq(Tasks) /\ Distinct(Lc!Without(ws, {t}))
         /\ Members(Lc!Without(ws, {t})) = Members(ws) \ {t}
         /\ Lc!Without(ws, {t}) # <<>> => ws # <<>>
<1>1. Lc!Without(ws, {t}) = Without(ws, {t})
  BY LcOperators
<1>2. /\ Without(ws, {t}) \in Seq(Tasks) /\ Distinct(Without(ws, {t}))
      /\ Members(Without(ws, {t})) = Members(ws) \ {t}
  BY WithoutFacts
<1>3. ws = <<>> => Members(ws) = {}
  BY MembersEmpty
<1>4. Members(Without(ws, {t})) = {} => Without(ws, {t}) = <<>>
  <2>. DEFINE w == Without(ws, {t})
  <2>1. w \in Seq(Tasks)
    BY <1>2
  <2>. HIDE DEF w
  <2>2. Members(w) = {} => w = <<>>
    BY <2>1, MembersEmpty
  <2>. QED
    BY <2>2 DEF w
<1>. QED
  BY <1>1, <1>2, <1>3, <1>4

LEMMA ReadyFinite ==
  /\ \A k : IsFiniteSet(Ready(k)) /\ Cardinality(Ready(k)) \in Nat
  /\ \A k : IsFiniteSet(Waits(k)) /\ Cardinality(Waits(k)) \in Nat
<1>1. \A k : Ready(k) \in SUBSET Tasks /\ Waits(k) \in SUBSET Tasks
  BY DEF Ready, Waits
<1>. QED
  BY <1>1, TasksAssumption, FS_Subset, FS_CardinalityType

(* An item is pushed by t, whose waiter, if it has one, is done.                *)
LEMMA LcPushes ==
  ASSUME LcInv, NEW t \in Tasks, "Sender" \in ends, lcWait[t] \in {"none", "Sender"},
         queued < Capacity, Lc!Push(t), UNCHANGED ends,
         lcWait' = [lcWait EXCEPT ![t] = "none"],
         sendWaiters' \in Seq(Tasks), Distinct(sendWaiters'),
         Members(sendWaiters') = Members(sendWaiters) \ {t},
         sendWaiters' # <<>> => sendWaiters # <<>>
  PROVE  LcInv'
<1>. DEFINE F == Lc!First(recvWaiters)
<1>0. /\ LcTypes /\ LcLists /\ LcGone /\ LcCounts
      /\ queued' = queued + (IF "Receiver" \in ends THEN 1 ELSE 0)
      /\ lcWoken' = (lcWoken \ {t}) \cup F /\ lcReady' = (lcReady \ {t}) \cup F
      /\ recvWaiters' = Lc!Rest(recvWaiters)
  BY DEF LcInv, Lc!Push, Lc!Wake
<1>1. /\ recvWaiters' \in Seq(Tasks) /\ Distinct(recvWaiters')
      /\ Members(recvWaiters') = Members(recvWaiters) \ F
      /\ F \subseteq Members(recvWaiters) /\ \A x, y \in F : x = y
      /\ F = {} <=> recvWaiters = <<>>
      /\ recvWaiters' # <<>> => recvWaiters # <<>>
  BY <1>0, LcRest DEF LcLists
<1>2. \A x \in F : x \in Tasks /\ lcWait[x] = "Receiver" /\ x \notin lcReady /\ x # t
  BY <1>0, <1>1 DEF LcLists, Waits
<1>. HIDE DEF F
<1>3. LcTypes'
  BY <1>0, <1>2, CapacityAssumption DEF LcTypes
<1>4. LcLists'
  BY <1>0, <1>1, <1>2 DEF LcTypes, LcLists, Waits
<1>5. Ready("Receiver")' = (Ready("Receiver") \ {t}) \cup F /\ Ready("Sender")' = Ready("Sender") \ {t}
  BY <1>0, <1>2 DEF LcTypes, Ready
<1>6. /\ F \cap Ready("Receiver") = {} /\ t \notin F /\ t \notin Ready("Receiver")
  BY <1>2 DEF Ready
<1>7. LcGone'
  <2>1. \A x \in Ready("Receiver")' : x \in lcWoken' \/ "Sender" \notin ends'
    BY <1>0, <1>5 DEF LcGone
  <2>2. \A x \in Ready("Sender")' : x \in lcWoken' \/ "Receiver" \notin ends'
    BY <1>0, <1>5 DEF LcGone
  <2>3. "Receiver" \notin ends => Waits("Receiver")' = {}
    BY <1>0 DEF LcGone, Waits, LcTypes
  <2>4. "Receiver" \notin ends /\ sendWaiters' # <<>> => FALSE
    BY <1>0, CapacityAssumption DEF LcGone, LcTypes
  <2>. QED
    BY <2>1, <2>2, <2>3, <2>4, <1>0 DEF LcGone
<1>8. LcCounts'
  <2>1. /\ Cardinality(Ready("Receiver")') = Cardinality(Ready("Receiver")) + (IF F = {} THEN 0 ELSE 1)
        /\ Cardinality(Ready("Receiver")) \in Nat
    <3>. DEFINE R == Ready("Receiver")
    <3>1. IsFiniteSet(R) /\ F \cap R = {} /\ t \notin F /\ t \notin R /\ \A x, y \in F : x = y
      BY <1>1, <1>5, <1>6, ReadyFinite
    <3>. HIDE DEF R
    <3>2. /\ Cardinality((R \ {t}) \cup F)
               = Cardinality(R) - (IF t \in R THEN 1 ELSE 0) + (IF F = {} THEN 0 ELSE 1)
          /\ Cardinality(R) \in Nat
      BY <3>1, CountSwap
    <3>3. Ready("Receiver")' = (R \ {t}) \cup F
      BY <1>5 DEF R
    <3>4. Cardinality((R \ {t}) \cup F) = Cardinality(R) + (IF F = {} THEN 0 ELSE 1)
      BY <3>1, <3>2
    <3>5. Cardinality(Ready("Receiver")') = Cardinality(R) + (IF F = {} THEN 0 ELSE 1)
      BY <3>3, <3>4
    <3>. QED
      BY <3>2, <3>5 DEF R
  <2>2. /\ Cardinality(Ready("Sender")') = Cardinality(Ready("Sender")) - (IF t \in Ready("Sender") THEN 1 ELSE 0)
        /\ Cardinality(Ready("Sender")) \in Nat
    BY <1>5, ReadyFinite, FS_RemoveElement
  <2>3. recvWaiters' # <<>> => queued' <= Cardinality(Ready("Receiver")')
    BY <1>0, <1>1, <2>1 DEF LcCounts, LcTypes
  <2>4. sendWaiters' # <<>> => "Receiver" \in ends
    BY <1>0, CapacityAssumption DEF LcGone, LcTypes
  <2>5. sendWaiters' # <<>> => Capacity - queued' <= Cardinality(Ready("Sender")')
    BY <1>0, <2>2, <2>4, CapacityAssumption DEF LcCounts, LcTypes
  <2>. QED
    BY <2>3, <2>5 DEF LcCounts
<1>. QED
  BY <1>3, <1>4, <1>7, <1>8 DEF LcInv

(* An item is taken by t.                                                       *)
LEMMA LcTakes ==
  ASSUME LcInv, NEW t \in Tasks, "Receiver" \in ends, lcWait[t] \in {"none", "Receiver"},
         queued > 0, queued' = queued - 1, Lc!Wake(t, Lc!First(sendWaiters)), UNCHANGED ends,
         sendWaiters' = Lc!Rest(sendWaiters), recvWaiters' = Lc!Without(recvWaiters, {t}),
         lcWait' = [lcWait EXCEPT ![t] = "none"]
  PROVE  LcInv'
<1>. DEFINE F == Lc!First(sendWaiters)
<1>0. /\ LcTypes /\ LcLists /\ LcGone /\ LcCounts
      /\ lcWoken' = (lcWoken \ {t}) \cup F /\ lcReady' = (lcReady \ {t}) \cup F
  BY DEF LcInv, Lc!Wake
<1>1. /\ sendWaiters' \in Seq(Tasks) /\ Distinct(sendWaiters')
      /\ Members(sendWaiters') = Members(sendWaiters) \ F
      /\ F \subseteq Members(sendWaiters) /\ \A x, y \in F : x = y
      /\ F = {} <=> sendWaiters = <<>>
      /\ sendWaiters' # <<>> => sendWaiters # <<>>
  BY <1>0, LcRest DEF LcLists
<1>2. /\ recvWaiters' \in Seq(Tasks) /\ Distinct(recvWaiters')
      /\ Members(recvWaiters') = Members(recvWaiters) \ {t}
      /\ recvWaiters' # <<>> => recvWaiters # <<>>
  BY <1>0, LcUnlink DEF LcLists
<1>3. \A x \in F : x \in Tasks /\ lcWait[x] = "Sender" /\ x \notin lcReady /\ x # t
  BY <1>0, <1>1 DEF LcLists, Waits
<1>. HIDE DEF F
<1>4. LcTypes'
  BY <1>0, <1>3 DEF LcTypes
<1>5. LcLists'
  BY <1>0, <1>1, <1>2, <1>3 DEF LcTypes, LcLists, Waits
<1>6. Ready("Sender")' = (Ready("Sender") \ {t}) \cup F /\ Ready("Receiver")' = Ready("Receiver") \ {t}
  BY <1>0, <1>3 DEF LcTypes, Ready
<1>7. F \cap Ready("Sender") = {} /\ t \notin F /\ t \notin Ready("Sender")
  BY <1>3 DEF Ready
<1>8. LcGone'
  <2>1. \A x \in Ready("Receiver")' : x \in lcWoken' \/ "Sender" \notin ends'
    BY <1>0, <1>6 DEF LcGone
  <2>2. \A x \in Ready("Sender")' : x \in lcWoken' \/ "Receiver" \notin ends'
    BY <1>0, <1>6 DEF LcGone
  <2>3. "Sender" \notin ends => Waits("Sender")' = {} /\ recvWaiters' = <<>>
    BY <1>0, <1>2 DEF LcGone, Waits, LcTypes
  <2>. QED
    BY <2>1, <2>2, <2>3 DEF LcGone
<1>9. LcCounts'
  <2>1. /\ Cardinality(Ready("Sender")') = Cardinality(Ready("Sender")) + (IF F = {} THEN 0 ELSE 1)
        /\ Cardinality(Ready("Sender")) \in Nat
    <3>. DEFINE R == Ready("Sender")
    <3>1. IsFiniteSet(R) /\ F \cap R = {} /\ t \notin F /\ t \notin R /\ \A x, y \in F : x = y
      BY <1>1, <1>6, <1>7, ReadyFinite
    <3>. HIDE DEF R
    <3>2. /\ Cardinality((R \ {t}) \cup F)
               = Cardinality(R) - (IF t \in R THEN 1 ELSE 0) + (IF F = {} THEN 0 ELSE 1)
          /\ Cardinality(R) \in Nat
      BY <3>1, CountSwap
    <3>3. Ready("Sender")' = (R \ {t}) \cup F
      BY <1>6 DEF R
    <3>4. Cardinality((R \ {t}) \cup F) = Cardinality(R) + (IF F = {} THEN 0 ELSE 1)
      BY <3>1, <3>2
    <3>5. Cardinality(Ready("Sender")') = Cardinality(R) + (IF F = {} THEN 0 ELSE 1)
      BY <3>3, <3>4
    <3>. QED
      BY <3>2, <3>5 DEF R
  <2>2. /\ Cardinality(Ready("Receiver")') = Cardinality(Ready("Receiver")) - (IF t \in Ready("Receiver") THEN 1 ELSE 0)
        /\ Cardinality(Ready("Receiver")) \in Nat
    BY <1>6, ReadyFinite, FS_RemoveElement
  <2>3. recvWaiters' # <<>> => queued' <= Cardinality(Ready("Receiver")')
    BY <1>0, <1>2, <2>2 DEF LcCounts, LcTypes
  <2>4. sendWaiters' # <<>> => Capacity - queued' <= Cardinality(Ready("Sender")')
    BY <1>0, <1>1, <2>1, CapacityAssumption DEF LcCounts, LcTypes
  <2>. QED
    BY <2>3, <2>4 DEF LcCounts
<1>. QED
  BY <1>4, <1>5, <1>8, <1>9 DEF LcInv

(* A send finds the channel full and waits.                                     *)
LEMMA LcSendWaits ==
  ASSUME LcInv, NEW t \in Tasks, "Sender" \in ends, lcWait[t] \in {"none", "Sender"},
         queued >= Capacity, Lc!Wake(t, {}), UNCHANGED <<ends, queued, recvWaiters>>,
         sendWaiters' = Lc!Register(sendWaiters, t),
         lcWait' = [lcWait EXCEPT ![t] = "Sender"]
  PROVE  LcInv'
<1>0. /\ LcTypes /\ LcLists /\ LcGone /\ LcCounts
      /\ lcWoken' = lcWoken \ {t} /\ lcReady' = lcReady \ {t}
  BY DEF LcInv, Lc!Wake
<1>1. /\ sendWaiters' \in Seq(Tasks) /\ Distinct(sendWaiters')
      /\ Members(sendWaiters') = Members(sendWaiters) \cup {t}
  BY <1>0, LcRegister DEF LcLists
<1>2. LcTypes'
  BY <1>0 DEF LcTypes
<1>3. LcLists'
  BY <1>0, <1>1 DEF LcTypes, LcLists, Waits
<1>4. Ready("Receiver")' = Ready("Receiver") /\ Ready("Sender")' = Ready("Sender") \ {t}
  BY <1>0 DEF LcTypes, Ready
<1>5. LcGone'
  <2>1. Waits("Receiver")' \subseteq Waits("Receiver")
    BY <1>0 DEF Waits, LcTypes
  <2>2. t \notin Ready("Receiver")
    BY DEF Ready
  <2>. QED
    BY <1>0, <1>4, <2>1, <2>2 DEF LcGone
<1>6. LcCounts'
  <2>1. Cardinality(Ready("Sender")') \in Nat
    BY <1>4, ReadyFinite, FS_RemoveElement, FS_CardinalityType
  <2>. QED
    BY <1>0, <1>4, <2>1, CapacityAssumption DEF LcCounts, LcTypes
<1>. QED
  BY <1>2, <1>3, <1>5, <1>6 DEF LcInv

(* A receive finds no item, and waits or returns None.                          *)
LEMMA LcRecvWaits ==
  ASSUME LcInv, NEW t \in Tasks, "Receiver" \in ends, lcWait[t] \in {"none", "Receiver"},
         queued = 0, Lc!Wake(t, {}), UNCHANGED <<ends, queued, sendWaiters>>,
         \/ /\ "Sender" \in ends /\ recvWaiters' = Lc!Register(recvWaiters, t)
            /\ lcWait' = [lcWait EXCEPT ![t] = "Receiver"]
         \/ /\ "Sender" \notin ends /\ recvWaiters' = Lc!Without(recvWaiters, {t})
            /\ lcWait' = [lcWait EXCEPT ![t] = "none"]
  PROVE  LcInv'
<1>0. /\ LcTypes /\ LcLists /\ LcGone /\ LcCounts
      /\ lcWoken' = lcWoken \ {t} /\ lcReady' = lcReady \ {t}
  BY DEF LcInv, Lc!Wake
<1>1. /\ recvWaiters' \in Seq(Tasks) /\ Distinct(recvWaiters')
      /\ \/ /\ Members(recvWaiters') = Members(recvWaiters) \cup {t} /\ "Sender" \in ends
            /\ lcWait' = [lcWait EXCEPT ![t] = "Receiver"]
         \/ /\ Members(recvWaiters') = Members(recvWaiters) \ {t} /\ "Sender" \notin ends
            /\ lcWait' = [lcWait EXCEPT ![t] = "none"]
            /\ recvWaiters' # <<>> => recvWaiters # <<>>
  <2>0. recvWaiters \in Seq(Tasks) /\ Distinct(recvWaiters)
    BY <1>0 DEF LcLists
  <2>1. CASE "Sender" \in ends
    BY <2>0, <2>1, LcRegister
  <2>2. CASE "Sender" \notin ends
    <3>1. recvWaiters' = Lc!Without(recvWaiters, {t}) /\ lcWait' = [lcWait EXCEPT ![t] = "none"]
      BY <2>2
    <3>2. /\ Lc!Without(recvWaiters, {t}) \in Seq(Tasks) /\ Distinct(Lc!Without(recvWaiters, {t}))
          /\ Members(Lc!Without(recvWaiters, {t})) = Members(recvWaiters) \ {t}
          /\ Lc!Without(recvWaiters, {t}) # <<>> => recvWaiters # <<>>
      BY <2>0, LcUnlink
    <3>. QED
      BY <2>2, <3>1, <3>2
  <2>. QED
    BY <2>1, <2>2
<1>2. LcTypes'
  BY <1>0, <1>1 DEF LcTypes
<1>3. LcLists'
  BY <1>0, <1>1 DEF LcTypes, LcLists, Waits
<1>4. Ready("Receiver")' = Ready("Receiver") \ {t} /\ Ready("Sender")' = Ready("Sender")
  BY <1>0, <1>1 DEF LcTypes, Ready
<1>5. LcGone'
  <2>1. Waits("Sender")' \subseteq Waits("Sender")
    BY <1>0, <1>1 DEF Waits, LcTypes
  <2>2. t \notin Ready("Sender")
    BY DEF Ready
  <2>. QED
    BY <1>0, <1>1, <1>4, <2>1, <2>2 DEF LcGone
<1>6. LcCounts'
  <2>1. Cardinality(Ready("Receiver")') \in Nat
    BY <1>4, ReadyFinite, FS_RemoveElement, FS_CardinalityType
  <2>. QED
    BY <1>0, <1>4, <2>1, CapacityAssumption DEF LcCounts, LcTypes
<1>. QED
  BY <1>2, <1>3, <1>5, <1>6 DEF LcInv

(* The future of send is dropped.                                               *)
LEMMA LcDropsSend ==
  ASSUME LcInv, NEW t \in Tasks, Lc!DropSend(t)
  PROVE  LcInv'
<1>0. /\ LcTypes /\ LcLists /\ LcGone /\ LcCounts
      /\ lcWait[t] = "Sender" /\ lcWait' = [lcWait EXCEPT ![t] = "none"]
      /\ UNCHANGED <<queued, recvWaiters, ends>>
  BY DEF LcInv, Lc!DropSend
<1>1. PICK F \in SUBSET Members(sendWaiters) :
        /\ lcWoken' = (lcWoken \ {t}) \cup F /\ lcReady' = (lcReady \ {t}) \cup F
        /\ sendWaiters' \in Seq(Tasks) /\ Distinct(sendWaiters')
        /\ Members(sendWaiters') = Members(sendWaiters) \ (F \cup {t})
        /\ \A x, y \in F : x = y
        /\ t \notin F
        /\ sendWaiters' # <<>> => sendWaiters # <<>>
        /\ sendWaiters # <<>> /\ t \in lcReady => F # {} \/ queued >= Capacity
  <2>1. CASE t \in lcWoken /\ queued < Capacity
    <3>1. /\ sendWaiters' = Lc!Rest(sendWaiters)
          /\ lcWoken' = (lcWoken \ {t}) \cup Lc!First(sendWaiters)
          /\ lcReady' = (lcReady \ {t}) \cup Lc!First(sendWaiters)
      BY <2>1, <1>0, CapacityAssumption DEF Lc!DropSend, Lc!Wake, Lc!IsFull, LcTypes
    <3>2. t \notin Members(sendWaiters)
      BY <1>0, <2>1 DEF LcLists, LcTypes
    <3>3. /\ sendWaiters' \in Seq(Tasks) /\ Distinct(sendWaiters')
          /\ Members(sendWaiters') = Members(sendWaiters) \ Lc!First(sendWaiters)
          /\ Lc!First(sendWaiters) \subseteq Members(sendWaiters)
          /\ \A x, y \in Lc!First(sendWaiters) : x = y
          /\ Lc!First(sendWaiters) = {} <=> sendWaiters = <<>>
          /\ sendWaiters' # <<>> => sendWaiters # <<>>
      BY <1>0, <3>1, LcRest DEF LcLists
    <3>4. Members(sendWaiters') = Members(sendWaiters) \ (Lc!First(sendWaiters) \cup {t})
      BY <3>2, <3>3
    <3>. QED
      BY <3>1, <3>2, <3>3, <3>4
  <2>2. CASE ~(t \in lcWoken /\ queued < Capacity)
    <3>1. /\ sendWaiters' = Lc!Without(sendWaiters, {t})
          /\ lcWoken' = lcWoken \ {t} /\ lcReady' = lcReady \ {t}
      BY <2>2, <1>0, CapacityAssumption DEF Lc!DropSend, Lc!Wake, Lc!IsFull, LcTypes
    <3>2. /\ sendWaiters' \in Seq(Tasks) /\ Distinct(sendWaiters')
          /\ Members(sendWaiters') = Members(sendWaiters) \ {t}
          /\ sendWaiters' # <<>> => sendWaiters # <<>>
      BY <1>0, <3>1, LcUnlink DEF LcLists
    <3>3. sendWaiters # <<>> /\ t \in lcReady => queued >= Capacity
      <4>1. t \in lcReady => t \in Ready("Sender")
        BY <1>0 DEF Ready
      <4>. QED
        BY <1>0, <2>2, <4>1, CapacityAssumption DEF LcGone, LcTypes
    <3>4. {} \in SUBSET Members(sendWaiters)
      OBVIOUS
    <3>. QED
      BY <3>1, <3>2, <3>3, <3>4
  <2>. QED
    BY <2>1, <2>2
<1>2. \A x \in F : x \in Tasks /\ lcWait[x] = "Sender" /\ x \notin lcReady /\ x # t
  BY <1>0, <1>1 DEF LcLists, Waits
<1>3. LcTypes'
  BY <1>0, <1>1, <1>2 DEF LcTypes
<1>4. LcLists'
  BY <1>0, <1>1, <1>2 DEF LcTypes, LcLists, Waits
<1>5. Ready("Sender")' = (Ready("Sender") \ {t}) \cup F /\ Ready("Receiver")' = Ready("Receiver")
  BY <1>0, <1>1, <1>2 DEF LcTypes, Ready
<1>6. LcGone'
  <2>1. Waits("Sender")' \subseteq Waits("Sender") /\ Waits("Receiver")' \subseteq Waits("Receiver")
    BY <1>0 DEF Waits, LcTypes
  <2>2. t \notin Ready("Receiver")
    BY <1>0 DEF Ready
  <2>. QED
    BY <1>0, <1>1, <1>5, <2>1, <2>2 DEF LcGone
<1>7. LcCounts'
  <2>. DEFINE R == Ready("Sender")
  <2>1. IsFiniteSet(R) /\ F \cap R = {} /\ t \notin F /\ (t \in R <=> t \in lcReady)
    BY <1>0, <1>1, <1>2, ReadyFinite DEF Ready
  <2>2. Ready("Sender")' = (R \ {t}) \cup F /\ (sendWaiters # <<>> => Capacity - queued <= Cardinality(R))
    BY <1>0, <1>5 DEF R, LcCounts
  <2>. HIDE DEF R
  <2>3. /\ Cardinality((R \ {t}) \cup F)
             = Cardinality(R) - (IF t \in R THEN 1 ELSE 0) + (IF F = {} THEN 0 ELSE 1)
        /\ Cardinality(R) \in Nat /\ Cardinality((R \ {t}) \cup F) \in Nat
    BY <1>1, <2>1, CountSwap
  <2>4. sendWaiters' # <<>> => Capacity - queued <= Cardinality((R \ {t}) \cup F)
    BY <1>0, <1>1, <2>1, <2>2, <2>3, CapacityAssumption DEF LcTypes
  <2>. QED
    BY <1>0, <1>5, <2>2, <2>4 DEF LcCounts
<1>. QED
  BY <1>3, <1>4, <1>6, <1>7 DEF LcInv

(* The future of recv, or a stream, is dropped.                                 *)
LEMMA LcDropsRecv ==
  ASSUME LcInv, NEW t \in Tasks, Lc!DropRecv(t)
  PROVE  LcInv'
<1>0. /\ LcTypes /\ LcLists /\ LcGone /\ LcCounts
      /\ lcWait[t] = "Receiver" /\ lcWait' = [lcWait EXCEPT ![t] = "none"]
      /\ UNCHANGED <<queued, sendWaiters, ends>>
  BY DEF LcInv, Lc!DropRecv
<1>1. PICK F \in SUBSET Members(recvWaiters) :
        /\ lcWoken' = (lcWoken \ {t}) \cup F /\ lcReady' = (lcReady \ {t}) \cup F
        /\ recvWaiters' \in Seq(Tasks) /\ Distinct(recvWaiters')
        /\ Members(recvWaiters') = Members(recvWaiters) \ (F \cup {t})
        /\ \A x, y \in F : x = y
        /\ t \notin F
        /\ recvWaiters' # <<>> => recvWaiters # <<>>
        /\ recvWaiters # <<>> /\ t \in lcReady => F # {} \/ queued = 0
  <2>1. CASE t \in lcWoken /\ queued > 0
    <3>1. /\ recvWaiters' = Lc!Rest(recvWaiters)
          /\ lcWoken' = (lcWoken \ {t}) \cup Lc!First(recvWaiters)
          /\ lcReady' = (lcReady \ {t}) \cup Lc!First(recvWaiters)
      BY <2>1, <1>0 DEF Lc!DropRecv, Lc!Wake, LcTypes
    <3>2. t \notin Members(recvWaiters)
      BY <1>0, <2>1 DEF LcLists, LcTypes
    <3>3. /\ recvWaiters' \in Seq(Tasks) /\ Distinct(recvWaiters')
          /\ Members(recvWaiters') = Members(recvWaiters) \ Lc!First(recvWaiters)
          /\ Lc!First(recvWaiters) \subseteq Members(recvWaiters)
          /\ \A x, y \in Lc!First(recvWaiters) : x = y
          /\ Lc!First(recvWaiters) = {} <=> recvWaiters = <<>>
          /\ recvWaiters' # <<>> => recvWaiters # <<>>
      BY <1>0, <3>1, LcRest DEF LcLists
    <3>4. Members(recvWaiters') = Members(recvWaiters) \ (Lc!First(recvWaiters) \cup {t})
      BY <3>2, <3>3
    <3>. QED
      BY <3>1, <3>2, <3>3, <3>4
  <2>2. CASE ~(t \in lcWoken /\ queued > 0)
    <3>1. /\ recvWaiters' = Lc!Without(recvWaiters, {t})
          /\ lcWoken' = lcWoken \ {t} /\ lcReady' = lcReady \ {t}
      BY <2>2, <1>0 DEF Lc!DropRecv, Lc!Wake, LcTypes
    <3>2. /\ recvWaiters' \in Seq(Tasks) /\ Distinct(recvWaiters')
          /\ Members(recvWaiters') = Members(recvWaiters) \ {t}
          /\ recvWaiters' # <<>> => recvWaiters # <<>>
      BY <1>0, <3>1, LcUnlink DEF LcLists
    <3>3. recvWaiters # <<>> /\ t \in lcReady => queued = 0
      <4>1. t \in lcReady => t \in Ready("Receiver")
        BY <1>0 DEF Ready
      <4>. QED
        BY <1>0, <2>2, <4>1 DEF LcGone, LcTypes
    <3>4. {} \in SUBSET Members(recvWaiters)
      OBVIOUS
    <3>. QED
      BY <3>1, <3>2, <3>3, <3>4
  <2>. QED
    BY <2>1, <2>2
<1>2. \A x \in F : x \in Tasks /\ lcWait[x] = "Receiver" /\ x \notin lcReady /\ x # t
  BY <1>0, <1>1 DEF LcLists, Waits
<1>3. LcTypes'
  BY <1>0, <1>1, <1>2 DEF LcTypes
<1>4. LcLists'
  BY <1>0, <1>1, <1>2 DEF LcTypes, LcLists, Waits
<1>5. Ready("Receiver")' = (Ready("Receiver") \ {t}) \cup F /\ Ready("Sender")' = Ready("Sender")
  BY <1>0, <1>1, <1>2 DEF LcTypes, Ready
<1>6. LcGone'
  <2>1. Waits("Receiver")' \subseteq Waits("Receiver") /\ Waits("Sender")' \subseteq Waits("Sender")
    BY <1>0 DEF Waits, LcTypes
  <2>2. t \notin Ready("Sender")
    BY <1>0 DEF Ready
  <2>. QED
    BY <1>0, <1>1, <1>5, <2>1, <2>2 DEF LcGone
<1>7. LcCounts'
  <2>. DEFINE R == Ready("Receiver")
  <2>1. IsFiniteSet(R) /\ F \cap R = {} /\ t \notin F /\ (t \in R <=> t \in lcReady)
    BY <1>0, <1>1, <1>2, ReadyFinite DEF Ready
  <2>2. Ready("Receiver")' = (R \ {t}) \cup F /\ (recvWaiters # <<>> => queued <= Cardinality(R))
    BY <1>0, <1>5 DEF R, LcCounts
  <2>. HIDE DEF R
  <2>3. /\ Cardinality((R \ {t}) \cup F)
             = Cardinality(R) - (IF t \in R THEN 1 ELSE 0) + (IF F = {} THEN 0 ELSE 1)
        /\ Cardinality(R) \in Nat /\ Cardinality((R \ {t}) \cup F) \in Nat
    BY <1>1, <2>1, CountSwap
  <2>4. recvWaiters' # <<>> => queued <= Cardinality((R \ {t}) \cup F)
    BY <1>0, <1>1, <2>1, <2>2, <2>3 DEF LcTypes
  <2>. QED
    BY <1>0, <1>5, <2>2, <2>4 DEF LcCounts
<1>. QED
  BY <1>3, <1>4, <1>6, <1>7 DEF LcInv

(* An end is dropped: every waiter for the other end is woken.                  *)
LEMMA LcDropsEnd ==
  ASSUME LcInv, Lc!DropSender \/ Lc!DropReceiver
  PROVE  LcInv'
<1>0. LcTypes /\ LcLists /\ LcGone /\ LcCounts
  BY DEF LcInv
<1>1. Members(<<>>) = {} /\ <<>> \in Seq(Tasks) /\ Distinct(<<>>)
  BY DEF Members, Distinct
<1>2. CASE Lc!DropSender
  <2>1. /\ ends' = ends \ {"Sender"} /\ recvWaiters' = <<>> /\ Waits("Sender") = {}
        /\ lcReady' = lcReady \cup Members(recvWaiters)
        /\ UNCHANGED <<queued, sendWaiters, lcWait, lcWoken>>
    BY <1>2, LcOperators DEF Lc!DropSender, Lc!Waiting, Waits
  <2>2. Members(recvWaiters) = Waits("Receiver") \ lcReady /\ Waits("Receiver") \subseteq Tasks
    BY <1>0 DEF LcLists, Waits
  <2>3. LcTypes'
    BY <1>0, <2>1, <2>2 DEF LcTypes, Waits
  <2>4. Waits("Sender")' = Waits("Sender") /\ Waits("Receiver")' = Waits("Receiver")
    BY <2>1 DEF Waits
  <2>5. LcLists'
    BY <1>0, <1>1, <2>1, <2>2, <2>4 DEF LcLists
  <2>6. Ready("Sender")' = {} /\ Ready("Sender") = {}
    BY <2>1 DEF Ready, Waits
  <2>7. LcGone'
    BY <1>0, <2>1, <2>4, <2>6 DEF LcGone
  <2>8. LcCounts'
    BY <1>0, <2>1, <2>6 DEF LcCounts
  <2>. QED
    BY <2>3, <2>5, <2>7, <2>8 DEF LcInv
<1>3. CASE Lc!DropReceiver
  <2>1. /\ ends' = ends \ {"Receiver"} /\ sendWaiters' = <<>> /\ Waits("Receiver") = {}
        /\ lcReady' = lcReady \cup Members(sendWaiters)
        /\ UNCHANGED <<queued, recvWaiters, lcWait, lcWoken>>
    BY <1>3, LcOperators DEF Lc!DropReceiver, Lc!Waiting, Waits
  <2>2. Members(sendWaiters) = Waits("Sender") \ lcReady /\ Waits("Sender") \subseteq Tasks
    BY <1>0 DEF LcLists, Waits
  <2>3. LcTypes'
    BY <1>0, <2>1, <2>2 DEF LcTypes, Waits
  <2>4. Waits("Sender")' = Waits("Sender") /\ Waits("Receiver")' = Waits("Receiver")
    BY <2>1 DEF Waits
  <2>5. LcLists'
    BY <1>0, <1>1, <2>1, <2>2, <2>4 DEF LcLists
  <2>6. Ready("Receiver")' = {} /\ Ready("Receiver") = {}
    BY <2>1 DEF Ready, Waits
  <2>7. LcGone'
    BY <1>0, <2>1, <2>4, <2>6 DEF LcGone
  <2>8. LcCounts'
    BY <1>0, <2>1, <2>6 DEF LcCounts
  <2>. QED
    BY <2>3, <2>5, <2>7, <2>8 DEF LcInv
<1>. QED
  BY <1>2, <1>3

LEMMA LcInit ==
  ASSUME Lc!Init
  PROVE  LcInv
<1>1. Members(<<>>) = {} /\ <<>> \in Seq(Tasks) /\ Distinct(<<>>)
  BY DEF Members, Distinct
<1>2. \A k \in {"Sender", "Receiver"} : Waits(k) = {} /\ Ready(k) = {}
  BY DEF Lc!Init, Waits, Ready
<1>3. LcTypes
  BY DEF Lc!Init, Lc!Ends, LcTypes
<1>4. LcLists
  BY <1>1, <1>2 DEF Lc!Init, LcLists
<1>5. LcGone
  BY <1>2 DEF Lc!Init, Lc!Ends, LcGone
<1>6. LcCounts
  BY DEF Lc!Init, LcCounts
<1>. QED
  BY <1>3, <1>4, <1>5, <1>6 DEF LcInv

LEMMA LcStep ==
  ASSUME LcInv, [Lc!Next]_(Lc!lcVars)
  PROVE  LcInv'
<1>0. /\ sendWaiters \in Seq(Tasks) /\ Distinct(sendWaiters) /\ queued \in Nat
      /\ lcWait \in [Tasks -> {"none", "Sender", "Receiver"}]
      /\ Members(sendWaiters) = Waits("Sender") \ lcReady
  BY DEF LcInv, LcTypes, LcLists
<1>1. ASSUME NEW t \in Tasks, Lc!TrySend(t) PROVE LcInv'
  <2>1. t \notin Members(sendWaiters) /\ lcWait' = [lcWait EXCEPT ![t] = "none"]
    BY <1>0, <1>1 DEF Lc!TrySend, Waits
  <2>2. queued < Capacity
    BY <1>0, <1>1, CapacityAssumption DEF Lc!TrySend, Lc!IsFull
  <2>3. Members(sendWaiters') = Members(sendWaiters) \ {t} /\ UNCHANGED <<sendWaiters, ends>>
    BY <1>1, <2>1 DEF Lc!TrySend
  <2>. QED
    BY <1>0, <1>1, <2>1, <2>2, <2>3, LcPushes DEF Lc!TrySend
<1>2. ASSUME NEW t \in Tasks, Lc!PollSend(t) PROVE LcInv'
  <2>1. CASE queued >= Capacity
    BY <1>0, <1>2, <2>1, LcSendWaits, CapacityAssumption DEF Lc!PollSend, Lc!IsFull
  <2>2. CASE queued < Capacity
    <3>1. sendWaiters' = Lc!Without(sendWaiters, {t})
      BY <1>0, <1>2, <2>2, CapacityAssumption DEF Lc!PollSend, Lc!IsFull
    <3>2. /\ sendWaiters' \in Seq(Tasks) /\ Distinct(sendWaiters')
          /\ Members(sendWaiters') = Members(sendWaiters) \ {t}
          /\ sendWaiters' # <<>> => sendWaiters # <<>>
      BY <1>0, <3>1, LcUnlink
    <3>. QED
      BY <1>0, <1>2, <2>2, <3>2, LcPushes, CapacityAssumption DEF Lc!PollSend, Lc!IsFull
  <2>. QED
    BY <1>0, <2>1, <2>2, CapacityAssumption
<1>3. ASSUME NEW t \in Tasks, Lc!PollRecv(t) PROVE LcInv'
  <2>1. CASE queued > 0
    BY <1>0, <1>3, <2>1, LcTakes DEF Lc!PollRecv
  <2>2. CASE queued = 0
    <3>1. /\ "Receiver" \in ends /\ lcWait[t] \in {"none", "Receiver"}
          /\ Lc!Wake(t, {}) /\ UNCHANGED <<ends, queued, sendWaiters>>
          /\ \/ /\ "Sender" \in ends /\ recvWaiters' = Lc!Register(recvWaiters, t)
                /\ lcWait' = [lcWait EXCEPT ![t] = "Receiver"]
             \/ /\ "Sender" \notin ends /\ recvWaiters' = Lc!Without(recvWaiters, {t})
                /\ lcWait' = [lcWait EXCEPT ![t] = "none"]
      BY <1>3, <2>2 DEF Lc!PollRecv
    <3>. QED
      BY <2>2, <3>1, LcRecvWaits
  <2>. QED
    BY <1>0, <2>1, <2>2
<1>4. CASE UNCHANGED Lc!lcVars
  <2>1. UNCHANGED <<queued, sendWaiters, recvWaiters, ends, lcWait, lcWoken, lcReady>>
    BY <1>4 DEF Lc!lcVars
  <2>. QED
    BY <2>1 DEF LcInv, LcTypes, LcLists, LcGone, LcCounts, Waits, Ready
<1>. QED
  BY <1>1, <1>2, <1>3, <1>4, LcDropsSend, LcDropsRecv, LcDropsEnd DEF Lc!Next

LEMMA LcMatches ==
  ASSUME LcInv
  PROVE  Lc!WakesMatchItems
<1>0. LcTypes /\ LcLists /\ LcGone /\ LcCounts
  BY DEF LcInv
<1>1. ASSUME NEW k \in {"Sender", "Receiver"}
      PROVE  /\ Lc!Waiting(k) = Waits(k) /\ Lc!Waiting(k) \cap lcReady = Ready(k)
             /\ Cardinality(Ready(k)) <= Cardinality(Waits(k))
             /\ Waits(k) \ lcReady = {} => Cardinality(Ready(k)) = Cardinality(Waits(k))
             /\ Cardinality(Ready(k)) \in Nat /\ Cardinality(Waits(k)) \in Nat
  <2>1. Ready(k) \in SUBSET Waits(k) /\ (Waits(k) \ lcReady = {} => Ready(k) = Waits(k))
    BY <1>0 DEF Ready, Waits, LcTypes
  <2>2. Lc!Waiting(k) = Waits(k) /\ Lc!Waiting(k) \cap lcReady = Ready(k)
    BY DEF Lc!Waiting, Waits, Ready
  <2>. QED
    BY <2>1, <2>2, ReadyFinite, FS_Subset
<1>2. ASSUME NEW a \in Int, NEW b \in Int, NEW c \in Int, c >= a \/ c >= b
      PROVE  c >= Lc!Min({a, b})
  <2>1. \E x \in {a, b} : \A y \in {a, b} : x <= y
    OBVIOUS
  <2>2. Lc!Min({a, b}) \in {a, b} /\ \A y \in {a, b} : Lc!Min({a, b}) <= y
    BY <2>1 DEF Lc!Min
  <2>. QED
    BY <1>2, <2>2
<1>3. Cardinality(Ready("Receiver")) >= Lc!Min({queued, Cardinality(Waits("Receiver"))})
  <2>1. /\ recvWaiters # <<>> => queued <= Cardinality(Ready("Receiver"))
        /\ recvWaiters = <<>> => Waits("Receiver") \ lcReady = {}
    BY <1>0, MembersEmpty DEF LcCounts, LcLists
  <2>2. \/ Cardinality(Ready("Receiver")) >= queued
        \/ Cardinality(Ready("Receiver")) >= Cardinality(Waits("Receiver"))
    BY <1>0, <1>1, <2>1 DEF LcTypes
  <2>3. queued \in Int /\ Cardinality(Ready("Receiver")) \in Int /\ Cardinality(Waits("Receiver")) \in Int
    BY <1>0, <1>1 DEF LcTypes
  <2>. QED
    BY <1>2, <2>2, <2>3
<1>4. Cardinality(Ready("Sender")) >= Lc!Min({Capacity - queued, Cardinality(Waits("Sender"))})
  <2>1. /\ sendWaiters # <<>> => Capacity - queued <= Cardinality(Ready("Sender"))
        /\ sendWaiters = <<>> => Waits("Sender") \ lcReady = {}
    BY <1>0, MembersEmpty DEF LcCounts, LcLists
  <2>2. \/ Cardinality(Ready("Sender")) >= Capacity - queued
        \/ Cardinality(Ready("Sender")) >= Cardinality(Waits("Sender"))
    BY <1>0, <1>1, <2>1, CapacityAssumption DEF LcTypes
  <2>3. /\ Capacity - queued \in Int /\ Cardinality(Ready("Sender")) \in Int
        /\ Cardinality(Waits("Sender")) \in Int
    BY <1>0, <1>1, CapacityAssumption DEF LcTypes
  <2>. QED
    BY <1>2, <2>2, <2>3
<1>5. Len(sendWaiters) + Len(recvWaiters) = Cardinality(Members(sendWaiters) \cup Members(recvWaiters))
  <2>1. /\ IsFiniteSet(Members(sendWaiters)) /\ Len(sendWaiters) = Cardinality(Members(sendWaiters))
        /\ IsFiniteSet(Members(recvWaiters)) /\ Len(recvWaiters) = Cardinality(Members(recvWaiters))
    BY <1>0, LengthCounts DEF LcLists
  <2>2. Members(sendWaiters) \cap Members(recvWaiters) = {}
    BY <1>0 DEF LcLists, Waits
  <2>3. Cardinality(Members(sendWaiters) \cup Members(recvWaiters))
          = Cardinality(Members(sendWaiters)) + Cardinality(Members(recvWaiters)) - Cardinality({})
    BY <2>1, <2>2, FS_Union
  <2>4. Cardinality(Members(sendWaiters)) \in Nat /\ Cardinality(Members(recvWaiters)) \in Nat
    BY <2>1, FS_CardinalityType
  <2>. QED
    BY <2>1, <2>3, <2>4, FS_EmptySet
<1>6. "Sender" \notin ends => Waits("Receiver") \subseteq lcReady
  BY <1>0, MembersEmpty DEF LcGone, LcLists
<1>. QED
  BY <1>0, <1>1, <1>3, <1>4, <1>5, <1>6, LcOperators DEF LcLists, Lc!WakesMatchItems

(* As many waiting receivers are about to be polled as there are items, and as  *)
(* many senders as there is room, whatever futures were dropped after they were *)
(* woken (push, recv_one, pass_on_wakeup).                                      *)
THEOREM WakesDoMatch == Lc!Spec => []Lc!WakesMatchItems /\ []WakesMatchItems
<1>1. Lc!Init => LcInv
  BY LcInit
<1>2. LcInv /\ [Lc!Next]_(Lc!lcVars) => LcInv'
  BY LcStep
<1>3. LcInv => Lc!WakesMatchItems
  BY LcMatches
<1>4. Lc!WakesMatchItems => WakesMatchItems
  BY DEF WakesMatchItems
<1>. QED
  BY <1>1, <1>2, <1>3, <1>4, PTL DEF Lc!Spec

----------------------------------------------------------------------------------
(* DeadlineQueue.                                                                 *)

Sending == {p \in Dq!Pushes : push[p] = "sending"}
AtWork == IF executing = NoTask THEN 0 ELSE 1

(* The channel holds the requests; its receiver is in the task that executes      *)
(* them, which does not end.                                                      *)
DqChannel ==
  /\ "Receiver" \in ends /\ requests \in Seq(Dq!Pushes) /\ queued = Len(requests)

(* Every push has one entry at most, and none before push_work.                   *)
DqEntries ==
  /\ push = [p \in Dq!Pushes |-> push[p]]
  /\ entries \in Seq(Dq!Pushes) /\ Distinct(entries)
  /\ \A p \in Members(entries) : push[p] # "new"

(* The pushes that still send have an entry each beside those that were sent, so  *)
(* that a push that is withdrawn does not take the entry of another.  There may   *)
(* be more: a pop takes the oldest entry, whose push may still be sending.        *)
DqEnough == Len(entries) >= Cardinality(Sending) + Len(requests) + AtWork

DqInv == DqChannel /\ DqEntries /\ DqEnough

LEMMA SendingFinite ==
  /\ IsFiniteSet(Sending) /\ Cardinality(Sending) \in Nat
  /\ IsFiniteSet(Sending') /\ Cardinality(Sending') \in Nat
<1>1. IsFiniteSet(Dq!Pushes)
  <2>1. Dq!Pushes \in SUBSET Tasks
    BY DEF Dq!Pushes
  <2>. QED
    BY <2>1, TasksAssumption, FS_Subset
<1>2. Sending \in SUBSET Dq!Pushes /\ Sending' \in SUBSET Dq!Pushes
  BY DEF Sending
<1>. QED
  BY <1>1, <1>2, FS_Subset, FS_CardinalityType

(* A push starts or stops sending.                                                *)
LEMMA SendingMoves ==
  ASSUME DqEntries, NEW p \in Dq!Pushes, NEW l, push' = [push EXCEPT ![p] = l]
  PROVE  /\ Cardinality(Sending') = Cardinality(Sending) + (IF l = "sending" THEN 1 ELSE 0)
                                                         - (IF push[p] = "sending" THEN 1 ELSE 0)
         /\ push' = [x \in Dq!Pushes |-> push'[x]]
         /\ push'[p] = l /\ \A x \in Dq!Pushes \ {p} : push'[x] = push[x]
<1>1. push' = [x \in Dq!Pushes |-> IF x = p THEN l ELSE push[x]]
  BY DEF DqEntries
<1>2. \A x \in Dq!Pushes : push'[x] = IF x = p THEN l ELSE push[x]
  BY <1>1
<1>3. Sending' = (IF l = "sending" THEN Sending \cup {p} ELSE Sending \ {p})
  BY <1>2 DEF Sending
<1>4. p \in Sending <=> push[p] = "sending"
  BY DEF Sending
<1>5. /\ push' = [x \in Dq!Pushes |-> push'[x]]
      /\ push'[p] = l /\ \A x \in Dq!Pushes \ {p} : push'[x] = push[x]
  BY <1>1, <1>2
<1>. DEFINE a == Cardinality(Sending)
            b == Cardinality(Sending')
<1>6. IsFiniteSet(Sending) /\ a \in Nat
  BY SendingFinite
<1>7. CASE l = "sending" /\ push[p] = "sending"
  <2>1. Sending' = Sending
    BY <1>3, <1>4, <1>7
  <2>2. b = a
    BY <2>1
  <2>. HIDE DEF a, b
  <2>3. b = a + 1 - 1
    BY <1>6, <2>2
  <2>. QED
    BY <1>5, <1>7, <2>3 DEF a, b
<1>8. CASE l = "sending" /\ push[p] # "sending"
  <2>1. b = a + 1
    BY <1>3, <1>4, <1>6, <1>8, CountAdd
  <2>. HIDE DEF a, b
  <2>2. b = a + 1 - 0
    BY <1>6, <2>1
  <2>. QED
    BY <1>5, <1>8, <2>2 DEF a, b
<1>9. CASE l # "sending" /\ push[p] = "sending"
  <2>1. b = a - 1
    BY <1>3, <1>4, <1>6, <1>9, CountRemove
  <2>. HIDE DEF a, b
  <2>2. b = a + 0 - 1
    BY <1>6, <2>1
  <2>. QED
    BY <1>5, <1>9, <2>2 DEF a, b
<1>10. CASE l # "sending" /\ push[p] # "sending"
  <2>1. Sending' = Sending
    BY <1>3, <1>4, <1>10
  <2>2. b = a
    BY <2>1
  <2>. HIDE DEF a, b
  <2>3. b = a + 0 - 0
    BY <1>6, <2>2
  <2>. QED
    BY <1>5, <1>10, <2>3 DEF a, b
<1>. QED
  BY <1>7, <1>8, <1>9, <1>10

(* The poll of send, as the channel and the push see it.                          *)
LEMMA SendMoves ==
  ASSUME DqChannel, DqEntries, NEW p \in Dq!Pushes, Dq!Send(p)
  PROVE  /\ DqChannel'
         /\ \/ push' = [push EXCEPT ![p] = "sending"] /\ Len(requests') = Len(requests)
            \/ push' = [push EXCEPT ![p] = "waiting"] /\ Len(requests') = Len(requests) + 1
<1>1. CASE Dq!IsFull
  <2>1. UNCHANGED <<queued, ends, requests>> /\ push' = [push EXCEPT ![p] = "sending"]
    BY <1>1 DEF Dq!Send, Dq!PollSend
  <2>. QED
    BY <2>1 DEF DqChannel
<1>2. CASE ~Dq!IsFull
  <2>1. /\ UNCHANGED ends /\ push' = [push EXCEPT ![p] = "waiting"]
        /\ requests' = Append(requests, p)
        /\ queued' = queued + (IF "Receiver" \in ends THEN 1 ELSE 0)
    BY <1>2 DEF Dq!Send, Dq!PollSend, Dq!Push
  <2>2. requests' \in Seq(Dq!Pushes) /\ Len(requests') = Len(requests) + 1
    BY <2>1 DEF DqChannel
  <2>. QED
    BY <2>1, <2>2 DEF DqChannel
<1>. QED
  BY <1>1, <1>2

LEMMA DqStep == DqInv /\ [Dq!DqNext]_(Dq!dqVars) => DqInv'
<1>. SUFFICES ASSUME DqInv, [Dq!DqNext]_(Dq!dqVars) PROVE DqInv'
  OBVIOUS
<1>0. /\ DqChannel /\ DqEntries /\ DqEnough /\ entries \in Seq(Dq!Pushes) /\ Distinct(entries)
      /\ Len(requests) \in Nat /\ Len(entries) \in Nat /\ AtWork \in {0, 1}
      /\ Cardinality(Sending) \in Nat
  <2>1. DqChannel /\ DqEntries /\ DqEnough
    BY DEF DqInv
  <2>2. requests \in Seq(Dq!Pushes) /\ entries \in Seq(Dq!Pushes) /\ Distinct(entries)
    BY <2>1 DEF DqChannel, DqEntries
  <2>3. Len(requests) \in Nat /\ Len(entries) \in Nat
    BY <2>2
  <2>4. AtWork \in {0, 1}
    BY DEF AtWork
  <2>. QED
    BY <2>1, <2>2, <2>3, <2>4, SendingFinite
<1>1. ASSUME NEW p \in Dq!Pushes, Dq!PushWork(p) PROVE DqInv'
  <2>0. /\ queueAlive /\ push[p] = "new" /\ entries' = Append(entries, p) /\ Dq!Send(p)
        /\ UNCHANGED <<executing, queueAlive>>
    BY <1>1 DEF Dq!PushWork
  <2>1. PICK l \in {"sending", "waiting"} :
          /\ DqChannel' /\ push' = [push EXCEPT ![p] = l]
          /\ Len(requests') = Len(requests) + (IF l = "sending" THEN 0 ELSE 1)
    BY <1>0, <2>0, SendMoves
  <2>2. /\ Cardinality(Sending') = Cardinality(Sending) + (IF l = "sending" THEN 1 ELSE 0)
        /\ push' = [x \in Dq!Pushes |-> push'[x]]
        /\ push'[p] = l /\ \A x \in Dq!Pushes \ {p} : push'[x] = push[x]
    <3>1. /\ Cardinality(Sending') = Cardinality(Sending) + (IF l = "sending" THEN 1 ELSE 0)
                                                         - (IF push[p] = "sending" THEN 1 ELSE 0)
          /\ push' = [x \in Dq!Pushes |-> push'[x]]
          /\ push'[p] = l /\ \A x \in Dq!Pushes \ {p} : push'[x] = push[x]
      BY <1>0, <2>1, SendingMoves
    <3>. QED
      BY <1>0, <2>0, <3>1
  <2>3. p \notin Members(entries)
    BY <1>0, <2>0 DEF DqEntries
  <2>4. /\ entries' \in Seq(Dq!Pushes) /\ Distinct(entries') /\ Len(entries') = Len(entries) + 1
        /\ Members(entries') = Members(entries) \cup {p} /\ Members(entries) \subseteq Dq!Pushes
    BY <1>0, <2>0, <2>3, AppendFacts, MembersEmpty
  <2>5. DqEntries'
    BY <1>0, <2>2, <2>3, <2>4 DEF DqEntries
  <2>6. DqEnough'
    BY <1>0, <2>0, <2>1, <2>2, <2>4 DEF DqEnough, AtWork
  <2>. QED
    BY <2>1, <2>5, <2>6 DEF DqInv
<1>2. ASSUME NEW p \in Dq!Pushes, Dq!Refused(p) PROVE DqInv'
  <2>0. /\ push[p] = "new" /\ push' = [push EXCEPT ![p] = "over"]
        /\ UNCHANGED <<entries, requests, executing, queueAlive, queued, ends>>
    BY <1>2 DEF Dq!Refused, Dq!lcVars
  <2>1. /\ Cardinality(Sending') = Cardinality(Sending)
        /\ push' = [x \in Dq!Pushes |-> push'[x]]
        /\ push'[p] = "over" /\ \A x \in Dq!Pushes \ {p} : push'[x] = push[x]
    <3>1. /\ Cardinality(Sending') = Cardinality(Sending) + (IF "over" = "sending" THEN 1 ELSE 0)
                                                         - (IF push[p] = "sending" THEN 1 ELSE 0)
          /\ push' = [x \in Dq!Pushes |-> push'[x]]
          /\ push'[p] = "over" /\ \A x \in Dq!Pushes \ {p} : push'[x] = push[x]
      BY <1>0, <2>0, SendingMoves
    <3>. QED
      BY <1>0, <2>0, <3>1
  <2>2. Members(entries) \subseteq Dq!Pushes
    BY <1>0, MembersEmpty
  <2>3. DqEntries' /\ DqChannel'
    BY <1>0, <2>0, <2>1, <2>2 DEF DqEntries, DqChannel
  <2>4. DqEnough'
    BY <1>0, <2>0, <2>1 DEF DqEnough, AtWork
  <2>. QED
    BY <2>3, <2>4 DEF DqInv
<1>3. ASSUME NEW p \in Dq!Pushes, Dq!PollPush(p) PROVE DqInv'
  <2>0. push[p] = "sending" /\ Dq!Send(p) /\ UNCHANGED <<entries, executing, queueAlive>>
    BY <1>3 DEF Dq!PollPush
  <2>1. PICK l \in {"sending", "waiting"} :
          /\ DqChannel' /\ push' = [push EXCEPT ![p] = l]
          /\ Len(requests') = Len(requests) + (IF l = "sending" THEN 0 ELSE 1)
    BY <1>0, <2>0, SendMoves
  <2>2. /\ Cardinality(Sending') = Cardinality(Sending) - (IF l = "sending" THEN 0 ELSE 1)
        /\ push' = [x \in Dq!Pushes |-> push'[x]]
        /\ push'[p] = l /\ \A x \in Dq!Pushes \ {p} : push'[x] = push[x]
    <3>1. /\ Cardinality(Sending') = Cardinality(Sending) + (IF l = "sending" THEN 1 ELSE 0)
                                                         - (IF push[p] = "sending" THEN 1 ELSE 0)
          /\ push' = [x \in Dq!Pushes |-> push'[x]]
          /\ push'[p] = l /\ \A x \in Dq!Pushes \ {p} : push'[x] = push[x]
      BY <1>0, <2>1, SendingMoves
    <3>. QED
      BY <1>0, <2>0, <3>1
  <2>3. Members(entries) \subseteq Dq!Pushes
    BY <1>0, MembersEmpty
  <2>4. DqEntries'
    BY <1>0, <2>0, <2>2, <2>3 DEF DqEntries
  <2>5. DqEnough'
    BY <1>0, <2>0, <2>1, <2>2 DEF DqEnough, AtWork
  <2>. QED
    BY <2>1, <2>4, <2>5 DEF DqInv
<1>4. ASSUME NEW p \in Dq!Pushes, Dq!DropPush(p) PROVE DqInv'
  <2>0. /\ push[p] \in {"sending", "waiting"} /\ push' = [push EXCEPT ![p] = "over"]
        /\ UNCHANGED <<requests, executing, queueAlive, queued, ends>>
    BY <1>4 DEF Dq!DropPush, Dq!DropSend, Dq!lcVars
  <2>1. /\ Cardinality(Sending') = Cardinality(Sending) - (IF push[p] = "sending" THEN 1 ELSE 0)
        /\ push' = [x \in Dq!Pushes |-> push'[x]]
        /\ push'[p] = "over" /\ \A x \in Dq!Pushes \ {p} : push'[x] = push[x]
    <3>1. /\ Cardinality(Sending') = Cardinality(Sending) + (IF "over" = "sending" THEN 1 ELSE 0)
                                                         - (IF push[p] = "sending" THEN 1 ELSE 0)
          /\ push' = [x \in Dq!Pushes |-> push'[x]]
          /\ push'[p] = "over" /\ \A x \in Dq!Pushes \ {p} : push'[x] = push[x]
      BY <1>0, <2>0, SendingMoves
    <3>. QED
      BY <1>0, <3>1
  <2>2. /\ entries' \in Seq(Dq!Pushes) /\ Distinct(entries') /\ Members(entries') \subseteq Members(entries)
        /\ Len(entries') \in Nat
        /\ Len(entries') >= Len(entries) - (IF push[p] = "sending" THEN 1 ELSE 0)
    <3>1. CASE push[p] # "sending"
      BY <1>0, <1>4, <3>1 DEF Dq!DropPush
    <3>2. CASE push[p] = "sending"
      <4>. DEFINE w == Without(entries, {p})
      <4>1. entries' = w
        <5>1. entries' = Dq!Without(entries, {p})
          BY <1>4, <3>2 DEF Dq!DropPush, Dq!Withdraw
        <5>. QED
          BY <5>1, Zenon DEF Dq!Without, Without, Dq!Kept, Kept
      <4>2. w \in Seq(Dq!Pushes) /\ Members(w) = Members(entries) \ {p} /\ Distinct(w)
        BY <1>0, WithoutFacts
      <4>. HIDE DEF w
      <4>3. Len(w) = Cardinality(Members(w)) /\ Len(entries) = Cardinality(Members(entries))
            /\ IsFiniteSet(Members(entries))
        BY <1>0, <4>2, LengthCounts
      <4>4. Len(w) >= Len(entries) - 1
        <5>1. CASE p \in Members(entries)
          <6>1. Cardinality(Members(entries) \ {p}) = Cardinality(Members(entries)) - 1
            BY <4>3, <5>1, CountRemove
          <6>2. Len(w) = Len(entries) - 1
            BY <4>2, <4>3, <6>1
          <6>. QED
            BY <1>0, <6>2
        <5>2. CASE p \notin Members(entries)
          <6>1. Members(w) = Members(entries)
            BY <4>2, <5>2
          <6>2. Len(w) = Len(entries)
            BY <4>3, <6>1
          <6>. QED
            BY <1>0, <6>2
        <5>. QED
          BY <5>1, <5>2
      <4>5. Len(w) \in Nat
        BY <4>2
      <4>. QED
        BY <3>2, <4>1, <4>2, <4>4, <4>5
    <3>. QED
      BY <3>1, <3>2
  <2>3. Members(entries) \subseteq Dq!Pushes
    BY <1>0, MembersEmpty
  <2>4. DqEntries'
    BY <1>0, <2>1, <2>2, <2>3 DEF DqEntries
  <2>5. DqChannel'
    BY <1>0, <2>0 DEF DqChannel
  <2>6. DqEnough'
    BY <1>0, <2>0, <2>1, <2>2 DEF DqEnough, AtWork
  <2>. QED
    BY <2>4, <2>5, <2>6 DEF DqInv
<1>5. CASE Dq!NextRequest
  <2>0. executing = NoTask /\ UNCHANGED <<entries, push, queueAlive, ends>> /\ Sending' = Sending
    BY <1>5 DEF Dq!NextRequest, Dq!PollRecv, Sending
  <2>1. CASE queued > 0
    <3>1. queued' = queued - 1 /\ executing' = Head(requests) /\ requests' = Tail(requests)
      BY <1>5, <2>1 DEF Dq!NextRequest, Dq!PollRecv
    <3>2. requests # <<>> /\ requests' \in Seq(Dq!Pushes) /\ Len(requests') = Len(requests) - 1
      BY <1>0, <2>1, <3>1 DEF DqChannel
    <3>3. DqChannel' /\ DqEntries'
      BY <1>0, <2>0, <3>1, <3>2 DEF DqChannel, DqEntries
    <3>4. AtWork = 0 /\ AtWork' \in {0, 1}
      BY <2>0 DEF AtWork
    <3>5. DqEnough'
      BY <1>0, <2>0, <3>2, <3>4 DEF DqEnough
    <3>. QED
      BY <3>3, <3>5 DEF DqInv
  <2>2. CASE ~(queued > 0)
    <3>1. UNCHANGED <<queued, executing, requests>>
      BY <1>0, <1>5, <2>2 DEF Dq!NextRequest, Dq!PollRecv, DqChannel
    <3>. QED
      BY <1>0, <2>0, <3>1 DEF DqInv, DqChannel, DqEntries, DqEnough, AtWork
  <2>. QED
    BY <2>1, <2>2
<1>6. CASE Dq!ActionDone
  <2>0. /\ executing # NoTask /\ executing' = NoTask /\ push' = [push EXCEPT ![executing] = "over"]
        /\ UNCHANGED <<requests, queueAlive, queued, ends>>
        /\ entries # <<>> /\ entries' = Tail(entries)
    BY <1>6 DEF Dq!ActionDone, Dq!lcVars
  <2>1. push' = [x \in Dq!Pushes |-> push'[x]] /\ \A x \in Dq!Pushes : push'[x] \in {push[x], "over"}
    <3>1. push' = [x \in Dq!Pushes |-> IF x = executing THEN "over" ELSE push[x]]
      BY <1>0, <2>0 DEF DqEntries
    <3>. QED
      BY <3>1
  <2>2. Cardinality(Sending') <= Cardinality(Sending) /\ Cardinality(Sending') \in Nat
    <3>1. Sending' \subseteq Sending
      BY <2>1 DEF Sending
    <3>. QED
      BY <3>1, SendingFinite, FS_Subset
  <2>3. /\ entries' \in Seq(Dq!Pushes) /\ Distinct(entries') /\ Members(entries') \subseteq Members(entries)
        /\ Len(entries') = Len(entries) - 1
    <3>1. Len(entries') = Len(entries) - 1
      BY <1>0, <2>0
    <3>2. /\ entries' \in Seq(Dq!Pushes) /\ Distinct(entries')
          /\ Members(entries') \subseteq Members(entries)
      BY <1>0, <2>0, TailFacts
    <3>. QED
      BY <3>1, <3>2
  <2>4. DqEntries'
    <3>1. Members(entries) \subseteq Dq!Pushes
      BY <1>0, MembersEmpty
    <3>. QED
      BY <1>0, <2>1, <2>3, <3>1 DEF DqEntries
  <2>5. DqChannel'
    BY <1>0, <2>0 DEF DqChannel
  <2>6. DqEnough'
    BY <1>0, <2>0, <2>2, <2>3 DEF DqEnough, AtWork
  <2>. QED
    BY <2>4, <2>5, <2>6 DEF DqInv
<1>7. CASE Dq!DropQueue
  <2>0. /\ UNCHANGED <<entries, requests, push, executing, queued>>
        /\ ends' = ends \ {"Sender"}
    BY <1>7 DEF Dq!DropQueue, Dq!DropSender
  <2>1. Sending' = Sending /\ AtWork' = AtWork
    BY <2>0 DEF Sending, AtWork
  <2>2. DqEntries' /\ DqChannel' /\ DqEnough'
    BY <1>0, <2>0, <2>1 DEF DqEntries, DqChannel, DqEnough
  <2>. QED
    BY <2>2 DEF DqInv
<1>8. CASE UNCHANGED Dq!dqVars
  BY <1>8 DEF Dq!dqVars, Dq!lcVars, DqInv, DqChannel, DqEntries, DqEnough, Sending, AtWork
<1>. QED
  BY <1>1, <1>2, <1>3, <1>4, <1>5, <1>6, <1>7, <1>8 DEF Dq!DqNext

(* For any number of pushes, in any order of sends, withdrawals and executions,   *)
(* and for the requests left when the DeadlineQueue is dropped, the pop after an  *)
(* action finds an entry: its unwrap does not panic.                              *)
THEOREM PopDoesFind == Dq!DqSpec => []PopFinds
<1>1. ASSUME Dq!DqInit PROVE DqInv
  <2>1. /\ entries = <<>> /\ requests = <<>> /\ push = [p \in Dq!Pushes |-> "new"]
        /\ executing = NoTask /\ queued = 0 /\ "Receiver" \in ends
    BY <1>1 DEF Dq!DqInit, Dq!QueueInit, Dq!Init, Dq!Ends
  <2>2. Members(<<>>) = {} /\ Distinct(<<>>) /\ <<>> \in Seq(Dq!Pushes) /\ Len(<<>>) = 0
    BY DEF Members, Distinct
  <2>3. DqChannel /\ DqEntries
    BY <2>1, <2>2 DEF DqChannel, DqEntries
  <2>4. Cardinality(Sending) = 0
    <3>1. Sending = {}
      BY <2>1 DEF Sending
    <3>. QED
      BY <3>1, FS_EmptySet
  <2>5. DqEnough
    BY <2>1, <2>2, <2>4 DEF DqEnough, AtWork
  <2>. QED
    BY <2>3, <2>5 DEF DqInv
<1>2. ASSUME DqInv PROVE PopFinds
  <2>1. Dq!Outstanding = Len(requests) + AtWork /\ Len(requests) \in Nat /\ Len(entries) \in Nat
    BY <1>2 DEF Dq!Outstanding, AtWork, DqInv, DqChannel, DqEntries
  <2>2. Cardinality(Sending) \in Nat /\ AtWork \in {0, 1}
    BY SendingFinite DEF AtWork
  <2>. QED
    BY <1>2, <2>1, <2>2 DEF DqInv, DqEnough, PopFinds, Dq!PopFinds
<1>. QED
  BY <1>1, <1>2, DqStep, PTL DEF Dq!DqSpec

----------------------------------------------------------------------------------
(* The cell.                                                                    *)

(* The operators of its semaphore are those of the semaphore.                   *)
LEMMA CellOperators ==
  /\ \A ws : Oc!Initialising!Members(ws) = Members(ws)
  /\ \A ws, gone : Oc!Initialising!Without(ws, gone) = Without(ws, gone)
  /\ \A n : Oc!Initialising!Fit(n) = Fit(n)
<1>1. \A ws : Oc!Initialising!Members(ws) = Members(ws)
  BY DEF Oc!Initialising!Members, Members
<1>2. \A ws, gone : Oc!Initialising!Without(ws, gone) = Without(ws, gone)
  BY DEF Oc!Initialising!Without, Without, Oc!Initialising!Kept, Kept
<1>3. \A n : Oc!Initialising!Fit(n) = Fit(n)
  BY DEF Oc!Initialising!Fit, Fit, Oc!Initialising!Left, Left
<1>. QED
  BY <1>1, <1>2, <1>3

(* With one unit the front of the list fits.                                    *)
LEMMA FrontFits ==
  ASSUME waiters \in Seq(Tasks), \A t \in Members(waiters) : units[t] = 1
  PROVE  /\ Fit(1) \subseteq Members(waiters)
         /\ waiters # <<>> => Fit(1) # {}
<1>1. Left(1)[0] = 1
  BY LeftSteps
<1>2. Fit(1) \subseteq Members(waiters)
  BY DEF Fit, Members
<1>3. ASSUME waiters # <<>> PROVE waiters[1] \in Fit(1)
  <2>1. 1 \in 1 .. Len(waiters) /\ 1 - 1 = 0
    BY <1>3
  <2>2. waiters[1] \in Members(waiters)
    BY <2>1 DEF Members
  <2>3. units[waiters[1]] <= Left(1)[1 - 1]
    BY <1>1, <2>1, <2>2
  <2>. QED
    BY <2>1, <2>3 DEF Fit
<1>. QED
  BY <1>2, <1>3

Called == {t \in Tasks : ready[t] = TRUE}
WokenUp == {t \in Tasks : woken[t] = TRUE}

OcTypes ==
  /\ avail \in {0, 1} /\ waiters \in Seq(Tasks) /\ running \in Tasks \cup {NoTask}
  /\ phase \in [Tasks -> {"idle", "waiting", "holding"}] /\ units \in [Tasks -> Nat]
  /\ stage \in [Tasks -> {"none", "wait", "init", "close", "leave"}]
  /\ woken \in [Tasks -> BOOLEAN] /\ ready \in [Tasks -> BOOLEAN]

(* The stages of a call and the phases of the semaphore go together; there is   *)
(* one permit, and a call that has a value to publish has published none.       *)
OcStages ==
  /\ \A t \in Tasks : /\ stage[t] = "none" <=> phase[t] = "idle"
                      /\ stage[t] = "wait" <=> phase[t] = "waiting"
                      /\ phase[t] # "idle" => units[t] = 1
                      /\ stage[t] \in {"close", "leave"} <=> running = t
                      /\ stage[t] = "close" => cellValue # NoTask
  /\ \A t, u \in Tasks : phase[t] = "holding" /\ phase[u] = "holding" => t = u
  /\ avail = 0 <=> \E t \in Tasks : phase[t] = "holding"

(* A call that waits is in the list or its waker was called; a free permit next *)
(* to a list belongs to a call that was woken.                                  *)
OcTold ==
  /\ Members(waiters) = {t \in Tasks : phase[t] = "waiting"} \ Called
  /\ \A t \in Called : phase[t] = "waiting"
  /\ WokenUp \subseteq Called /\ (~closed => Called \subseteq WokenUp)
  /\ closed => waiters = <<>> /\ cellValue # NoTask
  /\ avail = 1 /\ waiters # <<>> => WokenUp # {}

OcInv == OcTypes /\ OcStages /\ OcTold

LEMMA CellInit == Oc!Init => OcInv
<1>. SUFFICES ASSUME Oc!Init PROVE OcInv
  OBVIOUS
<1>1. /\ avail = 1 /\ closed = FALSE /\ waiters = <<>> /\ running = NoTask /\ cellValue = NoTask
      /\ phase = [t \in Tasks |-> "idle"] /\ units = [t \in Tasks |-> 0]
      /\ woken = [t \in Tasks |-> FALSE] /\ ready = [t \in Tasks |-> FALSE]
      /\ stage = [t \in Tasks |-> "none"]
  BY DEF Oc!Init, Oc!Initialising!Init, Oc!CellInit
<1>2. OcTypes
  BY <1>1 DEF OcTypes
<1>3. OcStages
  BY <1>1, NoTaskAssumption DEF OcStages
<1>4. Called = {} /\ WokenUp = {} /\ Members(waiters) = {}
  BY <1>1 DEF Called, WokenUp, Members
<1>5. OcTold
  BY <1>1, <1>4 DEF OcTold
<1>. QED
  BY <1>2, <1>3, <1>5 DEF OcInv

(* A task takes the permit: it initialises the cell, has come too late, or sets *)
(* the value.                                                                   *)
LEMMA CellTaken ==
  ASSUME OcInv, NEW t \in Tasks, NEW s \in {"init", "close", "leave"}, phase[t] # "holding",
         avail = 1, avail' = 0, phase' = [phase EXCEPT ![t] = "holding"],
         units' \in [Tasks -> Nat], units'[t] = 1,
         \A u \in Tasks \ {t} : units'[u] = units[u],
         Oc!Go(t, s), running = NoTask, closed' = closed,
         s = "close" => cellValue' # NoTask, cellValue' = cellValue \/ cellValue' # NoTask,
         waiters' \in Seq(Tasks), Members(waiters') = Members(waiters) \ {t},
         WokenUp' = WokenUp \ {t}, Called' = Called \ {t},
         woken' \in [Tasks -> BOOLEAN], ready' \in [Tasks -> BOOLEAN]
  PROVE  OcInv'
<1>1. /\ stage' = [stage EXCEPT ![t] = s]
      /\ running' = IF s \in {"close", "leave"} THEN t ELSE NoTask
  BY DEF Oc!Go
<1>2. OcTypes'
  BY <1>1 DEF OcInv, OcTypes
<1>3. OcStages'
  <2>1. /\ stage'[t] = s /\ phase'[t] = "holding"
        /\ \A u \in Tasks \ {t} : /\ stage'[u] = stage[u] /\ phase'[u] = phase[u]
                                  /\ phase[u] # "holding"
    BY <1>1 DEF OcInv, OcTypes, OcStages
  <2>2. \A u \in Tasks \ {t} : stage[u] \notin {"close", "leave"} /\ running' # u
    BY <1>1, NoTaskAssumption DEF OcInv, OcStages
  <2>. QED
    BY <1>1, <2>1, <2>2, NoTaskAssumption DEF OcInv, OcStages
<1>4. OcTold'
  <2>1. {u \in Tasks : phase'[u] = "waiting"} = {u \in Tasks : phase[u] = "waiting"} \ {t}
    BY DEF OcInv, OcTypes
  <2>2. closed' => waiters' = <<>>
    <3>1. closed => Members(waiters) = {}
      BY MembersEmpty DEF OcInv, OcTypes, OcTold
    <3>2. Members(waiters') = {} <=> waiters' = <<>>
      BY MembersEmpty
    <3>. QED
      BY <3>1, <3>2
  <2>3. \A u \in Called' : phase'[u] = "waiting"
    BY DEF OcInv, OcTypes, OcTold, Called
  <2>. QED
    BY <2>1, <2>2, <2>3 DEF OcInv, OcTold
<1>. QED
  BY <1>2, <1>3, <1>4 DEF OcInv

(* The permit is released, and the front of the list is woken.                  *)
LEMMA CellReleased ==
  ASSUME OcInv, NEW t \in Tasks, Oc!Initialising!Release(t), Oc!Go(t, "none"),
         running \in {NoTask, t}, UNCHANGED cellValue
  PROVE  OcInv'
<1>. DEFINE C == Fit(1)
<1>1. /\ stage' = [stage EXCEPT ![t] = "none"] /\ running' = NoTask
  BY DEF Oc!Go
<1>2. /\ phase[t] = "holding" /\ units[t] = 1 /\ avail = 0
  BY DEF Oc!Initialising!Release, OcInv, OcStages
<1>3. /\ phase' = [phase EXCEPT ![t] = "idle"] /\ avail' = 1
      /\ waiters' = Without(waiters, C)
      /\ woken' = [u \in Tasks |-> u \in C \/ woken[u]]
      /\ ready' = [u \in Tasks |-> u \in C \/ ready[u]]
      /\ UNCHANGED <<closed, units>>
  <2>1. avail + units[t] = 1
    BY <1>2
  <2>. QED
    BY <2>1, CellOperators DEF Oc!Initialising!Release, Oc!Initialising!ProcessWakes
<1>4. C \subseteq Members(waiters) /\ (waiters # <<>> => C # {})
  <2>1. \A u \in Members(waiters) : units[u] = 1
    BY DEF OcInv, OcTypes, OcStages, OcTold
  <2>. QED
    BY <2>1, FrontFits DEF OcInv, OcTypes
<1>5. /\ waiters' \in Seq(Tasks) /\ Members(waiters') = Members(waiters) \ C
  <2>1. waiters \in Seq(Tasks)
    BY DEF OcInv, OcTypes
  <2>. HIDE DEF C
  <2>. QED
    BY <1>3, <2>1, WithoutFacts
<1>6. Members(waiters) \subseteq Tasks /\ (Members(waiters) = {} <=> waiters = <<>>)
      /\ (Members(waiters') = {} <=> waiters' = <<>>)
  BY <1>5, MembersEmpty DEF OcInv, OcTypes
<1>. HIDE DEF C
<1>7. woken' \in [Tasks -> BOOLEAN] /\ ready' \in [Tasks -> BOOLEAN]
  BY <1>3, Zenon
<1>8. WokenUp' = WokenUp \cup C /\ Called' = Called \cup C
  BY <1>3, <1>4, <1>6 DEF WokenUp, Called, OcInv, OcTypes
<1>9. OcTypes'
  BY <1>1, <1>3, <1>5, <1>7 DEF OcInv, OcTypes
<1>10. OcStages'
  <2>1. /\ stage'[t] = "none" /\ phase'[t] = "idle"
        /\ \A u \in Tasks \ {t} : /\ stage'[u] = stage[u] /\ phase'[u] = phase[u]
                                  /\ phase[u] # "holding"
    BY <1>1, <1>2, <1>3 DEF OcInv, OcTypes, OcStages
  <2>2. \A u \in Tasks \ {t} : stage[u] \notin {"close", "leave"}
    BY NoTaskAssumption DEF OcInv, OcStages
  <2>. QED
    BY <1>1, <1>3, <2>1, <2>2, NoTaskAssumption DEF OcInv, OcStages
<1>11. OcTold'
  <2>1. {u \in Tasks : phase'[u] = "waiting"} = {u \in Tasks : phase[u] = "waiting"}
    BY <1>2, <1>3 DEF OcInv, OcTypes
  <2>2. \A u \in Called' : phase'[u] = "waiting"
    BY <1>2, <1>3, <1>4, <1>8 DEF OcInv, OcTypes, OcTold, Called
  <2>3. Members(waiters') = {u \in Tasks : phase'[u] = "waiting"} \ Called'
    BY <1>5, <1>8, <2>1 DEF OcInv, OcTold
  <2>4. waiters' # <<>> => WokenUp' # {}
    BY <1>4, <1>5, <1>6, <1>8
  <2>5. WokenUp' \subseteq Called' /\ (~closed' => Called' \subseteq WokenUp')
    BY <1>3, <1>8 DEF OcInv, OcTold
  <2>6. closed' => waiters' = <<>> /\ cellValue' # NoTask
    BY <1>3, <1>5, <1>6 DEF OcInv, OcTold
  <2>. QED
    BY <2>2, <2>3, <2>4, <2>5, <2>6 DEF OcTold
<1>. QED
  BY <1>9, <1>10, <1>11 DEF OcInv

(* A task joins the list, or a waiting one is put back to it, when the permit   *)
(* is not there.                                                                *)
LEMMA CellAwaited ==
  ASSUME OcInv, NEW t \in Tasks, phase[t] # "holding", avail = 0, ~closed,
         phase' = [phase EXCEPT ![t] = "waiting"], units' \in [Tasks -> Nat], units'[t] = 1,
         \A u \in Tasks \ {t} : units'[u] = units[u],
         Oc!Go(t, "wait"), running = NoTask, UNCHANGED <<avail, closed, cellValue>>,
         waiters' \in Seq(Tasks), Members(waiters') = Members(waiters) \cup {t},
         WokenUp' = WokenUp \ {t}, Called' = Called \ {t},
         woken' \in [Tasks -> BOOLEAN], ready' \in [Tasks -> BOOLEAN]
  PROVE  OcInv'
<1>1. stage' = [stage EXCEPT ![t] = "wait"] /\ running' = NoTask
  BY DEF Oc!Go
<1>2. OcTypes'
  BY <1>1 DEF OcInv, OcTypes
<1>3. OcStages'
  <2>1. /\ stage'[t] = "wait" /\ phase'[t] = "waiting"
        /\ \A u \in Tasks \ {t} : stage'[u] = stage[u] /\ phase'[u] = phase[u]
    BY <1>1 DEF OcInv, OcTypes
  <2>2. \A u \in Tasks : stage[u] \notin {"close", "leave"}
    BY NoTaskAssumption DEF OcInv, OcStages
  <2>3. \A u \in Tasks : phase'[u] = "holding" <=> phase[u] = "holding"
    BY <2>1
  <2>4. /\ \A u, v \in Tasks : phase'[u] = "holding" /\ phase'[v] = "holding" => u = v
        /\ avail' = 0 <=> \E u \in Tasks : phase'[u] = "holding"
    BY <2>3 DEF OcInv, OcStages
  <2>5. \A u \in Tasks : running' # u
    BY <1>1, NoTaskAssumption
  <2>6. ASSUME NEW u \in Tasks
        PROVE  /\ stage'[u] = "none" <=> phase'[u] = "idle"
               /\ stage'[u] = "wait" <=> phase'[u] = "waiting"
               /\ phase'[u] # "idle" => units'[u] = 1
               /\ stage'[u] \notin {"close", "leave"}
    BY <2>1, <2>2 DEF OcInv, OcStages
  <2>. QED
    BY <2>4, <2>5, <2>6 DEF OcStages
<1>4. OcTold'
  <2>1. {u \in Tasks : phase'[u] = "waiting"} = {u \in Tasks : phase[u] = "waiting"} \cup {t}
    BY DEF OcInv, OcTypes
  <2>2. \A u \in Called' : phase'[u] = "waiting"
    BY DEF OcInv, OcTypes, OcTold, Called
  <2>3. Members(waiters') = {u \in Tasks : phase'[u] = "waiting"} \ Called'
    BY <2>1 DEF OcInv, OcTold
  <2>4. WokenUp' \subseteq Called' /\ (~closed' => Called' \subseteq WokenUp')
    BY DEF OcInv, OcTold
  <2>. QED
    BY <2>2, <2>3, <2>4 DEF OcTold
<1>. QED
  BY <1>2, <1>3, <1>4 DEF OcInv

(* A call leaves the list, or never was in it, without the permit: the wakes C  *)
(* are passed on.                                                               *)
LEMMA CellLeft ==
  ASSUME OcInv, NEW t \in Tasks, NEW C, C \subseteq Members(waiters), phase[t] = "waiting",
         phase' = [phase EXCEPT ![t] = "idle"], Oc!Go(t, "none"), running = NoTask,
         UNCHANGED <<avail, units, closed, cellValue>>,
         waiters' \in Seq(Tasks), Members(waiters') = Members(waiters) \ (C \cup {t}),
         WokenUp' = (WokenUp \cup C) \ {t}, Called' = (Called \cup C) \ {t},
         woken' \in [Tasks -> BOOLEAN], ready' \in [Tasks -> BOOLEAN],
         avail = 1 /\ ~closed /\ waiters' # <<>> => WokenUp' # {}
  PROVE  OcInv'
<1>1. stage' = [stage EXCEPT ![t] = "none"] /\ running' = NoTask
  BY DEF Oc!Go
<1>2. OcTypes'
  BY <1>1 DEF OcInv, OcTypes
<1>3. OcStages'
  <2>1. /\ stage'[t] = "none" /\ phase'[t] = "idle"
        /\ \A u \in Tasks \ {t} : stage'[u] = stage[u] /\ phase'[u] = phase[u]
    BY <1>1 DEF OcInv, OcTypes
  <2>2. \A u \in Tasks : stage[u] \notin {"close", "leave"}
    BY NoTaskAssumption DEF OcInv, OcStages
  <2>3. \A u \in Tasks : phase'[u] = "holding" <=> phase[u] = "holding"
    BY <2>1
  <2>4. /\ \A u, v \in Tasks : phase'[u] = "holding" /\ phase'[v] = "holding" => u = v
        /\ avail' = 0 <=> \E u \in Tasks : phase'[u] = "holding"
    BY <2>3 DEF OcInv, OcStages
  <2>5. \A u \in Tasks : running' # u
    BY <1>1, NoTaskAssumption
  <2>6. ASSUME NEW u \in Tasks
        PROVE  /\ stage'[u] = "none" <=> phase'[u] = "idle"
               /\ stage'[u] = "wait" <=> phase'[u] = "waiting"
               /\ phase'[u] # "idle" => units'[u] = 1
               /\ stage'[u] \notin {"close", "leave"}
    BY <2>1, <2>2 DEF OcInv, OcStages
  <2>. QED
    BY <2>4, <2>5, <2>6 DEF OcStages
<1>4. OcTold'
  <2>1. {u \in Tasks : phase'[u] = "waiting"} = {u \in Tasks : phase[u] = "waiting"} \ {t}
    BY DEF OcInv, OcTypes
  <2>2. \A u \in Called' : phase'[u] = "waiting"
    BY DEF OcInv, OcTypes, OcTold, Called
  <2>3. Members(waiters') = {u \in Tasks : phase'[u] = "waiting"} \ Called'
    BY <2>1 DEF OcInv, OcTold
  <2>4. WokenUp' \subseteq Called' /\ (~closed' => Called' \subseteq WokenUp')
    BY DEF OcInv, OcTold
  <2>5. closed' => waiters' = <<>>
    <3>1. closed => Members(waiters) = {}
      BY MembersEmpty DEF OcInv, OcTypes, OcTold
    <3>2. Members(waiters') = {} <=> waiters' = <<>>
      BY MembersEmpty
    <3>. QED
      BY <3>1, <3>2
  <2>. QED
    BY <2>2, <2>3, <2>4, <2>5 DEF OcInv, OcTold
<1>. QED
  BY <1>2, <1>3, <1>4 DEF OcInv

(* The list without a task, with it, and its wakes taken back.                  *)
LEMMA CellLists ==
  ASSUME OcInv, NEW t \in Tasks
  PROVE  /\ Without(waiters, {t}) \in Seq(Tasks) /\ Append(waiters, t) \in Seq(Tasks)
         /\ Members(Without(waiters, {t})) = Members(waiters) \ {t}
         /\ Members(Append(waiters, t)) = Members(waiters) \cup {t}
         /\ UNCHANGED <<woken, ready>> => WokenUp' = WokenUp /\ Called' = Called
         /\ woken' = [woken EXCEPT ![t] = FALSE] /\ ready' = [ready EXCEPT ![t] = FALSE] =>
              /\ WokenUp' = WokenUp \ {t} /\ Called' = Called \ {t}
              /\ woken' \in [Tasks -> BOOLEAN] /\ ready' \in [Tasks -> BOOLEAN]
<1>1. waiters \in Seq(Tasks)
  BY DEF OcInv, OcTypes
<1>2. /\ Without(waiters, {t}) \in Seq(Tasks) /\ Append(waiters, t) \in Seq(Tasks)
      /\ Members(Without(waiters, {t})) = Members(waiters) \ {t}
      /\ Members(Append(waiters, t)) = Members(waiters) \cup {t}
  BY <1>1, WithoutFacts, AppendFacts
<1>3. UNCHANGED <<woken, ready>> => WokenUp' = WokenUp /\ Called' = Called
  BY DEF WokenUp, Called
<1>4. woken' = [woken EXCEPT ![t] = FALSE] /\ ready' = [ready EXCEPT ![t] = FALSE] =>
        /\ WokenUp' = WokenUp \ {t} /\ Called' = Called \ {t}
        /\ woken' \in [Tasks -> BOOLEAN] /\ ready' \in [Tasks -> BOOLEAN]
  BY DEF WokenUp, Called, OcInv, OcTypes
<1>. QED
  BY <1>2, <1>3, <1>4

LEMMA CellGets ==
  ASSUME OcInv, NEW t \in Tasks, Oc!GetOrTryInit(t) \/ Oc!Set(t)
  PROVE  OcInv'
<1>1. /\ running = NoTask /\ phase[t] = "idle" /\ units' = [units EXCEPT ![t] = 1]
      /\ UNCHANGED <<closed, woken, ready>> /\ avail \in {0, 1} /\ ~closed
  BY DEF Oc!GetOrTryInit, Oc!Set, Oc!Initialising!Acquire, Oc!Initialising!TryAcquire, OcInv, OcTypes
<1>2. /\ units' \in [Tasks -> Nat] /\ units'[t] = 1 /\ \A u \in Tasks \ {t} : units'[u] = units[u]
      /\ woken' \in [Tasks -> BOOLEAN] /\ ready' \in [Tasks -> BOOLEAN]
  BY <1>1 DEF OcInv, OcTypes
<1>3. /\ t \notin Members(waiters) /\ WokenUp' = WokenUp \ {t} /\ Called' = Called \ {t}
  BY <1>1, CellLists DEF OcInv, OcTold
<1>4. CASE avail = 1
  <2>1. /\ avail' = 0 /\ phase' = [phase EXCEPT ![t] = "holding"] /\ waiters' = waiters
    BY <1>1, <1>4 DEF Oc!GetOrTryInit, Oc!Set, Oc!Initialising!Acquire, Oc!Initialising!TryAcquire
  <2>2. phase'[t] = "holding"
    BY <2>1 DEF OcInv, OcTypes
  <2>3. \/ Oc!Go(t, "init") /\ UNCHANGED cellValue
        \/ Oc!Go(t, "close") /\ cellValue' # NoTask
    BY <2>2, NoTaskAssumption DEF Oc!GetOrTryInit, Oc!Set
  <2>4. waiters' \in Seq(Tasks) /\ Members(waiters') = Members(waiters) \ {t}
    BY <1>3, <2>1 DEF OcInv, OcTypes
  <2>. QED
    BY <1>1, <1>2, <1>3, <1>4, <2>1, <2>3, <2>4, CellTaken
<1>5. CASE avail = 0
  <2>1. /\ avail' = avail /\ phase' = [phase EXCEPT ![t] = "waiting"]
        /\ waiters' = Append(waiters, t) /\ Oc!GetOrTryInit(t)
    BY <1>1, <1>5 DEF Oc!GetOrTryInit, Oc!Set, Oc!Initialising!Acquire, Oc!Initialising!TryAcquire
  <2>2. phase'[t] = "waiting"
    BY <2>1 DEF OcInv, OcTypes
  <2>3. Oc!Go(t, "wait") /\ UNCHANGED cellValue
    BY <2>1, <2>2 DEF Oc!GetOrTryInit
  <2>4. waiters' \in Seq(Tasks) /\ Members(waiters') = Members(waiters) \cup {t}
    BY <2>1, CellLists
  <2>. QED
    BY <1>1, <1>2, <1>3, <1>5, <2>1, <2>3, <2>4, CellAwaited
<1>. QED
  BY <1>1, <1>4, <1>5

LEMMA CellPolled ==
  ASSUME OcInv, NEW t \in Tasks, Oc!PollPermit(t)
  PROVE  OcInv'
<1>1. /\ running = NoTask /\ phase[t] = "waiting" /\ Oc!Initialising!Poll(t) /\ UNCHANGED cellValue
      /\ Oc!Go(t, CASE phase'[t] = "waiting" -> "wait"
                    [] phase'[t] = "idle" -> "none"
                    [] phase'[t] = "holding" -> IF cellValue = NoTask THEN "init" ELSE "leave")
  BY DEF Oc!PollPermit, Oc!Initialising!Poll
<1>2. /\ woken' = [woken EXCEPT ![t] = FALSE] /\ ready' = [ready EXCEPT ![t] = FALSE]
      /\ UNCHANGED <<closed, units>>
  BY <1>1 DEF Oc!Initialising!Poll
<1>3. /\ units[t] = 1 /\ units' \in [Tasks -> Nat] /\ avail \in {0, 1}
  BY <1>1, <1>2 DEF OcInv, OcTypes, OcStages
<1>4. /\ WokenUp' = WokenUp \ {t} /\ Called' = Called \ {t}
      /\ woken' \in [Tasks -> BOOLEAN] /\ ready' \in [Tasks -> BOOLEAN]
      /\ Without(waiters, {t}) \in Seq(Tasks) /\ Append(waiters, t) \in Seq(Tasks)
      /\ Members(Without(waiters, {t})) = Members(waiters) \ {t}
      /\ Members(Append(waiters, t)) = Members(waiters) \cup {t}
  BY <1>2, CellLists
<1>5. CASE closed
  <2>1. /\ phase' = [phase EXCEPT ![t] = "idle"] /\ waiters' = Without(waiters, {t})
        /\ avail' = avail
    BY <1>1, <1>5, CellOperators DEF Oc!Initialising!Poll, Oc!Initialising!Unlink
  <2>2. phase'[t] = "idle"
    BY <2>1 DEF OcInv, OcTypes
  <2>3. Oc!Go(t, "none")
    BY <1>1, <2>2
  <2>. DEFINE C == {}
  <2>4. /\ Members(waiters') = Members(waiters) \ (C \cup {t}) /\ waiters' \in Seq(Tasks)
        /\ WokenUp' = (WokenUp \cup C) \ {t} /\ Called' = (Called \cup C) \ {t}
        /\ C \subseteq Members(waiters) /\ UNCHANGED <<avail, units, closed, cellValue>>
    BY <1>1, <1>2, <1>4, <2>1
  <2>. HIDE DEF C
  <2>. QED
    BY <1>1, <1>4, <1>5, <2>1, <2>3, <2>4, CellLeft
<1>6. CASE ~closed /\ avail = 1
  <2>1. /\ phase' = [phase EXCEPT ![t] = "holding"] /\ waiters' = Without(waiters, {t})
        /\ avail' = 0
    BY <1>1, <1>3, <1>6, CellOperators DEF Oc!Initialising!Poll, Oc!Initialising!Unlink
  <2>2. phase'[t] = "holding"
    BY <2>1 DEF OcInv, OcTypes
  <2>3. Oc!Go(t, "init") \/ Oc!Go(t, "leave")
    BY <1>1, <2>2
  <2>. QED
    BY <1>1, <1>2, <1>3, <1>4, <1>6, <2>1, <2>3, CellTaken
<1>7. CASE ~closed /\ avail = 0
  <2>1. /\ phase' = phase /\ avail' = avail
        /\ waiters' = IF t \in Members(waiters) THEN waiters ELSE Append(waiters, t)
    BY <1>1, <1>3, <1>7, CellOperators DEF Oc!Initialising!Poll, Oc!Initialising!Linked
  <2>2. phase' = [phase EXCEPT ![t] = "waiting"] /\ phase'[t] = "waiting"
    BY <1>1, <2>1 DEF OcInv, OcTypes
  <2>3. Oc!Go(t, "wait")
    BY <1>1, <2>2
  <2>4. waiters' \in Seq(Tasks) /\ Members(waiters') = Members(waiters) \cup {t}
    BY <1>4, <2>1 DEF OcInv, OcTypes
  <2>. QED
    BY <1>1, <1>2, <1>3, <1>4, <1>7, <2>1, <2>2, <2>3, <2>4, CellAwaited
<1>. QED
  BY <1>3, <1>5, <1>6, <1>7

(* A call that was woken and is dropped passes the wake on.                     *)
LEMMA CellDropped ==
  ASSUME OcInv, NEW t \in Tasks, Oc!DropCall(t)
  PROVE  OcInv'
<1>. DEFINE C == IF woken[t] THEN Fit(avail) ELSE {}
<1>1. /\ running = NoTask /\ phase[t] = "waiting" /\ Oc!Go(t, "none")
      /\ phase' = [phase EXCEPT ![t] = "idle"] /\ waiters' = Without(waiters, C \cup {t})
      /\ woken' = [x \in Tasks |-> x # t /\ (x \in C \/ woken[x])]
      /\ ready' = [x \in Tasks |-> x # t /\ (x \in C \/ ready[x])]
      /\ UNCHANGED <<avail, units, closed, cellValue>>
  BY CellOperators DEF Oc!DropCall, Oc!Initialising!DropWaiter
<1>2. /\ waiters \in Seq(Tasks) /\ Members(waiters) \subseteq Tasks /\ avail \in {0, 1}
      /\ (Members(waiters) = {} <=> waiters = <<>>) /\ \A u \in Members(waiters) : units[u] = 1
  <2>1. waiters \in Seq(Tasks) /\ \A u \in Members(waiters) : units[u] = 1
    BY DEF OcInv, OcTypes, OcStages, OcTold
  <2>2. avail \in {0, 1}
    BY DEF OcInv, OcTypes
  <2>. QED
    BY <2>1, <2>2, MembersEmpty
<1>3. C \subseteq Members(waiters)
  BY DEF Fit, Members
<1>4. avail = 1 /\ t \in WokenUp /\ waiters # <<>> => C # {}
  <2>1. waiters # <<>> => Fit(1) # {}
    BY <1>2, FrontFits
  <2>. QED
    BY <2>1 DEF WokenUp
<1>. HIDE DEF C
<1>5. waiters' \in Seq(Tasks) /\ Members(waiters') = Members(waiters) \ (C \cup {t})
  BY <1>1, <1>2, WithoutFacts
<1>6. woken' \in [Tasks -> BOOLEAN] /\ ready' \in [Tasks -> BOOLEAN]
  BY <1>1, Zenon
<1>7. WokenUp' = (WokenUp \cup C) \ {t} /\ Called' = (Called \cup C) \ {t}
  BY <1>1, <1>2, <1>3 DEF WokenUp, Called, OcInv, OcTypes
<1>8. ASSUME avail = 1, ~closed, waiters' # <<>> PROVE WokenUp' # {}
  <2>1. waiters # <<>>
    <3>1. Members(waiters') = {} <=> waiters' = <<>>
      BY <1>5, MembersEmpty
    <3>. QED
      BY <1>2, <1>5, <1>8, <3>1
  <2>2. CASE t \in WokenUp
    <3>1. C # {}
      BY <1>4, <1>8, <2>1, <2>2
    <3>2. t \notin Members(waiters)
      BY <2>2 DEF OcInv, OcTold
    <3>. QED
      BY <1>3, <1>7, <3>1, <3>2
  <2>3. CASE t \notin WokenUp
    BY <1>7, <1>8, <2>1, <2>3 DEF OcInv, OcTold
  <2>. QED
    BY <2>2, <2>3
<1>. QED
  BY <1>1, <1>3, <1>5, <1>6, <1>7, <1>8, CellLeft

(* The initialiser returns: the value is set, and the call is about to close    *)
(* the semaphore.                                                               *)
LEMMA CellInitialised ==
  ASSUME OcInv, NEW t \in Tasks, Oc!Initialise(t)
  PROVE  OcInv'
<1>1. /\ running = NoTask /\ stage[t] = "init" /\ cellValue' = t
      /\ stage' = [stage EXCEPT ![t] = "close"] /\ running' = t
      /\ UNCHANGED <<avail, closed, waiters, phase, units, woken, ready>>
  BY DEF Oc!Initialise, Oc!Go, Oc!semVars
<1>2. OcTypes'
  BY <1>1 DEF OcInv, OcTypes
<1>3. OcStages'
  <2>1. /\ stage'[t] = "close" /\ phase[t] = "holding"
        /\ \A u \in Tasks \ {t} : stage'[u] = stage[u] /\ stage[u] \notin {"close", "leave"}
    BY <1>1, NoTaskAssumption DEF OcInv, OcTypes, OcStages
  <2>2. ASSUME NEW u \in Tasks
        PROVE  /\ stage'[u] = "none" <=> phase'[u] = "idle"
               /\ stage'[u] = "wait" <=> phase'[u] = "waiting"
               /\ phase'[u] # "idle" => units'[u] = 1
               /\ stage'[u] \in {"close", "leave"} <=> running' = u
    BY <1>1, <2>1 DEF OcInv, OcStages
  <2>3. cellValue' # NoTask
    BY <1>1, NoTaskAssumption
  <2>4. /\ \A u, v \in Tasks : phase'[u] = "holding" /\ phase'[v] = "holding" => u = v
        /\ avail' = 0 <=> \E u \in Tasks : phase'[u] = "holding"
    BY <1>1 DEF OcInv, OcStages
  <2>. QED
    BY <2>2, <2>3, <2>4 DEF OcStages
<1>4. OcTold'
  <2>1. WokenUp' = WokenUp /\ Called' = Called /\ cellValue' # NoTask
    BY <1>1, NoTaskAssumption DEF WokenUp, Called
  <2>. QED
    BY <1>1, <2>1 DEF OcInv, OcTold
<1>. QED
  BY <1>2, <1>3, <1>4 DEF OcInv

(* The semaphore is closed: every call in the list is woken.                    *)
LEMMA CellPublished ==
  ASSUME OcInv, NEW t \in Tasks, Oc!Publish(t)
  PROVE  OcInv'
<1>1. /\ running = t /\ stage[t] = "close" /\ closed' = TRUE /\ waiters' = <<>>
      /\ ready' = [u \in Tasks |-> u \in Members(waiters) \/ ready[u]]
      /\ stage' = [stage EXCEPT ![t] = "leave"] /\ running' = t
      /\ UNCHANGED <<avail, phase, units, woken, cellValue>>
  BY CellOperators DEF Oc!Publish, Oc!Go, Oc!Initialising!Close, Oc!Initialising!Linked
<1>2. ready' \in [Tasks -> BOOLEAN]
  BY <1>1, Zenon
<1>3. <<>> \in Seq(Tasks) /\ Members(<<>>) = {} /\ Members(waiters) \subseteq Tasks
  BY MembersEmpty DEF OcInv, OcTypes, Members
<1>4. Called' = Called \cup Members(waiters) /\ WokenUp' = WokenUp
  BY <1>1, <1>3 DEF WokenUp, Called, OcInv, OcTypes
<1>5. OcTypes'
  BY <1>1, <1>2, <1>3 DEF OcInv, OcTypes
<1>6. OcStages'
  <2>1. /\ stage'[t] = "leave" /\ phase[t] = "holding"
        /\ \A u \in Tasks \ {t} : stage'[u] = stage[u] /\ stage[u] \notin {"close", "leave"}
    BY <1>1 DEF OcInv, OcTypes, OcStages
  <2>2. ASSUME NEW u \in Tasks
        PROVE  /\ stage'[u] = "none" <=> phase'[u] = "idle"
               /\ stage'[u] = "wait" <=> phase'[u] = "waiting"
               /\ phase'[u] # "idle" => units'[u] = 1
               /\ stage'[u] \in {"close", "leave"} <=> running' = u
               /\ stage'[u] # "close"
    BY <1>1, <2>1 DEF OcInv, OcStages
  <2>3. /\ \A u, v \in Tasks : phase'[u] = "holding" /\ phase'[v] = "holding" => u = v
        /\ avail' = 0 <=> \E u \in Tasks : phase'[u] = "holding"
    BY <1>1 DEF OcInv, OcStages
  <2>. QED
    BY <2>2, <2>3 DEF OcStages
<1>7. OcTold'
  <2>1. cellValue # NoTask
    BY <1>1 DEF OcInv, OcStages
  <2>2. \A u \in Called' : phase[u] = "waiting"
    BY <1>4 DEF OcInv, OcTold
  <2>3. {u \in Tasks : phase[u] = "waiting"} \ Called' = {}
    BY <1>4 DEF OcInv, OcTold
  <2>4. WokenUp' \subseteq Called'
    BY <1>4 DEF OcInv, OcTold
  <2>. QED
    BY <1>1, <1>3, <2>1, <2>2, <2>3, <2>4 DEF OcTold
<1>. QED
  BY <1>5, <1>6, <1>7 DEF OcInv

(* A fresh cell.                                                                *)
LEMMA CellReset ==
  ASSUME OcInv, Oc!Take
  PROVE  OcInv'
<1>1. /\ \A t \in Tasks : stage[t] = "none"
      /\ avail' = 1 /\ closed' = FALSE /\ cellValue' = NoTask
      /\ UNCHANGED <<waiters, phase, units, woken, ready, stage, running>>
  BY DEF Oc!Take
<1>2. \A t \in Tasks : phase[t] = "idle"
  BY <1>1 DEF OcInv, OcStages
<1>3. Called = {} /\ WokenUp = {} /\ waiters = <<>>
  <2>1. Called = {} /\ WokenUp = {}
    BY <1>2 DEF OcInv, OcTold, Called
  <2>2. Members(waiters) = {}
    BY <1>2 DEF OcInv, OcTold
  <2>. QED
    BY <2>1, <2>2, MembersEmpty DEF OcInv, OcTypes
<1>4. Called' = Called /\ WokenUp' = WokenUp
  BY <1>1 DEF Called, WokenUp
<1>5. OcTypes'
  BY <1>1 DEF OcInv, OcTypes
<1>6. OcStages'
  BY <1>1, <1>2 DEF OcInv, OcStages
<1>7. OcTold'
  BY <1>1, <1>3, <1>4 DEF OcInv, OcTold
<1>. QED
  BY <1>5, <1>6, <1>7 DEF OcInv

LEMMA CellStep == OcInv /\ [Oc!Next]_Oc!onceVars => OcInv'
<1>. SUFFICES ASSUME OcInv, [Oc!Next]_Oc!onceVars PROVE OcInv'
  OBVIOUS
<1>1. CASE UNCHANGED Oc!onceVars
  BY <1>1 DEF Oc!onceVars, Oc!semVars, Oc!cellVars, OcInv, OcTypes, OcStages, OcTold, Called, WokenUp
<1>2. CASE Oc!Take
  BY <1>2, CellReset
<1>3. ASSUME NEW t \in Tasks, Oc!InitFails(t) \/ Oc!Reenter(t) \/ Oc!LeaveCall(t) PROVE OcInv'
  BY <1>3, CellReleased DEF Oc!InitFails, Oc!Reenter, Oc!LeaveCall
<1>4. ASSUME NEW t \in Tasks,
             \/ Oc!GetOrTryInit(t) \/ Oc!Set(t) \/ Oc!PollPermit(t) \/ Oc!DropCall(t)
             \/ Oc!Initialise(t) \/ Oc!Publish(t)
      PROVE  OcInv'
  BY <1>4, CellGets, CellPolled, CellDropped, CellInitialised, CellPublished
<1>. QED
  BY <1>1, <1>2, <1>3, <1>4 DEF Oc!Next

(* For any number of calls, with initialisers that fail, panic or re-enter and  *)
(* calls dropped while they wait, a call that waits for the permit has an       *)
(* initialiser at work or a woken call before it, and a call that finds the     *)
(* semaphore closed finds a value.                                              *)
THEOREM CallsAreServed == Oc!Spec => []Oc!CallNotStranded /\ []CallNotStranded
<1>1. ASSUME OcInv PROVE Oc!CallNotStranded
  <2>1. closed => cellValue # NoTask
    BY <1>1 DEF OcInv, OcTold
  <2>2. ASSUME NEW t \in Tasks, stage[t] = "wait"
        PROVE  running # NoTask \/ \E u \in Tasks : stage[u] = "init" \/ (stage[u] = "wait" /\ ready[u])
    <3>1. phase[t] = "waiting"
      BY <1>1, <2>2 DEF OcInv, OcStages
    <3>2. \A u \in Called : stage[u] = "wait" /\ ready[u] /\ u \in Tasks
      BY <1>1 DEF OcInv, OcStages, OcTold, Called
    <3>3. CASE Called # {}
      BY <3>2, <3>3
    <3>4. CASE Called = {}
      <4>1. t \in Members(waiters)
        BY <1>1, <3>1, <3>4 DEF OcInv, OcTold
      <4>2. waiters # <<>>
        BY <1>1, <4>1, MembersEmpty DEF OcInv, OcTypes
      <4>3. avail = 0
        BY <1>1, <3>4, <4>2 DEF OcInv, OcTypes, OcTold
      <4>4. PICK u \in Tasks : phase[u] = "holding"
        BY <1>1, <4>3 DEF OcInv, OcStages
      <4>5. stage[u] \in {"init", "close", "leave"}
        BY <1>1, <4>4 DEF OcInv, OcTypes, OcStages
      <4>6. stage[u] \in {"close", "leave"} => running # NoTask
        BY <1>1, NoTaskAssumption DEF OcInv, OcStages
      <4>. QED
        BY <4>5, <4>6
    <3>. QED
      BY <3>3, <3>4
  <2>. QED
    BY <2>1, <2>2 DEF Oc!CallNotStranded
<1>2. OcInv => Oc!CallNotStranded /\ CallNotStranded
  BY <1>1 DEF CallNotStranded
<1>. QED
  BY CellInit, CellStep, <1>2, PTL DEF Oc!Spec

----------------------------------------------------------------------------------
(* The tasks of an executor, their handles and queues.                          *)

Polled == Members(polls)

(* The queues.  A queue with runnables is active, and what is active is there.  *)
SpQueues ==
  /\ Sp!Default \in available /\ active \subseteq available
  /\ spExecuting # NoTask => spExecuting \in available
  /\ executorIndex \in Nat
  /\ \A q \in Sp!Queues : runnables[q] # <<>> => q \in active

(* A task that is scheduled and not being polled has one runnable, on its queue *)
(* or, to be dropped, on the default queue.                                     *)
SpPlaced ==
  /\ \A q \in Sp!Queues : Distinct(runnables[q])
  /\ \A q, r \in Sp!Queues : q # r => Members(runnables[q]) \cap Members(runnables[r]) = {}
  /\ \A t \in Sp!TaskIds :
       t \in scheduled \ Polled <=> \E q \in Sp!Queues : t \in Members(runnables[q])
  /\ \A q \in Sp!Queues : \A t \in Members(runnables[q]) :
       home[t] = q \/ (q = Sp!Default /\ t \in spClosed)

(* A task is polled once at a time, alive, on its queue.                        *)
SpPolls ==
  /\ Distinct(polls)
  /\ \A t \in Polled : future[t] = "alive" /\ home[t] = spExecuting

(* Nobody knows of a task that was not spawned.                                 *)
SpUnborn ==
  \A t \in Sp!TaskIds : future[t] = "none" =>
    /\ t \notin completed \cup spClosed \cup scheduled \cup scoped
    /\ holder[t] = NoTask /\ \A u \in Sp!TaskIds : awaiter[u] # t

(* The end of a task.                                                           *)
SpEnded ==
  /\ \A t \in completed : future[t] = "dropped" /\ t \notin scheduled
  /\ \A t \in Sp!TaskIds :
       /\ future[t] = "dropped" => t \in completed \cup spClosed
       /\ future[t] = "alive" /\ t \in spClosed => t \in scheduled \cup Polled
       /\ future[t] = "dropped" => awaiter[t] = NoTask \/ t \in scheduled

SpScopes ==
  \A t \in scoped : holder[t] = NoTask /\ future[t] = "alive" => t \in Polled \cap spClosed

SpInv == Sp!TypeOK /\ SpQueues /\ SpPlaced /\ SpPolls /\ SpUnborn /\ SpEnded /\ SpScopes

----------------------------------------------------------------------------------
(* Sequences.                                                                   *)

LEMMA NoTaskApart == NoTask \notin Sp!TaskIds /\ NoTask \notin Sp!Queues /\ NoTask # Sp!Shared
<1>1. NoTask \notin Nat /\ MaxTasks \in Nat /\ MaxQueues \in Nat
  BY SpawnAssumption
<1>2. (\A x \in 1 .. MaxTasks : x \in Nat) /\ \A x \in 0 .. MaxQueues - 1 : x \in Nat
  BY <1>1
<1>. QED
  BY <1>1, <1>2 DEF Sp!TaskIds, Sp!Queues, Sp!Shared

LEMMA PolledRange ==
  ASSUME polls \in Seq(Sp!TaskIds)
  PROVE  Sp!Running = Polled
BY DEF Sp!Running, Sp!Range, Polled, Members

(* The first m.                                                                 *)
LEMMA PrefixFacts ==
  ASSUME NEW T, NEW ws \in Seq(T), NEW m \in 0 .. Len(ws)
  PROVE  /\ SubSeq(ws, 1, m) \in Seq(T) /\ Len(SubSeq(ws, 1, m)) = m
         /\ \A i \in 1 .. m : SubSeq(ws, 1, m)[i] = ws[i]
<1>1. 1 .. m \subseteq 1 .. Len(ws) /\ m \in Nat
  OBVIOUS
<1>2. SubSeq(ws, 1, m) \in Seq(T)
  BY <1>1
<1>3. Len(SubSeq(ws, 1, m)) = m
  BY <1>1
<1>4. \A i \in 1 .. m : SubSeq(ws, 1, m)[i] = ws[i]
  BY <1>1
<1>. QED
  BY <1>2, <1>3, <1>4

(* The last one is removed.                                                     *)
LEMMA FrontFacts ==
  ASSUME NEW T, NEW ws \in Seq(T), Distinct(ws), ws # <<>>
  PROVE  /\ Sp!Front(ws) \in Seq(T)
         /\ Sp!Last(ws) \in Members(ws)
         /\ Members(Sp!Front(ws)) = Members(ws) \ {Sp!Last(ws)}
         /\ Distinct(Sp!Front(ws))
<1>. DEFINE n == Len(ws)
<1>1. n \in Nat \ {0}
  OBVIOUS
<1>2. Sp!Front(ws) \in Seq(T) /\ Len(Sp!Front(ws)) = n - 1 /\ \A i \in 1 .. n - 1 : Sp!Front(ws)[i] = ws[i]
  <2>1. Sp!Front(ws) = SubSeq(ws, 1, n - 1)
    BY DEF Sp!Front
  <2>. DEFINE f == SubSeq(ws, 1, n - 1)
  <2>2. n - 1 \in 0 .. Len(ws)
    BY <1>1
  <2>3. f \in Seq(T) /\ Len(f) = n - 1 /\ \A i \in 1 .. n - 1 : f[i] = ws[i]
    BY <2>2, PrefixFacts
  <2>. QED
    BY <2>1, <2>3
<1>3. Sp!Last(ws) = ws[n] /\ n \in 1 .. n
  BY <1>1 DEF Sp!Last
<1>4. \A i \in 1 .. n : i \in 1 .. n - 1 \/ i = n
  BY <1>1
<1>5. Distinct(Sp!Front(ws))
  BY <1>1, <1>2 DEF Distinct
<1>6. Members(Sp!Front(ws)) = {ws[i] : i \in 1 .. n - 1}
  BY <1>1, <1>2 DEF Members
<1>7. {ws[i] : i \in 1 .. n - 1} = Members(ws) \ {ws[n]}
  BY <1>1, <1>4 DEF Members, Distinct
<1>. QED
  BY <1>2, <1>3, <1>5, <1>6, <1>7 DEF Members

(* One list behind another.                                                     *)
LEMMA ConcatFacts ==
  ASSUME NEW T, NEW a \in Seq(T), NEW b \in Seq(T), Distinct(a), Distinct(b),
         Members(a) \cap Members(b) = {}
  PROVE  /\ a \o b \in Seq(T)
         /\ Members(a \o b) = Members(a) \cup Members(b)
         /\ Distinct(a \o b)
<1>. DEFINE c == a \o b  m == Len(a)  n == Len(b)
<1>1. c \in Seq(T) /\ m \in Nat /\ n \in Nat /\ Len(c) = m + n
  OBVIOUS
<1>2. /\ \A i \in 1 .. m : c[i] = a[i] /\ i \in 1 .. m + n
      /\ \A i \in 1 .. n : c[m + i] = b[i] /\ m + i \in 1 .. m + n
  BY <1>1
<1>3. \A i \in 1 .. m + n : i \in 1 .. m \/ (i - m \in 1 .. n /\ i = m + (i - m))
  BY <1>1
<1>4. \A i \in 1 .. m + n : (i \in 1 .. m /\ c[i] = a[i]) \/ (i - m \in 1 .. n /\ c[i] = b[i - m])
  BY <1>2, <1>3
<1>. HIDE DEF c, m, n
<1>5. Members(c) = Members(a) \cup Members(b)
  <2>1. Members(c) = {c[i] : i \in 1 .. m + n} /\ Members(a) = {a[i] : i \in 1 .. m}
        /\ Members(b) = {b[i] : i \in 1 .. n}
    BY <1>1 DEF Members, m, n
  <2>2. Members(c) \subseteq Members(a) \cup Members(b)
    BY <2>1, <1>4
  <2>3. Members(a) \subseteq Members(c) /\ Members(b) \subseteq Members(c)
    BY <2>1, <1>2
  <2>. QED
    BY <2>2, <2>3
<1>6. Distinct(c)
  <2>. SUFFICES ASSUME NEW i \in 1 .. m + n, NEW j \in 1 .. m + n, c[i] = c[j] PROVE i = j
    BY <1>1 DEF Distinct
  <2>1. \A x \in 1 .. m, y \in 1 .. n : a[x] # b[y]
    BY DEF Members, m, n
  <2>2. CASE i \in 1 .. m /\ j \in 1 .. m
    BY <2>2, <1>2 DEF Distinct, m
  <2>3. CASE i \notin 1 .. m /\ j \notin 1 .. m
    <3>1. i - m \in 1 .. n /\ j - m \in 1 .. n /\ b[i - m] = b[j - m]
      BY <2>3, <1>4
    <3>2. i - m = j - m
      BY <3>1 DEF Distinct, n
    <3>. QED
      BY <3>2, <1>1
  <2>4. CASE i \in 1 .. m /\ j \notin 1 .. m
    <3>1. c[i] = a[i] /\ j - m \in 1 .. n /\ c[j] = b[j - m]
      BY <2>4, <1>2, <1>4
    <3>. QED
      BY <2>4, <2>1, <3>1
  <2>5. CASE i \notin 1 .. m /\ j \in 1 .. m
    <3>1. c[j] = a[j] /\ i - m \in 1 .. n /\ c[i] = b[i - m]
      BY <2>5, <1>2, <1>4
    <3>. QED
      BY <2>5, <2>1, <3>1
  <2>. QED
    BY <2>2, <2>3, <2>4, <2>5
<1>. QED
  BY <1>1, <1>5, <1>6 DEF c

(* The orders of a set.                                                         *)
LEMMA OrderFacts ==
  ASSUME NEW S \in SUBSET Sp!TaskIds, NEW s \in Sp!SetToSeqs(S)
  PROVE  s \in Seq(Sp!TaskIds) /\ Distinct(s) /\ Members(s) = S
<1>1. Sp!Cardinality(S) = Cardinality(S)
  BY Zenon DEF Sp!Cardinality, Cardinality
<1>2. IsFiniteSet(S) /\ Cardinality(S) \in Nat
  <2>1. MaxTasks \in Int /\ 1 \in Int
    BY SpawnAssumption
  <2>2. IsFiniteSet(1 .. MaxTasks)
    BY <2>1, FS_Interval
  <2>. QED
    BY <2>2, FS_Subset, FS_CardinalityType DEF Sp!TaskIds
<1>. DEFINE n == Cardinality(S)
<1>. HIDE DEF n
<1>3. s \in [1 .. n -> S] /\ \A i, j \in 1 .. n : i # j => s[i] # s[j]
  BY <1>1 DEF Sp!SetToSeqs, n
<1>4. n \in Nat
  BY <1>2 DEF n
<1>5. s \in Seq(Sp!TaskIds) /\ Len(s) = n
  BY <1>3, <1>4
<1>6. s \in Injection(1 .. n, S)
  BY <1>3 DEF Injection, IsInjective
<1>7. Cardinality(1 .. n) = n
  <2>1. 1 \in Int /\ n \in Int
    BY <1>4
  <2>2. Cardinality(1 .. n) = IF 1 > n THEN 0 ELSE n - 1 + 1
    BY <2>1, FS_Interval
  <2>. QED
    BY <2>2, <1>4
<1>8. s \in Surjection(1 .. n, S)
  BY <1>2, <1>6, <1>7, FS_Injection DEF n
<1>9. Members(s) = S
  BY <1>3, <1>5, <1>8 DEF Members, Surjection
<1>. QED
  BY <1>3, <1>5, <1>9 DEF Distinct

----------------------------------------------------------------------------------
(* What the operators of Spawning return.                                       *)

(* Those that are dropped in place: the ones given, and idle scoped tasks that  *)
(* one of them holds; no such task is left.                                     *)
LEMMA InPlaceFacts ==
  ASSUME Sp!TypeOK, NEW D \in SUBSET Sp!TaskIds
  PROVE  /\ D \subseteq Sp!InPlace(D) /\ Sp!InPlace(D) \in SUBSET Sp!TaskIds
         /\ \A u \in scoped \ Polled : holder[u] \in Sp!InPlace(D) => u \in Sp!InPlace(D)
         /\ \A u \in Sp!InPlace(D) \ D : u \in scoped \ Polled /\ holder[u] \in Sp!InPlace(D)
<1>. DEFINE idle == scoped \ Polled
            Shut(S) == \A u \in idle : holder[u] \in D \cup S => u \in S
            I == {t \in idle : \A S \in SUBSET idle : Shut(S) => t \in S}
<1>1. Sp!Running = Polled
  BY PolledRange DEF Sp!TypeOK
<1>2. Sp!InPlace(D) = D \cup I
  BY <1>1 DEF Sp!InPlace
<1>3. idle \subseteq Sp!TaskIds
  BY DEF Sp!TypeOK
<1>4. ASSUME NEW u \in idle, holder[u] \in D \cup I PROVE u \in I
  <2>. SUFFICES ASSUME NEW S \in SUBSET idle, Shut(S) PROVE u \in S
    OBVIOUS
  <2>1. holder[u] \in D \cup S
    BY <1>4
  <2>. QED
    BY <2>1
<1>5. ASSUME NEW u \in I PROVE holder[u] \in D \cup I
  <2>. DEFINE R == {v \in I : holder[v] \in D \cup I}
  <2>1. R \in SUBSET idle
    OBVIOUS
  <2>2. Shut(R)
    <3>. SUFFICES ASSUME NEW v \in idle, holder[v] \in D \cup R PROVE v \in R
      OBVIOUS
    <3>1. holder[v] \in D \cup I
      OBVIOUS
    <3>2. v \in I
      BY <3>1, <1>4
    <3>. QED
      BY <3>1, <3>2
  <2>3. u \in R
    BY <2>1, <2>2
  <2>. QED
    BY <2>3
<1>. HIDE DEF I
<1>6. I \subseteq idle
  BY DEF I
<1>. QED
  BY <1>2, <1>3, <1>4, <1>5, <1>6

(* Those that are woken hear it, and were told or are awaiters.                 *)
LEMMA WokenFacts ==
  ASSUME Sp!TypeOK, NEW told \in SUBSET (Sp!TaskIds \cup {NoTask}), NEW deaf, NoTask \in deaf
  PROVE  /\ Sp!Woken(told, deaf) \in SUBSET Sp!TaskIds
         /\ Sp!Woken(told, deaf) \cap deaf = {}
         /\ \A t \in Sp!Woken(told, deaf) : t \in told \/ \E u \in Sp!TaskIds : awaiter[u] = t
<1>. DEFINE hear == Sp!TaskIds \ deaf
            Good(S) == /\ told \cap hear \subseteq S
                       /\ \A u \in S : Sp!Homeless(u) => awaiter[u] \in S \cup deaf
            W == {t \in hear : \A S \in SUBSET hear : Good(S) => t \in S}
            R == {t \in hear : t \in told \/ \E u \in Sp!TaskIds : awaiter[u] = t}
<1>1. Sp!Woken(told, deaf) = W
  BY DEF Sp!Woken
<1>2. R \in SUBSET hear
  OBVIOUS
<1>3. Good(R)
  <2>1. told \cap hear \subseteq R
    OBVIOUS
  <2>2. ASSUME NEW u \in R PROVE awaiter[u] \in R \cup deaf
    <3>1. u \in Sp!TaskIds /\ awaiter[u] \in Sp!TaskIds \cup {NoTask}
      BY DEF Sp!TypeOK
    <3>. QED
      BY <3>1
  <2>. QED
    BY <2>1, <2>2
<1>. HIDE DEF Good
<1>4. W \subseteq R
  BY <1>2, <1>3
<1>. QED
  BY <1>1, <1>2, <1>4

(* Runnables are pushed on queues that are there, behind the others.            *)
LEMMA QueueOfFacts ==
  ASSUME Sp!TypeOK, SpQueues, NEW t \in Sp!TaskIds
  PROVE  /\ Sp!QueueOf(t) \in available /\ Sp!QueueOf(t) \in Sp!Queues
         /\ Sp!QueueOf(t) = home[t] \/ (Sp!QueueOf(t) = Sp!Default /\ home[t] \notin available)
BY DEF Sp!TypeOK, SpQueues, Sp!QueueOf

LEMMA PushFacts ==
  ASSUME Sp!TypeOK, SpQueues, NEW there \in [Sp!Queues -> Seq(Sp!TaskIds)],
         NEW pushed \in SUBSET Sp!TaskIds, Sp!Push(there, pushed),
         \A q \in Sp!Queues : Distinct(there[q]) /\ Members(there[q]) \cap pushed = {}
  PROVE  /\ runnables' \in [Sp!Queues -> Seq(Sp!TaskIds)]
         /\ \A q \in Sp!Queues :
              /\ Distinct(runnables'[q])
              /\ Members(runnables'[q]) = Members(there[q]) \cup {t \in pushed : Sp!QueueOf(t) = q}
         /\ active' = active \cup {Sp!QueueOf(t) : t \in pushed}
<1>. DEFINE B(q) == Sp!Behind(there[q], q, pushed)
            N(q) == {t \in pushed : Sp!QueueOf(t) = q}
<1>1. PICK r \in [Sp!Queues -> UNION {B(q) : q \in Sp!Queues}] :
        (\A q \in Sp!Queues : r[q] \in B(q)) /\ runnables' = r
  BY DEF Sp!Push
<1>2. ASSUME NEW q \in Sp!Queues
      PROVE  /\ r[q] \in Seq(Sp!TaskIds) /\ Distinct(r[q])
             /\ Members(r[q]) = Members(there[q]) \cup N(q)
  <2>1. N(q) \in SUBSET Sp!TaskIds /\ Members(there[q]) \cap N(q) = {}
    OBVIOUS
  <2>2. PICK s \in Sp!SetToSeqs(N(q)) : r[q] = there[q] \o s
    BY <1>1 DEF Sp!Behind
  <2>. HIDE DEF N
  <2>3. s \in Seq(Sp!TaskIds) /\ Distinct(s) /\ Members(s) = N(q)
    BY <2>1, <2>2, OrderFacts
  <2>4. there[q] \in Seq(Sp!TaskIds) /\ Distinct(there[q])
    OBVIOUS
  <2>. QED
    BY <2>1, <2>2, <2>3, <2>4, ConcatFacts
<1>3. r \in [Sp!Queues -> Seq(Sp!TaskIds)]
  BY <1>1, <1>2
<1>4. active' = active \cup {Sp!QueueOf(t) : t \in pushed}
  BY DEF Sp!Push
<1>. QED
  BY <1>1, <1>2, <1>3, <1>4

----------------------------------------------------------------------------------
(* Tasks end, are cancelled and are woken.                                      *)

LEMMA SettleHolds ==
  ASSUME SpInv,
         NEW there \in [Sp!Queues -> Seq(Sp!TaskIds)], NEW left \in SUBSET Sp!TaskIds,
         NEW dropped \in SUBSET Sp!TaskIds, NEW released \in SUBSET Sp!TaskIds,
         NEW cancelled \in SUBSET Sp!TaskIds,
         Sp!Settle(there, left, dropped, released, cancelled),
         UNCHANGED <<scoped, home, available, spExecuting, executorIndex>>,
         \A q \in Sp!Queues : Distinct(there[q]) /\ Members(there[q]) = Members(runnables[q]) \ left,
         polls' \in Seq(Sp!TaskIds), Distinct(polls'), Members(polls') = Polled \ left,
         left \subseteq dropped, left \subseteq spClosed \cup Polled, dropped \cap Polled \subseteq left,
         completed' = completed \/ completed' = completed \cup left,
         dropped \subseteq completed' \cup spClosed \cup released \cup cancelled,
         \A t \in dropped \cup released \cup cancelled : future[t] # "none",
         released \cap scoped \subseteq dropped \cup Polled
  PROVE  SpInv'
<1>. DEFINE ended == Sp!InPlace(dropped)
            givenUp == released \cup {t \in Sp!TaskIds : holder[t] \in ended}
            cut == (cancelled \cup givenUp) \ (spClosed \cup completed)
            deaf == {NoTask} \cup left \cup ended \cup completed \cup spClosed \cup cut
                      \cup scheduled
            told == {awaiter[t] : t \in cut \cup left}
            roused == Sp!Woken(told, deaf)
            homeless == {t \in roused : Sp!Homeless(t)}
            pushed == (cut \cup roused) \ (scheduled \cup Polled)
<1>1. /\ Sp!TypeOK /\ SpQueues /\ SpPlaced /\ SpPolls /\ SpUnborn /\ SpEnded /\ SpScopes
      /\ Sp!Running = Polled
  BY PolledRange DEF SpInv, Sp!TypeOK
<1>2. /\ future' = [t \in Sp!TaskIds |-> IF t \in ended THEN "dropped" ELSE future[t]]
      /\ spClosed' = spClosed \cup cut \cup homeless
      /\ scheduled' = (scheduled \ left) \cup (cut \ Polled) \cup roused
      /\ holder' = [t \in Sp!TaskIds |-> IF t \in givenUp THEN NoTask ELSE holder[t]]
      /\ awaiter' = [t \in Sp!TaskIds |-> IF t \in cut \cup left \cup homeless THEN NoTask
                                          ELSE awaiter[t]]
      /\ Sp!Push(there, pushed)
  <2>1. PICK e, l, c, d, w :
          /\ e = Sp!InPlace(dropped)
          /\ l = released \cup {t \in Sp!TaskIds : holder[t] \in e}
          /\ c = (cancelled \cup l) \ (spClosed \cup completed)
          /\ d = {NoTask} \cup left \cup e \cup completed \cup spClosed \cup c \cup scheduled
          /\ w = Sp!Woken({awaiter[t] : t \in c \cup left}, d)
          /\ Sp!Settled(there, left, e, l, c, w)
    BY DEF Sp!Settle
  <2>2. l = givenUp
    BY <2>1
  <2>3. c = cut
    <3>. HIDE DEF givenUp
    <3>. QED
      BY <2>1, <2>2
  <2>4. d = deaf /\ {awaiter[t] : t \in c \cup left} = told
    <3>. HIDE DEF cut
    <3>. QED
      BY <2>1, <2>3
  <2>5. Sp!Settled(there, left, ended, givenUp, cut, roused)
    <3>1. w = roused
      <4>. HIDE DEF told, deaf
      <4>. QED
        BY <2>1, <2>4
    <3>. HIDE DEF ended, givenUp, cut, roused
    <3>. QED
      BY <2>1, <2>2, <2>3, <3>1 DEF ended
  <2>. QED
    BY <1>1, <2>5 DEF Sp!Settled
<1>3. /\ dropped \subseteq ended /\ ended \in SUBSET Sp!TaskIds
      /\ \A u \in scoped \ Polled : holder[u] \in ended => u \in ended
      /\ \A u \in ended \ dropped : u \in scoped \ Polled /\ holder[u] \in ended
  BY <1>1, InPlaceFacts
<1>. HIDE DEF ended
<1>4. /\ givenUp \in SUBSET Sp!TaskIds /\ cut \in SUBSET Sp!TaskIds
      /\ \A t \in givenUp : t \in released \/ holder[t] \in ended
      /\ \A t \in ended : t \in dropped \/ t \in givenUp
  BY <1>3
<1>5. told \in SUBSET (Sp!TaskIds \cup {NoTask}) /\ NoTask \in deaf
  BY <1>1, <1>4 DEF Sp!TypeOK
<1>6. /\ roused \in SUBSET Sp!TaskIds /\ roused \cap deaf = {}
      /\ \A t \in roused : t \in told \/ \E u \in Sp!TaskIds : awaiter[u] = t
  <2>. HIDE DEF told, deaf
  <2>. QED
    BY <1>1, <1>5, WokenFacts
<1>7. \A t \in roused : \E u \in Sp!TaskIds : awaiter[u] = t
  BY <1>4, <1>6
<1>. HIDE DEF roused, told
<1>8. roused \cap (left \cup ended \cup completed \cup spClosed \cup cut \cup scheduled) = {}
  BY <1>6 DEF deaf
<1>. HIDE DEF deaf
<1>9. /\ homeless \subseteq roused
      /\ \A t \in roused : t \in homeless <=> t \notin Polled /\ home[t] \notin available
  BY <1>1 DEF Sp!Homeless
<1>. HIDE DEF homeless
<1>10. \A t \in ended \cup cut \cup roused \cup givenUp : future[t] # "none"
  <2>1. \A t \in ended : future[t] # "none"
    BY <1>1, <1>3 DEF SpUnborn
  <2>2. \A t \in givenUp : future[t] # "none"
    <3>. SUFFICES ASSUME NEW t \in givenUp, t \notin released PROVE future[t] # "none"
      OBVIOUS
    <3>1. holder[t] \in ended /\ t \in Sp!TaskIds
      BY <1>4
    <3>2. holder[t] # NoTask
      BY <1>3, <3>1, NoTaskApart
    <3>. QED
      BY <1>1, <3>1, <3>2 DEF SpUnborn
  <2>3. \A t \in roused : future[t] # "none"
    BY <1>1, <1>6, <1>7 DEF SpUnborn
  <2>. HIDE DEF givenUp
  <2>. QED
    BY <2>1, <2>2, <2>3
<1>11. /\ cut \cap (spClosed \cup completed) = {}
       /\ \A t \in cancelled \cup givenUp : t \in cut \cup spClosed \cup completed
  OBVIOUS
<1>12. \A t \in cut : t \in cancelled \cup givenUp
  OBVIOUS
<1>13. givenUp \cap scoped \subseteq ended \cup Polled
  BY <1>3, <1>4
<1>14. released \subseteq givenUp /\ \A t \in Sp!TaskIds : holder[t] \in ended => t \in givenUp
  OBVIOUS
<1>. HIDE DEF givenUp, cut
<1>15. ended \cap (Polled \ left) = {}
  BY <1>3
<1>16. ended \subseteq completed' \cup spClosed'
  <2>1. \A t \in ended : t \in dropped \/ t \in givenUp
    BY <1>4
  <2>2. \A t \in released \cup cancelled \cup givenUp : t \in spClosed' \cup completed'
    BY <1>2, <1>11, <1>14
  <2>. QED
    BY <2>1, <2>2, <1>2
<1>17. pushed \in SUBSET Sp!TaskIds
  BY <1>4, <1>6
<1>18. \A q \in Sp!Queues : Distinct(there[q]) /\ Members(there[q]) \cap pushed = {}
  <2>1. \A q \in Sp!Queues : Members(runnables[q]) \subseteq scheduled
    <3>. SUFFICES ASSUME NEW q \in Sp!Queues, NEW t \in Members(runnables[q]) PROVE t \in scheduled
      OBVIOUS
    <3>1. t \in Sp!TaskIds
      BY <1>1, MembersEmpty DEF Sp!TypeOK
    <3>. QED
      BY <1>1, <3>1 DEF SpPlaced
  <2>. QED
    BY <2>1
<1>19. /\ runnables' \in [Sp!Queues -> Seq(Sp!TaskIds)]
       /\ \A q \in Sp!Queues :
            /\ Distinct(runnables'[q])
            /\ Members(runnables'[q])
                 = (Members(runnables[q]) \ left) \cup {t \in pushed : Sp!QueueOf(t) = q}
       /\ active' = active \cup {Sp!QueueOf(t) : t \in pushed}
  <2>. HIDE DEF pushed
  <2>. QED
    <3>1. /\ runnables' \in [Sp!Queues -> Seq(Sp!TaskIds)]
          /\ \A q \in Sp!Queues :
               /\ Distinct(runnables'[q])
               /\ Members(runnables'[q])
                    = Members(there[q]) \cup {t \in pushed : Sp!QueueOf(t) = q}
          /\ active' = active \cup {Sp!QueueOf(t) : t \in pushed}
      BY <1>1, <1>2, <1>17, <1>18, PushFacts
    <3>. QED
      BY <3>1
<1>20. \A t \in pushed :
         /\ Sp!QueueOf(t) \in available \cap Sp!Queues
         /\ Sp!QueueOf(t) = home[t] \/ (Sp!QueueOf(t) = Sp!Default /\ home[t] \notin available)
  <2>. HIDE DEF pushed
  <2>. QED
    BY <1>1, <1>17, QueueOfFacts
<1>21. Polled' = Polled \ left
  BY DEF Polled
<1>22. Sp!TypeOK'
  <2>1. completed' \subseteq Sp!TaskIds /\ scheduled' \subseteq Sp!TaskIds /\ spClosed' \subseteq Sp!TaskIds
    BY <1>1, <1>2, <1>4, <1>6, <1>9 DEF Sp!TypeOK
  <2>2. future' \in [Sp!TaskIds -> {"none", "alive", "dropped"}]
    BY <1>1, <1>2 DEF Sp!TypeOK
  <2>3. holder' \in [Sp!TaskIds -> Sp!TaskIds \cup {Sp!Shared, NoTask}]
    BY <1>1, <1>2 DEF Sp!TypeOK
  <2>4. awaiter' \in [Sp!TaskIds -> Sp!TaskIds \cup {NoTask}]
    BY <1>1, <1>2 DEF Sp!TypeOK
  <2>5. active' \subseteq Sp!Queues
    BY <1>1, <1>19, <1>20 DEF Sp!TypeOK
  <2>. QED
    BY <1>1, <1>19, <2>1, <2>2, <2>3, <2>4, <2>5 DEF Sp!TypeOK
<1>23. SpQueues'
  <2>1. active' \subseteq available
    BY <1>1, <1>19, <1>20 DEF SpQueues
  <2>2. ASSUME NEW q \in Sp!Queues, runnables'[q] # <<>> PROVE q \in active'
    <3>1. PICK t : t \in Members(runnables'[q])
      BY <1>19, <2>2, MembersEmpty
    <3>2. CASE t \in Members(runnables[q])
      <4>1. runnables[q] # <<>>
        BY <1>1, <3>2, MembersEmpty DEF Sp!TypeOK
      <4>. QED
        BY <1>1, <1>19, <4>1 DEF SpQueues
    <3>3. CASE t \in pushed /\ Sp!QueueOf(t) = q
      <4>. HIDE DEF pushed
      <4>. QED
        BY <1>19, <3>3
    <3>. HIDE DEF pushed
    <3>. QED
      BY <1>19, <3>1, <3>2, <3>3
  <2>. QED
    BY <1>1, <2>1, <2>2 DEF SpQueues, Sp!Default
<1>24. SpPlaced'
  <2>1. \A q, r \in Sp!Queues : q # r => Members(runnables'[q]) \cap Members(runnables'[r]) = {}
    <3>. SUFFICES ASSUME NEW q \in Sp!Queues, NEW r \in Sp!Queues, q # r,
                         NEW t \in Members(runnables'[q]), t \in Members(runnables'[r])
                  PROVE  FALSE
      OBVIOUS
    <3>1. \A x \in Sp!Queues : t \in Members(runnables[x]) => t \notin pushed
      BY <1>18, <1>19
    <3>2. Members(runnables[q]) \cap Members(runnables[r]) = {}
      BY <1>1 DEF SpPlaced
    <3>. HIDE DEF pushed
    <3>3. \A x \in {q, r} : t \in Members(runnables[x]) \/ (t \in pushed /\ Sp!QueueOf(t) = x)
      BY <1>19
    <3>. QED
      BY <3>1, <3>2, <3>3
  <2>2. ASSUME NEW t \in Sp!TaskIds
        PROVE  t \in scheduled' \ Polled' <=> \E q \in Sp!Queues : t \in Members(runnables'[q])
    <3>1. (\E q \in Sp!Queues : t \in Members(runnables'[q]))
            <=> (t \in scheduled \ Polled /\ t \notin left) \/ t \in pushed
      <4>1. t \in scheduled \ Polled <=> \E q \in Sp!Queues : t \in Members(runnables[q])
        BY <1>1 DEF SpPlaced
      <4>2. t \in pushed => \E q \in Sp!Queues : Sp!QueueOf(t) = q
        BY <1>20
      <4>. HIDE DEF pushed
      <4>. QED
        BY <1>19, <4>1, <4>2
    <3>2. t \in left => t \notin scheduled' /\ t \notin pushed
      <4>1. t \in left => t \notin roused /\ (t \in Polled \/ t \notin cut)
        BY <1>8, <1>11
      <4>. QED
        BY <1>1, <1>2, <4>1
    <3>3. t \notin left => (t \in scheduled' \ Polled' <=> t \in scheduled \ Polled \/ t \in pushed)
      BY <1>2, <1>21
    <3>. QED
      BY <3>1, <3>2, <3>3
  <2>3. ASSUME NEW q \in Sp!Queues, NEW t \in Members(runnables'[q])
        PROVE  home'[t] = q \/ (q = Sp!Default /\ t \in spClosed')
    <3>1. CASE t \in Members(runnables[q])
      BY <1>1, <1>2, <3>1 DEF SpPlaced
    <3>2. CASE t \in pushed /\ Sp!QueueOf(t) = q
      <4>1. home[t] = q \/ (q = Sp!Default /\ home[t] \notin available)
        BY <1>20, <3>2
      <4>2. home[t] \notin available => t \in spClosed'
        BY <1>2, <1>9, <3>2
      <4>. QED
        BY <4>1, <4>2
    <3>. HIDE DEF pushed
    <3>. QED
      BY <1>19, <3>1, <3>2
  <2>. QED
    BY <1>19, <2>1, <2>2, <2>3 DEF SpPlaced, Sp!Default
<1>25. SpPolls'
  <2>1. ASSUME NEW t \in Polled' PROVE future'[t] = "alive" /\ home'[t] = spExecuting'
    <3>1. t \in Polled \ left /\ t \in Sp!TaskIds
      BY <1>1, <1>21, MembersEmpty DEF Sp!TypeOK, Polled
    <3>. QED
      BY <1>1, <1>2, <1>15, <3>1 DEF SpPolls
  <2>. QED
    BY <2>1 DEF SpPolls
<1>26. SpUnborn'
  <2>. SUFFICES ASSUME NEW t \in Sp!TaskIds, future'[t] = "none"
                PROVE  /\ t \notin completed' \cup spClosed' \cup scheduled' \cup scoped'
                       /\ holder'[t] = NoTask /\ \A u \in Sp!TaskIds : awaiter'[u] # t
    BY DEF SpUnborn
  <2>1. future[t] = "none" /\ t \notin ended
    BY <1>2
  <2>2. t \notin cut \cup roused \cup givenUp \cup left
    BY <1>10, <2>1
  <2>3. t # NoTask
    BY NoTaskApart
  <2>. QED
    BY <1>1, <1>2, <1>9, <2>1, <2>2, <2>3 DEF SpUnborn
<1>27. SpEnded'
  <2>1. ASSUME NEW t \in completed' PROVE future'[t] = "dropped" /\ t \notin scheduled'
    <3>0. t \in Sp!TaskIds
      BY <1>1 DEF Sp!TypeOK
    <3>1. CASE t \in completed
      BY <1>1, <1>2, <1>8, <1>11, <3>0, <3>1 DEF SpEnded
    <3>2. CASE t \in left /\ completed' = completed \cup left /\ t \notin completed
      <4>1. t \in ended /\ t \notin roused
        BY <1>3, <1>8, <3>2
      <4>2. t \in Polled \/ t \notin cut
        BY <1>11, <3>2
      <4>. QED
        BY <1>2, <3>0, <3>2, <4>1, <4>2
    <3>. QED
      BY <3>1, <3>2
  <2>2. ASSUME NEW t \in Sp!TaskIds, future'[t] = "dropped" PROVE t \in completed' \cup spClosed'
    BY <1>1, <1>2, <1>16, <2>2 DEF SpEnded
  <2>3. ASSUME NEW t \in Sp!TaskIds, future'[t] = "alive", t \in spClosed'
        PROVE  t \in scheduled' \cup Polled'
    <3>1. future[t] = "alive" /\ t \notin ended /\ t \notin left
      BY <1>2, <1>3, <2>3
    <3>2. CASE t \in spClosed
      BY <1>1, <1>2, <1>21, <3>1, <3>2 DEF SpEnded
    <3>3. CASE t \in cut \cup homeless
      BY <1>2, <1>9, <1>21, <3>1, <3>3
    <3>. QED
      BY <1>2, <2>3, <3>2, <3>3
  <2>4. ASSUME NEW t \in Sp!TaskIds, future'[t] = "dropped"
        PROVE  awaiter'[t] = NoTask \/ t \in scheduled'
    <3>. SUFFICES ASSUME t \notin cut \cup left \cup homeless
                  PROVE  awaiter[t] = NoTask \/ t \in scheduled
      BY <1>2
    <3>1. CASE future[t] = "dropped"
      BY <1>1, <3>1 DEF SpEnded
    <3>2. CASE t \in ended /\ future[t] # "dropped"
      <4>1. future[t] = "alive"
        BY <1>1, <1>10, <3>2 DEF Sp!TypeOK
      <4>2. t \notin completed /\ t \notin Polled
        BY <1>1, <1>15, <3>2 DEF SpEnded
      <4>3. t \in spClosed
        <5>1. t \in dropped \/ t \in givenUp
          BY <1>4, <3>2
        <5>2. t \in givenUp \cup cancelled \cup released => t \in spClosed
          BY <1>11, <1>14, <4>2
        <5>3. t \notin completed'
          BY <4>2
        <5>. QED
          BY <5>1, <5>2, <5>3
      <4>. QED
        BY <1>1, <4>1, <4>2, <4>3 DEF SpEnded
    <3>. QED
      BY <1>2, <2>4, <3>1, <3>2
  <2>. QED
    BY <2>1, <2>2, <2>3, <2>4 DEF SpEnded
<1>28. SpScopes'
  <2>. SUFFICES ASSUME NEW t \in scoped, holder'[t] = NoTask, future'[t] = "alive"
                PROVE  t \in Polled' \cap spClosed'
    BY DEF SpScopes
  <2>1. t \in Sp!TaskIds
    BY <1>1 DEF Sp!TypeOK
  <2>2. future[t] = "alive" /\ t \notin ended /\ t \notin left
    BY <1>2, <1>3, <2>1
  <2>3. CASE t \in givenUp
    <3>1. t \in Polled
      BY <1>13, <2>2, <2>3
    <3>2. t \notin completed
      BY <1>1, <2>2 DEF SpEnded
    <3>. QED
      BY <1>2, <1>11, <1>21, <2>2, <2>3, <3>1, <3>2
  <2>4. CASE t \notin givenUp
    BY <1>1, <1>2, <1>21, <2>1, <2>2, <2>4 DEF SpScopes
  <2>. QED
    BY <2>3, <2>4
<1>. QED
  BY <1>22, <1>23, <1>24, <1>25, <1>26, <1>27, <1>28 DEF SpInv

----------------------------------------------------------------------------------
(* The actions.                                                                 *)

LEMMA SpawnInit == ASSUME Sp!Init PROVE SpInv
<1>. DEFINE one == <<Sp!Main>>
<1>1. Sp!Main \in Sp!TaskIds /\ Sp!Default \in Sp!Queues
  BY SpawnAssumption DEF Sp!Main, Sp!TaskIds, Sp!Default, Sp!Queues
<1>2. one \in Seq(Sp!TaskIds) /\ Len(one) = 1 /\ one[1] = Sp!Main /\ one # <<>>
  BY <1>1
<1>3. Members(one) = {Sp!Main} /\ Distinct(one)
  <2>. HIDE DEF one
  <2>. QED
    BY <1>2 DEF Members, Distinct
<1>4. Members(<<>>) = {} /\ Distinct(<<>>) /\ \A T : <<>> \in Seq(T)
  BY DEF Members, Distinct
<1>5. Polled = {} /\ Distinct(polls) /\ polls \in Seq(Sp!TaskIds)
  BY <1>4 DEF Sp!Init, Polled
<1>6. \A q \in Sp!Queues : runnables[q] = IF q = Sp!Default THEN one ELSE <<>>
  BY DEF Sp!Init
<1>7. runnables \in [Sp!Queues -> Seq(Sp!TaskIds)]
  <2>. HIDE DEF one
  <2>. QED
    BY <1>2, <1>4 DEF Sp!Init, one
<1>. HIDE DEF one
<1>8. Sp!TypeOK
  BY <1>1, <1>5, <1>7 DEF Sp!Init, Sp!TypeOK
<1>9. SpQueues
  BY <1>1, <1>6 DEF Sp!Init, SpQueues
<1>10. SpPlaced
  BY <1>1, <1>3, <1>4, <1>5, <1>6 DEF Sp!Init, SpPlaced
<1>11. SpPolls /\ SpEnded /\ SpScopes
  BY <1>5 DEF Sp!Init, SpPolls, SpEnded, SpScopes
<1>12. SpUnborn
  BY NoTaskApart DEF Sp!Init, SpUnborn
<1>. QED
  BY <1>8, <1>9, <1>10, <1>11, <1>12 DEF SpInv

(* The task that runs.                                                          *)
LEMMA CurrentFacts ==
  ASSUME SpInv, polls # <<>>
  PROVE  /\ Sp!Current \in Polled /\ Sp!Current \in Sp!TaskIds /\ future[Sp!Current] = "alive"
         /\ Sp!Current # NoTask /\ spExecuting # NoTask
         /\ Sp!Front(polls) \in Seq(Sp!TaskIds) /\ Distinct(Sp!Front(polls))
         /\ Members(Sp!Front(polls)) = Polled \ {Sp!Current}
         /\ \A q \in Sp!Queues : Sp!Current \notin Members(runnables[q])
<1>1. polls \in Seq(Sp!TaskIds) /\ Distinct(polls)
  BY DEF SpInv, Sp!TypeOK, SpPolls
<1>2. /\ Sp!Current \in Polled
      /\ Sp!Front(polls) \in Seq(Sp!TaskIds) /\ Distinct(Sp!Front(polls))
      /\ Members(Sp!Front(polls)) = Polled \ {Sp!Current}
  BY <1>1, FrontFacts DEF Sp!Current, Polled
<1>3. Sp!Current \in Sp!TaskIds
  BY <1>1, <1>2, MembersEmpty DEF Polled
<1>4. future[Sp!Current] = "alive" /\ home[Sp!Current] = spExecuting /\ home[Sp!Current] \in Sp!Queues
  BY <1>2, <1>3 DEF SpInv, SpPolls, Sp!TypeOK
<1>5. \A q \in Sp!Queues : Sp!Current \notin Members(runnables[q])
  BY <1>2, <1>3 DEF SpInv, SpPlaced
<1>. QED
  BY <1>2, <1>3, <1>4, <1>5, NoTaskApart

LEMMA NonePolled ==
  ASSUME SpInv, polls = <<>> \/ spExecuting = NoTask
  PROVE  Polled = {} /\ polls = <<>>
<1>1. polls = <<>>
  BY CurrentFacts
<1>. QED
  BY <1>1 DEF Polled, Members

(* The runnable that is taken.                                                  *)
LEMMA TakenFacts ==
  ASSUME SpInv, NEW t \in Sp!TaskIds, Sp!GetTask(t)
  PROVE  /\ Polled = {} /\ polls = <<>> /\ t \in scheduled
         /\ spExecuting \in Sp!Queues /\ t \in Members(runnables[spExecuting])
         /\ Sp!WithoutHead \in [Sp!Queues -> Seq(Sp!TaskIds)]
         /\ \A q \in Sp!Queues :
              /\ Distinct(Sp!WithoutHead[q])
              /\ Members(Sp!WithoutHead[q]) = Members(runnables[q]) \ {t}
<1>1. Polled = {} /\ polls = <<>>
  BY NonePolled DEF Sp!GetTask
<1>2. spExecuting \in Sp!Queues /\ runnables \in [Sp!Queues -> Seq(Sp!TaskIds)]
  BY DEF SpInv, Sp!TypeOK, Sp!GetTask
<1>. DEFINE s == runnables[spExecuting]
<1>3. s \in Seq(Sp!TaskIds) /\ Distinct(s) /\ s # <<>> /\ t = Head(s)
  BY <1>2 DEF SpInv, SpPlaced, Sp!GetTask
<1>4. /\ Tail(s) \in Seq(Sp!TaskIds) /\ t \in Members(s) /\ Members(Tail(s)) = Members(s) \ {t}
      /\ Distinct(Tail(s))
  <2>. HIDE DEF s
  <2>. QED
    BY <1>3, TailFacts
<1>5. t \in scheduled
  BY <1>2, <1>4 DEF SpInv, SpPlaced
<1>6. /\ Sp!WithoutHead \in [Sp!Queues -> Seq(Sp!TaskIds)]
      /\ Sp!WithoutHead[spExecuting] = Tail(s)
      /\ \A q \in Sp!Queues \ {spExecuting} : Sp!WithoutHead[q] = runnables[q]
  BY <1>2, <1>4 DEF Sp!WithoutHead
<1>7. \A q \in Sp!Queues \ {spExecuting} : Distinct(runnables[q]) /\ t \notin Members(runnables[q])
  BY <1>2, <1>4 DEF SpInv, SpPlaced
<1>. QED
  BY <1>1, <1>2, <1>4, <1>5, <1>6, <1>7

LEMMA Spawn_RunOneTaskQueue ==
  ASSUME SpInv, NEW q \in Sp!Queues, Sp!RunOneTaskQueue(q) PROVE SpInv'
<1>1. /\ Polled = {} /\ spExecuting' = q /\ q \in active
      /\ UNCHANGED <<future, completed, spClosed, scheduled, scoped, holder, awaiter, home,
                     runnables, available, active, executorIndex, polls>>
  BY NonePolled DEF Sp!RunOneTaskQueue, Sp!flags, Sp!handles
<1>2. Polled' = Polled
  BY <1>1 DEF Polled
<1>3. Sp!TypeOK' /\ SpQueues'
  BY <1>1 DEF SpInv, Sp!TypeOK, SpQueues, Sp!Default
<1>4. SpPlaced' /\ SpPolls'
  BY <1>1, <1>2 DEF SpInv, SpPlaced, SpPolls, Sp!Default
<1>5. SpUnborn' /\ SpEnded' /\ SpScopes'
  BY <1>1, <1>2 DEF SpInv, SpUnborn, SpEnded, SpScopes
<1>. QED
  BY <1>3, <1>4, <1>5 DEF SpInv

LEMMA Spawn_EndTaskQueue == ASSUME SpInv, Sp!EndTaskQueue PROVE SpInv'
<1>1. /\ Polled = {} /\ spExecuting' = NoTask /\ spExecuting # NoTask
      /\ active' = IF runnables[spExecuting] = <<>> THEN active \ {spExecuting} ELSE active
      /\ UNCHANGED <<future, completed, spClosed, scheduled, scoped, holder, awaiter, home,
                     runnables, available, executorIndex, polls>>
  BY NonePolled DEF Sp!EndTaskQueue, Sp!flags, Sp!handles
<1>2. Polled' = Polled
  BY <1>1 DEF Polled
<1>3. Sp!TypeOK' /\ SpQueues'
  BY <1>1 DEF SpInv, Sp!TypeOK, SpQueues, Sp!Default
<1>4. SpPlaced' /\ SpPolls'
  BY <1>1, <1>2 DEF SpInv, SpPlaced, SpPolls, Sp!Default
<1>5. SpUnborn' /\ SpEnded' /\ SpScopes'
  BY <1>1, <1>2 DEF SpInv, SpUnborn, SpEnded, SpScopes
<1>. QED
  BY <1>3, <1>4, <1>5 DEF SpInv

LEMMA Spawn_CreateTaskQueue == ASSUME SpInv, Sp!CreateTaskQueue PROVE SpInv'
<1>1. /\ executorIndex < MaxQueues /\ executorIndex' = executorIndex + 1
      /\ available' = available \cup {executorIndex}
      /\ UNCHANGED <<future, completed, spClosed, scheduled, scoped, holder, awaiter, home,
                     runnables, active, spExecuting, polls>>
  BY DEF Sp!CreateTaskQueue, Sp!flags, Sp!handles
<1>2. Polled' = Polled
  BY <1>1 DEF Polled
<1>3. executorIndex \in Sp!Queues /\ executorIndex' \in Nat
  BY <1>1, SpawnAssumption DEF SpInv, SpQueues, Sp!Queues
<1>4. Sp!TypeOK' /\ SpQueues'
  BY <1>1, <1>3 DEF SpInv, Sp!TypeOK, SpQueues, Sp!Default
<1>5. SpPlaced' /\ SpPolls'
  BY <1>1, <1>2 DEF SpInv, SpPlaced, SpPolls, Sp!Default
<1>6. SpUnborn' /\ SpEnded' /\ SpScopes'
  BY <1>1, <1>2 DEF SpInv, SpUnborn, SpEnded, SpScopes
<1>. QED
  BY <1>4, <1>5, <1>6 DEF SpInv

LEMMA Spawn_RemoveTaskQueue ==
  ASSUME SpInv, NEW q \in Sp!Queues, Sp!RemoveTaskQueue(q) PROVE SpInv'
<1>1. /\ q \notin active /\ q # Sp!Default /\ q # spExecuting /\ available' = available \ {q}
      /\ UNCHANGED <<future, completed, spClosed, scheduled, scoped, holder, awaiter, home,
                     runnables, active, spExecuting, executorIndex, polls>>
  BY DEF Sp!RemoveTaskQueue, Sp!flags, Sp!handles
<1>2. Polled' = Polled
  BY <1>1 DEF Polled
<1>3. Sp!TypeOK' /\ SpQueues'
  BY <1>1 DEF SpInv, Sp!TypeOK, SpQueues, Sp!Default
<1>4. SpPlaced' /\ SpPolls'
  BY <1>1, <1>2 DEF SpInv, SpPlaced, SpPolls, Sp!Default
<1>5. SpUnborn' /\ SpEnded' /\ SpScopes'
  BY <1>1, <1>2 DEF SpInv, SpUnborn, SpEnded, SpScopes
<1>. QED
  BY <1>3, <1>4, <1>5 DEF SpInv

LEMMA Spawn_RunTask ==
  ASSUME SpInv, NEW t \in Sp!TaskIds, Sp!RunTask(t) PROVE SpInv'
<1>1. Sp!GetTask(t)
  BY DEF Sp!RunTask
<1>2. /\ t \notin spClosed /\ runnables' = Sp!WithoutHead /\ scheduled' = scheduled \ {t}
      /\ polls' = <<t>>
      /\ UNCHANGED <<future, completed, spClosed, scoped, holder, awaiter, home, available,
                     active, spExecuting, executorIndex>>
  BY DEF Sp!RunTask, Sp!handles
<1>3. /\ Polled = {} /\ polls = <<>> /\ t \in scheduled
      /\ spExecuting \in Sp!Queues /\ t \in Members(runnables[spExecuting])
      /\ runnables' \in [Sp!Queues -> Seq(Sp!TaskIds)]
      /\ \A q \in Sp!Queues : /\ Distinct(runnables'[q])
                              /\ Members(runnables'[q]) = Members(runnables[q]) \ {t}
  BY <1>1, <1>2, TakenFacts
<1>4. Polled' = {t} /\ Distinct(polls') /\ polls' \in Seq(Sp!TaskIds)
  <2>1. <<t>> \in Seq(Sp!TaskIds) /\ Len(<<t>>) = 1 /\ <<t>>[1] = t
    OBVIOUS
  <2>. QED
    BY <1>2, <2>1 DEF Polled, Members, Distinct
<1>5. home[t] = spExecuting /\ future[t] = "alive"
  <2>1. home[t] = spExecuting
    BY <1>2, <1>3 DEF SpInv, SpPlaced
  <2>2. future[t] # "none" /\ future[t] # "dropped"
    BY <1>2, <1>3 DEF SpInv, SpUnborn, SpEnded
  <2>. QED
    BY <2>1, <2>2 DEF SpInv, Sp!TypeOK
<1>6. Sp!TypeOK'
  BY <1>2, <1>3, <1>4 DEF SpInv, Sp!TypeOK
<1>7. SpQueues'
  <2>1. ASSUME NEW q \in Sp!Queues, runnables'[q] # <<>> PROVE q \in active
    <3>1. Members(runnables[q]) # {}
      BY <1>3, <2>1, MembersEmpty
    <3>. QED
      BY <3>1, MembersEmpty DEF SpInv, SpQueues, Sp!TypeOK
  <2>. QED
    BY <1>2, <2>1 DEF SpInv, SpQueues, Sp!Default
<1>8. SpPlaced'
  <2>0. SpPlaced
    BY DEF SpInv
  <2>1. \A q, r \in Sp!Queues : q # r => Members(runnables'[q]) \cap Members(runnables'[r]) = {}
    BY <1>3, <2>0 DEF SpPlaced
  <2>2. ASSUME NEW u \in Sp!TaskIds
        PROVE  u \in scheduled' \ Polled' <=> \E q \in Sp!Queues : u \in Members(runnables'[q])
    <3>1. u \in scheduled \ Polled <=> \E q \in Sp!Queues : u \in Members(runnables[q])
      BY <2>0 DEF SpPlaced
    <3>2. \A q \in Sp!Queues : u \in Members(runnables'[q]) <=> u # t /\ u \in Members(runnables[q])
      BY <1>3
    <3>. QED
      BY <1>2, <1>3, <1>4, <3>1, <3>2
  <2>3. ASSUME NEW q \in Sp!Queues, NEW u \in Members(runnables'[q])
        PROVE  home'[u] = q \/ (q = Sp!Default /\ u \in spClosed')
    BY <1>2, <1>3, <2>0 DEF SpPlaced
  <2>. QED
    BY <1>3, <2>1, <2>2, <2>3 DEF SpPlaced, Sp!Default
<1>9. SpPolls'
  BY <1>2, <1>4, <1>5 DEF SpPolls
<1>10. SpUnborn' /\ SpEnded' /\ SpScopes'
  BY <1>2, <1>3, <1>4, <1>5 DEF SpInv, SpUnborn, SpEnded, SpScopes
<1>. QED
  BY <1>6, <1>7, <1>8, <1>9, <1>10 DEF SpInv

(* A task ends, or is cancelled: instances of SettleHolds.                      *)
LEMMA Spawn_DropTask ==
  ASSUME SpInv, NEW t \in Sp!TaskIds, Sp!DropTask(t) PROVE SpInv'
<1>1. Sp!GetTask(t)
  BY DEF Sp!DropTask
<1>2. /\ t \in spClosed /\ Sp!Settle(Sp!WithoutHead, {t}, {t}, {}, {})
      /\ UNCHANGED <<completed, scoped, home, available, spExecuting, executorIndex, polls>>
  BY DEF Sp!DropTask
<1>3. /\ Polled = {} /\ t \in scheduled
      /\ Sp!WithoutHead \in [Sp!Queues -> Seq(Sp!TaskIds)]
      /\ \A q \in Sp!Queues :
           Distinct(Sp!WithoutHead[q]) /\ Members(Sp!WithoutHead[q]) = Members(runnables[q]) \ {t}
  BY <1>1, TakenFacts
<1>4. polls' \in Seq(Sp!TaskIds) /\ Distinct(polls') /\ Members(polls') = Polled \ {t}
  BY <1>2, <1>3 DEF SpInv, Sp!TypeOK, SpPolls, Polled
<1>5. future[t] # "none"
  BY <1>2 DEF SpInv, SpUnborn
<1>. DEFINE there == Sp!WithoutHead  left == {t}  none == {}
<1>6. /\ there \in [Sp!Queues -> Seq(Sp!TaskIds)] /\ left \in SUBSET Sp!TaskIds
      /\ none \in SUBSET Sp!TaskIds /\ Sp!Settle(there, left, left, none, none)
      /\ \A q \in Sp!Queues :
           Distinct(there[q]) /\ Members(there[q]) = Members(runnables[q]) \ left
      /\ Members(polls') = Polled \ left
      /\ left \subseteq left /\ left \subseteq spClosed \cup Polled /\ left \cap Polled \subseteq left
      /\ left \subseteq completed' \cup spClosed \cup none \cup none
      /\ (\A u \in left \cup none \cup none : future[u] # "none")
      /\ none \cap scoped \subseteq left \cup Polled
  BY <1>2, <1>3, <1>4, <1>5
<1>. HIDE DEF there, left, none
<1>. QED
  BY <1>2, <1>4, <1>6, SettleHolds

LEMMA Spawn_PollEnds ==
  ASSUME SpInv, polls # <<>>,
         Sp!Settle(runnables, {Sp!Current}, {Sp!Current}, {}, {}),
         completed' = completed \cup {Sp!Current} \/ (Sp!Current \in spClosed /\ completed' = completed),
         polls' = Sp!Front(polls), UNCHANGED <<scoped, home, available, spExecuting, executorIndex>>
  PROVE  SpInv'
<1>. DEFINE left == {Sp!Current}  none == {}
<1>1. /\ Sp!Current \in Polled /\ Sp!Current \in Sp!TaskIds /\ future[Sp!Current] = "alive"
      /\ Sp!Front(polls) \in Seq(Sp!TaskIds) /\ Distinct(Sp!Front(polls))
      /\ Members(Sp!Front(polls)) = Polled \ {Sp!Current}
      /\ \A q \in Sp!Queues : Sp!Current \notin Members(runnables[q])
  BY CurrentFacts
<1>2. runnables \in [Sp!Queues -> Seq(Sp!TaskIds)] /\ \A q \in Sp!Queues : Distinct(runnables[q])
  BY DEF SpInv, Sp!TypeOK, SpPlaced
<1>3. /\ left \in SUBSET Sp!TaskIds /\ none \in SUBSET Sp!TaskIds
      /\ Sp!Settle(runnables, left, left, none, none)
      /\ \A q \in Sp!Queues :
           Distinct(runnables[q]) /\ Members(runnables[q]) = Members(runnables[q]) \ left
      /\ Members(polls') = Polled \ left
      /\ left \subseteq left /\ left \subseteq spClosed \cup Polled /\ left \cap Polled \subseteq left
      /\ completed' = completed \/ completed' = completed \cup left
      /\ left \subseteq completed' \cup spClosed \cup none \cup none
      /\ (\A u \in left \cup none \cup none : future[u] # "none")
      /\ none \cap scoped \subseteq left \cup Polled
  BY <1>1, <1>2
<1>. HIDE DEF left, none
<1>. QED
  BY <1>1, <1>2, <1>3, SettleHolds

LEMMA Spawn_PollReady == ASSUME SpInv, Sp!PollReady PROVE SpInv'
BY Spawn_PollEnds DEF Sp!PollReady

LEMMA Spawn_PollPendingClosed == ASSUME SpInv, Sp!PollPendingClosed PROVE SpInv'
BY Spawn_PollEnds DEF Sp!PollPendingClosed

(* The handle of t is reached, and it is cancelled or dropped.                  *)
LEMMA Spawn_Gives ==
  ASSUME SpInv, NEW t \in Sp!TaskIds, Sp!Reaches(t),
         NEW released, NEW cancelled, released \cup cancelled = {t},
         Sp!Settle(runnables, {}, Sp!Scoped(t), released, cancelled),
         UNCHANGED <<completed, scoped, home, available, spExecuting, executorIndex, polls>>
  PROVE  SpInv'
<1>. DEFINE none == {}  dropped == Sp!Scoped(t)
<1>1. /\ Sp!Running = Polled /\ runnables \in [Sp!Queues -> Seq(Sp!TaskIds)]
      /\ polls \in Seq(Sp!TaskIds) /\ Distinct(polls)
      /\ \A q \in Sp!Queues : Distinct(runnables[q])
  BY PolledRange DEF SpInv, Sp!TypeOK, SpPolls, SpPlaced
<1>2. dropped = {t} \cap (scoped \ Polled)
  BY <1>1 DEF Sp!Scoped
<1>3. future[t] # "none"
  <2>1. polls # <<>> /\ holder[t] \in {Sp!Current, Sp!Shared}
    BY DEF Sp!Reaches
  <2>2. holder[t] # NoTask
    BY <2>1, CurrentFacts, NoTaskApart
  <2>. QED
    BY <2>2 DEF SpInv, SpUnborn
<1>4. /\ none \in SUBSET Sp!TaskIds /\ dropped \in SUBSET Sp!TaskIds
      /\ released \in SUBSET Sp!TaskIds /\ cancelled \in SUBSET Sp!TaskIds
      /\ Sp!Settle(runnables, none, dropped, released, cancelled)
      /\ \A q \in Sp!Queues :
           Distinct(runnables[q]) /\ Members(runnables[q]) = Members(runnables[q]) \ none
      /\ Members(polls') = Polled \ none /\ polls' \in Seq(Sp!TaskIds) /\ Distinct(polls')
      /\ none \subseteq dropped /\ none \subseteq spClosed \cup Polled /\ dropped \cap Polled \subseteq none
      /\ dropped \subseteq completed' \cup spClosed \cup released \cup cancelled
      /\ (\A u \in dropped \cup released \cup cancelled : future[u] # "none")
      /\ released \cap scoped \subseteq dropped \cup Polled
  BY <1>1, <1>2, <1>3 DEF Polled
<1>. HIDE DEF none, dropped
<1>. QED
  BY <1>1, <1>4, SettleHolds

LEMMA Spawn_Cancel ==
  ASSUME SpInv, NEW t \in Sp!TaskIds, Sp!Cancel(t) PROVE SpInv'
<1>1. {} \cup {t} = {t}
  OBVIOUS
<1>. QED
  BY <1>1, Spawn_Gives DEF Sp!Cancel

LEMMA Spawn_DropHandle ==
  ASSUME SpInv, NEW t \in Sp!TaskIds, Sp!DropHandle(t) PROVE SpInv'
<1>1. {t} \cup {} = {t}
  OBVIOUS
<1>. QED
  BY <1>1, Spawn_Gives DEF Sp!DropHandle

(* A task that is woken while it is polled is pushed when the poll ends.        *)
LEMMA Spawn_PollPending == ASSUME SpInv, Sp!PollPending PROVE SpInv'
<1>. DEFINE c == Sp!Current  pushed == {c} \cap scheduled
<1>1. /\ polls # <<>> /\ c \notin spClosed /\ Sp!Push(runnables, pushed) /\ polls' = Sp!Front(polls)
      /\ UNCHANGED <<future, completed, spClosed, scheduled, scoped, holder, awaiter, home,
                     available, spExecuting, executorIndex>>
  BY DEF Sp!PollPending, Sp!flags, Sp!handles
<1>2. /\ c \in Polled /\ c \in Sp!TaskIds /\ future[c] = "alive"
      /\ Sp!Front(polls) \in Seq(Sp!TaskIds) /\ Distinct(Sp!Front(polls))
      /\ Members(Sp!Front(polls)) = Polled \ {c}
      /\ \A q \in Sp!Queues : c \notin Members(runnables[q])
  BY <1>1, CurrentFacts
<1>. HIDE DEF c
<1>3. Polled' = Polled \ {c} /\ Distinct(polls') /\ polls' \in Seq(Sp!TaskIds)
  BY <1>1, <1>2 DEF Polled
<1>4. /\ Sp!TypeOK /\ SpQueues /\ runnables \in [Sp!Queues -> Seq(Sp!TaskIds)]
      /\ pushed \in SUBSET Sp!TaskIds
      /\ \A q \in Sp!Queues : Distinct(runnables[q]) /\ Members(runnables[q]) \cap pushed = {}
  BY <1>2 DEF SpInv, Sp!TypeOK, SpPlaced
<1>5. home[c] = spExecuting /\ home[c] \in available /\ Sp!QueueOf(c) = home[c] /\ home[c] \in Sp!Queues
  <2>1. home[c] = spExecuting /\ home[c] \in Sp!Queues
    BY <1>2 DEF SpInv, SpPolls, Sp!TypeOK
  <2>2. spExecuting \in available
    BY <2>1, NoTaskApart DEF SpInv, SpQueues
  <2>. QED
    BY <2>1, <2>2 DEF Sp!QueueOf
<1>. HIDE DEF pushed
<1>6. /\ runnables' \in [Sp!Queues -> Seq(Sp!TaskIds)]
      /\ \A q \in Sp!Queues :
           /\ Distinct(runnables'[q])
           /\ Members(runnables'[q]) = Members(runnables[q]) \cup {t \in pushed : Sp!QueueOf(t) = q}
      /\ active' = active \cup {Sp!QueueOf(t) : t \in pushed}
  BY <1>1, <1>4, PushFacts
<1>7. \A t \in pushed : t = c /\ t \in scheduled /\ Sp!QueueOf(t) = home[c]
  BY <1>5 DEF pushed
<1>8. /\ \A q \in Sp!Queues : Members(runnables'[q])
             = Members(runnables[q]) \cup (IF q = home[c] /\ c \in scheduled THEN {c} ELSE {})
      /\ active' = active \cup (IF c \in scheduled THEN {home[c]} ELSE {})
  BY <1>5, <1>6 DEF pushed
<1>9. Sp!TypeOK'
  BY <1>1, <1>3, <1>5, <1>6, <1>8 DEF SpInv, Sp!TypeOK
<1>10. SpQueues'
  <2>1. ASSUME NEW q \in Sp!Queues, runnables'[q] # <<>> PROVE q \in active'
    <3>1. Members(runnables'[q]) # {}
      BY <1>6, <2>1, MembersEmpty
    <3>2. CASE Members(runnables[q]) # {}
      <4>1. runnables[q] # <<>>
        BY <3>2, <1>4, MembersEmpty
      <4>. QED
        BY <1>8, <4>1 DEF SpInv, SpQueues
    <3>3. CASE q = home[c] /\ c \in scheduled
      BY <1>8, <3>3
    <3>. QED
      BY <1>8, <3>1, <3>2, <3>3
  <2>. QED
    BY <1>1, <1>5, <1>8, <2>1 DEF SpInv, SpQueues, Sp!Default
<1>11. SpPlaced'
  <2>0. SpPlaced
    BY DEF SpInv
  <2>1. \A q, r \in Sp!Queues : q # r => Members(runnables'[q]) \cap Members(runnables'[r]) = {}
    <3>. SUFFICES ASSUME NEW q \in Sp!Queues, NEW r \in Sp!Queues, q # r,
                         NEW t \in Members(runnables'[q]), t \in Members(runnables'[r])
                  PROVE  FALSE
      OBVIOUS
    <3>1. Members(runnables[q]) \cap Members(runnables[r]) = {}
      BY <2>0 DEF SpPlaced
    <3>. QED
      BY <1>2, <1>8, <3>1
  <2>2. ASSUME NEW t \in Sp!TaskIds
        PROVE  t \in scheduled' \ Polled' <=> \E q \in Sp!Queues : t \in Members(runnables'[q])
    <3>1. CASE t = c
      BY <1>1, <1>2, <1>3, <1>5, <1>8, <3>1
    <3>2. CASE t # c
      <4>1. t \in scheduled \ Polled <=> \E q \in Sp!Queues : t \in Members(runnables[q])
        BY <2>0 DEF SpPlaced
      <4>2. \A q \in Sp!Queues : t \in Members(runnables'[q]) <=> t \in Members(runnables[q])
        BY <1>8, <3>2
      <4>. QED
        BY <1>1, <1>3, <3>2, <4>1, <4>2
    <3>. QED
      BY <3>1, <3>2
  <2>3. ASSUME NEW q \in Sp!Queues, NEW t \in Members(runnables'[q])
        PROVE  home'[t] = q \/ (q = Sp!Default /\ t \in spClosed')
    BY <1>1, <1>8, <2>0 DEF SpPlaced
  <2>. QED
    BY <1>6, <2>1, <2>2, <2>3 DEF SpPlaced, Sp!Default
<1>12. SpPolls' /\ SpUnborn' /\ SpScopes'
  BY <1>1, <1>3 DEF SpInv, SpPolls, SpUnborn, SpScopes
<1>13. SpEnded'
  BY <1>1, <1>3 DEF SpInv, SpEnded
<1>. QED
  BY <1>9, <1>10, <1>11, <1>12, <1>13 DEF SpInv

(* A waker is called.                                                           *)
LEMMA Spawn_Wake ==
  ASSUME SpInv, NEW t \in Sp!TaskIds, Sp!Wake(t) PROVE SpInv'
<1>. DEFINE deaf == {NoTask} \cup completed \cup spClosed \cup scheduled
            told == {t}
            roused == Sp!Woken(told, deaf)
            homeless == {u \in roused : Sp!Homeless(u)}
            pushed == roused \ Polled
<1>1. /\ Sp!TypeOK /\ SpQueues /\ SpPlaced /\ SpPolls /\ SpUnborn /\ SpEnded /\ SpScopes
      /\ Sp!Running = Polled
  BY PolledRange DEF SpInv, Sp!TypeOK
<1>2. /\ future[t] = "alive" /\ spClosed' = spClosed \cup homeless /\ scheduled' = scheduled \cup roused
      /\ awaiter' = [u \in Sp!TaskIds |-> IF u \in homeless THEN NoTask ELSE awaiter[u]]
      /\ Sp!Push(runnables, pushed)
      /\ UNCHANGED <<future, completed, scoped, holder, home, available, spExecuting,
                     executorIndex, polls>>
  BY <1>1 DEF Sp!Wake
<1>3. told \in SUBSET (Sp!TaskIds \cup {NoTask}) /\ NoTask \in deaf
  OBVIOUS
<1>4. /\ roused \in SUBSET Sp!TaskIds /\ roused \cap deaf = {}
      /\ \A u \in roused : u \in told \/ \E v \in Sp!TaskIds : awaiter[v] = u
  <2>. HIDE DEF told, deaf
  <2>. QED
    BY <1>1, <1>3, WokenFacts
<1>. HIDE DEF roused
<1>5. roused \cap (completed \cup spClosed \cup scheduled) = {}
  BY <1>4
<1>6. \A u \in roused : future[u] = "alive"
  <2>1. \A u \in roused : future[u] # "none"
    BY <1>1, <1>2, <1>4 DEF SpUnborn
  <2>2. \A u \in roused : future[u] # "dropped"
    BY <1>1, <1>4, <1>5 DEF SpEnded
  <2>. QED
    BY <1>1, <1>4, <2>1, <2>2 DEF Sp!TypeOK
<1>7. /\ homeless \subseteq roused
      /\ \A u \in roused : u \in homeless <=> u \notin Polled /\ home[u] \notin available
  BY <1>1 DEF Sp!Homeless
<1>. HIDE DEF homeless, told, deaf
<1>8. /\ runnables \in [Sp!Queues -> Seq(Sp!TaskIds)] /\ pushed \in SUBSET Sp!TaskIds
      /\ \A q \in Sp!Queues : Distinct(runnables[q]) /\ Members(runnables[q]) \cap pushed = {}
  <2>1. ASSUME NEW q \in Sp!Queues PROVE Members(runnables[q]) \subseteq scheduled
    <3>1. Members(runnables[q]) \subseteq Sp!TaskIds
      BY <1>1, MembersEmpty DEF Sp!TypeOK
    <3>. QED
      BY <1>1, <3>1 DEF SpPlaced
  <2>. QED
    BY <1>1, <1>4, <1>5, <2>1 DEF Sp!TypeOK, SpPlaced
<1>9. \A u \in pushed :
        /\ Sp!QueueOf(u) \in available \cap Sp!Queues
        /\ Sp!QueueOf(u) = home[u] \/ (Sp!QueueOf(u) = Sp!Default /\ home[u] \notin available)
  <2>. HIDE DEF pushed
  <2>. QED
    BY <1>1, <1>8, QueueOfFacts
<1>10. /\ runnables' \in [Sp!Queues -> Seq(Sp!TaskIds)]
       /\ \A q \in Sp!Queues :
            /\ Distinct(runnables'[q])
            /\ Members(runnables'[q]) = Members(runnables[q]) \cup {u \in pushed : Sp!QueueOf(u) = q}
       /\ active' = active \cup {Sp!QueueOf(u) : u \in pushed}
  <2>. HIDE DEF pushed
  <2>. QED
    BY <1>1, <1>2, <1>8, PushFacts
<1>11. Polled' = Polled
  BY <1>2 DEF Polled
<1>12. Sp!TypeOK'
  <2>1. active' \subseteq Sp!Queues
    BY <1>1, <1>9, <1>10 DEF Sp!TypeOK
  <2>2. scheduled' \subseteq Sp!TaskIds /\ spClosed' \subseteq Sp!TaskIds
    BY <1>1, <1>2, <1>4, <1>7 DEF Sp!TypeOK
  <2>3. awaiter' \in [Sp!TaskIds -> Sp!TaskIds \cup {NoTask}]
    BY <1>1, <1>2 DEF Sp!TypeOK
  <2>. QED
    BY <1>1, <1>2, <1>10, <2>1, <2>2, <2>3 DEF Sp!TypeOK
<1>13. SpQueues'
  <2>1. active' \subseteq available
    BY <1>1, <1>9, <1>10 DEF SpQueues
  <2>2. ASSUME NEW q \in Sp!Queues, runnables'[q] # <<>> PROVE q \in active'
    <3>1. PICK u : u \in Members(runnables'[q])
      BY <1>10, <2>2, MembersEmpty
    <3>2. CASE u \in Members(runnables[q])
      <4>1. runnables[q] # <<>>
        BY <1>8, <3>2, MembersEmpty
      <4>. QED
        BY <1>1, <1>10, <4>1 DEF SpQueues
    <3>3. CASE u \in pushed /\ Sp!QueueOf(u) = q
      <4>. HIDE DEF pushed
      <4>. QED
        BY <1>10, <3>3
    <3>. HIDE DEF pushed
    <3>. QED
      BY <1>10, <3>1, <3>2, <3>3
  <2>. QED
    BY <1>1, <1>2, <2>1, <2>2 DEF SpQueues, Sp!Default
<1>14. SpPlaced'
  <2>1. \A q, r \in Sp!Queues : q # r => Members(runnables'[q]) \cap Members(runnables'[r]) = {}
    <3>. SUFFICES ASSUME NEW q \in Sp!Queues, NEW r \in Sp!Queues, q # r,
                         NEW u \in Members(runnables'[q]), u \in Members(runnables'[r])
                  PROVE  FALSE
      OBVIOUS
    <3>1. \A x \in Sp!Queues : u \in Members(runnables[x]) => u \notin pushed
      BY <1>8
    <3>2. Members(runnables[q]) \cap Members(runnables[r]) = {}
      BY <1>1 DEF SpPlaced
    <3>. HIDE DEF pushed
    <3>3. \A x \in {q, r} : u \in Members(runnables[x]) \/ (u \in pushed /\ Sp!QueueOf(u) = x)
      BY <1>10
    <3>. QED
      BY <3>1, <3>2, <3>3
  <2>2. ASSUME NEW u \in Sp!TaskIds
        PROVE  u \in scheduled' \ Polled' <=> \E q \in Sp!Queues : u \in Members(runnables'[q])
    <3>1. (\E q \in Sp!Queues : u \in Members(runnables'[q]))
            <=> u \in scheduled \ Polled \/ u \in pushed
      <4>1. u \in scheduled \ Polled <=> \E q \in Sp!Queues : u \in Members(runnables[q])
        BY <1>1 DEF SpPlaced
      <4>2. u \in pushed => \E q \in Sp!Queues : Sp!QueueOf(u) = q
        BY <1>9
      <4>. HIDE DEF pushed
      <4>. QED
        BY <1>10, <4>1, <4>2
    <3>. QED
      BY <1>2, <1>11, <3>1
  <2>3. ASSUME NEW q \in Sp!Queues, NEW u \in Members(runnables'[q])
        PROVE  home'[u] = q \/ (q = Sp!Default /\ u \in spClosed')
    <3>1. CASE u \in Members(runnables[q])
      BY <1>1, <1>2, <3>1 DEF SpPlaced
    <3>2. CASE u \in pushed /\ Sp!QueueOf(u) = q
      <4>1. home[u] = q \/ (q = Sp!Default /\ home[u] \notin available)
        BY <1>9, <3>2
      <4>2. home[u] \notin available => u \in spClosed'
        BY <1>2, <1>7, <3>2
      <4>. QED
        BY <1>2, <4>1, <4>2
    <3>. HIDE DEF pushed
    <3>. QED
      BY <1>10, <3>1, <3>2
  <2>. QED
    BY <1>10, <2>1, <2>2, <2>3 DEF SpPlaced, Sp!Default
<1>15. SpPolls' /\ SpScopes'
  BY <1>1, <1>2, <1>11 DEF SpPolls, SpScopes
<1>16. SpUnborn'
  <2>. SUFFICES ASSUME NEW u \in Sp!TaskIds, future[u] = "none"
                PROVE  /\ u \notin completed' \cup spClosed' \cup scheduled' \cup scoped'
                       /\ holder'[u] = NoTask /\ \A v \in Sp!TaskIds : awaiter'[v] # u
    BY <1>2 DEF SpUnborn
  <2>1. u \notin roused /\ u # NoTask
    BY <1>6, NoTaskApart
  <2>. QED
    BY <1>1, <1>2, <1>7, <2>1 DEF SpUnborn
<1>17. SpEnded'
  <2>1. ASSUME NEW u \in completed' PROVE future'[u] = "dropped" /\ u \notin scheduled'
    BY <1>1, <1>2, <1>5 DEF SpEnded
  <2>2. ASSUME NEW u \in Sp!TaskIds
        PROVE  /\ future'[u] = "dropped" => u \in completed' \cup spClosed'
               /\ future'[u] = "alive" /\ u \in spClosed' => u \in scheduled' \cup Polled'
               /\ future'[u] = "dropped" => awaiter'[u] = NoTask \/ u \in scheduled'
    BY <1>1, <1>2, <1>7, <1>11 DEF SpEnded
  <2>. QED
    BY <2>1, <2>2 DEF SpEnded
<1>. QED
  BY <1>12, <1>13, <1>14, <1>15, <1>16, <1>17 DEF SpInv

(* A task is spawned.                                                           *)
LEMMA NewFacts ==
  ASSUME SpInv, NEW t \in Sp!TaskIds, NEW inScope \in BOOLEAN, NEW queue, Sp!New(t, inScope, queue)
  PROVE  /\ polls # <<>> /\ future[t] = "none" /\ t \notin Polled
         /\ \A q \in Sp!Queues : t \notin Members(runnables[q])
         /\ t \notin completed \cup spClosed \cup scheduled \cup scoped
         /\ \A u \in Sp!TaskIds : awaiter[u] # t
         /\ future' \in [Sp!TaskIds -> {"none", "alive", "dropped"}]
         /\ future'[t] = "alive" /\ \A u \in Sp!TaskIds \ {t} : future'[u] = future[u]
         /\ home'[t] = queue /\ \A u \in Sp!TaskIds \ {t} : home'[u] = home[u]
         /\ queue \in Sp!Queues => home' \in [Sp!TaskIds -> Sp!Queues]
         /\ holder' \in [Sp!TaskIds -> Sp!TaskIds \cup {Sp!Shared, NoTask}]
         /\ holder'[t] # NoTask /\ \A u \in Sp!TaskIds \ {t} : holder'[u] = holder[u]
         /\ scoped \subseteq scoped' /\ scoped' \subseteq scoped \cup {t}
<1>1. polls # <<>> /\ future[t] = "none"
  BY DEF Sp!New
<1>2. /\ t \notin completed \cup spClosed \cup scheduled \cup scoped
      /\ \A u \in Sp!TaskIds : awaiter[u] # t
  BY <1>1 DEF SpInv, SpUnborn
<1>3. t \notin Polled /\ \A q \in Sp!Queues : t \notin Members(runnables[q])
  BY <1>1, <1>2 DEF SpInv, SpPolls, SpPlaced
<1>4. Sp!Current \in Sp!TaskIds /\ Sp!Current # NoTask
  BY <1>1, CurrentFacts
<1>5. /\ future' = [future EXCEPT ![t] = "alive"] /\ home' = [home EXCEPT ![t] = queue]
      /\ holder' = [holder EXCEPT ![t] = Sp!Current]
      /\ scoped' = IF inScope THEN scoped \cup {t} ELSE scoped
  BY DEF Sp!New
<1>6. /\ future \in [Sp!TaskIds -> {"none", "alive", "dropped"}] /\ home \in [Sp!TaskIds -> Sp!Queues]
      /\ holder \in [Sp!TaskIds -> Sp!TaskIds \cup {Sp!Shared, NoTask}]
  BY DEF SpInv, Sp!TypeOK
<1>7. /\ future' \in [Sp!TaskIds -> {"none", "alive", "dropped"}]
      /\ future'[t] = "alive" /\ \A u \in Sp!TaskIds \ {t} : future'[u] = future[u]
  BY <1>5, <1>6
<1>8. /\ home'[t] = queue /\ \A u \in Sp!TaskIds \ {t} : home'[u] = home[u]
      /\ queue \in Sp!Queues => home' \in [Sp!TaskIds -> Sp!Queues]
  BY <1>5, <1>6
<1>9. /\ holder' \in [Sp!TaskIds -> Sp!TaskIds \cup {Sp!Shared, NoTask}]
      /\ holder'[t] # NoTask /\ \A u \in Sp!TaskIds \ {t} : holder'[u] = holder[u]
  BY <1>4, <1>5, <1>6
<1>. QED
  BY <1>1, <1>2, <1>3, <1>5, <1>7, <1>8, <1>9

LEMMA Spawn_SpawnInternal ==
  ASSUME SpInv, NEW t \in Sp!TaskIds, NEW inScope \in BOOLEAN, Sp!SpawnInternal(t, inScope)
  PROVE  SpInv'
<1>1. /\ Sp!New(t, inScope, spExecuting) /\ polls' = Append(polls, t)
      /\ UNCHANGED <<completed, spClosed, scheduled, awaiter, runnables, available, active,
                     spExecuting, executorIndex>>
  BY DEF Sp!SpawnInternal, Sp!flags, Sp!queues
<1>. DEFINE queue == spExecuting
<1>2. /\ polls # <<>> /\ future[t] = "none" /\ t \notin Polled
      /\ \A q \in Sp!Queues : t \notin Members(runnables[q])
      /\ t \notin completed \cup spClosed \cup scheduled \cup scoped
      /\ \A u \in Sp!TaskIds : awaiter[u] # t
      /\ future' \in [Sp!TaskIds -> {"none", "alive", "dropped"}]
      /\ future'[t] = "alive" /\ \A u \in Sp!TaskIds \ {t} : future'[u] = future[u]
      /\ home'[t] = queue /\ \A u \in Sp!TaskIds \ {t} : home'[u] = home[u]
      /\ queue \in Sp!Queues => home' \in [Sp!TaskIds -> Sp!Queues]
      /\ holder' \in [Sp!TaskIds -> Sp!TaskIds \cup {Sp!Shared, NoTask}]
      /\ holder'[t] # NoTask /\ \A u \in Sp!TaskIds \ {t} : holder'[u] = holder[u]
      /\ scoped \subseteq scoped' /\ scoped' \subseteq scoped \cup {t}
  <2>. HIDE DEF queue
  <2>. QED
    BY <1>1, NewFacts DEF queue
<1>3. queue \in Sp!Queues
  BY <1>2, CurrentFacts DEF SpInv, Sp!TypeOK
<1>4. polls \in Seq(Sp!TaskIds) /\ Distinct(polls) /\ \A u \in Polled : u \in Sp!TaskIds \ {t}
  BY <1>2, MembersEmpty DEF SpInv, Sp!TypeOK, SpPolls, Polled
<1>5. polls' \in Seq(Sp!TaskIds) /\ Polled' = Polled \cup {t} /\ Distinct(polls')
  BY <1>1, <1>2, <1>4, AppendFacts DEF Polled
<1>6. Sp!TypeOK' /\ SpQueues'
  BY <1>1, <1>2, <1>3, <1>5 DEF SpInv, Sp!TypeOK, SpQueues, Sp!Default
<1>7. SpPlaced'
  <2>1. \A u \in Sp!TaskIds : u \in scheduled' \ Polled' <=> u \in scheduled \ Polled
    BY <1>1, <1>2, <1>5
  <2>2. \A q \in Sp!Queues : \A u \in Members(runnables[q]) : u \in Sp!TaskIds \ {t}
    BY <1>2, MembersEmpty DEF SpInv, Sp!TypeOK
  <2>. QED
    BY <1>1, <1>2, <2>1, <2>2 DEF SpInv, SpPlaced, Sp!Default
<1>8. SpPolls'
  BY <1>1, <1>2, <1>4, <1>5 DEF SpInv, SpPolls
<1>9. SpUnborn'
  BY <1>1, <1>2 DEF SpInv, SpUnborn
<1>10. SpEnded'
  BY <1>1, <1>2, <1>5 DEF SpInv, SpEnded, Sp!TypeOK
<1>11. SpScopes'
  BY <1>1, <1>2, <1>5 DEF SpInv, SpScopes, Sp!TypeOK
<1>. QED
  BY <1>6, <1>7, <1>8, <1>9, <1>10, <1>11 DEF SpInv

LEMMA Spawn_SpawnInto ==
  ASSUME SpInv, NEW t \in Sp!TaskIds, NEW queue \in Sp!Queues, NEW inScope \in BOOLEAN,
         Sp!SpawnInto(t, queue, inScope)
  PROVE  SpInv'
<1>1. /\ queue \in available /\ Sp!New(t, inScope, queue) /\ scheduled' = scheduled \cup {t}
      /\ runnables' = [runnables EXCEPT ![queue] = Append(@, t)] /\ active' = active \cup {queue}
      /\ UNCHANGED <<completed, spClosed, awaiter, available, spExecuting, executorIndex, polls>>
  BY DEF Sp!SpawnInto
<1>2. /\ polls # <<>> /\ future[t] = "none" /\ t \notin Polled
      /\ \A q \in Sp!Queues : t \notin Members(runnables[q])
      /\ t \notin completed \cup spClosed \cup scheduled \cup scoped
      /\ \A u \in Sp!TaskIds : awaiter[u] # t
      /\ future' \in [Sp!TaskIds -> {"none", "alive", "dropped"}]
      /\ future'[t] = "alive" /\ \A u \in Sp!TaskIds \ {t} : future'[u] = future[u]
      /\ home'[t] = queue /\ \A u \in Sp!TaskIds \ {t} : home'[u] = home[u]
      /\ queue \in Sp!Queues => home' \in [Sp!TaskIds -> Sp!Queues]
      /\ holder' \in [Sp!TaskIds -> Sp!TaskIds \cup {Sp!Shared, NoTask}]
      /\ holder'[t] # NoTask /\ \A u \in Sp!TaskIds \ {t} : holder'[u] = holder[u]
      /\ scoped \subseteq scoped' /\ scoped' \subseteq scoped \cup {t}
  BY <1>1, NewFacts
<1>3. runnables \in [Sp!Queues -> Seq(Sp!TaskIds)] /\ \A q \in Sp!Queues : Distinct(runnables[q])
  BY DEF SpInv, Sp!TypeOK, SpPlaced
<1>. DEFINE s == Append(runnables[queue], t)
<1>4. s \in Seq(Sp!TaskIds) /\ Members(s) = Members(runnables[queue]) \cup {t} /\ Distinct(s)
  BY <1>2, <1>3, AppendFacts
<1>5. /\ runnables' \in [Sp!Queues -> Seq(Sp!TaskIds)]
      /\ runnables'[queue] = s /\ \A q \in Sp!Queues \ {queue} : runnables'[q] = runnables[q]
  BY <1>1, <1>3, <1>4
<1>. HIDE DEF s
<1>6. \A q \in Sp!Queues : /\ Distinct(runnables'[q])
                           /\ Members(runnables'[q]) = Members(runnables[q]) \cup (IF q = queue THEN {t} ELSE {})
  BY <1>3, <1>4, <1>5
<1>7. Polled' = Polled /\ \A u \in Polled : u \in Sp!TaskIds \ {t}
  BY <1>1, <1>2, MembersEmpty DEF Polled, SpInv, Sp!TypeOK
<1>8. Sp!TypeOK' /\ SpQueues'
  <2>1. Sp!TypeOK'
    BY <1>1, <1>2, <1>5 DEF SpInv, Sp!TypeOK
  <2>2. \A q \in Sp!Queues : runnables'[q] # <<>> => q \in active'
    BY <1>1, <1>5 DEF SpInv, SpQueues
  <2>. QED
    BY <1>1, <2>1, <2>2 DEF SpInv, SpQueues, Sp!Default
<1>9. SpPlaced'
  <2>0. SpPlaced
    BY DEF SpInv
  <2>1. \A q, r \in Sp!Queues : q # r => Members(runnables'[q]) \cap Members(runnables'[r]) = {}
    <3>. SUFFICES ASSUME NEW q \in Sp!Queues, NEW r \in Sp!Queues, q # r,
                         NEW u \in Members(runnables'[q]), u \in Members(runnables'[r])
                  PROVE  FALSE
      OBVIOUS
    <3>1. Members(runnables[q]) \cap Members(runnables[r]) = {}
      BY <2>0 DEF SpPlaced
    <3>. QED
      BY <1>2, <1>6, <3>1
  <2>2. ASSUME NEW u \in Sp!TaskIds
        PROVE  u \in scheduled' \ Polled' <=> \E q \in Sp!Queues : u \in Members(runnables'[q])
    <3>1. u \in scheduled \ Polled <=> \E q \in Sp!Queues : u \in Members(runnables[q])
      BY <2>0 DEF SpPlaced
    <3>2. (\E q \in Sp!Queues : u \in Members(runnables'[q]))
            <=> u = t \/ \E q \in Sp!Queues : u \in Members(runnables[q])
      BY <1>6
    <3>. QED
      BY <1>1, <1>2, <1>7, <3>1, <3>2
  <2>3. ASSUME NEW q \in Sp!Queues, NEW u \in Members(runnables'[q])
        PROVE  home'[u] = q \/ (q = Sp!Default /\ u \in spClosed')
    <3>1. CASE u = t
      BY <1>2, <1>6, <2>3, <3>1
    <3>2. CASE u # t
      <4>1. u \in Members(runnables[q]) /\ u \in Sp!TaskIds
        BY <1>3, <1>6, <2>3, <3>2, MembersEmpty
      <4>. QED
        BY <1>1, <1>2, <2>0, <3>2, <4>1 DEF SpPlaced
    <3>. QED
      BY <3>1, <3>2
  <2>. QED
    BY <1>6, <2>1, <2>2, <2>3 DEF SpPlaced, Sp!Default
<1>10. SpPolls'
  BY <1>1, <1>2, <1>7 DEF SpInv, SpPolls
<1>11. SpUnborn'
  BY <1>1, <1>2 DEF SpInv, SpUnborn
<1>12. SpEnded'
  BY <1>1, <1>2, <1>7 DEF SpInv, SpEnded, Sp!TypeOK
<1>13. SpScopes'
  BY <1>1, <1>2, <1>7 DEF SpInv, SpScopes, Sp!TypeOK
<1>. QED
  BY <1>8, <1>9, <1>10, <1>11, <1>12, <1>13 DEF SpInv

(* A handle changes hands, or the one that holds it waits.                      *)
LEMMA Spawn_Hands ==
  ASSUME SpInv, NEW t \in Sp!TaskIds,
         Sp!Share(t) \/ Sp!Detach(t) \/ Sp!AwaitReady(t) \/ Sp!AwaitPending(t)
  PROVE  SpInv'
<1>1. UNCHANGED <<future, completed, spClosed, scheduled, scoped, home, runnables, available,
                  active, spExecuting, executorIndex, polls>>
  BY DEF Sp!Share, Sp!Detach, Sp!AwaitReady, Sp!AwaitPending, Sp!flags, Sp!queues
<1>2. Sp!Current \in Sp!TaskIds /\ Sp!Current # NoTask /\ holder[t] \in {Sp!Current, Sp!Shared}
      /\ future[Sp!Current] = "alive"
  BY CurrentFacts DEF Sp!Share, Sp!Detach, Sp!AwaitReady, Sp!AwaitPending, Sp!Holds, Sp!Reaches
<1>3. future[t] # "none"
  BY <1>2, NoTaskApart DEF SpInv, SpUnborn
<1>4. /\ holder \in [Sp!TaskIds -> Sp!TaskIds \cup {Sp!Shared, NoTask}]
      /\ awaiter \in [Sp!TaskIds -> Sp!TaskIds \cup {NoTask}]
      /\ Sp!Running = Polled /\ Polled' = Polled
  BY <1>1, PolledRange DEF SpInv, Sp!TypeOK, Polled
<1>5. /\ holder' \in [Sp!TaskIds -> Sp!TaskIds \cup {Sp!Shared, NoTask}]
      /\ \A u \in Sp!TaskIds \ {t} : holder'[u] = holder[u]
      /\ holder'[t] = NoTask => t \notin scoped \/ Sp!Finished(t)
  <2>1. CASE Sp!Share(t)
    BY <1>4, <2>1, NoTaskApart DEF Sp!Share
  <2>2. CASE Sp!Detach(t)
    BY <1>4, <2>2 DEF Sp!Detach
  <2>3. CASE Sp!AwaitReady(t)
    BY <1>4, <2>3 DEF Sp!AwaitReady
  <2>4. CASE Sp!AwaitPending(t)
    BY <1>2, <1>4, <2>4, NoTaskApart DEF Sp!AwaitPending
  <2>. QED
    BY <2>1, <2>2, <2>3, <2>4
<1>6. /\ awaiter' \in [Sp!TaskIds -> Sp!TaskIds \cup {NoTask}]
      /\ \A u \in Sp!TaskIds \ {t} : awaiter'[u] = awaiter[u]
      /\ awaiter'[t] \in {awaiter[t], NoTask} \/ (awaiter'[t] = Sp!Current /\ ~Sp!Finished(t))
  <2>1. CASE Sp!Share(t) \/ Sp!Detach(t)
    BY <1>4, <2>1 DEF Sp!Share, Sp!Detach
  <2>2. CASE Sp!AwaitReady(t)
    BY <1>4, <2>2 DEF Sp!AwaitReady
  <2>3. CASE Sp!AwaitPending(t)
    BY <1>2, <1>4, <2>3 DEF Sp!AwaitPending
  <2>. QED
    BY <2>1, <2>2, <2>3
<1>7. Sp!Finished(t) <=> future[t] = "dropped"
  <2>1. Sp!Finished(t) <=> t \in completed \/ (t \in spClosed /\ future[t] = "dropped" /\ t \notin Polled)
    BY <1>4 DEF Sp!Finished
  <2>2. t \in Polled => future[t] = "alive"
    BY DEF SpInv, SpPolls
  <2>. QED
    BY <2>1, <2>2 DEF SpInv, SpEnded
<1>8. Sp!TypeOK' /\ SpQueues'
  BY <1>1, <1>5, <1>6 DEF SpInv, Sp!TypeOK, SpQueues, Sp!Default
<1>9. SpPlaced' /\ SpPolls'
  BY <1>1, <1>4 DEF SpInv, SpPlaced, SpPolls, Sp!Default
<1>10. SpUnborn'
  <2>. SUFFICES ASSUME NEW u \in Sp!TaskIds, future[u] = "none"
                PROVE  /\ u \notin completed' \cup spClosed' \cup scheduled' \cup scoped'
                       /\ holder'[u] = NoTask /\ \A v \in Sp!TaskIds : awaiter'[v] # u
    BY <1>1 DEF SpUnborn
  <2>1. u # t /\ u # NoTask /\ u # Sp!Current
    BY <1>2, <1>3, NoTaskApart
  <2>. QED
    BY <1>1, <1>5, <1>6, <2>1 DEF SpInv, SpUnborn
<1>11. SpEnded'
  BY <1>1, <1>4, <1>6, <1>7 DEF SpInv, SpEnded
<1>12. SpScopes'
  <2>. SUFFICES ASSUME NEW u \in scoped, holder'[u] = NoTask, future[u] = "alive"
                PROVE  u \in Polled \cap spClosed
    BY <1>1, <1>4 DEF SpScopes
  <2>1. u \in Sp!TaskIds
    BY DEF SpInv, Sp!TypeOK
  <2>. QED
    BY <1>5, <1>7, <2>1 DEF SpInv, SpScopes
<1>. QED
  BY <1>8, <1>9, <1>10, <1>11, <1>12 DEF SpInv

LEMMA SpawnStep == ASSUME SpInv, [Sp!Next]_(Sp!spawnVars) PROVE SpInv'
<1>1. CASE Sp!Next
  <2>1. ASSUME NEW q \in Sp!Queues, Sp!RunOneTaskQueue(q) \/ Sp!RemoveTaskQueue(q) PROVE SpInv'
    BY <2>1, Spawn_RunOneTaskQueue, Spawn_RemoveTaskQueue
  <2>2. CASE \/ Sp!EndTaskQueue \/ Sp!PollReady \/ Sp!PollPendingClosed \/ Sp!PollPending
             \/ Sp!CreateTaskQueue
    BY <2>2, Spawn_EndTaskQueue, Spawn_PollReady, Spawn_PollPendingClosed, Spawn_PollPending,
       Spawn_CreateTaskQueue
  <2>3. ASSUME NEW t \in Sp!TaskIds, Sp!RunTask(t) \/ Sp!DropTask(t) \/ Sp!Wake(t) PROVE SpInv'
    BY <2>3, Spawn_RunTask, Spawn_DropTask, Spawn_Wake
  <2>4. ASSUME NEW t \in Sp!TaskIds, Sp!SpawnLocal(t) \/ Sp!SpawnScopedLocal(t) PROVE SpInv'
    BY <2>4, Spawn_SpawnInternal DEF Sp!SpawnLocal, Sp!SpawnScopedLocal
  <2>5. ASSUME NEW t \in Sp!TaskIds, NEW q \in Sp!Queues,
               Sp!SpawnLocalInto(t, q) \/ Sp!SpawnScopedLocalInto(t, q)
        PROVE  SpInv'
    BY <2>5, Spawn_SpawnInto DEF Sp!SpawnLocalInto, Sp!SpawnScopedLocalInto
  <2>6. ASSUME NEW t \in Sp!TaskIds,
               Sp!Share(t) \/ Sp!Detach(t) \/ Sp!AwaitReady(t) \/ Sp!AwaitPending(t)
        PROVE  SpInv'
    BY <2>6, Spawn_Hands
  <2>7. ASSUME NEW t \in Sp!TaskIds,
               Sp!TaskCancel(t) \/ Sp!ScopedCancel(t) \/ Sp!TaskDrop(t) \/ Sp!ScopedDrop(t)
        PROVE  SpInv'
    BY <2>7, Spawn_Cancel, Spawn_DropHandle
       DEF Sp!TaskCancel, Sp!ScopedCancel, Sp!TaskDrop, Sp!ScopedDrop
  <2>. QED
    BY <1>1, <2>1, <2>2, <2>3, <2>4, <2>5, <2>6, <2>7 DEF Sp!Next
<1>2. CASE UNCHANGED Sp!spawnVars
  <2>1. UNCHANGED <<future, completed, spClosed, scheduled, scoped, holder, awaiter, home,
                    runnables, available, active, spExecuting, executorIndex, polls>>
    BY <1>2 DEF Sp!spawnVars, Sp!flags, Sp!handles, Sp!queues
  <2>2. Polled' = Polled
    BY <2>1 DEF Polled
  <2>3. Sp!TypeOK' /\ SpQueues'
    BY <2>1 DEF SpInv, Sp!TypeOK, SpQueues, Sp!Default
  <2>4. SpPlaced' /\ SpPolls'
    BY <2>1, <2>2 DEF SpInv, SpPlaced, SpPolls, Sp!Default
  <2>5. SpUnborn' /\ SpEnded' /\ SpScopes'
    BY <2>1, <2>2 DEF SpInv, SpUnborn, SpEnded, SpScopes
  <2>. QED
    BY <2>3, <2>4, <2>5 DEF SpInv
<1>. QED
  BY <1>1, <1>2

LEMMA SpawnInvariance == Sp!Spec => []SpInv
<1>1. Sp!Init => SpInv
  BY SpawnInit
<1>2. SpInv /\ [Sp!Next]_(Sp!spawnVars) => SpInv'
  BY SpawnStep
<1>. QED
  BY <1>1, <1>2, PTL DEF Sp!Spec

(* The runnables of a task are counted.                                         *)
LEMMA PlacesCount ==
  ASSUME SpInv, NEW t \in Sp!TaskIds
  PROVE  Sp!Cardinality(Sp!Places(t)) = IF t \in scheduled \ Polled THEN 1 ELSE 0
<1>. DEFINE P == Sp!Places(t)
<1>1. Sp!Cardinality(P) = Cardinality(P)
  BY Zenon DEF Sp!Cardinality, Cardinality
<1>2. \A q \in Sp!Queues : runnables[q] \in Seq(Sp!TaskIds) /\ Distinct(runnables[q])
  BY DEF SpInv, Sp!TypeOK, SpPlaced
<1>3. P = {e \in Sp!Queues \X (1 .. MaxTasks) :
             e[2] \in 1 .. Len(runnables[e[1]]) /\ runnables[e[1]][e[2]] = t}
  BY <1>2 DEF Sp!Places
<1>. HIDE DEF P
<1>4. \A e \in P : e[1] \in Sp!Queues /\ t \in Members(runnables[e[1]])
  BY <1>3 DEF Members
<1>5. CASE t \notin scheduled \ Polled
  <2>1. P = {}
    BY <1>4, <1>5 DEF SpInv, SpPlaced
  <2>. QED
    BY <1>1, <1>5, <2>1, FS_EmptySet DEF P
<1>6. CASE t \in scheduled \ Polled
  <2>1. PICK q \in Sp!Queues : t \in Members(runnables[q])
    BY <1>6 DEF SpInv, SpPlaced
  <2>2. PICK i \in 1 .. Len(runnables[q]) : runnables[q][i] = t
    BY <2>1 DEF Members
  <2>3. i \in 1 .. MaxTasks
    <3>1. IsFiniteSet(Sp!TaskIds) /\ Cardinality(Sp!TaskIds) = MaxTasks
      <4>1. MaxTasks \in Int /\ 1 \in Int /\ ~(1 > MaxTasks) /\ MaxTasks - 1 + 1 = MaxTasks
        BY SpawnAssumption
      <4>2. IsFiniteSet(1 .. MaxTasks)
        BY <4>1, FS_Interval
      <4>3. Cardinality(1 .. MaxTasks) = IF 1 > MaxTasks THEN 0 ELSE MaxTasks - 1 + 1
        BY <4>1, FS_Interval
      <4>. QED
        BY <4>1, <4>2, <4>3 DEF Sp!TaskIds
    <3>2. Len(runnables[q]) = Cardinality(Members(runnables[q]))
      BY <1>2, LengthCounts
    <3>3. Members(runnables[q]) \in SUBSET Sp!TaskIds
      BY <1>2, MembersEmpty
    <3>4. Cardinality(Members(runnables[q])) <= Cardinality(Sp!TaskIds)
      BY <3>1, <3>3, FS_Subset
    <3>5. Len(runnables[q]) <= MaxTasks /\ Len(runnables[q]) \in Nat
      BY <1>2, <3>1, <3>2, <3>4
    <3>. QED
      BY <3>5, SpawnAssumption
  <2>4. <<q, i>> \in P
    BY <1>3, <2>2, <2>3
  <2>5. ASSUME NEW e \in P PROVE e = <<q, i>>
    <3>1. e[1] = q
      BY <1>4, <2>1 DEF SpInv, SpPlaced
    <3>2. e[2] \in 1 .. Len(runnables[q]) /\ runnables[q][e[2]] = t
      BY <1>3, <3>1
    <3>3. e[2] = i
      BY <1>2, <2>2, <3>2 DEF Distinct
    <3>4. e = <<e[1], e[2]>>
      BY <1>3
    <3>. QED
      BY <3>1, <3>3, <3>4
  <2>6. P = {<<q, i>>}
    BY <2>4, <2>5
  <2>7. Cardinality({<<q, i>>}) = 1
    BY FS_Singleton
  <2>. QED
    BY <1>1, <1>6, <2>6, <2>7 DEF P
<1>. QED
  BY <1>5, <1>6

(* A scope holds, however many tasks hold each other and in whatever order the  *)
(* handles of scoped tasks are dropped, cancelled, awaited and shared: once the *)
(* handle is gone the future is dropped, or is in its last poll (ScopedTask).   *)
THEOREM ScopesDoHold == Sp!Spec => []Sp!ScopesHold /\ []ScopesHold
<1>1. ASSUME SpInv PROVE Sp!ScopesHold
  <2>1. Sp!Running = Polled
    BY <1>1, PolledRange DEF SpInv, Sp!TypeOK
  <2>. QED
    BY <1>1, <2>1 DEF SpInv, SpScopes, Sp!ScopesHold
<1>2. Sp!ScopesHold => ScopesHold
  BY DEF ScopesHold
<1>. QED
  BY <1>1, <1>2, SpawnInvariance, PTL

(* A task that has work comes to it, for any number of tasks and queues: one    *)
(* runnable, on a queue that is there and active, also when its own queue was   *)
(* removed; nothing cancelled is forgotten and no awaiter is left              *)
(* (Scheduler::schedule, schedule_cleanup, cancel, close).                      *)
THEOREM TasksAreAccounted == Sp!Spec => []Sp!TasksAccounted /\ []TasksAccounted
<1>1. ASSUME SpInv PROVE Sp!TasksAccounted
  <2>1. Sp!Running = Polled
    BY <1>1, PolledRange DEF SpInv, Sp!TypeOK
  <2>2. ASSUME NEW t \in Sp!TaskIds
        PROVE  /\ Sp!Cardinality(Sp!Places(t)) = IF t \in scheduled \ Sp!Running THEN 1 ELSE 0
               /\ t \in spClosed /\ future[t] = "alive" => t \in scheduled \cup Sp!Running
               /\ t \in Sp!Running => home[t] = spExecuting
               /\ Sp!Finished(t) => awaiter[t] = NoTask \/ t \in scheduled
    <3>1. Sp!Cardinality(Sp!Places(t)) = IF t \in scheduled \ Sp!Running THEN 1 ELSE 0
      BY <1>1, <2>1, PlacesCount
    <3>2. Sp!Finished(t) => future[t] = "dropped"
      BY <1>1 DEF SpInv, SpEnded, Sp!Finished
    <3>. QED
      BY <1>1, <2>1, <3>1, <3>2 DEF SpInv, SpEnded, SpPolls
  <2>3. \A q \in Sp!Queues : runnables[q] # <<>> => q \in available \cap active
    BY <1>1 DEF SpInv, SpQueues
  <2>. QED
    BY <2>2, <2>3 DEF Sp!TasksAccounted
<1>2. Sp!TasksAccounted => TasksAccounted
  BY DEF TasksAccounted
<1>. QED
  BY <1>1, <1>2, SpawnInvariance, PTL

==================================================================================
