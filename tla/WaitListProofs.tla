------------------------------ MODULE WaitListProofs ------------------------------
(* Facts about counting, induction and lists of waiters, for the other proofs.  *)
EXTENDS WaitList, FiniteSets, FiniteSetTheorems, WellFoundedInduction, TLAPS

----------------------------------------------------------------------------------
(* Induction up to n over a set instead of a predicate: a counterexample has a  *)
(* least one.                                                                   *)
LEMMA InductionUpTo ==
  ASSUME NEW n \in Nat, NEW P, 0 \in P, \A i \in 0 .. n - 1 : i \in P => i + 1 \in P
  PROVE  0 .. n \subseteq P
<1>. DEFINE S == (0 .. n) \ P
<1>. SUFFICES ASSUME S # {} PROVE FALSE
  OBVIOUS
<1>1. PICK x \in S : \A y \in S : ~(<<y, x>> \in OpToRel(<, Nat))
  <2>1. S \in SUBSET Nat
    OBVIOUS
  <2>. QED
    BY ONLY <2>1, S # {}, NatLessThanWellFounded, WFMin
<1>2. x # 0 /\ x - 1 \in 0 .. n - 1
  OBVIOUS
<1>3. x - 1 \in S
  BY <1>2
<1>4. <<x - 1, x>> \in Nat \X Nat /\ <<x - 1, x>>[1] < <<x - 1, x>>[2]
  BY <1>2
<1>5. <<x - 1, x>> \in OpToRel(<, Nat)
  BY <1>4 DEF OpToRel
<1>. QED
  BY <1>1, <1>3, <1>5

(* A set of numbers that is not empty has a least one.                          *)
LEMMA LeastOf ==
  ASSUME NEW S \in SUBSET Nat, S # {}
  PROVE  \E x \in S : \A y \in S : x <= y
<1>1. PICK x \in S : \A y \in S : ~(<<y, x>> \in OpToRel(<, Nat))
  BY NatLessThanWellFounded, WFMin
<1>2. \A y \in S : x <= y
  <2>. SUFFICES ASSUME NEW y \in S, y < x PROVE FALSE
    OBVIOUS
  <2>1. <<y, x>> \in Nat \X Nat /\ <<y, x>>[1] < <<y, x>>[2]
    OBVIOUS
  <2>2. <<y, x>> \in OpToRel(<, Nat)
    BY <2>1 DEF OpToRel
  <2>. QED
    BY <1>1, <2>2
<1>. QED
  BY <1>2

(* Fewer owners than numbers: a table in which each of them has one number, and   *)
(* one has none, has a least number that is free.                                 *)
LEMMA OneIsFree ==
  ASSUME NEW N \in Nat, NEW none, none \notin 1 .. N,
         NEW table \in [1 .. N -> (1 .. N) \cup {none}],
         NEW d \in 1 .. N, \A n \in 1 .. N : table[n] # d,
         \A m, n \in 1 .. N : table[m] = table[n] /\ table[m] # none => m = n
  PROVE  \E n \in 1 .. N : table[n] = none /\ \A m \in 1 .. N : table[m] = none => n <= m
<1>. DEFINE S == {n \in 1 .. N : table[n] = none}
<1>1. S # {}
  <2>. SUFFICES ASSUME S = {} PROVE FALSE
    OBVIOUS
  <2>1. table \in [1 .. N -> (1 .. N) \ {d}]
    OBVIOUS
  <2>2. IsFiniteSet(1 .. N) /\ Cardinality(1 .. N) = N
    BY FS_Interval
  <2>3. IsFiniteSet((1 .. N) \ {d}) /\ Cardinality((1 .. N) \ {d}) = N - 1
    BY <2>2, FS_RemoveElement
  <2>4. \E m, n \in 1 .. N : m # n /\ table[m] = table[n]
    <3>. DEFINE T == (1 .. N) \ {d}
    <3>1. Cardinality(T) < Cardinality(1 .. N)
      BY <2>2, <2>3
    <3>2. IsFiniteSet(1 .. N) /\ IsFiniteSet(T) /\ table \in [1 .. N -> T]
      BY <2>1, <2>2, <2>3
    <3>. HIDE DEF T
    <3>. QED
      BY <3>1, <3>2, FS_PigeonHole
  <2>. QED
    BY <2>4
<1>2. PICK n \in S : \A m \in S : n <= m
  <2>1. S \in SUBSET Nat
    OBVIOUS
  <2>. HIDE DEF S
  <2>. QED
    BY <1>1, <2>1, LeastOf
<1>. QED
  BY <1>2

----------------------------------------------------------------------------------
(* Counting.                                                                    *)

(* One more.                                                                    *)
LEMMA CountAdd ==
  ASSUME NEW S, IsFiniteSet(S), NEW x, x \notin S
  PROVE  Cardinality(S \cup {x}) = Cardinality(S) + 1
BY FS_AddElement

(* One less.                                                                    *)
LEMMA CountRemove ==
  ASSUME NEW S, IsFiniteSet(S), NEW x \in S
  PROVE  Cardinality(S \ {x}) = Cardinality(S) - 1
BY FS_RemoveElement

(* One less and at most one more.                                               *)
LEMMA CountSwap ==
  ASSUME NEW S, IsFiniteSet(S), NEW t, NEW F, \A x, y \in F : x = y, F \cap S = {}, t \notin F
  PROVE  /\ IsFiniteSet((S \ {t}) \cup F)
         /\ Cardinality((S \ {t}) \cup F)
              = Cardinality(S) - (IF t \in S THEN 1 ELSE 0) + (IF F = {} THEN 0 ELSE 1)
         /\ Cardinality((S \ {t}) \cup F) \in Nat /\ Cardinality(S) \in Nat
<1>1. /\ IsFiniteSet(S \ {t}) /\ Cardinality(S) \in Nat
      /\ Cardinality(S \ {t}) = Cardinality(S) - (IF t \in S THEN 1 ELSE 0)
  BY FS_RemoveElement, FS_CardinalityType
<1>2. CASE F = {}
  <2>1. (S \ {t}) \cup F = S \ {t}
    BY <1>2
  <2>. QED
    BY <1>1, <1>2, <2>1, FS_CardinalityType
<1>3. CASE F # {}
  <2>1. PICK x : F = {x}
    BY <1>3
  <2>2. /\ IsFiniteSet((S \ {t}) \cup {x})
        /\ Cardinality((S \ {t}) \cup {x}) = Cardinality(S \ {t}) + 1
    BY <1>1, <2>1, FS_AddElement
  <2>. QED
    BY <1>1, <1>3, <2>1, <2>2, FS_CardinalityType
<1>. QED
  BY <1>2, <1>3

----------------------------------------------------------------------------------
(* Lists of waiters.                                                            *)

(* The recursive function exists, and so satisfies its definition.              *)
LEMMA KeptSteps ==
  ASSUME NEW T, NEW ws \in Seq(T), NEW gone
  PROVE  /\ Kept(ws, gone)[0] = <<>>
         /\ \A i \in 1 .. Len(ws) :
              Kept(ws, gone)[i] = IF ws[i] \in gone THEN Kept(ws, gone)[i - 1]
                                  ELSE Append(Kept(ws, gone)[i - 1], ws[i])
<1>. DEFINE Upto(f, n) == /\ f[0] = <<>>
                          /\ \A i \in 1 .. n : f[i] = IF ws[i] \in gone THEN f[i - 1]
                                                     ELSE Append(f[i - 1], ws[i])
            P == {n \in 0 .. Len(ws) : \E f : Upto(f, n)}
<1>1. 0 \in P
  <2>. DEFINE f == [i \in {0} |-> <<>>]
  <2>1. f[0] = <<>> /\ 1 .. 0 = {}
    OBVIOUS
  <2>2. Upto(f, 0)
    BY <2>1
  <2>3. 0 \in 0 .. Len(ws)
    OBVIOUS
  <2>. QED
    BY <2>2, <2>3
<1>2. ASSUME NEW n \in 0 .. Len(ws) - 1, n \in P
      PROVE  n + 1 \in P
  <2>1. PICK f : Upto(f, n)
    BY <1>2
  <2>. DEFINE v == IF ws[n + 1] \in gone THEN f[n] ELSE Append(f[n], ws[n + 1])
              g == [i \in 0 .. n + 1 |-> IF i <= n THEN f[i] ELSE v]
  <2>2. g[n + 1] = v /\ \A i \in 0 .. n : g[i] = f[i]
    <3>. HIDE DEF v
    <3>. QED
      OBVIOUS
  <2>. HIDE DEF g
  <2>3. ASSUME NEW i \in 1 .. n + 1
        PROVE  g[i] = IF ws[i] \in gone THEN g[i - 1] ELSE Append(g[i - 1], ws[i])
    <3>1. CASE i = n + 1
      <4>1. g[i] = v /\ g[i - 1] = f[n]
        BY <2>2, <3>1
      <4>. QED
        BY <3>1, <4>1
    <3>2. CASE i # n + 1
      <4>1. i \in 1 .. n /\ g[i] = f[i] /\ g[i - 1] = f[i - 1]
        BY <2>2, <3>2
      <4>. QED
        BY <2>1, <4>1
    <3>. QED
      BY <3>1, <3>2
  <2>4. Upto(g, n + 1)
    BY <2>1, <2>2, <2>3
  <2>5. n + 1 \in 0 .. Len(ws)
    OBVIOUS
  <2>. QED
    BY <2>4, <2>5
<1>3. 0 .. Len(ws) \subseteq P
  <2>. HIDE DEF P
  <2>. QED
    BY <1>1, <1>2, InductionUpTo
<1>4. PICK f : Upto(f, Len(ws))
  BY <1>3
<1>. DEFINE g == [i \in 0 .. Len(ws) |-> f[i]]
<1>5. \A i \in 0 .. Len(ws) : g[i] = f[i]
  OBVIOUS
<1>6. \A i \in 0 .. Len(ws) :
        f[i] = IF i = 0 THEN <<>>
               ELSE IF ws[i] \in gone THEN g[i - 1] ELSE Append(g[i - 1], ws[i])
  <2>. SUFFICES ASSUME NEW i \in 0 .. Len(ws), i # 0
                PROVE  f[i] = IF ws[i] \in gone THEN g[i - 1] ELSE Append(g[i - 1], ws[i])
    BY <1>4
  <2>1. i \in 1 .. Len(ws) /\ g[i - 1] = f[i - 1]
    BY <1>5
  <2>. QED
    BY <1>4, <2>1
<1>7. g = [i \in 0 .. Len(ws) |->
             IF i = 0 THEN <<>>
             ELSE IF ws[i] \in gone THEN g[i - 1] ELSE Append(g[i - 1], ws[i])]
  BY <1>6, Zenon
<1>. HIDE DEF g
<1>. DEFINE K == Kept(ws, gone)
<1>8. K = [i \in 0 .. Len(ws) |->
             IF i = 0 THEN <<>>
             ELSE IF ws[i] \in gone THEN K[i - 1] ELSE Append(K[i - 1], ws[i])]
  BY <1>7 DEF Kept
<1>. HIDE DEF K
<1>9. \A i \in 0 .. Len(ws) :
        K[i] = IF i = 0 THEN <<>>
               ELSE IF ws[i] \in gone THEN K[i - 1] ELSE Append(K[i - 1], ws[i])
  BY <1>8, Zenon
<1>10. 0 \in 0 .. Len(ws) /\ \A i \in 1 .. Len(ws) : i \in 0 .. Len(ws) /\ i # 0
  OBVIOUS
<1>11. K[0] = <<>> /\ \A i \in 1 .. Len(ws) : K[i] = IF ws[i] \in gone THEN K[i - 1] ELSE Append(K[i - 1], ws[i])
  BY <1>9, <1>10, Zenon
<1>. QED
  BY <1>11, Zenon DEF K

(* No waiter is twice in the list.                                              *)
Distinct(ws) == \A i, j \in 1 .. Len(ws) : ws[i] = ws[j] => i = j

(* The list without gone is a list, has the members that are not in gone, and   *)
(* repeats nothing that ws does not repeat.                                     *)
LEMMA WithoutFacts ==
  ASSUME NEW T, NEW ws \in Seq(T), NEW gone
  PROVE  /\ Without(ws, gone) \in Seq(T)
         /\ Members(Without(ws, gone)) = Members(ws) \ gone
         /\ Distinct(ws) => Distinct(Without(ws, gone))
<1>. DEFINE K == Kept(ws, gone)
            P == {n \in 0 .. Len(ws) :
                    /\ K[n] \in Seq(T)
                    /\ Members(K[n]) = {ws[j] : j \in 1 .. n} \ gone
                    /\ Distinct(ws) => Distinct(K[n])}
<1>0. /\ K[0] = <<>>
      /\ \A i \in 1 .. Len(ws) : K[i] = IF ws[i] \in gone THEN K[i - 1] ELSE Append(K[i - 1], ws[i])
  BY KeptSteps
<1>. HIDE DEF K
<1>1. 0 \in P
  <2>1. Members(<<>>) = {} /\ Distinct(<<>>) /\ <<>> \in Seq(T)
    BY DEF Members, Distinct
  <2>2. {ws[j] : j \in 1 .. 0} = {} /\ 0 \in 0 .. Len(ws)
    OBVIOUS
  <2>. QED
    BY <1>0, <2>1, <2>2
<1>2. ASSUME NEW n \in 0 .. Len(ws) - 1, n \in P
      PROVE  n + 1 \in P
  <2>0. K[n] \in Seq(T) /\ Members(K[n]) = {ws[j] : j \in 1 .. n} \ gone /\ n + 1 \in 1 .. Len(ws) /\ n + 1 - 1 = n
    BY <1>2
  <2>1. CASE ws[n + 1] \in gone
    <3>1. K[n + 1] = K[n]
      BY <1>0, <2>1, <2>0
    <3>. QED
      BY <1>2, <2>1, <3>1
  <2>2. CASE ws[n + 1] \notin gone
    <3>1. K[n + 1] = Append(K[n], ws[n + 1])
      <4>1. K[n + 1] = IF ws[n + 1] \in gone THEN K[n + 1 - 1] ELSE Append(K[n + 1 - 1], ws[n + 1])
        BY <1>0, <2>0
      <4>. QED
        BY <4>1, <2>2, <2>0
    <3>2. K[n + 1] \in Seq(T) /\ Len(K[n + 1]) = Len(K[n]) + 1
      BY <2>0, <3>1
    <3>3. Members(K[n + 1]) = {ws[j] : j \in 1 .. n + 1} \ gone
      <4>1. Members(K[n + 1]) = Members(K[n]) \cup {ws[n + 1]}
        <5>. DEFINE k == K[n]
        <5>1. k \in Seq(T) /\ ws[n + 1] \in T
          BY <2>0
        <5>. HIDE DEF k
        <5>2. Members(Append(k, ws[n + 1])) = Members(k) \cup {ws[n + 1]}
          <6>1. Len(Append(k, ws[n + 1])) = Len(k) + 1 /\ Len(k) \in Nat
            BY <5>1
          <6>2. \A i \in 1 .. Len(k) : Append(k, ws[n + 1])[i] = k[i]
            BY <5>1
          <6>3. Append(k, ws[n + 1])[Len(k) + 1] = ws[n + 1]
            BY <5>1
          <6>. QED
            BY <6>1, <6>2, <6>3 DEF Members
        <5>. QED
          BY <5>2, <3>1 DEF k
      <4>2. {ws[j] : j \in 1 .. n + 1} = {ws[j] : j \in 1 .. n} \cup {ws[n + 1]}
        OBVIOUS
      <4>. QED
        BY <4>1, <4>2, <2>0, <2>2
    <3>4. ASSUME Distinct(ws) PROVE Distinct(K[n + 1])
      <4>1. ws[n + 1] \notin Members(K[n])
        BY <2>0, <3>4 DEF Distinct
      <4>2. Distinct(K[n])
        BY <1>2, <3>4
      <4>. QED
        BY <4>1, <4>2, <3>1, <3>2, <2>0 DEF Distinct, Members
    <3>. QED
      BY <3>2, <3>3, <3>4, <1>2
  <2>. QED
    BY <2>1, <2>2
<1>3. 0 .. Len(ws) \subseteq P
  <2>. HIDE DEF P
  <2>. QED
    BY <1>1, <1>2, InductionUpTo
<1>4. Len(ws) \in P
  BY <1>3
<1>. QED
  BY <1>4 DEF Without, Members, K

LEMMA MembersEmpty ==
  ASSUME NEW T, NEW ws \in Seq(T)
  PROVE  Members(ws) \subseteq T /\ (Members(ws) = {} <=> ws = <<>>)
<1>1. ws # <<>> => 1 \in 1 .. Len(ws)
  OBVIOUS
<1>2. 1 \in 1 .. Len(ws) => ws[1] \in Members(ws)
  BY DEF Members
<1>3. ws = <<>> => Members(ws) = {}
  BY DEF Members
<1>4. Members(ws) \subseteq T
  BY DEF Members
<1>. QED
  BY <1>1, <1>2, <1>3, <1>4

(* A waiter at the end of the list.                                             *)
LEMMA AppendFacts ==
  ASSUME NEW T, NEW ws \in Seq(T), NEW t \in T
  PROVE  /\ Append(ws, t) \in Seq(T)
         /\ Members(Append(ws, t)) = Members(ws) \cup {t}
         /\ Distinct(ws) /\ t \notin Members(ws) => Distinct(Append(ws, t))
<1>1. Append(ws, t) \in Seq(T) /\ Len(Append(ws, t)) = Len(ws) + 1 /\ Len(ws) \in Nat
  OBVIOUS
<1>2. \A i \in 1 .. Len(ws) : Append(ws, t)[i] = ws[i]
  OBVIOUS
<1>3. Append(ws, t)[Len(ws) + 1] = t
  OBVIOUS
<1>4. Members(Append(ws, t)) = Members(ws) \cup {t}
  BY <1>1, <1>2, <1>3 DEF Members
<1>5. ASSUME Distinct(ws), t \notin Members(ws) PROVE Distinct(Append(ws, t))
  BY <1>1, <1>2, <1>3, <1>5 DEF Distinct, Members
<1>. QED
  BY <1>1, <1>4, <1>5

(* The list without its first n waiters.                                        *)
LEMMA DropFrontFacts ==
  ASSUME NEW T, NEW ws \in Seq(T), Distinct(ws), NEW n \in 0 .. Len(ws)
  PROVE  /\ SubSeq(ws, n + 1, Len(ws)) \in Seq(T)
         /\ Members(SubSeq(ws, n + 1, Len(ws))) = Members(ws) \ {ws[i] : i \in 1 .. n}
         /\ Distinct(SubSeq(ws, n + 1, Len(ws)))
<1>. DEFINE r == SubSeq(ws, n + 1, Len(ws))
<1>1. r \in Seq(T) /\ Len(r) = Len(ws) - n /\ \A i \in 1 .. Len(ws) - n : r[i] = ws[n + i]
  OBVIOUS
<1>. HIDE DEF r
<1>2. ASSUME NEW x \in Members(r) PROVE x \in Members(ws) \ {ws[i] : i \in 1 .. n}
  <2>1. PICK i \in 1 .. Len(ws) - n : x = ws[n + i]
    BY <1>1 DEF Members
  <2>2. n + i \in 1 .. Len(ws) /\ \A j \in 1 .. n : j \in 1 .. Len(ws) /\ j # n + i
    OBVIOUS
  <2>. QED
    BY <2>1, <2>2 DEF Members, Distinct
<1>3. ASSUME NEW x \in Members(ws) \ {ws[i] : i \in 1 .. n} PROVE x \in Members(r)
  <2>1. PICK i \in 1 .. Len(ws) : x = ws[i]
    BY DEF Members
  <2>2. i - n \in 1 .. Len(ws) - n /\ n + (i - n) = i
    BY <1>3, <2>1
  <2>. QED
    BY <1>1, <2>1, <2>2 DEF Members
<1>4. Distinct(r)
  BY <1>1 DEF Distinct
<1>. QED
  BY <1>1, <1>2, <1>3, <1>4 DEF r

(* The list without its head.                                                   *)
LEMMA TailFacts ==
  ASSUME NEW T, NEW ws \in Seq(T), Distinct(ws), ws # <<>>
  PROVE  /\ Tail(ws) \in Seq(T)
         /\ Head(ws) \in Members(ws)
         /\ Members(Tail(ws)) = Members(ws) \ {Head(ws)}
         /\ Distinct(Tail(ws))
<1>1. 1 \in 0 .. Len(ws) /\ Len(ws) > 0
  OBVIOUS
<1>2. Tail(ws) = SubSeq(ws, 1 + 1, Len(ws))
  OBVIOUS
<1>3. {ws[i] : i \in 1 .. 1} = {Head(ws)} /\ Head(ws) \in Members(ws)
  BY <1>1 DEF Members
<1>. QED
  BY <1>1, <1>2, <1>3, DropFrontFacts

(* A list has as many positions as members of a kind.                           *)
LEMMA PositionsCount ==
  ASSUME NEW T, NEW ws \in Seq(T), Distinct(ws), NEW K
  PROVE  /\ IsFiniteSet(Members(ws) \cap K)
         /\ Cardinality({i \in 1 .. Len(ws) : ws[i] \in K}) = Cardinality(Members(ws) \cap K)
<1>. DEFINE I == {i \in 1 .. Len(ws) : ws[i] \in K}
            f == [i \in I |-> ws[i]]
<1>1. IsFiniteSet(I)
  <2>1. IsFiniteSet(1 .. Len(ws)) /\ I \in SUBSET (1 .. Len(ws))
    BY FS_Interval
  <2>. QED
    BY <2>1, FS_Subset
<1>2. f \in Bijection(I, Members(ws) \cap K)
  <2>1. f \in [I -> Members(ws) \cap K]
    BY DEF Members
  <2>2. \A i, j \in I : f[i] = f[j] => i = j
    BY DEF Distinct
  <2>3. \A x \in Members(ws) \cap K : \E i \in I : f[i] = x
    BY DEF Members
  <2>. QED
    BY <2>1, <2>2, <2>3 DEF Bijection, Injection, Surjection, IsInjective
<1>3. ExistsBijection(I, Members(ws) \cap K)
  BY <1>2 DEF ExistsBijection
<1>. QED
  BY <1>1, <1>3, FS_Bijection

LEMMA LengthCounts ==
  ASSUME NEW T, NEW ws \in Seq(T), Distinct(ws)
  PROVE  IsFiniteSet(Members(ws)) /\ Len(ws) = Cardinality(Members(ws))
<1>1. Members(ws) \cap T = Members(ws) /\ {i \in 1 .. Len(ws) : ws[i] \in T} = 1 .. Len(ws)
  BY DEF Members
<1>2. Cardinality(1 .. Len(ws)) = Len(ws)
  <2>1. Len(ws) \in Nat /\ Len(ws) \in Int /\ 1 \in Int
    OBVIOUS
  <2>2. Cardinality(1 .. Len(ws)) = IF 1 > Len(ws) THEN 0 ELSE Len(ws) - 1 + 1
    BY <2>1, FS_Interval
  <2>. QED
    BY <2>1, <2>2
<1>. QED
  BY <1>1, <1>2, PositionsCount

----------------------------------------------------------------------------------
(* Numbers of things as sets, which makes their sum a cardinality: one pair for *)
(* each unit of each member of S, when u gives the units of each.               *)
Pairs(S, u) == UNION {{t} \X (1 .. u[t]) : t \in S}

LEMMA PairsFinite ==
  ASSUME NEW T, IsFiniteSet(T), NEW S \in SUBSET T, NEW u \in [T -> Nat]
  PROVE  IsFiniteSet(Pairs(S, u)) /\ Cardinality(Pairs(S, u)) \in Nat
<1>. DEFINE W == {{t} \X (1 .. u[t]) : t \in S}
            f == [t \in S |-> {t} \X (1 .. u[t])]
<1>1. IsFiniteSet(S)
  BY FS_Subset
<1>2. f \in Surjection(S, W)
  BY DEF Surjection
<1>3. IsFiniteSet(W)
  BY <1>1, <1>2, FS_Surjection
<1>4. ASSUME NEW V \in W PROVE IsFiniteSet(V)
  <2>1. PICK t \in S : V = {t} \X (1 .. u[t])
    OBVIOUS
  <2>2. IsFiniteSet({t}) /\ IsFiniteSet(1 .. u[t])
    <3>1. u[t] \in Int /\ 1 \in Int
      OBVIOUS
    <3>. QED
      BY <3>1, FS_Singleton, FS_Interval
  <2>. QED
    BY <2>1, <2>2, FS_Product
<1>5. IsFiniteSet(UNION W)
  BY <1>3, <1>4, FS_UNION
<1>. QED
  BY <1>5, FS_CardinalityType DEF Pairs

(* The units of one more task.                                                  *)
LEMMA PairsAdd ==
  ASSUME NEW T, IsFiniteSet(T), NEW S \in SUBSET T, NEW u \in [T -> Nat], NEW t \in T, t \notin S
  PROVE  Cardinality(Pairs(S \cup {t}, u)) = Cardinality(Pairs(S, u)) + u[t]
<1>. DEFINE V == {t} \X (1 .. u[t])
<1>1. IsFiniteSet({t}) /\ Cardinality({t}) = 1
  BY FS_Singleton
<1>2. IsFiniteSet(1 .. u[t]) /\ Cardinality(1 .. u[t]) = u[t]
  <2>1. u[t] \in Int /\ 1 \in Int /\ u[t] \in Nat
    OBVIOUS
  <2>2. IsFiniteSet(1 .. u[t]) /\ Cardinality(1 .. u[t]) = IF 1 > u[t] THEN 0 ELSE u[t] - 1 + 1
    BY <2>1, FS_Interval
  <2>. QED
    BY <2>1, <2>2
<1>3. IsFiniteSet(V) /\ Cardinality(V) = u[t]
  <2>1. IsFiniteSet(V) /\ Cardinality(V) = 1 * u[t]
    BY <1>1, <1>2, FS_Product
  <2>. QED
    BY <2>1
<1>4. Pairs(S \cup {t}, u) = Pairs(S, u) \cup V /\ Pairs(S, u) \cap V = {}
  BY DEF Pairs
<1>. HIDE DEF V
<1>5. Cardinality(Pairs(S, u) \cup V) = Cardinality(Pairs(S, u)) + Cardinality(V) - Cardinality({})
  BY <1>3, <1>4, PairsFinite, FS_Union
<1>6. Cardinality(Pairs(S, u)) \in Nat /\ Cardinality({}) = 0 /\ u[t] \in Nat
  BY PairsFinite, FS_EmptySet
<1>7. Cardinality(Pairs(S, u) \cup V) = Cardinality(Pairs(S, u)) + u[t]
  BY <1>3, <1>5, <1>6
<1>. QED
  BY <1>4, <1>7

LEMMA PairsRemove ==
  ASSUME NEW T, IsFiniteSet(T), NEW S \in SUBSET T, NEW u \in [T -> Nat], NEW t \in S
  PROVE  Cardinality(Pairs(S, u)) = Cardinality(Pairs(S \ {t}, u)) + u[t]
<1>1. S \ {t} \in SUBSET T /\ t \in T /\ t \notin S \ {t} /\ (S \ {t}) \cup {t} = S
  OBVIOUS
<1>. DEFINE R == S \ {t}
<1>. HIDE DEF R
<1>2. Cardinality(Pairs(R \cup {t}, u)) = Cardinality(Pairs(R, u)) + u[t]
  BY <1>1, PairsAdd DEF R
<1>. QED
  BY <1>1, <1>2 DEF R

LEMMA PairsMore ==
  ASSUME NEW T, IsFiniteSet(T), NEW S \in SUBSET T, NEW R \in SUBSET S, NEW u \in [T -> Nat]
  PROVE  Cardinality(Pairs(R, u)) <= Cardinality(Pairs(S, u))
<1>1. Pairs(R, u) \in SUBSET Pairs(S, u)
  BY DEF Pairs
<1>. QED
  BY <1>1, PairsFinite, FS_Subset

(* The units of a task that is not in S do not matter.                          *)
LEMMA PairsSame ==
  ASSUME NEW T, IsFiniteSet(T), NEW S \in SUBSET T, NEW u \in [T -> Nat], NEW t, t \notin S, NEW n
  PROVE  Pairs(S, [u EXCEPT ![t] = n]) = Pairs(S, u)
<1>1. \A x \in S : [u EXCEPT ![t] = n][x] = u[x]
  OBVIOUS
<1>. QED
  BY <1>1 DEF Pairs
==================================================================================
