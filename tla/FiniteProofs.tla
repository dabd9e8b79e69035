---------------------------- MODULE FiniteProofs ----------------------------
(***************************************************************************)
(* Facts about finite sets that the components' proofs cite: least         *)
(* elements, from which everything here is proved by looking at a smallest *)
(* counterexample; the sums of the community modules; and the places that  *)
(* a strict order gives to the elements of a set.                          *)
(***************************************************************************)
EXTENDS FiniteSetsExt, FunctionTheorems, FiniteSetTheorems, TLAPS

-----------------------------------------------------------------------------
(* A non-empty set of naturals has a least element: induction over the    *)
(* naturals, for a set instead of a predicate.                             *)
LEMMA LeastNatural ==
  ASSUME NEW T \in SUBSET Nat, T # {}
  PROVE  \E m \in T : \A n \in T : m <= n
<1> DEFINE R == OpToRel(<, Nat)
<1>1. IsWellFoundedOn(R, Nat)
  BY NatLessThanWellFounded
<1> HIDE DEF R
<1>2. PICK m \in T : \A n \in T : ~ (<<n, m>> \in R)
  BY <1>1, WFMin
<1>3. \A n \in T : ~ (n < m)
  BY <1>2 DEF OpToRel, R
<1> QED
  BY <1>3

(* A non-empty set of subsets of a finite set has a minimal one: induction *)
(* over finite sets, in the same form.                                     *)
LEMMA SmallestSubset ==
  ASSUME NEW S, IsFiniteSet(S), NEW T \in SUBSET SUBSET S, T # {}
  PROVE  \E x \in T : \A y \in T : y \subseteq x => y = x
<1>1. IsWellFoundedOn(StrictSubsetOrdering(S), SUBSET S)
  BY FS_StrictSubsetOrderingWellFounded, FS_FiniteSubsetsOfFinite, Zenon
<1>2. PICK x \in T : \A y \in T : ~ (<<y, x>> \in StrictSubsetOrdering(S))
  BY <1>1, WFMin
<1> QED
  BY <1>2 DEF StrictSubsetOrdering

(* What holds at 0 and passes from each number to the next holds up to n.  *)
LEMMA CountUp ==
  ASSUME NEW n \in Nat, NEW T, 0 \in T, \A i \in 1 .. n : i - 1 \in T => i \in T
  PROVE  0 .. n \subseteq T
<1> DEFINE Bad == {i \in 0 .. n : i \notin T}
<1>1. ASSUME Bad # {} PROVE FALSE
  <2>1. PICK m \in Bad : \A i \in Bad : m <= i
    <3> Bad \in SUBSET Nat
      OBVIOUS
    <3> HIDE DEF Bad
    <3> QED BY <1>1, LeastNatural
  <2>2. m \in 1 .. n /\ m \notin T
    OBVIOUS
  <2>3. m - 1 \notin Bad
    <3> HIDE DEF Bad
    <3> QED BY <2>1, <2>2
  <2> QED
    BY <2>2, <2>3
<1> QED
  BY <1>1

(* The size of an interval of positions.                                   *)
LEMMA UpTo ==
  ASSUME NEW n \in Nat
  PROVE  IsFiniteSet(1 .. n) /\ Cardinality(1 .. n) = n
<1>1. IsFiniteSet(1 .. n) /\ Cardinality(1 .. n) = IF 1 > n THEN 0 ELSE n - 1 + 1
  BY FS_Interval
<1> QED
  BY <1>1

(* A finite set of numbers that is not empty has a greatest.               *)
LEMMA GreatestNatural ==
  ASSUME NEW S, IsFiniteSet(S), \A n \in S : n \in Nat, S # {}
  PROVE  Max(S) \in S /\ \A n \in S : n <= Max(S)
<1> DEFINE Greatest(s) == \E m \in s : \A n \in s : n <= m
           Bad == {s \in SUBSET S : s # {} /\ ~ Greatest(s)}
<1>1. ASSUME Bad # {} PROVE FALSE
  <2>0. Bad \in SUBSET SUBSET S
    OBVIOUS
  <2>1. PICK s \in Bad : \A t \in Bad : t \subseteq s => t = s
    <3> HIDE DEF Bad
    <3> QED BY <1>1, <2>0, SmallestSubset
  <2>2. PICK a \in s : TRUE
    OBVIOUS
  <2>3. s \ {a} # {} => Greatest(s \ {a})
    <3>1. s \ {a} \in SUBSET S /\ s \ {a} # s
      BY <2>2
    <3>2. s \ {a} \notin Bad
      <4> HIDE DEF Bad
      <4> QED BY <2>1, <3>1
    <3> QED BY <3>1, <3>2
  <2>4. CASE s \ {a} = {}
    <3>1. s = {a} /\ a \in Nat
      BY <2>2, <2>4
    <3> QED BY <2>1, <3>1
  <2>5. CASE s \ {a} # {}
    <3>1. PICK m \in s \ {a} : \A n \in s \ {a} : n <= m
      BY <2>3, <2>5
    <3>2. m \in Nat /\ a \in Nat /\ \A n \in s : n \in Nat /\ (n = a \/ n <= m)
      BY <2>2, <3>1
    <3>3. Greatest(s)
      <4>1. CASE a <= m
        BY <3>1, <3>2, <4>1
      <4>2. CASE m < a
        BY <2>2, <3>2, <4>2
      <4> QED BY <3>2, <4>1, <4>2
    <3> QED BY <2>1, <3>3
  <2> QED BY <2>4, <2>5
<1>2. \E m \in S : \A n \in S : m >= n
  BY <1>1
<1> QED
  BY <1>2 DEF Max

-----------------------------------------------------------------------------
(* Sums.  SumFunctionOnSet takes its elements in the order Pick gives, by   *)
(* a table of the sums over every subset.                                  *)
Pick(s) == CHOOSE x \in s : TRUE

SumAt(f, g, s) == IF s = {} THEN 0 ELSE f[Pick(s)] + g[s \ {Pick(s)}]

Sums(f, S, g) == g = [s \in SUBSET S |-> SumAt(f, g, s)]

(* What is picked is there.                                                *)
LEMMA PickIn == ASSUME NEW s, s # {} PROVE Pick(s) \in s
  BY DEF Pick

(* The community module's sum is read from such a table.                   *)
LEMMA SumIsFold ==
  ASSUME NEW f, NEW S
  PROVE  SumFunctionOnSet(f, S) = (CHOOSE g : Sums(f, S, g))[S]
  BY DEF SumFunctionOnSet, FoldFunctionOnSet, MapThenFoldSet, Sums, SumAt, Pick

(* The table exists: a table right for the sets of n elements gives one    *)
(* right for those of n + 1.                                               *)
LEMMA SumsExist ==
  ASSUME NEW S, IsFiniteSet(S), NEW f
  PROVE  \E g : Sums(f, S, g)
<1> DEFINE Upto(g, n) == /\ g = [s \in SUBSET S |-> g[s]]
                         /\ \A s \in SUBSET S : Cardinality(s) <= n => g[s] = SumAt(f, g, s)
           Bad == {n \in Nat : \A g : ~ Upto(g, n)}
<1>0. \A s \in SUBSET S : IsFiniteSet(s) /\ Cardinality(s) \in Nat /\ Cardinality(s) <= Cardinality(S)
  BY FS_Subset, FS_CardinalityType
<1>1. ASSUME Bad # {} PROVE FALSE
  <2>1. PICK m \in Bad : \A n \in Bad : m <= n
    BY <1>1, LeastNatural
  <2>2. CASE m = 0
    <3> DEFINE g == [s \in SUBSET S |-> 0]
    <3>1. \A s \in SUBSET S : Cardinality(s) <= 0 => s = {}
      BY <1>0, FS_EmptySet
    <3>2. Upto(g, 0)
      BY <3>1 DEF SumAt
    <3> QED BY <3>2, <2>2
  <2>3. CASE m # 0
    <3>0. m \in Nat /\ m - 1 \in Nat /\ ~ (m <= m - 1)
      BY <2>3
    <3>1. m - 1 \notin Bad
      <4> HIDE DEF Bad
      <4> QED BY <2>1, <3>0
    <3>2. PICK g : Upto(g, m - 1)
      BY <3>0, <3>1
    <3> DEFINE h == [s \in SUBSET S |-> SumAt(f, g, s)]
    <3>3. ASSUME NEW s \in SUBSET S, Cardinality(s) <= m PROVE h[s] = SumAt(f, h, s)
      <4>1. CASE s = {}
        BY <4>1 DEF SumAt
      <4>2. CASE s # {}
        <5> DEFINE t == s \ {Pick(s)}
        <5>1. Pick(s) \in s /\ t \in SUBSET S
          BY <4>2, PickIn
        <5>2. Cardinality(t) = Cardinality(s) - 1
          BY <5>1, <1>0, FS_RemoveElement
        <5>3. Cardinality(t) <= m - 1
          BY <5>2, <3>3, <1>0
        <5> HIDE DEF t
        <5>4. h[t] = g[t]
          BY <5>1, <5>3, <3>2
        <5> QED BY <5>4, <4>2 DEF SumAt, t
      <4> QED BY <4>1, <4>2
    <3>4. Upto(h, m)
      BY <3>3
    <3> QED BY <3>4
  <2> QED BY <2>2, <2>3
<1>2. PICK g : Upto(g, Cardinality(S))
  BY <1>0, <1>1
<1>3. \A s \in SUBSET S : g[s] = SumAt(f, g, s)
  BY <1>0, <1>2
<1>4. Sums(f, S, g)
  BY <1>2, <1>3 DEF Sums
<1> QED BY <1>4

(* Two tables of sums agree where both are defined.                        *)
LEMMA SumsAgree ==
  ASSUME NEW S, IsFiniteSet(S), NEW R \in SUBSET S, NEW f, NEW g, NEW h, Sums(f, S, g), Sums(f, R, h)
  PROVE  \A s \in SUBSET R : g[s] = h[s]
<1> DEFINE Bad == {s \in SUBSET R : g[s] # h[s]}
<1>0. IsFiniteSet(R)
  BY FS_Subset
<1>1. ASSUME Bad # {} PROVE FALSE
  <2>0. Bad \in SUBSET SUBSET R
    OBVIOUS
  <2>1. PICK s \in Bad : \A t \in Bad : t \subseteq s => t = s
    <3> HIDE DEF Bad
    <3> QED BY <1>0, <1>1, <2>0, SmallestSubset
  <2>2. s \in SUBSET R /\ s \in SUBSET S /\ g[s] # h[s]
    OBVIOUS
  <2>3. g[s] = SumAt(f, g, s) /\ h[s] = SumAt(f, h, s)
    BY <2>2 DEF Sums
  <2>4. CASE s = {}
    BY <2>2, <2>3, <2>4 DEF SumAt
  <2>5. CASE s # {}
    <3> DEFINE t == s \ {Pick(s)}
    <3>1. Pick(s) \in s
      BY <2>5, PickIn
    <3>2. t \in SUBSET R /\ t \subseteq s /\ t # s
      BY <3>1, <2>2
    <3> HIDE DEF t
    <3>3. g[t] = h[t]
      BY <3>2, <2>1
    <3> QED
      BY <2>2, <2>3, <2>5, <3>3 DEF SumAt, t
  <2> QED BY <2>4, <2>5
<1> QED BY <1>1

(* What a sum adds up, by its last element.                                *)
LEMMA SumUnfolds ==
  ASSUME NEW S, IsFiniteSet(S), NEW f
  PROVE  SumFunctionOnSet(f, S) =
           IF S = {} THEN 0 ELSE f[Pick(S)] + SumFunctionOnSet(f, S \ {Pick(S)})
<1> DEFINE g == CHOOSE x : Sums(f, S, x)
           R == S \ {Pick(S)}
           h == CHOOSE x : Sums(f, R, x)
<1>1. Sums(f, S, g) /\ SumFunctionOnSet(f, S) = g[S]
  <2>1. \E x : Sums(f, S, x)
    BY SumsExist
  <2> QED BY <2>1, SumIsFold
<1>2. IsFiniteSet(R) /\ R \in SUBSET S
  BY FS_Subset
<1>3. Sums(f, R, h) /\ SumFunctionOnSet(f, R) = h[R]
  <2> HIDE DEF R
  <2>1. \E x : Sums(f, R, x)
    BY <1>2, SumsExist
  <2> QED BY <2>1, SumIsFold
<1> HIDE DEF g, h, R
<1>4. g[R] = h[R]
  BY <1>1, <1>2, <1>3, SumsAgree
<1>5. g[S] = SumAt(f, g, S)
  BY <1>1 DEF Sums
<1> QED BY <1>1, <1>3, <1>4, <1>5 DEF SumAt, R

(* A sum is a number and does not depend on which element is taken last.   *)
LEMMA SumRemoves ==
  ASSUME NEW S, IsFiniteSet(S), NEW f, \A x \in S : f[x] \in Int
  PROVE  /\ SumFunctionOnSet(f, {}) = 0
         /\ SumFunctionOnSet(f, S) \in Int
         /\ \A x \in S : SumFunctionOnSet(f, S) = f[x] + SumFunctionOnSet(f, S \ {x})
<1> DEFINE Sum(s) == SumFunctionOnSet(f, s)
           Good(s) == Sum(s) \in Int /\ \A x \in s : Sum(s) = f[x] + Sum(s \ {x})
           Bad == {s \in SUBSET S : ~ Good(s)}
<1>0. \A s \in SUBSET S : Sum(s) = IF s = {} THEN 0 ELSE f[Pick(s)] + Sum(s \ {Pick(s)})
  <2> TAKE s \in SUBSET S
  <2>1. IsFiniteSet(s)
    BY FS_Subset
  <2> QED BY <2>1, SumUnfolds
<1> HIDE DEF Sum
<1>1. ASSUME Bad # {} PROVE FALSE
  <2>0. Bad \in SUBSET SUBSET S
    OBVIOUS
  <2>1. PICK s \in Bad : \A t \in Bad : t \subseteq s => t = s
    <3> HIDE DEF Bad
    <3> QED BY <1>1, <2>0, SmallestSubset
  <2>2. \A t \in SUBSET S : t \subseteq s /\ t # s => Good(t)
    BY <2>1
  <2>3. s \in SUBSET S /\ ~ Good(s)
    OBVIOUS
  <2>4. CASE s = {}
    <3>1. Sum(s) = 0
      BY <2>4, <1>0
    <3> QED BY <2>3, <2>4, <3>1
  <2>5. CASE s # {}
    <3> PICK c \in s : c = Pick(s)
      BY <2>5, PickIn
    <3> HIDE DEF Good
    <3>1. Good(s \ {c})
      BY <2>2, <2>3
    <3>2. Sum(s) = f[c] + Sum(s \ {c}) /\ Sum(s) \in Int
      BY <1>0, <2>3, <2>5, <3>1 DEF Good
    <3>3. ASSUME NEW x \in s, x # c PROVE Sum(s) = f[x] + Sum(s \ {x})
      <4>1. Good(s \ {x}) /\ Good((s \ {c}) \ {x})
        BY <2>2, <2>3
      <4>2. (s \ {c}) \ {x} = (s \ {x}) \ {c}
        OBVIOUS
      <4>3. Sum(s \ {c}) = f[x] + Sum((s \ {c}) \ {x})
        BY <3>1, <3>3 DEF Good
      <4>4. Sum(s \ {x}) = f[c] + Sum((s \ {c}) \ {x})
        BY <4>1, <4>2, <3>3 DEF Good
      <4>5. f[x] \in Int /\ f[c] \in Int /\ Sum((s \ {c}) \ {x}) \in Int
        BY <2>3, <4>1 DEF Good
      <4> QED BY <3>2, <4>3, <4>4, <4>5
    <3> QED BY <2>3, <3>2, <3>3 DEF Good
  <2> QED BY <2>4, <2>5
<1>2. Good(S) /\ Sum({}) = 0
  BY <1>0, <1>1
<1> QED BY <1>2 DEF Sum

(* A sum depends on the summands alone.                                    *)
LEMMA SumCongruent ==
  ASSUME NEW S, IsFiniteSet(S), NEW f, NEW g, \A x \in S : f[x] = g[x] /\ f[x] \in Int
  PROVE  SumFunctionOnSet(f, S) = SumFunctionOnSet(g, S)
<1> DEFINE Bad == {s \in SUBSET S : SumFunctionOnSet(f, s) # SumFunctionOnSet(g, s)}
<1>1. ASSUME Bad # {} PROVE FALSE
  <2>0. Bad \in SUBSET SUBSET S
    OBVIOUS
  <2>1. PICK s \in Bad : \A t \in Bad : t \subseteq s => t = s
    <3> HIDE DEF Bad
    <3> QED BY <1>1, <2>0, SmallestSubset
  <2>2. s \in SUBSET S /\ IsFiniteSet(s) /\ SumFunctionOnSet(f, s) # SumFunctionOnSet(g, s)
    BY FS_Subset
  <2>3. s # {}
    BY <2>2, SumUnfolds
  <2> DEFINE c == Pick(s)
             t == s \ {c}
  <2>4. c \in s /\ t \in SUBSET S /\ t \subseteq s /\ t # s
    BY <2>2, <2>3, PickIn
  <2>5. SumFunctionOnSet(f, s) = f[c] + SumFunctionOnSet(f, t)
    BY <2>2, <2>3, SumUnfolds
  <2>6. SumFunctionOnSet(g, s) = g[c] + SumFunctionOnSet(g, t)
    BY <2>2, <2>3, SumUnfolds
  <2> HIDE DEF c, t
  <2>7. SumFunctionOnSet(f, t) = SumFunctionOnSet(g, t)
    BY <2>1, <2>4
  <2> QED
    BY <2>2, <2>4, <2>5, <2>6, <2>7
<1> QED
  BY <1>1

(* A sum with one more element.                                            *)
LEMMA SumAdds ==
  ASSUME NEW S, IsFiniteSet(S), NEW x, x \notin S, NEW f, \A y \in S \cup {x} : f[y] \in Int
  PROVE  SumFunctionOnSet(f, S \cup {x}) = f[x] + SumFunctionOnSet(f, S)
<1>1. IsFiniteSet(S \cup {x}) /\ (S \cup {x}) \ {x} = S
  BY FS_AddElement
<1> QED
  BY <1>1, SumRemoves

-----------------------------------------------------------------------------
(* The place of an element in a strict order B of S: how many come before. *)
Place(S, B, x) == Cardinality({y \in S : <<y, x>> \in B})

(* The elements of a finite set have the places of the order, and all of   *)
(* the places are taken.                                                   *)
LEMMA PlacesFollowOrder ==
  ASSUME NEW S, IsFiniteSet(S), NEW B,
         \A x \in S : <<x, x>> \notin B,
         \A x, y, z \in S : <<x, y>> \in B /\ <<y, z>> \in B => <<x, z>> \in B,
         \A x, y \in S : x = y \/ <<x, y>> \in B \/ <<y, x>> \in B
  PROVE  /\ Cardinality(S) \in Nat
         /\ \A x \in S : Place(S, B, x) \in 0 .. (Cardinality(S) - 1)
         /\ \A x, y \in S : <<x, y>> \in B <=> Place(S, B, x) < Place(S, B, y)
         /\ \A i \in 0 .. (Cardinality(S) - 1) : \E x \in S : Place(S, B, x) = i
<1> DEFINE n == Cardinality(S)
           before(x) == {y \in S : <<y, x>> \in B}
<1>1. n \in Nat
  BY FS_CardinalityType
<1>2. ASSUME NEW T \in SUBSET S PROVE IsFiniteSet(T) /\ Cardinality(T) \in Nat
  BY FS_Subset, FS_CardinalityType
<1>3. ASSUME NEW T \in SUBSET S, NEW U \in SUBSET T, NEW x \in T, x \notin U
      PROVE  Cardinality(U) < Cardinality(T)
  <2>1. IsFiniteSet(T) /\ Cardinality(T) \in Nat /\ Cardinality(U) \in Nat
    BY <1>2
  <2>2. Cardinality(U) <= Cardinality(T) /\ (Cardinality(T) = Cardinality(U) => T = U)
    BY <2>1, FS_Subset
  <2> QED
    BY <2>1, <2>2, <1>3
<1>4. ASSUME NEW x \in S PROVE Place(S, B, x) \in 0 .. (n - 1)
  <2>1. before(x) \in SUBSET S /\ x \notin before(x)
    OBVIOUS
  <2>2. Cardinality(before(x)) < n /\ Cardinality(before(x)) \in Nat
    <3> HIDE DEF before
    <3> QED BY <2>1, <1>2, <1>3
  <2> QED
    BY <1>1, <2>2 DEF Place
<1>5. ASSUME NEW x \in S, NEW y \in S, <<x, y>> \in B PROVE Place(S, B, x) < Place(S, B, y)
  <2>1. before(x) \in SUBSET before(y) /\ before(y) \in SUBSET S /\ x \in before(y) /\ x \notin before(x)
    BY <1>5
  <2>2. Cardinality(before(x)) < Cardinality(before(y))
    <3> HIDE DEF before
    <3> QED BY <2>1, <1>3
  <2> QED
    BY <2>2 DEF Place
<1> DEFINE at == [x \in S |-> Place(S, B, x)]
<1>6. at \in [S -> 0 .. (n - 1)] /\ \A x, y \in S : at[x] = at[y] => x = y
  <2>1. ASSUME NEW x \in S, NEW y \in S, x # y PROVE Place(S, B, x) # Place(S, B, y)
    <3>1. <<x, y>> \in B \/ <<y, x>> \in B
      BY <2>1
    <3>2. Place(S, B, x) < Place(S, B, y) \/ Place(S, B, y) < Place(S, B, x)
      BY <3>1, <1>5
    <3> QED
      BY <3>2, <1>4
  <2> QED
    BY <2>1, <1>4
<1>7. at \in Injection(S, 0 .. (n - 1))
  <2> HIDE DEF at
  <2> QED BY <1>6, Fun_IsInj
<1>8. IsFiniteSet(0 .. (n - 1)) /\ Cardinality(0 .. (n - 1)) = n
  <2> HIDE DEF n
  <2>1. IF 0 > n - 1 THEN n = 0 ELSE (n - 1) - 0 + 1 = n
    BY <1>1
  <2> QED
    BY <2>1, <1>1, FS_Interval
<1>9. at \in Surjection(S, 0 .. (n - 1))
  <2> HIDE DEF at, n
  <2> QED BY <1>7, <1>8, FS_Injection DEF n
<1>10. \A i \in 0 .. (n - 1) : \E x \in S : at[x] = i
  <2> HIDE DEF at
  <2> QED BY <1>9 DEF Surjection
<1>11. ASSUME NEW x \in S, NEW y \in S, Place(S, B, x) < Place(S, B, y) PROVE <<x, y>> \in B
  <2>1. x # y /\ ~ (<<y, x>> \in B)
    <3> Place(S, B, x) \in Int /\ Place(S, B, y) \in Int
      BY <1>4
    <3> QED BY <1>11, <1>5
  <2> QED
    BY <2>1
<1> QED
  BY <1>1, <1>4, <1>5, <1>10, <1>11

(* The places of numbers in their own order.                               *)
LEMMA PlacesOfNumbers ==
  ASSUME NEW n \in Nat, NEW S \in SUBSET (1 .. n)
  PROVE  /\ Cardinality(S) \in Nat
         /\ \A k \in 0 .. (Cardinality(S) - 1) : \E i \in S : Cardinality({j \in S : j < i}) = k
<1> DEFINE B == {p \in (1 .. n) \X (1 .. n) : p[1] < p[2]}
<1>1. IsFiniteSet(S)
  <2>1. IsFiniteSet(1 .. n)
    BY FS_Interval
  <2> QED BY <2>1, FS_Subset
<1>2. \A x, y \in S : <<x, y>> \in B <=> x < y
  OBVIOUS
<1>3. \A x, y, z \in S : <<x, y>> \in B /\ <<y, z>> \in B => <<x, z>> \in B
  BY <1>2
<1>4. (\A x \in S : <<x, x>> \notin B) /\ \A x, y \in S : x = y \/ <<x, y>> \in B \/ <<y, x>> \in B
  BY <1>2
<1> HIDE DEF B
<1>5. /\ Cardinality(S) \in Nat
      /\ \A k \in 0 .. (Cardinality(S) - 1) : \E i \in S : Place(S, B, i) = k
  BY <1>1, <1>3, <1>4, PlacesFollowOrder
<1>6. \A i \in S : Place(S, B, i) = Cardinality({j \in S : j < i})
  <2> TAKE i \in S
  <2>1. {j \in S : <<j, i>> \in B} = {j \in S : j < i}
    BY <1>2
  <2> QED BY <2>1 DEF Place
<1> QED
  BY <1>5, <1>6
=============================================================================
