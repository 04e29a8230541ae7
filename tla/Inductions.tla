------------------------------ MODULE Inductions ------------------------------
(***************************************************************************)
(* Least and greatest numbers, induction over the parts of a finite set,   *)
(* and folds: what the theorems about loops and sums of the code rest on.  *)
(* An induction is over a set, the one of the cases in which a statement   *)
(* holds: a first case in which it does not would have one before it.      *)
(***************************************************************************)
EXTENDS Integers, FiniteSets, FiniteSetsExt, FiniteSetTheorems, WellFoundedInduction, TLAPS

\* A set of naturals has a least member.
LEMMA LeastIn ==
    ASSUME NEW S \in SUBSET Nat, S # {}
    PROVE  \E x \in S : \A y \in S : x <= y
<1>1. \E x \in S : \A y \in S : ~ (<<y, x>> \in OpToRel(<, Nat))
  BY NatLessThanWellFounded, WFMin
<1>2. PICK x \in S : \A y \in S : ~ (<<y, x>> \in OpToRel(<, Nat)) BY <1>1
<1>3. \A y \in S : <<y, x>> \in Nat \X Nat OBVIOUS
<1>4. \A y \in S : ~(y < x) BY <1>2, <1>3 DEF OpToRel
<1> QED BY <1>4

\* It is what Min chooses.
LEMMA LeastOf ==
    ASSUME NEW S \in SUBSET Nat, S # {}
    PROVE  Min(S) \in S /\ \A y \in S : Min(S) <= y
BY LeastIn DEF Min

\* What Max chooses: the induction is over the size of the set, as the least
\* size of a set that has no greatest member.
LEMMA GreatestOf ==
    ASSUME NEW S \in SUBSET Nat, S # {}, IsFiniteSet(S)
    PROVE  Max(S) \in S /\ \A y \in S : y <= Max(S)
<1> DEFINE Headless == {T \in SUBSET S : T # {} /\ ~ \E x \in T : \A y \in T : x >= y}
           Sizes == {Cardinality(T) : T \in Headless}
<1>1. SUFFICES Headless = {}
  <2>1. S \notin Headless BY <1>1
  <2>2. \E x \in S : \A y \in S : x >= y BY <2>1
  <2> QED BY <2>2 DEF Max
<1>2. \A T \in SUBSET S : IsFiniteSet(T) /\ Cardinality(T) \in Nat
  BY FS_Subset, FS_CardinalityType
<1>3. SUFFICES ASSUME Headless # {} PROVE FALSE OBVIOUS
<1>4. Sizes \in SUBSET Nat /\ Sizes # {} BY <1>2, <1>3
<1>5. PICK T \in Headless : \A U \in Headless : Cardinality(T) <= Cardinality(U)
  <2>1. \E n \in Sizes : \A k \in Sizes : n <= k
    <3>1. PICK N : N = Sizes OBVIOUS
    <3>2. N \in SUBSET Nat /\ N # {} BY <1>4, <3>1
    <3>3. \E n \in N : \A k \in N : n <= k BY <3>2, LeastIn
    <3> QED BY <3>1, <3>3
  <2> QED BY <2>1
<1>6. PICK x \in T : TRUE OBVIOUS
<1>7. Cardinality(T \ {x}) = Cardinality(T) - 1 BY <1>2, <1>6, FS_RemoveElement
<1>8. T \ {x} \notin Headless
  <2>1. T \in SUBSET S /\ Cardinality(T) \in Nat BY <1>2
  <2>2. ~(Cardinality(T) <= Cardinality(T \ {x})) BY <1>7, <2>1
  <2> HIDE DEF Headless
  <2> QED BY <1>5, <2>2
<1>9. CASE T \ {x} = {}
  <2>1. \A y \in T : x >= y BY <1>9
  <2> QED BY <2>1, <1>6
<1>10. CASE T \ {x} # {}
  <2>1. PICK m \in T \ {x} : \A y \in T \ {x} : m >= y BY <1>8, <1>10
  <2>2. m \in Nat /\ x \in Nat /\ T \subseteq Nat BY <1>6, <2>1
  <2>3. CASE m >= x
    <3>1. \A y \in T : m >= y BY <2>1, <2>3
    <3> QED BY <3>1, <2>1
  <2>4. CASE x >= m
    <3>1. \A y \in T : x >= y BY <2>1, <2>2, <2>4
    <3> QED BY <3>1, <1>6
  <2> QED BY <2>2, <2>3, <2>4
<1> QED BY <1>9, <1>10

\* What holds of the empty set and, with a set that lacks one of its members,
\* of the set, holds of every part of a finite set.
LEMMA PartsInduction ==
    ASSUME NEW D, IsFiniteSet(D), NEW Cases, {} \in Cases,
           \A s \in SUBSET D : s # {} => \E x \in s : (s \ {x} \in Cases => s \in Cases)
    PROVE  \A s \in SUBSET D : s \in Cases
<1> DEFINE Others == {s \in SUBSET D : s \notin Cases}
           Sizes == {Cardinality(s) : s \in Others}
<1>1. SUFFICES ASSUME Others # {} PROVE FALSE OBVIOUS
<1>2. \A s \in SUBSET D : IsFiniteSet(s) /\ Cardinality(s) \in Nat
  BY FS_Subset, FS_CardinalityType
<1>3. PICK s \in Others : \A t \in Others : Cardinality(s) <= Cardinality(t)
  <2>1. Sizes \in SUBSET Nat /\ Sizes # {} BY <1>1, <1>2
  <2>2. \E n \in Sizes : \A k \in Sizes : n <= k
    <3> HIDE DEF Sizes
    <3> QED BY <2>1, LeastIn
  <2> QED BY <2>2
<1>4. s \in SUBSET D /\ s # {} /\ s \notin Cases OBVIOUS
<1>5. PICK x \in s : (s \ {x} \in Cases => s \in Cases) BY <1>4
<1>6. Cardinality(s \ {x}) = Cardinality(s) - 1 BY <1>2, <1>4, <1>5, FS_RemoveElement
<1>7. s \ {x} \in SUBSET D /\ s \ {x} \notin Cases BY <1>4, <1>5
<1>8. Cardinality(s) <= Cardinality(s \ {x}) BY <1>3, <1>7
<1>9. Cardinality(s) \in Nat BY <1>2, <1>4
<1> QED BY <1>6, <1>8, <1>9

\* A fold takes one member after another from a set, in the order of pick, and
\* what is left is folded first.
Folded(D, pick, base, step, fold) ==
    fold = [s \in SUBSET D |-> IF s = {} THEN base
                               ELSE step[<<pick[s], fold[s \ {pick[s]}]>>]]

\* There is such a fold of every finite set, and it keeps to the values the
\* step keeps to: otherwise there is a least number of members it does not come to.
LEMMA FoldExists ==
    ASSUME NEW D, IsFiniteSet(D), NEW V, NEW base \in V, NEW step \in [D \X V -> V],
           NEW pick, \A s \in SUBSET D : s # {} => pick[s] \in s
    PROVE  \E fold \in [SUBSET D -> V] : Folded(D, pick, base, step, fold)
<1> DEFINE Small(n) == {s \in SUBSET D : Cardinality(s) <= n}
           Value(f, s) == IF s = {} THEN base ELSE step[<<pick[s], f[s \ {pick[s]}]>>]
           Reached(n, f) == f \in [Small(n) -> V] /\ \A s \in Small(n) : f[s] = Value(f, s)
           Missed == {n \in Nat : ~ \E f : Reached(n, f)}
<1>1. \A s \in SUBSET D : IsFiniteSet(s) /\ Cardinality(s) \in Nat
  BY FS_Subset, FS_CardinalityType
<1>2. ASSUME NEW s \in SUBSET D, s # {}
      PROVE  /\ pick[s] \in s /\ pick[s] \in D
             /\ s \ {pick[s]} \in SUBSET D
             /\ Cardinality(s \ {pick[s]}) = Cardinality(s) - 1
  <2>1. pick[s] \in s BY <1>2
  <2> QED BY <1>1, <2>1, FS_RemoveElement
<1>3. Missed = {}
  <2>1. SUFFICES ASSUME Missed # {} PROVE FALSE OBVIOUS
  <2>2. PICK n \in Missed : \A k \in Missed : n <= k
    <3>1. Missed \in SUBSET Nat OBVIOUS
    <3> HIDE DEF Missed
    <3> QED BY <2>1, <3>1, LeastIn
  <2>3. n \in Nat OBVIOUS
  <2>4. n # 0
    <3>1. \A s \in Small(0) : s = {} BY <1>1, FS_EmptySet
    <3>2. Reached(0, [s \in Small(0) |-> base]) BY <3>1
    <3> HIDE DEF Reached
    <3> QED BY <3>2
  <2>5. n - 1 \in Nat /\ n - 1 \notin Missed
    <3>1. n - 1 \in Nat /\ ~(n <= n - 1) BY <2>3, <2>4
    <3> HIDE DEF Missed
    <3> QED BY <2>2, <3>1
  <2>6. PICK f : Reached(n - 1, f)
    <3> HIDE DEF Reached
    <3> QED BY <2>5
  <2>7. PICK h : h = [s \in Small(n) |-> Value(f, s)] OBVIOUS
  <2>8. \A s \in Small(n - 1) : s \in Small(n) /\ h[s] = f[s]
    <3> TAKE s \in Small(n - 1)
    <3>1. s \in Small(n) BY <1>1, <2>3
    <3>2. f[s] = Value(f, s) BY <2>6
    <3> HIDE DEF Value, Small
    <3> QED BY <2>7, <3>1, <3>2
  <2>9. ASSUME NEW s \in Small(n), s # {}
        PROVE  /\ s \ {pick[s]} \in Small(n - 1)
               /\ h[s \ {pick[s]}] = f[s \ {pick[s]}] /\ f[s \ {pick[s]}] \in V
    <3>1. s \ {pick[s]} \in Small(n - 1) BY <1>1, <1>2, <2>3, <2>9
    <3>2. f[s \ {pick[s]}] \in V BY <2>6, <3>1
    <3> HIDE DEF Small
    <3> QED BY <2>8, <3>1, <3>2
  <2>10. ASSUME NEW s \in Small(n) PROVE h[s] = Value(h, s) /\ h[s] \in V
    <3>1. CASE s = {} BY <2>7, <3>1
    <3>2. CASE s # {}
      <4>1. h[s] = step[<<pick[s], f[s \ {pick[s]}]>>] BY <2>7, <3>2
      <4>2. pick[s] \in D /\ f[s \ {pick[s]}] \in V BY <1>2, <2>9, <3>2
      <4>3. h[s] \in V BY <4>1, <4>2
      <4>4. h[s \ {pick[s]}] = f[s \ {pick[s]}] BY <2>9, <3>2
      <4> QED BY <3>2, <4>1, <4>3, <4>4
    <3> QED BY <3>1, <3>2
  <2>11. h \in [Small(n) -> V]
    <3> HIDE DEF Small, Value
    <3> QED BY <2>7, <2>10
  <2>12. Reached(n, h)
    <3> HIDE DEF Small, Value
    <3> QED BY <2>10, <2>11
  <2> HIDE DEF Reached
  <2> QED BY <2>12
<1>4. PICK f : Reached(Cardinality(D), f)
  <2>1. Cardinality(D) \in Nat BY <1>1
  <2> HIDE DEF Reached
  <2> QED BY <1>3, <2>1
<1>5. Small(Cardinality(D)) = SUBSET D BY FS_Subset
<1>6. f \in [SUBSET D -> V] /\ \A s \in SUBSET D : f[s] = Value(f, s) BY <1>4, <1>5
<1>7. f = [s \in SUBSET D |-> Value(f, s)]
  <2> HIDE DEF Value
  <2> QED BY <1>6
<1>8. Folded(D, pick, base, step, f) BY <1>7 DEF Folded
<1> QED BY <1>6, <1>8

SumOf(f, D) == MapThenSumSet(LAMBDA d : f[d], D)

\* The sums over the parts of D: each adds a member to the sum without it.
SumsUp(f, D, sum) ==
    /\ sum \in [SUBSET D -> Nat]
    /\ SumOf(f, D) = sum[D]
    /\ sum[{}] = 0
    /\ \A s \in SUBSET D : s # {} => \E x \in s : sum[s] = f[x] + sum[s \ {x}]

\* A sum over a finite set is one of them.
LEMMA SumAdds ==
    ASSUME NEW D, IsFiniteSet(D), NEW f, \A d \in D : f[d] \in Nat
    PROVE  \E sum : SumsUp(f, D, sum)
<1> DEFINE Any(s) == CHOOSE x \in s : TRUE
           Sum(g) == g = [s \in SUBSET D |-> IF s = {} THEN 0 ELSE f[Any(s)] + g[s \ {Any(s)}]]
           sum == CHOOSE g : Sum(g)
<1>1. \A s \in SUBSET D : s # {} => Any(s) \in s OBVIOUS
<1>2. \E g : Sum(g)
  <2>1. PICK pick : pick = [s \in SUBSET D |-> Any(s)] OBVIOUS
  <2>2. PICK step : step = [z \in D \X Nat |-> f[z[1]] + z[2]] OBVIOUS
  <2>3. step \in [D \X Nat -> Nat] BY <2>2
  <2>4. \A s \in SUBSET D : s # {} => pick[s] \in s BY <1>1, <2>1
  <2>5. PICK g \in [SUBSET D -> Nat] : Folded(D, pick, 0, step, g)
    BY <2>3, <2>4, FoldExists
  <2>6. \A s \in SUBSET D : g[s] = (IF s = {} THEN 0 ELSE step[<<pick[s], g[s \ {pick[s]}]>>])
    BY <2>5 DEF Folded
  <2>7. ASSUME NEW s \in SUBSET D, s # {} PROVE g[s] = f[Any(s)] + g[s \ {Any(s)}]
    <3>1. pick[s] = Any(s) /\ Any(s) \in D BY <1>1, <2>1, <2>7
    <3>2. g[s \ {Any(s)}] \in Nat BY <2>5
    <3>3. \A x \in D, n \in Nat : step[<<x, n>>] = f[x] + n BY <2>2
    <3>4. step[<<Any(s), g[s \ {Any(s)}]>>] = f[Any(s)] + g[s \ {Any(s)}]
      <4> HIDE DEF Any
      <4> QED BY <3>1, <3>2, <3>3
    <3> HIDE DEF Any
    <3> QED BY <2>6, <2>7, <3>1, <3>4
  <2>8. g = [s \in SUBSET D |-> g[s]] BY <2>5
  <2>9. g[{}] = 0 BY <2>6
  <2>10. Sum(g)
    <3> HIDE DEF Any
    <3> QED BY <2>7, <2>8, <2>9
  <2> QED BY <2>10
<1>3. Sum(sum)
  <2> HIDE DEF Sum
  <2> QED BY <1>2
<1>4. SumOf(f, D) = sum[D] BY DEF SumOf, MapThenSumSet, MapThenFoldSet
<1>5. /\ sum[{}] = 0
      /\ \A s \in SUBSET D : s # {} => sum[s] = f[Any(s)] + sum[s \ {Any(s)}]
  <2> HIDE DEF sum, Any
  <2> QED BY <1>3
<1> HIDE DEF sum
<1>6. \A s \in SUBSET D : sum[s] \in Nat
  <2> DEFINE Cases == {s \in SUBSET D : sum[s] \in Nat}
  <2>1. {} \in Cases BY <1>5
  <2>2. ASSUME NEW s \in SUBSET D, s # {}, s \ {Any(s)} \in Cases PROVE s \in Cases
    <3>1. f[Any(s)] \in Nat BY <1>1, <2>2
    <3> HIDE DEF Any
    <3> QED BY <1>5, <2>2, <3>1
  <2>3. \A s \in SUBSET D : s # {} => \E x \in s : (s \ {x} \in Cases => s \in Cases)
    <3> HIDE DEF Cases
    <3> QED BY <1>1, <2>2
  <2>4. \A s \in SUBSET D : s \in Cases
    <3> HIDE DEF Cases
    <3> QED BY <2>1, <2>3, PartsInduction
  <2> QED BY <2>4
<1>7. sum \in [SUBSET D -> Nat]
  <2>1. sum = [s \in SUBSET D |-> sum[s]]
    <3> HIDE DEF Any
    <3> QED BY <1>3
  <2> QED BY <1>6, <2>1
<1>8. SumsUp(f, D, sum)
  <2> HIDE DEF Any
  <2> QED BY <1>1, <1>4, <1>5, <1>7 DEF SumsUp
<1> QED BY <1>8

\* Things that each have a place are as many as what the places hold together:
\* compared with a number for each place, and with the sum of the numbers.
LEMMA SumCompares ==
    ASSUME NEW D, IsFiniteSet(D), NEW f, \A d \in D : f[d] \in Nat,
           NEW S, IsFiniteSet(S), NEW place, \A p \in S : place[p] \in D
    PROVE  LET sum == SumOf(f, D)
               In(d) == Cardinality({p \in S : place[p] = d})
           IN  /\ sum \in Nat /\ Cardinality(S) \in Nat
               /\ (\A d \in D : In(d) >= f[d]) => Cardinality(S) >= sum
               /\ (\A d \in D : In(d) <= f[d]) /\ (\E d \in D : In(d) < f[d])
                     => Cardinality(S) < sum
<1> DEFINE Of(d) == {p \in S : place[p] = d}
           OfAny(s) == {p \in S : place[p] \in s}
<1>0. PICK sum : SumsUp(f, D, sum) BY SumAdds
<1>1. /\ sum \in [SUBSET D -> Nat]
      /\ SumOf(f, D) = sum[D]
      /\ sum[{}] = 0
      /\ \A s \in SUBSET D : s # {} => \E x \in s : sum[s] = f[x] + sum[s \ {x}]
  BY <1>0 DEF SumsUp
<1>2. ASSUME NEW T \in SUBSET S PROVE IsFiniteSet(T) /\ Cardinality(T) \in Nat
  BY FS_Subset, FS_CardinalityType
<1> DEFINE Right(s) ==
             /\ (\A d \in s : Cardinality(Of(d)) >= f[d]) => Cardinality(OfAny(s)) >= sum[s]
             /\ (\A d \in s : Cardinality(Of(d)) <= f[d]) =>
                   /\ Cardinality(OfAny(s)) <= sum[s]
                   /\ (\E d \in s : Cardinality(Of(d)) < f[d]) =>
                        Cardinality(OfAny(s)) < sum[s]
           Cases == {s \in SUBSET D : Right(s)}
<1>3. {} \in Cases
  <2>1. OfAny({}) = {} OBVIOUS
  <2>2. Cardinality(OfAny({})) = 0 BY <2>1, FS_EmptySet
  <2> QED BY <1>1, <2>2
<1>4. ASSUME NEW s \in SUBSET D, s # {}
      PROVE  \E x \in s : (s \ {x} \in Cases => s \in Cases)
  <2>1. PICK x \in s : sum[s] = f[x] + sum[s \ {x}] BY <1>1, <1>4
  <2>2. PICK t : t = s \ {x} OBVIOUS
  <2>3. OfAny(s) = OfAny(t) \cup Of(x) /\ OfAny(t) \cap Of(x) = {} BY <2>2
  <2>4. PICK n \in Nat : n = Cardinality(OfAny(t)) BY <1>2
  <2>5. PICK c \in Nat : c = Cardinality(Of(x)) BY <1>2
  <2>6. Cardinality(OfAny(s)) = n + c
    <3>1. IsFiniteSet(OfAny(t)) /\ IsFiniteSet(Of(x)) BY <1>2
    <3>2. Cardinality(OfAny(t) \cap Of(x)) = 0 BY <2>3, FS_EmptySet
    <3> HIDE DEF Of, OfAny
    <3>3. Cardinality(OfAny(t) \cup Of(x)) =
            Cardinality(OfAny(t)) + Cardinality(Of(x)) - Cardinality(OfAny(t) \cap Of(x))
      BY <3>1, FS_Union
    <3> QED BY <2>3, <2>4, <2>5, <3>2, <3>3
  <2>7. PICK m \in Nat : m = sum[t] BY <1>1, <2>2
  <2>8. PICK k \in Nat : k = f[x] OBVIOUS
  <2>9. sum[s] = k + m BY <2>1, <2>2, <2>7, <2>8
  <2> HIDE DEF Of, OfAny
  <2>10. ASSUME Right(t) PROVE Right(s)
    <3>1. ASSUME \A d \in s : Cardinality(Of(d)) >= f[d] PROVE n + c >= k + m
      <4>1. c >= k BY <2>5, <2>8, <3>1
      <4>2. n >= m BY <2>2, <2>4, <2>7, <2>10, <3>1
      <4> QED BY <4>1, <4>2
    <3>2. ASSUME \A d \in s : Cardinality(Of(d)) <= f[d]
          PROVE  /\ n + c <= k + m
                 /\ (\E d \in s : Cardinality(Of(d)) < f[d]) => n + c < k + m
      <4>1. c <= k BY <2>5, <2>8, <3>2
      <4>2. n <= m BY <2>2, <2>4, <2>7, <2>10, <3>2
      <4>3. ASSUME NEW d \in s, Cardinality(Of(d)) < f[d] PROVE c < k \/ n < m
        <5>1. CASE d = x BY <2>5, <2>8, <4>3, <5>1
        <5>2. CASE d # x
          <6>1. d \in t BY <2>2, <5>2
          <6> QED BY <2>2, <2>4, <2>7, <2>10, <3>2, <4>3, <6>1
        <5> QED BY <5>1, <5>2
      <4> QED BY <4>1, <4>2, <4>3
    <3> QED BY <2>6, <2>9, <3>1, <3>2
  <2> HIDE DEF Right
  <2> QED BY <2>2, <2>10
<1>5. \A s \in SUBSET D : s \in Cases
  <2> HIDE DEF Cases
  <2> QED BY <1>3, <1>4, PartsInduction
<1>6. Right(D) BY <1>5
<1>7. OfAny(D) = S OBVIOUS
<1>8. Cardinality(S) \in Nat /\ sum[D] \in Nat BY <1>1, <1>2
<1> QED BY <1>1, <1>6, <1>7, <1>8

\* Where there is room for as many, each has a place of its own.
LEMMA RoomForEach ==
    ASSUME NEW S, IsFiniteSet(S), NEW T, IsFiniteSet(T), Cardinality(S) <= Cardinality(T)
    PROVE  \E f \in [S -> T] : \A p, q \in S : p # q => f[p] # f[q]
<1>1. PICK n \in Nat, m \in Nat : n = Cardinality(S) /\ m = Cardinality(T) BY FS_CardinalityType
<1>2. ExistsBijection(1 .. n, S) /\ ExistsBijection(1 .. m, T) BY <1>1, FS_CardinalityType
<1>3. PICK g \in Bijection(1 .. n, S) : TRUE BY <1>2 DEF ExistsBijection
<1>4. PICK h \in Bijection(1 .. m, T) : TRUE BY <1>2 DEF ExistsBijection
<1>5. \A p \in S : \E i \in 1 .. n : g[i] = p BY <1>3 DEF Bijection, Surjection
<1>6. /\ \A i \in 1 .. m : h[i] \in T
      /\ \A i, j \in 1 .. m : h[i] = h[j] => i = j
  BY <1>4 DEF Bijection, Injection, IsInjective
<1>7. n <= m BY <1>1
<1> DEFINE At(p) == CHOOSE i \in 1 .. n : g[i] = p
<1>8. \A p \in S : At(p) \in 1 .. n /\ At(p) \in 1 .. m /\ g[At(p)] = p BY <1>1, <1>5, <1>7
<1> HIDE DEF At
<1>9. PICK f : f = [p \in S |-> h[At(p)]] OBVIOUS
<1>10. f \in [S -> T] BY <1>6, <1>8, <1>9
<1>11. ASSUME NEW p \in S, NEW q \in S, f[p] = f[q] PROVE p = q
  <2>1. At(p) = At(q) BY <1>6, <1>8, <1>9, <1>11
  <2> QED BY <1>8, <2>1
<1> QED BY <1>10, <1>11
===============================================================================
