-------------------------- MODULE PaySimDataProofs --------------------------
(***************************************************************************)
(* Theorems about the preparation of the dataset, the use of its files and *)
(* the profile, for every raw file, every set of command lines and any     *)
(* number of runs and kills.                                               *)
(***************************************************************************)
EXTENDS PaySimProfile, SequenceTheorems, FiniteSetTheorems, WellFoundedInduction,
        TLAPS

-----------------------------------------------------------------------------
(* Numbers in their order. *)

(* A set of natural numbers has a least one, and a bounded one a largest.  *)
LEMMA Least ==
    ASSUME NEW T \in SUBSET Nat, T # {}
    PROVE  \E x \in T : \A y \in T : x <= y
<1> DEFINE R == {ss \in Nat \X Nat : ss[1] < ss[2]}
<1>1. IsWellFoundedOn(R, Nat)
  BY NatLessThanWellFounded DEF OpToRel
<1>2. PICK x \in T : \A y \in T : <<y, x>> \notin R
  <2> HIDE DEF R
  <2> QED BY <1>1, WFMin
<1>3. ASSUME NEW y \in T
      PROVE  x <= y
  <2>1. x \in Nat /\ y \in Nat /\ <<y, x>> \notin R
    BY <1>2
  <2> QED BY <2>1
<1> QED BY <1>3

LEMMA Largest ==
    ASSUME NEW T \in SUBSET Nat, T # {}, NEW n \in Nat, \A y \in T : y <= n
    PROVE  \E x \in T : \A y \in T : y <= x
<1> DEFINE B == {b \in Nat : \A y \in T : y <= b}
<1>1. n \in B /\ B \subseteq Nat
  OBVIOUS
<1>2. PICK b \in B : \A c \in B : b <= c
  BY <1>1, Least
<1>3. b \in T
  <2>1. SUFFICES ASSUME b \notin T PROVE FALSE
    OBVIOUS
  <2>2. \A y \in T : y \in Nat /\ y < b
    BY <1>2, <2>1
  <2>3. b \in Nat /\ b # 0
    <3>1. PICK y \in T : TRUE
      OBVIOUS
    <3>2. y \in Nat /\ y < b /\ b \in Nat
      BY <1>2, <2>2, <3>1
    <3> HIDE DEF B
    <3> QED BY <3>2
  <2>4. b - 1 \in B
    BY <2>2, <2>3
  <2> QED BY <1>2, <2>3, <2>4
<1> QED BY <1>2, <1>3

(* What is counted of the numbers a list has at the places where it has    *)
(* them is counted of the numbers.                                         *)
Places(s, n, T) == {i \in 1 .. n : s[i] \in T}

LEMMA ListedCount ==
    ASSUME NEW n \in Nat, NEW s, DOMAIN s = 1 .. n, NEW S \in SUBSET Nat,
           Listed(s, S), NEW T \in SUBSET S
    PROVE  /\ IsFiniteSet(T)
           /\ Cardinality(Places(s, n, T)) = Cardinality(T)
<1> DEFINE I == {i \in 1 .. n : s[i] \in T}
           f == [i \in I |-> s[i]]
<1>1. /\ \A i \in 1 .. n : s[i] \in S
      /\ \A x \in S : \E i \in 1 .. n : s[i] = x
      /\ \A i, k \in 1 .. n : i < k => s[i] < s[k]
  BY DEF Listed, Range
<1>2. ASSUME NEW i \in 1 .. n, NEW k \in 1 .. n, s[i] = s[k]
      PROVE  i = k
  <2>1. s[i] \in Nat /\ s[k] \in Nat
    BY <1>1
  <2>2. ~(s[i] < s[k]) /\ ~(s[k] < s[i])
    BY <1>2, <2>1
  <2>3. ~(i < k) /\ ~(k < i)
    BY <1>1, <2>2
  <2> QED BY <2>3
<1>3. f \in [I -> T]
  OBVIOUS
<1>4. IsInjective(f)
  BY <1>2 DEF IsInjective
<1>5. \A t \in T : \E i \in I : f[i] = t
  BY <1>1
<1>6. IsFiniteSet(I)
  <2>1. IsFiniteSet(1 .. n)
    BY FS_Interval
  <2>2. I \subseteq 1 .. n
    OBVIOUS
  <2> HIDE DEF I
  <2> QED BY <2>1, <2>2, FS_Subset
<1> HIDE DEF I, f
<1>7. f \in Injection(I, T) /\ f \in Surjection(I, T)
  BY <1>3, <1>4, <1>5 DEF Injection, Surjection
<1>8. ExistsBijection(I, T)
  BY <1>7 DEF ExistsBijection, Bijection
<1>9. IsFiniteSet(T) /\ Cardinality(T) = Cardinality(I)
  BY <1>6, <1>8, FS_Bijection
<1> QED BY <1>9 DEF I, Places

LEMMA ListedAll ==
    ASSUME NEW n \in Nat, NEW s, DOMAIN s = 1 .. n, NEW S \in SUBSET Nat, Listed(s, S)
    PROVE  IsFiniteSet(S) /\ Cardinality(S) = n
<1>1. IsFiniteSet(S) /\ Cardinality(Places(s, n, S)) = Cardinality(S)
  BY ListedCount
<1>2. Places(s, n, S) = 1 .. n
  BY DEF Listed, Range, Places
<1>3. Cardinality(1 .. n) = n
  BY FS_Interval
<1> QED BY <1>1, <1>2, <1>3, Zenon

-----------------------------------------------------------------------------
(* Sums of counts. *)

(* The pairs that SumOf counts. *)
Pairs(c, G) == UNION {{g} \X (1 .. c[g]) : g \in G}

LEMMA InPairs ==
    ASSUME NEW c, NEW G, NEW p
    PROVE  p \in Pairs(c, G) <=> \E g \in G : \E i \in 1 .. c[g] : p = <<g, i>>
BY DEF Pairs

LEMMA PairsFacts ==
    ASSUME NEW c, NEW G, NEW p \in Pairs(c, G)
    PROVE  p[1] \in G /\ p[2] \in 1 .. c[p[1]] /\ p = <<p[1], p[2]>>
<1>1. PICK g \in G : \E i \in 1 .. c[g] : p = <<g, i>>
  BY InPairs
<1> QED BY <1>1

(* The groups of the places d of a function f with the same f[d]: a sum of *)
(* their sizes is the number of places in one of them.                     *)
Class(f, g) == {d \in DOMAIN f : f[d] = g}

InGroups(f, G) == {d \in DOMAIN f : f[d] \in G}

LEMMA CountByFacts ==
    ASSUME NEW f, IsFiniteSet(DOMAIN f)
    PROVE  /\ DOMAIN CountBy(f) = Range(f)
           /\ \A g \in Range(f) : /\ CountBy(f)[g] = Cardinality(Class(f, g))
                                  /\ CountBy(f)[g] \in Nat \ {0}
                                  /\ IsFiniteSet(Class(f, g))
<1>1. /\ DOMAIN CountBy(f) = Range(f)
      /\ \A g \in Range(f) : CountBy(f)[g] = Cardinality(Class(f, g))
  BY DEF CountBy, Class
<1>2. ASSUME NEW g \in Range(f)
      PROVE  Cardinality(Class(f, g)) \in Nat \ {0} /\ IsFiniteSet(Class(f, g))
  <2>1. Class(f, g) # {} /\ Class(f, g) \subseteq DOMAIN f
    BY DEF Class, Range
  <2>2. IsFiniteSet(Class(f, g))
    BY <2>1, FS_Subset
  <2> QED BY <2>1, <2>2, FS_CardinalityType, FS_EmptySet
<1> QED BY <1>1, <1>2

LEMMA GroupSums ==
    ASSUME NEW f, IsFiniteSet(DOMAIN f), NEW G \in SUBSET Range(f)
    PROVE  /\ IsFiniteSet(Pairs(CountBy(f), G)) /\ IsFiniteSet(InGroups(f, G))
           /\ SumOf(CountBy(f), G) = Cardinality(InGroups(f, G))
<1> DEFINE c == CountBy(f)
           b == [g \in G |-> CHOOSE h : h \in Bijection(1 .. c[g], Class(f, g))]
           P == Pairs(c, G)
           I == InGroups(f, G)
           F == [p \in P |-> b[p[1]][p[2]]]
<1>1. ASSUME NEW g \in G
      PROVE  b[g] \in Bijection(1 .. c[g], Class(f, g))
  <2>1. ExistsBijection(1 .. c[g], Class(f, g))
    BY CountByFacts, FS_CardinalityType
  <2> QED BY <2>1 DEF ExistsBijection
<1> HIDE DEF c, b
<1>2. ASSUME NEW g \in G
      PROVE  /\ b[g] \in [1 .. c[g] -> Class(f, g)]
             /\ \A i, k \in 1 .. c[g] : b[g][i] = b[g][k] => i = k
             /\ \A d \in Class(f, g) : \E i \in 1 .. c[g] : b[g][i] = d
  BY <1>1 DEF Bijection, Injection, Surjection, IsInjective
<1>3. \A p \in P : /\ p[1] \in G /\ p[2] \in 1 .. c[p[1]] /\ p = <<p[1], p[2]>>
                  /\ b[p[1]][p[2]] \in Class(f, p[1])
  <2> SUFFICES ASSUME NEW p \in P
               PROVE  /\ p[1] \in G /\ p[2] \in 1 .. c[p[1]] /\ p = <<p[1], p[2]>>
                      /\ b[p[1]][p[2]] \in Class(f, p[1])
    OBVIOUS
  <2>1. p[1] \in G /\ p[2] \in 1 .. c[p[1]] /\ p = <<p[1], p[2]>>
    BY PairsFacts
  <2>2. b[p[1]] \in [1 .. c[p[1]] -> Class(f, p[1])]
    BY <1>2, <2>1
  <2> QED BY <2>1, <2>2
<1>4. F \in [P -> I]
  BY <1>3 DEF Class, InGroups
<1>5. ASSUME NEW p \in P, NEW q \in P, F[p] = F[q]
      PROVE  p = q
  <2>1. b[p[1]][p[2]] = b[q[1]][q[2]]
    BY <1>5
  <2> HIDE DEF P
  <2>2. p[1] = q[1]
    BY <1>3, <2>1 DEF Class
  <2>3. p[2] = q[2]
    BY <1>2, <1>3, <2>1, <2>2
  <2> QED BY <1>3, <2>2, <2>3, Zenon
<1>6. ASSUME NEW d \in I
      PROVE  \E p \in P : F[p] = d
  <2>1. f[d] \in G /\ d \in Class(f, f[d])
    BY DEF InGroups, Class
  <2>2. PICK i \in 1 .. c[f[d]] : b[f[d]][i] = d
    BY <1>2, <2>1
  <2>3. <<f[d], i>> \in P
    BY <2>1, InPairs
  <2>4. F[<<f[d], i>>] = d
    BY <2>2, <2>3
  <2> QED BY <2>3, <2>4
<1>7. IsFiniteSet(I)
  BY FS_Subset DEF InGroups
<1> HIDE DEF F, P, I
<1>8. F \in Injection(P, I) /\ F \in Surjection(P, I)
  BY <1>4, <1>5, <1>6 DEF Injection, Surjection, IsInjective
<1>9. ExistsBijection(P, I)
  BY <1>8 DEF ExistsBijection, Bijection
<1>10. IsFiniteSet(P) /\ Cardinality(P) = Cardinality(I)
  BY <1>7, <1>8, <1>9, FS_Injection, FS_Bijection
<1> QED BY <1>7, <1>10 DEF P, I, c, SumOf, Pairs

LEMMA AllInGroups ==
    ASSUME NEW f, IsFiniteSet(DOMAIN f)
    PROVE  SumOf(CountBy(f), DOMAIN CountBy(f)) = Cardinality(DOMAIN f)
<1>1. InGroups(f, Range(f)) = DOMAIN f
  BY DEF InGroups, Range
<1>2. SumOf(CountBy(f), Range(f)) = Cardinality(InGroups(f, Range(f)))
  BY GroupSums
<1> QED BY <1>1, <1>2, CountByFacts

(* The rows of a table are counted like the numbers it lists.              *)
LEMMA ListedCountBy ==
    ASSUME NEW n \in Nat, NEW s, DOMAIN s = 1 .. n, NEW S \in SUBSET Nat,
           Listed(s, S), NEW f, DOMAIN f = S
    PROVE  CountBy([i \in DOMAIN s |-> f[s[i]]]) = CountBy(f)
<1> DEFINE e == [i \in DOMAIN s |-> f[s[i]]]
<1>1. /\ DOMAIN e = 1 .. n /\ \A i \in 1 .. n : e[i] = f[s[i]] /\ s[i] \in S
      /\ \A x \in S : \E i \in 1 .. n : s[i] = x
  BY DEF Listed, Range
<1> HIDE DEF e
<1>2. Range(e) = Range(f)
  <2>1. Range(e) \subseteq Range(f)
    BY <1>1 DEF Range
  <2>2. ASSUME NEW x \in S
        PROVE  f[x] \in Range(e)
    <3>1. PICK i \in 1 .. n : s[i] = x
      BY <1>1
    <3> QED BY <1>1, <3>1 DEF Range
  <2>3. Range(f) = {f[x] : x \in S}
    BY DEF Range
  <2> QED BY <2>1, <2>2, <2>3
<1>3. ASSUME NEW k \in Range(f)
      PROVE  Cardinality(Class(e, k)) = Cardinality(Class(f, k))
  <2>1. Class(f, k) \subseteq S
    BY DEF Class
  <2>2. Cardinality(Places(s, n, Class(f, k))) = Cardinality(Class(f, k))
    BY <2>1, ListedCount
  <2>3. Class(e, k) = Places(s, n, Class(f, k))
    BY <1>1 DEF Class, Places
  <2> QED BY <2>2, <2>3
<1>4. /\ CountBy(e) = [k \in Range(e) |-> Cardinality(Class(e, k))]
      /\ CountBy(f) = [k \in Range(f) |-> Cardinality(Class(f, k))]
  BY DEF CountBy, Class
<1>5. CountBy(e) = CountBy(f)
  <2>1. [k \in Range(e) |-> Cardinality(Class(e, k))]
           = [k \in Range(f) |-> Cardinality(Class(f, k))]
    BY <1>2, <1>3
  <2> QED BY <1>4, <2>1
<1> QED BY <1>5 DEF e

LEMMA RangeFinite ==
    ASSUME NEW f, IsFiniteSet(DOMAIN f)
    PROVE  /\ IsFiniteSet(Range(f)) /\ Cardinality(Range(f)) \in Nat
           /\ DOMAIN f # {} => Range(f) # {} /\ Cardinality(Range(f)) >= 1
           /\ DOMAIN f = {} => Range(f) = {}
<1> DEFINE h == [d \in DOMAIN f |-> f[d]]
<1>1. h \in Surjection(DOMAIN f, Range(f))
  BY DEF Surjection, Range
<1>2. IsFiniteSet(Range(f))
  BY <1>1, FS_Surjection
<1>3. (DOMAIN f # {} => Range(f) # {}) /\ (DOMAIN f = {} => Range(f) = {})
  BY DEF Range
<1> QED BY <1>2, <1>3, FS_CardinalityType, FS_EmptySet

(* The largest count. *)
LEMMA MaxCountFacts ==
    ASSUME NEW f, IsFiniteSet(DOMAIN f)
    PROVE  /\ MaxCount(CountBy(f)) \in Nat
           /\ \A g \in Range(f) : CountBy(f)[g] <= MaxCount(CountBy(f))
           /\ DOMAIN f # {} => \E g \in Range(f) : CountBy(f)[g] = MaxCount(CountBy(f))
<1> DEFINE c == CountBy(f)
           n == Cardinality(DOMAIN f)
<1>1. /\ DOMAIN c = Range(f) /\ n \in Nat
      /\ \A g \in Range(f) : c[g] \in Nat /\ c[g] <= n
  <2>1. ASSUME NEW g \in Range(f)
        PROVE  c[g] \in Nat /\ c[g] <= n
    <3>1. Class(f, g) \subseteq DOMAIN f
      BY DEF Class
    <3>2. Cardinality(Class(f, g)) <= n
      BY <3>1, FS_Subset
    <3> QED BY <3>2, CountByFacts
  <2> QED BY <2>1, CountByFacts, FS_CardinalityType
<1> HIDE DEF c, n
<1>2. CASE DOMAIN f = {}
  <2>1. Range(f) = {}
    BY <1>2, RangeFinite
  <2> QED BY <1>1, <1>2, <2>1 DEF c, MaxCount
<1>3. CASE DOMAIN f # {}
  <2>1. Range(c) \subseteq Nat /\ Range(c) # {} /\ \A y \in Range(c) : y <= n
    BY <1>1, <1>3, RangeFinite DEF Range
  <2>2. PICK x \in Range(c) : \A y \in Range(c) : y <= x
    BY <1>1, <2>1, Largest
  <2>3. Max(Range(c)) \in Range(c) /\ \A y \in Range(c) : Max(Range(c)) >= y
    <3>1. \A y \in Range(c) : x >= y
      BY <2>1, <2>2
    <3> QED BY <3>1 DEF Max
  <2>4. MaxCount(c) = Max(Range(c))
    BY <1>1, <1>3, RangeFinite DEF MaxCount
  <2>5. \A g \in Range(f) : c[g] \in Range(c)
    BY <1>1 DEF Range
  <2>6. \E g \in Range(f) : c[g] = Max(Range(c))
    BY <1>1, <2>3 DEF Range
  <2>7. \A g \in Range(f) : c[g] <= Max(Range(c))
    BY <2>1, <2>3, <2>5
  <2> QED BY <2>1, <2>3, <2>4, <2>6, <2>7 DEF c
<1> QED BY <1>2, <1>3

(* A finer grouping has smaller groups. *)
LEMMA FinerCounts ==
    ASSUME NEW f, NEW g, IsFiniteSet(DOMAIN f), DOMAIN g = DOMAIN f,
           \A d, e \in DOMAIN f : g[d] = g[e] => f[d] = f[e]
    PROVE  /\ \A d \in DOMAIN f : CountBy(g)[g[d]] <= CountBy(f)[f[d]]
           /\ MaxCount(CountBy(g)) <= MaxCount(CountBy(f))
<1>1. ASSUME NEW d \in DOMAIN f
      PROVE  /\ f[d] \in Range(f) /\ g[d] \in Range(g)
             /\ CountBy(g)[g[d]] <= CountBy(f)[f[d]]
  <2>1. f[d] \in Range(f) /\ g[d] \in Range(g)
    BY DEF Range
  <2>2. Class(g, g[d]) \subseteq Class(f, f[d])
    BY DEF Class
  <2>3. IsFiniteSet(Class(f, f[d]))
    BY <2>1, CountByFacts
  <2>4. Cardinality(Class(g, g[d])) <= Cardinality(Class(f, f[d]))
    BY <2>2, <2>3, FS_Subset
  <2> QED BY <2>1, <2>4, CountByFacts
<1>2. CASE DOMAIN f = {}
  <2>1. MaxCount(CountBy(g)) = 0
    BY <1>2, CountByFacts, RangeFinite DEF MaxCount
  <2> QED BY <1>1, <2>1, MaxCountFacts
<1>3. CASE DOMAIN f # {}
  <2>1. PICK k \in Range(g) : CountBy(g)[k] = MaxCount(CountBy(g))
    BY <1>3, MaxCountFacts
  <2>2. PICK d \in DOMAIN f : k = g[d]
    BY DEF Range
  <2>3. CountBy(f)[f[d]] <= MaxCount(CountBy(f))
    BY <1>1, MaxCountFacts
  <2>4. /\ CountBy(g)[k] \in Nat /\ CountBy(f)[f[d]] \in Nat
        /\ MaxCount(CountBy(f)) \in Nat
    BY <1>1, CountByFacts, MaxCountFacts
  <2>5. CountBy(g)[k] <= CountBy(f)[f[d]]
    BY <1>1, <2>2
  <2> QED BY <1>1, <2>1, <2>3, <2>4, <2>5
<1> QED BY <1>2, <1>3

-----------------------------------------------------------------------------
(* Quantiles of counts c, none above m. *)
Below(c, v) == {k \in DOMAIN c : c[k] < v}

UpTo(c, v) == {k \in DOMAIN c : c[k] <= v}

LEMMA AtOffsetFacts ==
    ASSUME NEW c, IsFiniteSet(DOMAIN c), NEW m \in Nat,
           \A k \in DOMAIN c : c[k] \in Nat /\ c[k] <= m,
           NEW o \in Nat, o < Cardinality(DOMAIN c)
    PROVE  /\ AtOffset(c, o) \in Range(c)
           /\ Cardinality(Below(c, AtOffset(c, o))) <= o
           /\ o < Cardinality(UpTo(c, AtOffset(c, o)))
<1> DEFINE V == {v \in Range(c) : o < Cardinality(UpTo(c, v))}
<1>1. /\ Range(c) \subseteq Nat /\ \A v \in Range(c) : v <= m
      /\ \A k \in DOMAIN c : c[k] \in Range(c)
      /\ \A v \in Range(c) : \E k \in DOMAIN c : c[k] = v
  BY DEF Range
<1>2. Range(c) # {}
  <2>1. DOMAIN c # {}
    BY FS_EmptySet
  <2> QED BY <1>1, <2>1
<1>3. V # {}
  <2>1. PICK x \in Range(c) : \A y \in Range(c) : y <= x
    BY <1>1, <1>2, Largest
  <2>2. UpTo(c, x) = DOMAIN c
    BY <1>1, <2>1 DEF UpTo
  <2> QED BY <2>1, <2>2
<1>4. PICK v \in V : \A w \in V : v <= w
  <2>1. V \in SUBSET Nat
    BY <1>1
  <2> HIDE DEF V
  <2> QED BY <1>3, <2>1, Least
<1>5. v \in Range(c) /\ v \in Nat /\ o < Cardinality(UpTo(c, v))
  BY <1>1
<1>6. Cardinality(Below(c, v)) <= o
  <2> DEFINE W == {w \in Range(c) : w < v}
  <2>1. CASE W = {}
    <3>1. Below(c, v) = {}
      BY <1>1, <2>1 DEF Below
    <3> QED BY <3>1, FS_EmptySet
  <2>2. CASE W # {}
    <3>1. W \in SUBSET Nat /\ \A w \in W : w <= v
      BY <1>1, <1>5
    <3>2. PICK w \in W : \A y \in W : y <= w
      <4> HIDE DEF W
      <4> QED BY <1>5, <2>2, <3>1, Largest
    <3>3. w \in Range(c) /\ w \in Nat /\ w < v
      BY <1>1
    <3>4. Below(c, v) = UpTo(c, w)
      <4>1. ASSUME NEW k \in DOMAIN c
            PROVE  c[k] < v <=> c[k] <= w
        <5>1. c[k] < v => c[k] <= w
          BY <1>1, <3>2
        <5> QED BY <1>5, <3>3, <5>1
      <4> QED BY <4>1 DEF Below, UpTo
    <3>5. w \notin V
      BY <1>4, <1>5, <3>3
    <3>6. ~(o < Cardinality(UpTo(c, w)))
      BY <3>3, <3>5
    <3>7. Cardinality(UpTo(c, w)) \in Nat
      <4>1. UpTo(c, w) \subseteq DOMAIN c
        BY DEF UpTo
      <4> QED BY <4>1, FS_Subset, FS_CardinalityType
    <3> QED BY <3>4, <3>6, <3>7
  <2> QED BY <2>1, <2>2
<1>7. \E x \in Range(c) : /\ Cardinality({k \in DOMAIN c : c[k] < x}) <= o
                          /\ o < Cardinality({k \in DOMAIN c : c[k] <= x})
  BY <1>5, <1>6 DEF Below, UpTo
<1>8. LET x == AtOffset(c, o) IN
      /\ x \in Range(c)
      /\ Cardinality({k \in DOMAIN c : c[k] < x}) <= o
      /\ o < Cardinality({k \in DOMAIN c : c[k] <= x})
  BY <1>7 DEF AtOffset
<1> QED BY <1>8 DEF Below, UpTo

(* The offset o into n groups for a quantile q. *)
Rank(n, q, o) ==
    o \in Nat /\ o < n /\ 100 * o < n * q /\ n * q <= 100 * (o + 1)

LEMMA OffsetFacts ==
    ASSUME NEW n \in Nat \ {0}, NEW q \in {50, 95, 99}
    PROVE  Rank(n, q, QuantileOffset(n, q))
<1>1. CASE q = 50
  BY <1>1 DEF Rank, QuantileOffset, CeilPercent
<1>2. CASE q = 95
  BY <1>2 DEF Rank, QuantileOffset, CeilPercent
<1>3. CASE q = 99
  BY <1>3 DEF Rank, QuantileOffset, CeilPercent
<1> QED BY <1>1, <1>2, <1>3

LEMMA NearestRanks ==
    ASSUME NEW c, IsFiniteSet(DOMAIN c), DOMAIN c # {}, NEW m \in Nat,
           \A k \in DOMAIN c : c[k] \in Nat /\ c[k] <= m, NEW q \in {50, 95, 99}
    PROVE  IsNearestRank(Quantiles(c)[q], q, c)
<1> DEFINE n == Cardinality(DOMAIN c)
           o == QuantileOffset(n, q)
           v == AtOffset(c, o)
<1>1. n \in Nat \ {0}
  BY FS_CardinalityType, FS_EmptySet
<1>2. Quantiles(c)[q] = v
  BY <1>1 DEF Quantiles
<1> HIDE DEF n
<1>3. /\ o \in Nat /\ o < n /\ 100 * o < n * q /\ n * q <= 100 * (o + 1)
  <2>1. Rank(n, q, o)
    BY <1>1, OffsetFacts
  <2> HIDE DEF o
  <2> QED BY <2>1 DEF Rank
<1>4. /\ v \in Range(c) /\ Cardinality(Below(c, v)) <= o
      /\ o < Cardinality(UpTo(c, v))
  <2>1. o < Cardinality(DOMAIN c)
    BY <1>3 DEF n
  <2> HIDE DEF o
  <2> QED BY <1>3, <2>1, AtOffsetFacts
<1>5. \A w : /\ IsFiniteSet(Below(c, w)) /\ Cardinality(Below(c, w)) \in Nat
             /\ Cardinality(UpTo(c, w)) \in Nat
  <2> SUFFICES ASSUME NEW w
               PROVE  /\ IsFiniteSet(Below(c, w)) /\ Cardinality(Below(c, w)) \in Nat
                      /\ Cardinality(UpTo(c, w)) \in Nat
    OBVIOUS
  <2>1. Below(c, w) \subseteq DOMAIN c /\ UpTo(c, w) \subseteq DOMAIN c
    BY DEF Below, UpTo
  <2> QED BY <2>1, FS_Subset, FS_CardinalityType
<1> HIDE DEF o, v
<1>6. 100 * Cardinality(UpTo(c, v)) >= q * n
  <2>1. Cardinality(UpTo(c, v)) \in Nat /\ q * n = n * q /\ n * q \in Nat
    BY <1>1, <1>5
  <2>2. 100 * Cardinality(UpTo(c, v)) >= 100 * (o + 1)
    BY <1>3, <1>4, <2>1
  <2> QED BY <1>3, <2>1, <2>2
<1>7. ASSUME NEW w \in Range(c), 100 * Cardinality(UpTo(c, w)) >= q * n
      PROVE  v <= w
  <2>1. v \in Nat /\ w \in Nat
    BY <1>4 DEF Range
  <2>2. SUFFICES ASSUME w < v PROVE FALSE
    BY <2>1
  <2>3. UpTo(c, w) \subseteq Below(c, v)
    <3>1. ASSUME NEW k \in DOMAIN c, c[k] <= w
          PROVE  c[k] < v
      BY <2>1, <2>2, <3>1
    <3> QED BY <3>1 DEF UpTo, Below
  <2>4. Cardinality(UpTo(c, w)) <= Cardinality(Below(c, v))
    BY <1>5, <2>3, FS_Subset
  <2>5. Cardinality(UpTo(c, w)) <= o
    BY <1>3, <1>4, <1>5, <2>4
  <2>6. 100 * Cardinality(UpTo(c, w)) <= 100 * o /\ q * n = n * q
    BY <1>1, <1>3, <1>5, <2>5
  <2>7. /\ 100 * Cardinality(UpTo(c, w)) \in Nat /\ 100 * o \in Nat
        /\ n * q \in Nat
    BY <1>1, <1>3, <1>5
  <2> QED BY <1>3, <1>7, <2>6, <2>7
<1>8. IsNearestRank(v, q, c)
  BY <1>6, <1>7 DEF IsNearestRank, UpTo, n
<1> QED BY <1>2, <1>8

-----------------------------------------------------------------------------
(* The groups with the largest counts: there are some for every number of  *)
(* groups, for a group with the largest count outside can be added.        *)
IsTop(c, T) ==
    T \subseteq DOMAIN c /\ \A g \in T, h \in DOMAIN c \ T : c[g] >= c[h]

LEMMA TopFacts ==
    ASSUME NEW c, IsFiniteSet(DOMAIN c), NEW m \in Nat,
           \A k \in DOMAIN c : c[k] \in Nat /\ c[k] <= m,
           NEW n \in Nat, n <= Cardinality(DOMAIN c)
    PROVE  IsTop(c, Top(c, n)) /\ Cardinality(Top(c, n)) = n
<1> DEFINE HasTop(k) == \E T \in SUBSET DOMAIN c : Cardinality(T) = k /\ IsTop(c, T)
           M == {k \in 0 .. n : HasTop(k)}
<1>1. 0 \in M
  <2>1. IsTop(c, {}) /\ Cardinality({}) = 0
    BY FS_EmptySet DEF IsTop
  <2> QED BY <2>1
<1>2. PICK k \in M : \A l \in M : l <= k
  <2>1. M \in SUBSET Nat /\ \A l \in M : l <= n
    OBVIOUS
  <2> HIDE DEF M
  <2> QED BY <1>1, <2>1, Largest
<1>3. k = n
  <2>1. SUFFICES ASSUME k # n PROVE FALSE
    OBVIOUS
  <2>2. k \in Nat /\ k < n
    BY <2>1
  <2>3. PICK T \in SUBSET DOMAIN c : Cardinality(T) = k /\ IsTop(c, T)
    OBVIOUS
  <2> DEFINE V == {c[h] : h \in DOMAIN c \ T}
  <2>4. IsFiniteSet(T) /\ DOMAIN c \ T # {}
    <3>1. T # DOMAIN c
      BY <2>2, <2>3, FS_CardinalityType
    <3> QED BY <2>3, <3>1, FS_Subset
  <2>5. PICK h \in DOMAIN c \ T : \A y \in V : y <= c[h]
    <3>1. V \in SUBSET Nat /\ V # {} /\ \A y \in V : y <= m
      BY <2>4
    <3>2. PICK x \in V : \A y \in V : y <= x
      <4> HIDE DEF V
      <4> QED BY <3>1, Largest
    <3> QED BY <3>2
  <2> DEFINE U == T \cup {h}
  <2>6. U \in SUBSET DOMAIN c /\ Cardinality(U) = k + 1
    BY <2>3, <2>4, <2>5, FS_AddElement
  <2>7. IsTop(c, U)
    <3>1. ASSUME NEW g \in U, NEW y \in DOMAIN c \ U
          PROVE  c[g] >= c[y]
      <4>1. y \in DOMAIN c \ T /\ c[y] \in V /\ c[g] \in Nat /\ c[y] \in Nat
        OBVIOUS
      <4>2. CASE g \in T
        BY <2>3, <4>1, <4>2 DEF IsTop
      <4>3. CASE g = h
        BY <2>5, <4>1, <4>3
      <4> QED BY <4>2, <4>3
    <3> QED BY <2>6, <3>1 DEF IsTop
  <2>8. k + 1 \in M
    BY <2>2, <2>6, <2>7
  <2> QED BY <1>2, <2>2, <2>8
<1>4. \E top \in SUBSET DOMAIN c :
         /\ Cardinality(top) = n
         /\ \A g \in top, h \in DOMAIN c \ top : c[g] >= c[h]
  BY <1>2, <1>3 DEF IsTop
<1>5. /\ Top(c, n) \in SUBSET DOMAIN c /\ Cardinality(Top(c, n)) = n
      /\ \A g \in Top(c, n), h \in DOMAIN c \ Top(c, n) : c[g] >= c[h]
  BY <1>4 DEF Top
<1> QED BY <1>5 DEF IsTop

LEMMA TopUserCountFacts ==
    ASSUME NEW n \in Nat
    PROVE  /\ TopUserCount(n) \in Nat /\ TopUserCount(n) <= n
           /\ n # 0 => TopUserCount(n) # 0
<1>1. CASE n = 0
  BY <1>1 DEF TopUserCount
<1>2. CASE n # 0
  <2> DEFINE x == CeilPercent(n, 1)
  <2>1. x \in Nat /\ 1 <= x /\ x <= n
    BY <1>2 DEF CeilPercent
  <2> HIDE DEF x
  <2>2. Max({1, x}) = x
    <3>1. x \in {1, x} /\ \A y \in {1, x} : x >= y
      BY <2>1
    <3>2. Max({1, x}) \in {1, x} /\ \A y \in {1, x} : Max({1, x}) >= y
      BY <3>1 DEF Max
    <3> QED BY <2>1, <3>2
  <2>3. TopUserCount(n) = x
    BY <1>2, <2>2 DEF TopUserCount, x
  <2> QED BY <2>1, <2>3
<1> QED BY <1>1, <1>2

(* The top groups have together at least as many places as the largest.    *)
LEMMA TopEventsFacts ==
    ASSUME NEW f, IsFiniteSet(DOMAIN f)
    PROVE  TopEvents(CountBy(f)) >= MaxCount(CountBy(f))
<1> DEFINE c == CountBy(f)
           n == Cardinality(DOMAIN c)
           top == Top(c, TopUserCount(n))
<1>1. DOMAIN c = Range(f) /\ IsFiniteSet(DOMAIN c) /\ n \in Nat
  BY CountByFacts, RangeFinite
<1>2. IsTop(c, top) /\ Cardinality(top) = TopUserCount(n)
  <2>1. /\ MaxCount(c) \in Nat
        /\ \A k \in DOMAIN c : c[k] \in Nat /\ c[k] <= MaxCount(c)
    BY <1>1, CountByFacts, MaxCountFacts
  <2>2. TopUserCount(n) \in Nat /\ TopUserCount(n) <= Cardinality(DOMAIN c)
    BY <1>1, TopUserCountFacts
  <2> HIDE DEF c, n
  <2> QED BY <1>1, <2>1, <2>2, TopFacts
<1>3. top \subseteq Range(f)
  BY <1>1, <1>2 DEF IsTop
<1>4. /\ IsFiniteSet(InGroups(f, top))
      /\ TopEvents(c) = Cardinality(InGroups(f, top))
      /\ TopEvents(c) \in Nat
  <2>1. TopEvents(c) = SumOf(c, top)
    BY DEF TopEvents
  <2> HIDE DEF top, n
  <2> QED BY <1>3, <2>1, GroupSums, FS_CardinalityType
<1>5. CASE DOMAIN f = {}
  <2>1. MaxCount(c) = 0
    BY <1>1, <1>5, RangeFinite DEF MaxCount
  <2> QED BY <1>4, <2>1
<1>6. CASE DOMAIN f # {}
  <2>1. PICK g \in Range(f) : c[g] = MaxCount(c)
    BY <1>6, MaxCountFacts
  <2>2. PICK h \in top : c[h] >= c[g]
    <3>1. n # 0
      BY <1>1, <1>6, RangeFinite
    <3>2. top # {}
      <4>1. Cardinality(top) # 0
        BY <1>1, <1>2, <3>1, TopUserCountFacts
      <4> HIDE DEF top
      <4> QED BY <4>1, FS_EmptySet
    <3>3. c[g] >= c[g]
      BY <2>1, MaxCountFacts
    <3> HIDE DEF top, c
    <3> QED BY <1>1, <1>2, <3>2, <3>3 DEF IsTop
  <2>3. c[h] = Cardinality(Class(f, h)) /\ c[h] \in Nat
    BY <1>3, CountByFacts
  <2>4. Class(f, h) \subseteq InGroups(f, top)
    BY DEF Class, InGroups
  <2>5. Cardinality(Class(f, h)) <= Cardinality(InGroups(f, top))
    BY <1>4, <2>4, FS_Subset
  <2> HIDE DEF c, top
  <2> QED BY <1>4, <2>1, <2>2, <2>3, <2>5, MaxCountFacts DEF c
<1> QED BY <1>5, <1>6

(* Places in groups of at least two: at least one for each such group, and *)
(* the other places are groups of their own.                               *)
AtLeast(c, m) == {g \in DOMAIN c : c[g] >= m}

LEMMA RepeatedFacts ==
    ASSUME NEW f, IsFiniteSet(DOMAIN f)
    PROVE  LET c == CountBy(f)
               n == Cardinality(DOMAIN f)
               r == Cardinality(AtLeast(c, 2))
           IN  /\ IsFiniteSet(AtLeast(c, 2)) /\ AtLeast(c, 2) \subseteq Range(f)
               /\ r \in Nat /\ Repeated(c) \in Nat /\ r <= Repeated(c)
               /\ Repeated(c) <= n
               /\ n - Repeated(c) + r <= Cardinality(Range(f))
<1> DEFINE c == CountBy(f)
           R == AtLeast(c, 2)
           S == Range(f) \ R
           I == InGroups(f, R)
           K == InGroups(f, S)
           first == [d \in I |-> f[d]]
           only == [d \in K |-> f[d]]
<1>1. /\ R \subseteq Range(f) /\ IsFiniteSet(Range(f))
      /\ \A g \in Range(f) : c[g] \in Nat \ {0} /\ c[g] = Cardinality(Class(f, g))
                             /\ IsFiniteSet(Class(f, g))
  BY CountByFacts, RangeFinite DEF AtLeast
<1>2. IsFiniteSet(R) /\ IsFiniteSet(S)
  BY <1>1, FS_Subset
<1>3. IsFiniteSet(I) /\ IsFiniteSet(K)
  BY FS_Subset DEF InGroups
<1>4. Repeated(c) = Cardinality(I)
  <2>1. Repeated(c) = SumOf(c, R)
    BY DEF Repeated, AtLeast
  <2> HIDE DEF R
  <2> QED BY <1>1, <2>1, GroupSums
<1>5. Cardinality(R) <= Cardinality(I)
  <2>1. \A g \in R : \E d \in I : f[d] = g
    BY <1>1 DEF InGroups, Range
  <2> HIDE DEF R
  <2>2. first \in Surjection(I, R)
    BY <2>1 DEF Surjection, InGroups
  <2> HIDE DEF I, first
  <2> QED BY <1>3, <2>2, FS_Surjection
<1>6. Cardinality(K) = Cardinality(S)
  <2>1. ASSUME NEW g \in S
        PROVE  \E d : Class(f, g) = {d}
    <3>1. g \in Range(f) /\ ~(c[g] >= 2)
      BY CountByFacts DEF AtLeast
    <3>2. Cardinality(Class(f, g)) = 1
      BY <1>1, <3>1
    <3> QED BY <1>1, <3>1, <3>2, FS_Singleton
  <2> HIDE DEF R
  <2>2. only \in [K -> S]
    BY DEF InGroups
  <2>3. ASSUME NEW d \in K, NEW e \in K, only[d] = only[e]
        PROVE  d = e
    <3>1. f[d] \in S /\ d \in Class(f, f[d]) /\ e \in Class(f, f[d])
      BY <2>3 DEF InGroups, Class
    <3> QED BY <2>1, <3>1
  <2>4. \A g \in S : \E d \in K : only[d] = g
    BY DEF InGroups, Range
  <2> HIDE DEF K, S, only
  <2>5. only \in Bijection(K, S)
    BY <2>2, <2>3, <2>4 DEF Bijection, Injection, Surjection, IsInjective
  <2> QED BY <1>3, <2>5, FS_Bijection DEF ExistsBijection
<1>7. Cardinality(DOMAIN f) = Cardinality(I) + Cardinality(K)
  <2>1. I \cup K = DOMAIN f /\ I \cap K = {}
    BY <1>1 DEF InGroups, Range
  <2> HIDE DEF I, K
  <2>2. Cardinality(DOMAIN f) = Cardinality(I) + Cardinality(K) - Cardinality({})
    BY <1>3, <2>1, FS_Union
  <2> QED BY <1>3, <2>2, FS_EmptySet, FS_CardinalityType
<1>8. Cardinality(Range(f)) = Cardinality(R) + Cardinality(S)
  <2>1. R \cup S = Range(f) /\ R \cap S = {}
    BY <1>1
  <2> HIDE DEF R, S
  <2>2. Cardinality(Range(f)) = Cardinality(R) + Cardinality(S) - Cardinality({})
    BY <1>2, <2>1, FS_Union
  <2> QED BY <1>2, <2>2, FS_EmptySet, FS_CardinalityType
<1> HIDE DEF I, K, S, R
<1>9. /\ Cardinality(I) \in Nat /\ Cardinality(K) \in Nat
      /\ Cardinality(R) \in Nat /\ Cardinality(S) \in Nat
  BY <1>2, <1>3, FS_CardinalityType
<1>10. /\ Repeated(c) \in Nat /\ Cardinality(R) <= Repeated(c)
       /\ Repeated(c) <= Cardinality(DOMAIN f)
       /\ Cardinality(DOMAIN f) - Repeated(c) + Cardinality(R) <= Cardinality(Range(f))
  BY <1>4, <1>5, <1>6, <1>7, <1>8, <1>9
<1> HIDE DEF c
<1> QED BY <1>1, <1>2, <1>9, <1>10 DEF R, c

(* The users with so many events in one step. *)
UsersWith(c, m) == {k[1] : k \in AtLeast(c, m)}

LEMMA UsersWithFacts ==
    ASSUME NEW f, NEW h, IsFiniteSet(DOMAIN f), DOMAIN h = DOMAIN f
    PROVE  LET c == CountBy([d \in DOMAIN f |-> <<f[d], h[d]>>]) IN
           /\ UsersWith(c, 5) \subseteq UsersWith(c, 2)
           /\ UsersWith(c, 2) \subseteq AtLeast(CountBy(f), 2)
<1> DEFINE g == [d \in DOMAIN f |-> <<f[d], h[d]>>]
           c == CountBy(g)
<1>1. /\ DOMAIN g = DOMAIN f /\ \A d \in DOMAIN f : g[d] = <<f[d], h[d]>>
      /\ \A d, e \in DOMAIN f : g[d] = g[e] => f[d] = f[e]
  OBVIOUS
<1> HIDE DEF g
<1>2. \A d \in DOMAIN f : c[g[d]] <= CountBy(f)[f[d]]
  BY <1>1, FinerCounts
<1>3. /\ DOMAIN c = Range(g) /\ \A k \in Range(g) : c[k] \in Nat
      /\ DOMAIN CountBy(f) = Range(f) /\ \A k \in Range(f) : CountBy(f)[k] \in Nat
  BY <1>1, CountByFacts
<1> HIDE DEF c
<1>4. UsersWith(c, 5) \subseteq UsersWith(c, 2)
  BY <1>3 DEF UsersWith, AtLeast
<1>5. ASSUME NEW k \in AtLeast(c, 2)
      PROVE  k[1] \in AtLeast(CountBy(f), 2)
  <2>1. k \in Range(g) /\ c[k] >= 2
    BY <1>3 DEF AtLeast
  <2>2. PICK d \in DOMAIN f : k = g[d]
    BY <1>1, <2>1 DEF Range
  <2>3. k[1] = f[d] /\ f[d] \in Range(f) /\ g[d] \in Range(g)
    BY <1>1, <2>2 DEF Range
  <2>4. CountBy(f)[f[d]] >= 2
    BY <1>2, <1>3, <2>1, <2>2, <2>3
  <2> QED BY <1>3, <2>3, <2>4 DEF AtLeast
<1> QED BY <1>4, <1>5 DEF UsersWith, c, g

-----------------------------------------------------------------------------
(* The aggregates of a table are those of the numbers it lists. *)
UserOf(data, S) == [d \in S |-> RowsOf[data][d].user]

StepOf(data, S) == [d \in S |-> RowsOf[data][d].step]

UserStepOf(data, S) == [d \in S |-> <<UserOf(data, S)[d], StepOf(data, S)[d]>>]

TypeOf(data, S) == [d \in S |-> RowsOf[data][d].type]

LEMMA AggregateFacts ==
    ASSUME NEW data, NEW n \in Nat, NEW s, DOMAIN s = 1 .. n, NEW S \in SUBSET Nat,
           Listed(s, S)
    PROVE  LET a == Aggregates(data, s)
               users == CountBy(UserOf(data, S))
               userSteps == CountBy(UserStepOf(data, S))
               steps == CountBy(StepOf(data, S))
           IN  /\ a.users = Cardinality(DOMAIN users)
               /\ a.perUser = Quantiles(users)
               /\ a.maxPerUser = MaxCount(users)
               /\ a.topEvents = TopEvents(users)
               /\ a.maxPerUserStep = MaxCount(userSteps)
               /\ a.usersWith2 = Cardinality(UsersWith(userSteps, 2))
               /\ a.usersWith5 = Cardinality(UsersWith(userSteps, 5))
               /\ a.repeated = Repeated(users)
               /\ a.types = CountBy(TypeOf(data, S))
               /\ a.steps = steps
               /\ a.peak = MaxCount(steps)
<1>1. \A i \in DOMAIN s : s[i] \in S
  BY DEF Listed, Range
<1>2. /\ [i \in DOMAIN s |-> UserOf(data, S)[s[i]]] = [i \in DOMAIN s |-> RowsOf[data][s[i]].user]
      /\ [i \in DOMAIN s |-> StepOf(data, S)[s[i]]] = [i \in DOMAIN s |-> RowsOf[data][s[i]].step]
      /\ [i \in DOMAIN s |-> TypeOf(data, S)[s[i]]] = [i \in DOMAIN s |-> RowsOf[data][s[i]].type]
      /\ [i \in DOMAIN s |-> UserStepOf(data, S)[s[i]]]
            = [i \in DOMAIN s |-> <<RowsOf[data][s[i]].user, RowsOf[data][s[i]].step>>]
  BY <1>1 DEF UserOf, StepOf, TypeOf, UserStepOf
<1>3. /\ CountBy([i \in DOMAIN s |-> UserOf(data, S)[s[i]]]) = CountBy(UserOf(data, S))
      /\ CountBy([i \in DOMAIN s |-> StepOf(data, S)[s[i]]]) = CountBy(StepOf(data, S))
      /\ CountBy([i \in DOMAIN s |-> TypeOf(data, S)[s[i]]]) = CountBy(TypeOf(data, S))
      /\ CountBy([i \in DOMAIN s |-> UserStepOf(data, S)[s[i]]]) = CountBy(UserStepOf(data, S))
  <2>1. /\ DOMAIN UserOf(data, S) = S /\ DOMAIN StepOf(data, S) = S
        /\ DOMAIN TypeOf(data, S) = S /\ DOMAIN UserStepOf(data, S) = S
    BY DEF UserOf, StepOf, TypeOf, UserStepOf
  <2>2. \A f : DOMAIN f = S => CountBy([i \in DOMAIN s |-> f[s[i]]]) = CountBy(f)
    BY ListedCountBy
  <2> QED BY <2>1, <2>2, Zenon
<1>4. /\ CountBy([i \in DOMAIN s |-> RowsOf[data][s[i]].user]) = CountBy(UserOf(data, S))
      /\ CountBy([i \in DOMAIN s |-> RowsOf[data][s[i]].step]) = CountBy(StepOf(data, S))
      /\ CountBy([i \in DOMAIN s |-> RowsOf[data][s[i]].type]) = CountBy(TypeOf(data, S))
      /\ CountBy([i \in DOMAIN s |-> <<RowsOf[data][s[i]].user, RowsOf[data][s[i]].step>>])
            = CountBy(UserStepOf(data, S))
  BY <1>2, <1>3, Zenon
<1> QED BY <1>4 DEF Aggregates, UsersWith, AtLeast

(* A sum of counts grows by one with one of them. *)
LEMMA PairsFinite ==
    ASSUME NEW G, IsFiniteSet(G), NEW c \in [G -> Nat]
    PROVE  IsFiniteSet(Pairs(c, G))
<1> DEFINE e == [g \in G |-> {g} \X (1 .. c[g])]
           E == {{g} \X (1 .. c[g]) : g \in G}
<1>1. e \in Surjection(G, E)
  BY DEF Surjection
<1>2. ASSUME NEW g \in G
      PROVE  IsFiniteSet({g} \X (1 .. c[g]))
  <2>1. IsFiniteSet({g})
    BY FS_Singleton
  <2>2. c[g] \in Int
    OBVIOUS
  <2>3. IsFiniteSet(1 .. c[g])
    BY <2>2, FS_Interval
  <2> QED BY <2>1, <2>3, FS_Product
<1>3. \A T \in E : IsFiniteSet(T)
  BY <1>2
<1>4. IsFiniteSet(E)
  <2> HIDE DEF e, E
  <2> QED BY <1>1, FS_Surjection
<1>5. IsFiniteSet(UNION E)
  <2> HIDE DEF E
  <2> QED BY <1>3, <1>4, FS_UNION
<1> QED BY <1>5 DEF Pairs

LEMMA SumOfPlus ==
    ASSUME NEW G, IsFiniteSet(G), NEW c \in [G -> Nat], NEW g \in G
    PROVE  /\ SumOf(c, G) \in Nat
           /\ SumOf([c EXCEPT ![g] = @ + 1], G) = SumOf(c, G) + 1
<1> DEFINE d == [c EXCEPT ![g] = @ + 1]
           P == Pairs(c, G)
           last == <<g, c[g] + 1>>
<1>1. /\ \A x \in G : c[x] \in Nat /\ d[x] = (IF x = g THEN c[g] + 1 ELSE c[x])
      /\ 1 .. d[g] = (1 .. c[g]) \cup {c[g] + 1}
  OBVIOUS
<1> HIDE DEF d
<1>2. Pairs(d, G) = P \cup {last}
  <2>1. ASSUME NEW p
        PROVE  p \in Pairs(d, G) <=> p \in P \/ p = last
    <3>1. ASSUME NEW x \in G
          PROVE  (\E i \in 1 .. d[x] : p = <<x, i>>)
                    <=> (\E i \in 1 .. c[x] : p = <<x, i>>) \/ (x = g /\ p = last)
      <4>1. CASE x = g
        BY <1>1, <4>1
      <4>2. CASE x # g
        BY <1>1, <4>2
      <4> QED BY <4>1, <4>2
    <3>2. p \in Pairs(d, G) <=> \E x \in G : \E i \in 1 .. d[x] : p = <<x, i>>
      BY InPairs
    <3>3. p \in P <=> \E x \in G : \E i \in 1 .. c[x] : p = <<x, i>>
      BY InPairs
    <3> HIDE DEF P, last
    <3> QED BY <3>1, <3>2, <3>3
  <2> HIDE DEF P, last
  <2> QED BY <2>1
<1>3. last \notin P
  <2>1. ASSUME last \in P PROVE FALSE
    <3>1. last[1] = g /\ last[2] = c[g] + 1 /\ last[2] \in 1 .. c[last[1]]
      BY <2>1, PairsFacts
    <3> QED BY <1>1, <3>1
  <2> QED BY <2>1
<1>4. IsFiniteSet(P) /\ Cardinality(P) \in Nat
  BY PairsFinite, FS_CardinalityType
<1>5. Cardinality(P \cup {last}) = Cardinality(P) + 1
  BY <1>3, <1>4, FS_AddElement
<1>6. /\ SumOf(c, G) = Cardinality(P)
      /\ SumOf(d, G) = Cardinality(P \cup {last})
  BY <1>2 DEF SumOf, Pairs
<1> QED BY <1>4, <1>5, <1>6 DEF d

LEMMA SumOfNone ==
    ASSUME NEW G
    PROVE  SumOf([g \in G |-> 0], G) = 0
<1> DEFINE c == [g \in G |-> 0]
<1>1. Pairs(c, G) = {}
  <2>1. ASSUME NEW p \in Pairs(c, G) PROVE FALSE
    BY PairsFacts
  <2> QED BY <2>1
<1> QED BY <1>1, FS_EmptySet DEF SumOf, Pairs

LEMMA ReasonsFinite == IsFiniteSet(Reasons)
<1> DEFINE v == [i \in DOMAIN Checks |-> Checks[i].verdict]
           V == {Checks[i].verdict : i \in DOMAIN Checks}
<1>1. DOMAIN Checks = 1 .. 9
  BY DEF Checks
<1>2. v \in Surjection(DOMAIN Checks, V)
  BY DEF Surjection
<1>3. IsFiniteSet(V)
  <2>1. \A n \in Nat : IsFiniteSet(1 .. n)
    BY FS_Interval
  <2> HIDE DEF v, V
  <2>2. IsFiniteSet(DOMAIN Checks)
    BY <1>1, <2>1
  <2> QED BY <1>2, <2>2, FS_Surjection
<1>4. Reasons \subseteq V
  BY DEF Reasons
<1> QED BY <1>3, <1>4, FS_Subset

-----------------------------------------------------------------------------
(* Sorting by keys that differ lists every member once.                    *)

Less(S, key, x) == {y \in S : key[y] < key[x]}

LEMMA SortedByFacts ==
    ASSUME NEW S, IsFiniteSet(S), NEW key,
           \A x \in S : key[x] \in Nat,
           \A x, y \in S : key[x] = key[y] => x = y
    PROVE  /\ Cardinality(S) \in Nat
           /\ DOMAIN SortedBy(S, key) = 1 .. Cardinality(S)
           /\ \A k \in 1 .. Cardinality(S) : SortedBy(S, key)[k] \in S
           /\ \A x \in S : \E k \in 1 .. Cardinality(S) : SortedBy(S, key)[k] = x
           /\ \A k, l \in 1 .. Cardinality(S) :
                 SortedBy(S, key)[k] = SortedBy(S, key)[l] => k = l
<1> DEFINE n == Cardinality(S)
           s == SortedBy(S, key)
           rank(x) == Cardinality(Less(S, key, x)) + 1
           F == [x \in S |-> rank(x)]
<1>1. n \in Nat
  BY FS_CardinalityType
<1>2. \A x \in S : IsFiniteSet(Less(S, key, x)) /\ rank(x) \in Nat
  BY FS_Subset, FS_CardinalityType DEF Less
<1>3. ASSUME NEW x \in S
      PROVE  rank(x) \in 1 .. n
  <2>1. /\ Less(S, key, x) \in SUBSET S /\ x \notin Less(S, key, x)
    BY DEF Less
  <2>2. /\ Cardinality(Less(S, key, x)) <= n
        /\ Cardinality(Less(S, key, x)) # n
        /\ Cardinality(Less(S, key, x)) \in Nat
    BY <2>1, FS_Subset, FS_CardinalityType
  <2> QED BY <1>1, <2>2
<1>4. ASSUME NEW x \in S, NEW y \in S, key[y] < key[x]
      PROVE  rank(y) < rank(x)
  <2>1. /\ Less(S, key, y) \in SUBSET Less(S, key, x)
        /\ y \in Less(S, key, x) /\ y \notin Less(S, key, y)
    BY <1>4 DEF Less
  <2>2. /\ Cardinality(Less(S, key, y)) <= Cardinality(Less(S, key, x))
        /\ Cardinality(Less(S, key, y)) # Cardinality(Less(S, key, x))
    BY <1>2, <2>1, FS_Subset
  <2> QED BY <1>2, <2>2, FS_CardinalityType
<1>5. ASSUME NEW x \in S, NEW y \in S, rank(x) = rank(y)
      PROVE  x = y
  <2> HIDE DEF rank
  <2>1. ~(key[x] < key[y]) /\ ~(key[y] < key[x])
    BY <1>2, <1>4, <1>5
  <2> QED BY <2>1
<1> HIDE DEF rank, n
<1>6. F \in Injection(S, 1 .. n)
  BY <1>3, <1>5 DEF Injection, IsInjective
<1>7. IsFiniteSet(1 .. n) /\ Cardinality(1 .. n) = n
  BY <1>1, FS_Interval
<1>8. F \in Surjection(S, 1 .. n)
  <2> HIDE DEF F
  <2> QED BY <1>6, <1>7, FS_Injection DEF n
<1>9. \A k \in 1 .. n : \E x \in S : rank(x) = k
  BY <1>8 DEF Surjection
<1>10. DOMAIN s = 1 .. n /\ \A k \in 1 .. n :
          s[k] = CHOOSE x \in S : Cardinality(Less(S, key, x)) = k - 1
  BY DEF SortedBy, Less, n
<1>11. ASSUME NEW k \in 1 .. n
       PROVE  s[k] \in S /\ rank(s[k]) = k
  <2>1. \E x \in S : Cardinality(Less(S, key, x)) = k - 1
    <3>1. PICK x \in S : rank(x) = k
      BY <1>9
    <3> QED BY <1>1, <1>2, <3>1, FS_CardinalityType DEF rank
  <2> HIDE DEF s
  <2>2. s[k] \in S /\ Cardinality(Less(S, key, s[k])) = k - 1
    BY <1>10, <2>1
  <2> QED BY <1>1, <2>2 DEF rank
<1> HIDE DEF s
<1>12. ASSUME NEW x \in S
       PROVE  \E k \in 1 .. n : s[k] = x
  <2>1. rank(x) \in 1 .. n
    BY <1>3
  <2> QED BY <1>5, <1>11, <2>1
<1> QED BY <1>1, <1>10, <1>11, <1>12 DEF s, n

LEMMA NumbersUpTo ==
    ASSUME NEW n \in Nat
    PROVE  IsFiniteSet(1 .. n) /\ Cardinality(1 .. n) = n
<1>1. 1 \in Int /\ n \in Int
  OBVIOUS
<1>2. /\ IsFiniteSet(1 .. n)
      /\ Cardinality(1 .. n) = IF 1 > n THEN 0 ELSE n - 1 + 1
  BY <1>1, FS_Interval, Zenon
<1> QED BY <1>2

LEMMA IsSequence ==
    ASSUME NEW n \in Nat, NEW X, NEW s \in [1 .. n -> X]
    PROVE  s \in Seq(X) /\ Len(s) = n
<1>1. s \in Seq(X)
  BY SeqDef
<1>2. DOMAIN s = 1 .. Len(s) /\ Len(s) \in Nat
  BY <1>1, LenProperties
<1> QED BY <1>1, <1>2

LEMMA TakeFacts ==
    ASSUME NEW X, NEW s \in Seq(X), NEW n \in Nat
    PROVE  /\ Take(s, n) \in Seq(X)
           /\ Len(Take(s, n)) <= n /\ Len(Take(s, n)) <= Len(s)
           /\ \A i \in DOMAIN Take(s, n) : i \in DOMAIN s /\ Take(s, n)[i] = s[i]
<1> DEFINE m == IF n < Len(s) THEN n ELSE Len(s)
<1>1. Len(s) \in Nat /\ DOMAIN s = 1 .. Len(s)
  BY LenProperties
<1>2. m \in Nat /\ m <= n /\ m <= Len(s)
  BY <1>1
<1>3. \A i \in 1 .. m : s[i] \in X
  BY <1>1, <1>2, ElementOfSeq
<1> HIDE DEF m
<1>4. /\ SubSeq(s, 1, m) \in Seq(X)
      /\ Len(SubSeq(s, 1, m)) = IF 1 <= m THEN m - 1 + 1 ELSE 0
      /\ \A i \in 1 .. m - 1 + 1 : SubSeq(s, 1, m)[i] = s[1 + i - 1]
  BY <1>2, <1>3, SubSeqProperties
<1>5. Take(s, n) = SubSeq(s, 1, m)
  BY DEF Take, m
<1>6. DOMAIN SubSeq(s, 1, m) = 1 .. Len(SubSeq(s, 1, m)) /\ Len(SubSeq(s, 1, m)) = m
  BY <1>2, <1>4, LenProperties
<1> QED BY <1>1, <1>2, <1>4, <1>5, <1>6
-----------------------------------------------------------------------------
(* The lines with some ids of a file. *)

Chosen(lines, ids) == {i \in DOMAIN lines : lines[i].row \in Range(ids)}

OrderOf(lines, ids) == [i \in Chosen(lines, ids) |-> PlaceOf(ids, lines[i].row)]

Picked(lines, ids) ==
    [k \in DOMAIN SortedBy(Chosen(lines, ids), OrderOf(lines, ids)) |->
        lines[SortedBy(Chosen(lines, ids), OrderOf(lines, ids))[k]]]

LEMMA SelectIsPicked ==
    ASSUME NEW f, NEW ids
    PROVE  SelectRows(f, ids) = Picked(disk[f], ids)
BY DEF SelectRows, Picked, Chosen, OrderOf

(* A file of lines with different ids. *)
IsFile(lines) ==
    /\ lines \in Seq(Lines)
    /\ \A i, k \in DOMAIN lines : lines[i].row = lines[k].row => i = k

(* The lines picked from a file are those with the ids, each once, and no  *)
(* more than ids.                                                          *)
LEMMA PickedFacts ==
    ASSUME NEW lines, IsFile(lines), NEW ids \in Seq(Nat)
    PROVE  /\ Picked(lines, ids) \in Seq(Lines)
           /\ Len(Picked(lines, ids)) = Cardinality(Chosen(lines, ids))
           /\ Cardinality(Chosen(lines, ids)) <= Len(ids)
           /\ Range(Picked(lines, ids)) = {lines[i] : i \in Chosen(lines, ids)}
           /\ \A i, k \in DOMAIN Picked(lines, ids) :
                 Picked(lines, ids)[i] = Picked(lines, ids)[k] => i = k
           /\ \A k \in DOMAIN SortedBy(Chosen(lines, ids), OrderOf(lines, ids)) :
                 SortedBy(Chosen(lines, ids), OrderOf(lines, ids))[k] \in Chosen(lines, ids)
<1> DEFINE c == Chosen(lines, ids)
           p == OrderOf(lines, ids)
           s == SortedBy(c, p)
           n == Cardinality(c)
           q == Picked(lines, ids)
<1>1. /\ Len(lines) \in Nat /\ DOMAIN lines = 1 .. Len(lines)
      /\ Len(ids) \in Nat /\ DOMAIN ids = 1 .. Len(ids)
      /\ lines \in Seq(Lines)
  BY LenProperties DEF IsFile
<1>2. \A i \in DOMAIN lines : lines[i] \in Lines
  BY <1>1, ElementOfSeq
<1>3. c \in SUBSET DOMAIN lines /\ IsFiniteSet(c)
  <2>1. c \in SUBSET DOMAIN lines
    BY DEF Chosen
  <2>2. IsFiniteSet(DOMAIN lines)
    BY <1>1, NumbersUpTo
  <2> HIDE DEF c
  <2> QED BY <2>1, <2>2, FS_Subset
<1>4. ASSUME NEW i \in c
      PROVE  p[i] \in 1 .. Len(ids) /\ ids[p[i]] = lines[i].row
  <2>1. \E k \in DOMAIN ids : ids[k] = lines[i].row
    BY DEF Chosen, Range
  <2>2. PlaceOf(ids, lines[i].row) \in DOMAIN ids /\ ids[PlaceOf(ids, lines[i].row)] = lines[i].row
    BY <2>1 DEF PlaceOf
  <2>3. p[i] = PlaceOf(ids, lines[i].row)
    BY DEF OrderOf
  <2> QED BY <1>1, <2>2, <2>3
<1>5. DOMAIN p = c
  BY DEF OrderOf
<1> HIDE DEF c, p
<1>6. \A i, k \in c : p[i] = p[k] => i = k
  BY <1>3, <1>4 DEF IsFile
<1>7. /\ n \in Nat /\ DOMAIN s = 1 .. n
      /\ \A k \in 1 .. n : s[k] \in c
      /\ \A x \in c : \E k \in 1 .. n : s[k] = x
      /\ \A k, l \in 1 .. n : s[k] = s[l] => k = l
  <2>1. \A x \in c : p[x] \in Nat
    BY <1>1, <1>4
  <2> QED BY <1>3, <1>6, <2>1, SortedByFacts
<1>8. q = [k \in 1 .. n |-> lines[s[k]]]
  BY <1>7 DEF Picked, c, p
<1> HIDE DEF s, n, q
<1>9. q \in [1 .. n -> Lines]
  BY <1>2, <1>3, <1>7, <1>8
<1>10. q \in Seq(Lines) /\ Len(q) = n
  BY <1>7, <1>9, IsSequence
<1>11. n <= Len(ids)
  <2> DEFINE g == [i \in c |-> p[i]]
  <2>1. g \in Injection(c, 1 .. Len(ids))
    BY <1>4, <1>6 DEF Injection, IsInjective
  <2> HIDE DEF g
  <2>2. IsFiniteSet(1 .. Len(ids)) /\ Cardinality(1 .. Len(ids)) = Len(ids)
    BY <1>1, NumbersUpTo
  <2>3. Cardinality(c) <= Cardinality(1 .. Len(ids))
    BY <2>1, <2>2, FS_Injection
  <2> QED BY <2>2, <2>3 DEF n
<1>12. Range(q) = {lines[i] : i \in c}
  BY <1>7, <1>8 DEF Range
<1>13. ASSUME NEW i \in 1 .. n, NEW k \in 1 .. n, q[i] = q[k]
       PROVE  i = k
  <2>1. lines[s[i]] = lines[s[k]] /\ s[i] \in DOMAIN lines /\ s[k] \in DOMAIN lines
    BY <1>3, <1>7, <1>8, <1>13
  <2> QED BY <1>7, <2>1 DEF IsFile
<1> QED BY <1>7, <1>8, <1>10, <1>11, <1>12, <1>13 DEF c, p, q, n, s

(* Events and labels agree on the places they share: a row has one place   *)
(* in both and the same line.                                              *)
LEMMA SamePlace ==
    ASSUME NEW e, NEW l, IsFile(e), IsFile(l), Agree(e, l),
           NEW i \in DOMAIN e, NEW k \in DOMAIN l, e[i].row = l[k].row
    PROVE  i = k /\ e[i] = l[k]
<1>1. /\ Len(e) \in Nat /\ DOMAIN e = 1 .. Len(e)
      /\ Len(l) \in Nat /\ DOMAIN l = 1 .. Len(l)
  BY LenProperties DEF IsFile
<1>2. \A x \in DOMAIN e \cap DOMAIN l : e[x] = l[x]
  <2>1. /\ \A x \in DOMAIN e : e[x] \in Lines
        /\ \A x \in DOMAIN l : l[x] \in Lines
    BY <1>1, ElementOfSeq DEF IsFile
  <2>2. Torn \notin Lines
    BY PreparationAssumption DEF Lines
  <2> QED BY <2>1, <2>2 DEF Agree
<1>3. CASE i \in DOMAIN l
  BY <1>2, <1>3 DEF IsFile
<1>4. CASE i \notin DOMAIN l
  <2>1. k \in DOMAIN e
    BY <1>1, <1>4
  <2>2. e[k].row = e[i].row
    BY <1>2, <2>1
  <2> QED BY <1>4, <2>1, <2>2 DEF IsFile
<1> QED BY <1>3, <1>4

(* If the same ids are found in both, the same lines are picked.           *)
LEMMA PickedAgree ==
    ASSUME NEW e, NEW l, IsFile(e), IsFile(l), Agree(e, l), NEW ids \in Seq(Nat),
           EventIds(Picked(e, ids)) = EventIds(Picked(l, ids))
    PROVE  Chosen(e, ids) = Chosen(l, ids) /\ Picked(e, ids) = Picked(l, ids)
<1>1. /\ Range(Picked(e, ids)) = {e[i] : i \in Chosen(e, ids)}
      /\ Range(Picked(l, ids)) = {l[i] : i \in Chosen(l, ids)}
  BY PickedFacts
<1>2. /\ EventIds(Picked(e, ids)) = {e[i].row : i \in Chosen(e, ids)}
      /\ EventIds(Picked(l, ids)) = {l[i].row : i \in Chosen(l, ids)}
  <2>1. EventIds(Picked(e, ids)) = {e[i].row : i \in Chosen(e, ids)}
    BY <1>1 DEF EventIds
  <2>2. EventIds(Picked(l, ids)) = {l[i].row : i \in Chosen(l, ids)}
    BY <1>1 DEF EventIds
  <2> QED BY <2>1, <2>2
<1>3. ASSUME NEW i \in Chosen(e, ids)
      PROVE  i \in Chosen(l, ids) /\ e[i] = l[i]
  <2>1. PICK k \in Chosen(l, ids) : l[k].row = e[i].row
    BY <1>2
  <2>2. i = k /\ e[i] = l[k]
    BY <2>1, SamePlace DEF Chosen
  <2> QED BY <2>2
<1>4. ASSUME NEW k \in Chosen(l, ids)
      PROVE  k \in Chosen(e, ids)
  <2>1. PICK i \in Chosen(e, ids) : e[i].row = l[k].row
    BY <1>2
  <2>2. i = k
    BY <2>1, SamePlace DEF Chosen
  <2> QED BY <2>2
<1>5. Chosen(e, ids) = Chosen(l, ids)
  BY <1>3, <1>4
<1>6. OrderOf(e, ids) = OrderOf(l, ids)
  BY <1>3, <1>5 DEF OrderOf
<1>7. \A i \in Chosen(e, ids) : e[i] = l[i]
  BY <1>3
<1> DEFINE s == SortedBy(Chosen(e, ids), OrderOf(e, ids))
<1>8. \A k \in DOMAIN s : s[k] \in Chosen(e, ids)
  BY PickedFacts
<1> QED BY <1>5, <1>6, <1>7, <1>8 DEF Picked

LEMMA IdsFacts ==
    ASSUME NEW lines \in Seq(Lines)
    PROVE  /\ Ids(lines) \in Seq(Nat)
           /\ \A i \in DOMAIN Ids(lines) : i \in DOMAIN lines /\ Ids(lines)[i] = lines[i].row
<1>1. DOMAIN lines = 1 .. Len(lines) /\ Len(lines) \in Nat
  BY LenProperties
<1>2. \A i \in 1 .. Len(lines) : lines[i].row \in Nat
  <2>1. \A i \in 1 .. Len(lines) : lines[i] \in Lines
    BY ElementOfSeq
  <2> QED BY <2>1 DEF Lines
<1>3. Ids(lines) \in [1 .. Len(lines) -> Nat]
  BY <1>1, <1>2 DEF Ids
<1> QED BY <1>1, <1>3, IsSequence DEF Ids

(* Of different lines there are as many of a fraud as lines that tell one. *)
LEMMA FraudLines ==
    ASSUME NEW s, IsFiniteSet(DOMAIN s), \A i, k \in DOMAIN s : s[i] = s[k] => i = k
    PROVE  Cardinality({i \in DOMAIN s : RowOf(s[i]).fraud})
             = Cardinality({l \in Range(s) : RowOf(l).fraud})
<1> DEFINE A == {i \in DOMAIN s : RowOf(s[i]).fraud}
           B == {l \in Range(s) : RowOf(l).fraud}
           f == [i \in A |-> s[i]]
<1>1. f \in Bijection(A, B)
  BY DEF Bijection, Injection, Surjection, IsInjective, Range
<1>2. IsFiniteSet(A)
  BY FS_Subset
<1> HIDE DEF f, A, B
<1>3. Cardinality(A) = Cardinality(B)
  BY <1>1, <1>2, FS_Bijection DEF ExistsBijection
<1> QED BY <1>3 DEF A, B

(* Fraud first is a matter of order only. *)
LEMMA FraudFirstFacts ==
    ASSUME NEW lines \in Seq(Lines)
    PROVE  /\ FraudFirst(lines) \in Seq(Lines)
           /\ \A k \in DOMAIN FraudFirst(lines) :
                 \E i \in DOMAIN lines : FraudFirst(lines)[k] = lines[i]
<1> DEFINE n == Len(lines)
           place == [i \in DOMAIN lines |->
                        IF RowOf(lines[i]).fraud THEN i ELSE Len(lines) + i]
           s == SortedBy(DOMAIN lines, place)
<1>1. DOMAIN lines = 1 .. n /\ n \in Nat
  BY LenProperties
<1>2. IsFiniteSet(1 .. n) /\ Cardinality(1 .. n) = n
  BY <1>1, NumbersUpTo
<1>3. \A i \in 1 .. n : lines[i] \in Lines
  BY ElementOfSeq
<1>4. /\ \A x \in DOMAIN lines : place[x] \in Nat
      /\ \A x, y \in DOMAIN lines : place[x] = place[y] => x = y
  BY <1>1
<1> HIDE DEF place
<1>5. \A k \in 1 .. n : s[k] \in DOMAIN lines
  BY <1>1, <1>2, <1>4, SortedByFacts
<1> HIDE DEF s, n
<1>6. FraudFirst(lines) = [k \in DOMAIN lines |-> lines[s[k]]]
  BY DEF FraudFirst, s, place
<1>7. FraudFirst(lines) \in [1 .. n -> Lines]
  BY <1>1, <1>3, <1>5, <1>6
<1> QED BY <1>1, <1>5, <1>6, <1>7, IsSequence

(* Ids are chosen from one of the files, at most as many as were asked for. *)
LEMMA ChosenIds ==
    ASSUME IsFile(disk["events"]), IsFile(disk["labels"]), NEW r \in SampleRequestType,
           ChooseIds(r) # <<>>
    PROVE  /\ ChooseIds(r) \in Seq(Nat) /\ Len(ChooseIds(r)) <= r.size
           /\ \E f \in {"events", "labels"} : Chosen(disk[f], ChooseIds(r)) # {}
<1> DEFINE ids == ChooseIds(r)
<1>1. PICK f \in {"events", "labels"}, lines \in Seq(Lines) :
         /\ ids = Take(Ids(lines), r.size)
         /\ \A k \in DOMAIN lines : \E i \in DOMAIN disk[f] : lines[k] = disk[f][i]
  <2>1. CASE r.strategy = "head"
    BY <2>1 DEF ChooseIds, IsFile
  <2>2. CASE r.strategy # "head"
    <3>1. /\ FraudFirst(disk["labels"]) \in Seq(Lines)
          /\ \A k \in DOMAIN FraudFirst(disk["labels"]) :
                 \E i \in DOMAIN disk["labels"] :
                    FraudFirst(disk["labels"])[k] = disk["labels"][i]
      BY FraudFirstFacts DEF IsFile
    <3> QED BY <2>2, <3>1 DEF ChooseIds
  <2> QED BY <2>1, <2>2
<1> HIDE DEF ids
<1>2. r.size \in Nat
  BY DEF SampleRequestType
<1>3. /\ ids \in Seq(Nat) /\ Len(ids) <= r.size
      /\ \A k \in DOMAIN ids : k \in DOMAIN lines /\ ids[k] = lines[k].row
  BY <1>1, <1>2, IdsFacts, TakeFacts
<1>4. 1 \in DOMAIN ids
  <2>1. Len(ids) # 0
    BY <1>3, EmptySeq DEF ids
  <2> QED BY <1>3, <2>1, LenProperties
<1>5. PICK i \in DOMAIN disk[f] : lines[1] = disk[f][i]
  BY <1>1, <1>3, <1>4
<1>6. disk[f][i].row \in Range(ids)
  BY <1>3, <1>4, <1>5 DEF Range
<1>7. i \in Chosen(disk[f], ids)
  BY <1>6 DEF Chosen
<1> QED BY <1>3, <1>7 DEF ids


-----------------------------------------------------------------------------
USE PreparationAssumption

-----------------------------------------------------------------------------
(* Lines of one file. *)

LEMMA LineFacts ==
    /\ Torn \notin Lines
    /\ None \notin Seq(Lines \cup {Torn}) /\ None \notin Seq(Lines)
    /\ <<>> \in Seq(Lines)
    /\ Seq(Lines) \subseteq Seq(Lines \cup {Torn})
<1>1. Torn \notin Lines /\ None \notin Seq(Lines \cup {Torn})
  BY DEF Lines
<1>2. ASSUME NEW s \in Seq(Lines)
      PROVE  s \in Seq(Lines \cup {Torn})
  BY <1>2
<1> QED BY <1>1, <1>2, EmptySeq

(* A line of a later row keeps a file in the order of the rows. *)
LEMMA AppendRises ==
    ASSUME NEW s \in Seq(Lines), NEW l \in Lines, Rising(s),
           \A i \in DOMAIN s : s[i].row < l.row /\ s[i].job = l.job
    PROVE  /\ Append(s, l) \in Seq(Lines)
           /\ Len(Append(s, l)) = Len(s) + 1
           /\ Rising(Append(s, l))
           /\ \A i \in DOMAIN s : Append(s, l)[i] = s[i]
           /\ Append(s, l)[Len(s) + 1] = l
           /\ DOMAIN Append(s, l) = 1 .. Len(s) + 1 /\ DOMAIN s = 1 .. Len(s)
<1>1. /\ Append(s, l) \in Seq(Lines)
      /\ Len(Append(s, l)) = Len(s) + 1
      /\ \A i \in 1 .. Len(s) : Append(s, l)[i] = s[i]
      /\ Append(s, l)[Len(s) + 1] = l
  BY AppendProperties
<1>2. /\ DOMAIN s = 1 .. Len(s) /\ DOMAIN Append(s, l) = 1 .. Len(s) + 1
      /\ Len(s) \in Nat
  BY <1>1, LenProperties
<1>3. ASSUME NEW i \in 1 .. Len(s) + 1, NEW k \in 1 .. Len(s) + 1, i < k,
             Append(s, l)[i] # Torn, Append(s, l)[k] # Torn
      PROVE  /\ Append(s, l)[i].row < Append(s, l)[k].row
             /\ Append(s, l)[i].job = Append(s, l)[k].job
  <2>1. i \in 1 .. Len(s)
    BY <1>2, <1>3
  <2>2. CASE k = Len(s) + 1
    BY <1>1, <1>2, <2>1, <2>2
  <2>3. CASE k \in 1 .. Len(s)
    BY <1>1, <1>2, <1>3, <2>1, <2>3 DEF Rising
  <2> QED BY <1>2, <2>2, <2>3
<1> QED BY <1>1, <1>2, <1>3 DEF Rising

(* What a killed script leaves of a file are its first lines, and perhaps  *)
(* a torn one.                                                             *)
LEMMA RemainsPrefix ==
    ASSUME NEW s \in Seq(Lines), NEW r \in Remains(s)
    PROVE  /\ r \in Seq(Lines \cup {Torn})
           /\ \A i \in DOMAIN r : r[i] # Torn => i \in DOMAIN s /\ r[i] = s[i]
           /\ \A i \in DOMAIN r : r[i] # Torn =>
                 \A k \in 1 .. i - 1 : k \in DOMAIN r /\ r[k] = s[k]
<1>1. Len(s) \in Nat /\ DOMAIN s = 1 .. Len(s)
  BY LenProperties
<1>2. ASSUME NEW n \in 0 .. Len(s)
      PROVE  /\ SubSeq(s, 1, n) \in Seq(Lines \cup {Torn})
             /\ Len(SubSeq(s, 1, n)) = n
             /\ DOMAIN SubSeq(s, 1, n) = 1 .. n
             /\ \A i \in 1 .. n : SubSeq(s, 1, n)[i] = s[i]
  <2>1. n \in Int /\ 1 \in Int /\ n - 1 + 1 = n /\ \A i \in 1 .. n : 1 + i - 1 = i
    BY <1>1
  <2>2. \A i \in 1 .. n : s[i] \in Lines \cup {Torn}
    BY <1>1, ElementOfSeq
  <2>3. /\ SubSeq(s, 1, n) \in Seq(Lines \cup {Torn})
        /\ Len(SubSeq(s, 1, n)) = IF 1 <= n THEN n - 1 + 1 ELSE 0
        /\ \A i \in 1 .. n - 1 + 1 : SubSeq(s, 1, n)[i] = s[1 + i - 1]
    BY <2>1, <2>2, SubSeqProperties
  <2>4. Len(SubSeq(s, 1, n)) = n
    BY <1>1, <2>3
  <2>5. DOMAIN SubSeq(s, 1, n) = 1 .. n
    BY <2>3, <2>4, LenProperties
  <2> QED BY <2>1, <2>3, <2>4, <2>5
<1>3. CASE \E n \in 0 .. Len(s) : r = SubSeq(s, 1, n)
  BY <1>1, <1>2, <1>3
<1>4. CASE \E n \in 0 .. Len(s) - 1 : r = Append(SubSeq(s, 1, n), Torn)
  <2>1. PICK n \in 0 .. Len(s) - 1 : r = Append(SubSeq(s, 1, n), Torn)
    BY <1>4
  <2> DEFINE p == SubSeq(s, 1, n)
  <2>2. /\ p \in Seq(Lines \cup {Torn}) /\ Len(p) = n
        /\ \A i \in 1 .. n : p[i] = s[i]
    BY <1>1, <1>2
  <2> HIDE DEF p
  <2>3. /\ Append(p, Torn) \in Seq(Lines \cup {Torn})
        /\ Len(Append(p, Torn)) = n + 1
        /\ \A i \in 1 .. n : Append(p, Torn)[i] = p[i]
        /\ Append(p, Torn)[n + 1] = Torn
    BY <2>2, AppendProperties
  <2>4. DOMAIN Append(p, Torn) = 1 .. n + 1
    BY <2>3, LenProperties
  <2> QED BY <1>1, <2>1, <2>2, <2>3, <2>4 DEF p
<1> QED BY <1>3, <1>4 DEF Remains

LEMMA RemainsRise ==
    ASSUME NEW s \in Seq(Lines), NEW r \in Remains(s), Rising(s)
    PROVE  Rising(r)
<1>1. \A i \in DOMAIN r : r[i] # Torn => i \in DOMAIN s /\ r[i] = s[i]
  BY RemainsPrefix
<1>2. \A i \in DOMAIN s : s[i] # Torn
  <2>1. DOMAIN s = 1 .. Len(s)
    BY LenProperties
  <2> QED BY <2>1, ElementOfSeq, LineFacts
<1> QED BY <1>1, <1>2 DEF Rising

LEMMA RemainsAgree ==
    ASSUME NEW s \in Seq(Lines), NEW t \in Seq(Lines), NEW r \in Remains(s),
           NEW q \in Remains(t), Agree(s, t)
    PROVE  Agree(r, q)
<1>1. /\ \A i \in DOMAIN r : r[i] # Torn => i \in DOMAIN s /\ r[i] = s[i]
      /\ \A i \in DOMAIN q : q[i] # Torn => i \in DOMAIN t /\ q[i] = t[i]
  BY RemainsPrefix
<1> QED BY <1>1 DEF Agree

-----------------------------------------------------------------------------
(* Steps. *)

(* The script at work: its files are its own lines, its row is there.      *)
LEMMA AtWork ==
    ASSUME LinesInv, job # None
    PROVE  /\ job \in Jobs /\ job \in JobType
           /\ \A f \in Streams : disk[f] \in Seq(Lines) /\ Rising(disk[f])
           /\ Agree(disk["events"], disk["labels"])
           /\ RowsOf[job.data] \in Seq(RawRows) /\ Len(RowsOf[job.data]) \in Nat
           /\ counters \in [CounterNames -> Nat]
           /\ Line \in Lines
           /\ \A f \in Streams : \A i \in DOMAIN disk[f] :
                 disk[f][i].row < Line.row /\ disk[f][i].job = Line.job
<1>1. /\ job \in Jobs /\ job \in JobType /\ counters \in [CounterNames -> Nat]
      /\ counters["total"] \in Nat
  BY DEF LinesInv, PrepTypeOK, CounterNames
<1>2. \A f \in Streams : disk[f] \in Seq(Lines) /\ disk[f] # None
  BY LineFacts DEF LinesInv, CountersAgree
<1>3. /\ \A f \in Streams : Rising(disk[f])
      /\ Agree(disk["events"], disk["labels"])
  BY <1>2 DEF LinesInv, LinesAgree, Streams
<1>4. job.data \in Datasets
  BY <1>1 DEF JobType
<1>5. RowsOf[job.data] \in Seq(RawRows) /\ Len(RowsOf[job.data]) \in Nat
  BY <1>4, LenProperties
<1>6. Line \in Lines /\ Line.row = counters["total"] + 1 /\ Line.job = job
  BY <1>1 DEF Line, Lines
<1>7. ASSUME NEW f \in Streams, NEW i \in DOMAIN disk[f]
      PROVE  disk[f][i].row < Line.row /\ disk[f][i].job = Line.job
  <2>1. disk[f][i].job = job /\ disk[f][i].row <= counters["total"]
    BY <1>7 DEF LinesInv, CountersAgree
  <2>2. disk[f][i] \in Lines
    BY <1>2, ElementOfSeq, LenProperties
  <2> QED BY <1>1, <1>6, <2>1, <2>2 DEF Lines
<1> QED BY <1>1, <1>2, <1>3, <1>5, <1>6, <1>7

(* Opening empties the files it opens and leaves the others.               *)
LEMMA StartFacts ==
    ASSUME LinesInv, NEW j \in Jobs, Start(j)
    PROVE  /\ counters' \in [CounterNames -> Nat] /\ types' \in [NativeTypes -> Nat]
           /\ \A n \in CounterNames : counters'[n] = 0
           /\ jobs' \in 0 .. MaxJobs /\ whole' \in BOOLEAN
           /\ j \in JobType /\ Len(RowsOf[j.data]) \in Nat
           /\ DOMAIN disk = Streams \cup {"report"}
<1>1. j \in JobType
  OBVIOUS
<1>2. j.data \in Datasets
  BY <1>1 DEF JobType
<1>3. Len(RowsOf[j.data]) \in Nat
  BY <1>2, LenProperties
<1>4. jobs' \in 0 .. MaxJobs
  BY DEF Start, LinesInv, PrepTypeOK
<1> QED BY <1>1, <1>3, <1>4 DEF Start, LinesInv, PrepTypeOK

LEMMA OpenKeeps ==
    ASSUME LinesInv, NEW j \in Jobs, Open(j)
    PROVE  LinesInv'
<1>1. /\ Start(j) /\ job' = j /\ UNCHANGED kills
      /\ DOMAIN disk = Streams \cup {"report"}
      /\ DOMAIN disk' = Streams \cup {"report"}
      /\ \A f \in Streams : disk'[f] = <<>>
      /\ disk'["report"] = disk["report"]
      /\ kills \in 0 .. MaxKills
      /\ disk["report"] \in Reports \cup {Torn, None}
  BY StartFacts DEF Open, Truncated, LinesInv, PrepTypeOK, Streams
<1>2. /\ <<>> \in Seq(Lines) /\ <<>> \in Seq(Lines \cup {Torn})
      /\ Len(<<>>) = 0 /\ DOMAIN <<>> = {}
  BY LineFacts, EmptySeq
<1>3. PrepTypeOK'
  <2>1. \A f \in Streams : disk'[f] \in Seq(Lines \cup {Torn}) \cup {None}
    BY <1>1, <1>2
  <2>2. counters'["total"] <= Len(RowsOf[job'.data])
    BY <1>1, StartFacts DEF CounterNames
  <2> QED BY <1>1, <2>1, <2>2, StartFacts DEF PrepTypeOK
<1>4. LinesAgree'
  BY <1>1, <1>2 DEF LinesAgree, Rising, Agree, Streams
<1>5. CountersAgree'
  <2>1. \A f \in Streams : disk'[f] \in Seq(Lines) /\ Len(disk'[f]) = 0
    BY <1>1, <1>2
  <2>2. \A f \in Streams : DOMAIN disk'[f] = {}
    BY <1>1, <1>2
  <2>3. \A n \in {"total", "accepted", "rejected"} : counters'[n] = 0
    BY <1>1, StartFacts DEF CounterNames
  <2> QED BY <2>1, <2>2, <2>3 DEF CountersAgree, Streams
<1> QED BY <1>3, <1>4, <1>5 DEF LinesInv

LEMMA KilledOpeningKeeps ==
    ASSUME LinesInv, NEW j \in Jobs, KilledOpening(j)
    PROVE  LinesInv'
<1>1. PICK opened \in {{"events"}, {"events", "labels"}} : disk' = Truncated(opened)
  BY DEF KilledOpening
<1>2. /\ Start(j) /\ job = None /\ job' = None
      /\ DOMAIN disk = Streams \cup {"report"}
      /\ DOMAIN disk' = Streams \cup {"report"}
      /\ "events" \in opened /\ "report" \notin opened
      /\ \A f \in Streams : disk'[f] = IF f \in opened THEN <<>> ELSE disk[f]
      /\ disk'["report"] = disk["report"]
      /\ kills' \in 0 .. MaxKills
  BY <1>1, StartFacts DEF KilledOpening, Kill, Start, Truncated, LinesInv, PrepTypeOK,
     Streams
<1>3. /\ <<>> \in Seq(Lines) /\ <<>> \in Seq(Lines \cup {Torn})
      /\ DOMAIN <<>> = {}
  BY LineFacts
<1>4. PrepTypeOK'
  <2>1. \A f \in Streams : disk'[f] \in Seq(Lines \cup {Torn}) \cup {None}
    BY <1>2, <1>3 DEF LinesInv, PrepTypeOK
  <2>2. disk'["report"] \in Reports \cup {Torn, None}
    BY <1>2 DEF LinesInv, PrepTypeOK
  <2> QED BY <1>2, <2>1, <2>2, StartFacts DEF PrepTypeOK
<1>5. LinesAgree'
  BY <1>2, <1>3 DEF LinesInv, LinesAgree, Rising, Agree, Streams
<1>6. CountersAgree'
  BY <1>2 DEF CountersAgree
<1> QED BY <1>4, <1>5, <1>6 DEF LinesInv

(* A row that is read is counted. *)
LEMMA AddFacts ==
    ASSUME counters \in [CounterNames -> Nat], NEW names
    PROVE  /\ Add(counters, names) \in [CounterNames -> Nat]
           /\ \A n \in names \cap CounterNames :
                 Add(counters, names)[n] = counters[n] + 1
           /\ \A n \in CounterNames \ names : Add(counters, names)[n] = counters[n]
BY DEF Add

LEMMA CountedAtWork ==
    ASSUME LinesInv, job # None
    PROVE  /\ Len(disk["events"]) = counters["accepted"]
           /\ Len(disk["labels"]) = counters["accepted"]
           /\ Len(disk["rejected"]) = counters["rejected"]
           /\ counters["total"] = counters["accepted"] + counters["rejected"]
BY DEF LinesInv, CountersAgree

LEMMA OneMore ==
    \A t, a, r \in Nat : t = a + r => t + 1 = (a + 1) + r /\ t + 1 = a + (r + 1)
OBVIOUS

(* A rejected row is a line of the rejected file. *)
LEMMA RejectKeeps ==
    ASSUME LinesInv, RejectRow
    PROVE  LinesInv'
<1> DEFINE d == Append(disk["rejected"], Line)
<1>1. /\ job # None /\ job' = job /\ UNCHANGED <<types, jobs, kills, whole>>
      /\ counters' = Add(counters, {"total", "rejected"})
      /\ disk' = [disk EXCEPT !["rejected"] = d]
      /\ DOMAIN disk = Streams \cup {"report"} /\ HasRow
  BY DEF RejectRow, Append1, LinesInv, PrepTypeOK
<1>2. /\ \A f \in Streams : disk[f] \in Seq(Lines) /\ Rising(disk[f])
      /\ Agree(disk["events"], disk["labels"])
      /\ Len(RowsOf[job.data]) \in Nat
      /\ counters \in [CounterNames -> Nat] /\ Line \in Lines
      /\ Line.row = counters["total"] + 1 /\ Line.job = job
  BY <1>1, AtWork DEF Line
<1>3. /\ d \in Seq(Lines) /\ Rising(d) /\ Len(d) = Len(disk["rejected"]) + 1
      /\ \A i \in DOMAIN disk["rejected"] : d[i] = disk["rejected"][i]
      /\ d[Len(disk["rejected"]) + 1] = Line
      /\ DOMAIN d = 1 .. Len(disk["rejected"]) + 1
      /\ DOMAIN disk["rejected"] = 1 .. Len(disk["rejected"])
      /\ Len(disk["rejected"]) \in Nat
  <2>1. /\ disk["rejected"] \in Seq(Lines) /\ Rising(disk["rejected"])
        /\ \A i \in DOMAIN disk["rejected"] :
              disk["rejected"][i].row < Line.row /\ disk["rejected"][i].job = Line.job
    BY <1>1, <1>2, AtWork DEF Streams
  <2> QED BY <1>2, <2>1, AppendRises, LenProperties
<1> HIDE DEF d
<1>4. /\ counters' \in [CounterNames -> Nat]
      /\ counters'["total"] = counters["total"] + 1
      /\ counters'["rejected"] = counters["rejected"] + 1
      /\ counters'["accepted"] = counters["accepted"]
      /\ counters["total"] \in Nat /\ counters["accepted"] \in Nat
      /\ counters["rejected"] \in Nat
  <2> DEFINE names == {"total", "rejected"}
  <2>1. /\ Add(counters, names) \in [CounterNames -> Nat]
        /\ \A n \in names \cap CounterNames :
              Add(counters, names)[n] = counters[n] + 1
        /\ \A n \in CounterNames \ names : Add(counters, names)[n] = counters[n]
    BY <1>2, AddFacts
  <2>2. /\ "total" \in names \cap CounterNames
        /\ "rejected" \in names \cap CounterNames
        /\ "accepted" \in CounterNames \ names
    BY DEF CounterNames
  <2>3. counters' = Add(counters, names)
    BY <1>1
  <2>4. \A n \in CounterNames : counters[n] \in Nat
    BY <1>2
  <2> HIDE DEF names
  <2> QED BY <2>1, <2>2, <2>3, <2>4
<1>5. /\ disk'["rejected"] = d /\ DOMAIN disk' = Streams \cup {"report"}
      /\ disk'["events"] = disk["events"] /\ disk'["labels"] = disk["labels"]
      /\ disk'["report"] = disk["report"]
  BY <1>1 DEF Streams
<1>6. PrepTypeOK'
  <2>1. \A f \in Streams : disk'[f] \in Seq(Lines \cup {Torn}) \cup {None}
    BY <1>2, <1>3, <1>5, LineFacts DEF Streams
  <2>2. counters'["total"] <= Len(RowsOf[job'.data])
    BY <1>1, <1>2, <1>4 DEF HasRow
  <2> QED BY <1>1, <1>4, <1>5, <2>1, <2>2 DEF LinesInv, PrepTypeOK
<1>7. LinesAgree'
  BY <1>2, <1>3, <1>5 DEF LinesAgree, Streams
<1>8. CountersAgree'
  <2>1. \A f \in Streams : disk'[f] \in Seq(Lines)
    BY <1>2, <1>3, <1>5 DEF Streams
  <2>2. ASSUME NEW f \in {"events", "labels"}, NEW i \in DOMAIN disk'[f]
        PROVE  disk'[f][i].job = job' /\ disk'[f][i].row <= counters'["total"]
    <3>1. disk'[f] = disk[f] /\ f \in Streams
      BY <1>5, <2>2 DEF Streams
    <3>2. disk[f][i].job = job /\ disk[f][i].row <= counters["total"]
      BY <1>1, <2>2, <3>1 DEF LinesInv, CountersAgree
    <3>3. disk[f][i] \in Lines
      BY <1>2, <2>2, <3>1, ElementOfSeq, LenProperties
    <3> QED BY <1>1, <1>4, <3>1, <3>2, <3>3 DEF Lines
  <2>3. ASSUME NEW i \in DOMAIN d
        PROVE  d[i].job = job' /\ d[i].row <= counters'["total"]
    <3>1. CASE i = Len(disk["rejected"]) + 1
      BY <1>1, <1>2, <1>3, <1>4, <3>1
    <3>2. CASE i \in 1 .. Len(disk["rejected"])
      <4>1. disk["rejected"][i].job = job /\ disk["rejected"][i].row <= counters["total"]
        BY <1>1, <1>3, <3>2 DEF LinesInv, CountersAgree, Streams
      <4>2. disk["rejected"][i] \in Lines
        BY <1>2, <3>2, ElementOfSeq DEF Streams
      <4> QED BY <1>1, <1>3, <1>4, <3>2, <4>1, <4>2 DEF Lines
    <3> QED BY <1>3, <2>3, <3>1, <3>2
  <2>4. /\ Len(disk'["events"]) = counters'["accepted"]
        /\ Len(disk'["labels"]) = counters'["accepted"]
        /\ Len(disk'["rejected"]) = counters'["rejected"]
        /\ counters'["total"] = counters'["accepted"] + counters'["rejected"]
    <3>1. /\ Len(disk["events"]) = counters["accepted"]
          /\ Len(disk["labels"]) = counters["accepted"]
          /\ Len(disk["rejected"]) = counters["rejected"]
          /\ counters["total"] = counters["accepted"] + counters["rejected"]
      BY <1>1, CountedAtWork
    <3>2. Len(disk'["rejected"]) = Len(disk["rejected"]) + 1
      BY <1>3, <1>5
    <3>5. /\ counters["total"] \in Nat /\ counters["accepted"] \in Nat
          /\ counters["rejected"] \in Nat
      BY <1>4
    <3>6. counters["total"] = counters["accepted"] + counters["rejected"]
      BY <3>1
    <3>3. counters["total"] + 1 = counters["accepted"] + (counters["rejected"] + 1)
      BY <3>5, <3>6, OneMore
    <3>4. counters'["total"] = counters'["accepted"] + counters'["rejected"]
      BY <1>4, <3>3
    <3> QED BY <1>4, <1>5, <3>1, <3>2, <3>4
  <2> QED BY <1>5, <2>1, <2>2, <2>3, <2>4 DEF CountersAgree, Streams
<1> QED BY <1>6, <1>7, <1>8 DEF LinesInv

(* An accepted row is a line of the events and, at the same place, one of  *)
(* the labels.                                                             *)
LEMMA AcceptKeeps ==
    ASSUME LinesInv, AcceptRow
    PROVE  LinesInv'
<1> DEFINE d == Append(disk["events"], Line)
           l == Append(disk["labels"], Line)
<1>1. /\ job # None /\ job' = job /\ UNCHANGED <<jobs, kills, whole>>
      /\ counters' = Add(counters, {"total", "accepted"}
                             \cup (IF Row.fraud THEN {"fraud"} ELSE {})
                             \cup (IF Row.flagged THEN {"flagged"} ELSE {}))
      /\ DOMAIN disk = Streams \cup {"report"} /\ HasRow
      /\ disk'["events"] = d /\ disk'["labels"] = l
      /\ disk'["rejected"] = disk["rejected"] /\ disk'["report"] = disk["report"]
      /\ DOMAIN disk' = Streams \cup {"report"}
  BY DEF AcceptRow, Append1, LinesInv, PrepTypeOK, Streams
<1>2. /\ \A f \in Streams : disk[f] \in Seq(Lines) /\ Rising(disk[f])
      /\ Agree(disk["events"], disk["labels"])
      /\ Len(RowsOf[job.data]) \in Nat
      /\ counters \in [CounterNames -> Nat] /\ Line \in Lines
      /\ Line.row = counters["total"] + 1 /\ Line.job = job
  BY <1>1, AtWork DEF Line
<1>3. ASSUME NEW f \in {"events", "labels"}, NEW e, e = Append(disk[f], Line)
      PROVE  /\ e \in Seq(Lines) /\ Rising(e) /\ Len(e) = Len(disk[f]) + 1
             /\ \A i \in 1 .. Len(disk[f]) : e[i] = disk[f][i]
             /\ e[Len(disk[f]) + 1] = Line
             /\ DOMAIN e = 1 .. Len(disk[f]) + 1
             /\ DOMAIN disk[f] = 1 .. Len(disk[f])
             /\ Len(disk[f]) \in Nat
  <2>1. /\ disk[f] \in Seq(Lines) /\ Rising(disk[f])
        /\ \A i \in DOMAIN disk[f] :
              disk[f][i].row < Line.row /\ disk[f][i].job = Line.job
    BY <1>1, <1>2, AtWork DEF Streams
  <2>2. Len(disk[f]) \in Nat /\ DOMAIN disk[f] = 1 .. Len(disk[f])
    BY <2>1, LenProperties
  <2>3. /\ e \in Seq(Lines) /\ Rising(e) /\ Len(e) = Len(disk[f]) + 1
        /\ \A i \in DOMAIN disk[f] : e[i] = disk[f][i]
        /\ e[Len(disk[f]) + 1] = Line
        /\ DOMAIN e = 1 .. Len(disk[f]) + 1
    <3>1. /\ Append(disk[f], Line) \in Seq(Lines) /\ Rising(Append(disk[f], Line))
          /\ Len(Append(disk[f], Line)) = Len(disk[f]) + 1
          /\ \A i \in DOMAIN disk[f] : Append(disk[f], Line)[i] = disk[f][i]
          /\ Append(disk[f], Line)[Len(disk[f]) + 1] = Line
          /\ DOMAIN Append(disk[f], Line) = 1 .. Len(disk[f]) + 1
      BY <1>2, <2>1, AppendRises
    <3> QED BY <1>3, <3>1
  <2> QED BY <2>2, <2>3
<1>4. /\ d \in Seq(Lines) /\ Rising(d) /\ Len(d) = Len(disk["events"]) + 1
      /\ \A i \in 1 .. Len(disk["events"]) : d[i] = disk["events"][i]
      /\ d[Len(disk["events"]) + 1] = Line
      /\ DOMAIN d = 1 .. Len(disk["events"]) + 1
      /\ DOMAIN disk["events"] = 1 .. Len(disk["events"])
  BY <1>3
<1>5. /\ l \in Seq(Lines) /\ Rising(l) /\ Len(l) = Len(disk["labels"]) + 1
      /\ \A i \in 1 .. Len(disk["labels"]) : l[i] = disk["labels"][i]
      /\ l[Len(disk["labels"]) + 1] = Line
      /\ DOMAIN l = 1 .. Len(disk["labels"]) + 1
      /\ DOMAIN disk["labels"] = 1 .. Len(disk["labels"])
  BY <1>3
<1> HIDE DEF d, l
<1>6. /\ counters' \in [CounterNames -> Nat]
      /\ counters'["total"] = counters["total"] + 1
      /\ counters'["accepted"] = counters["accepted"] + 1
      /\ counters'["rejected"] = counters["rejected"]
      /\ counters["total"] \in Nat /\ counters["accepted"] \in Nat
      /\ counters["rejected"] \in Nat
  <2> DEFINE names == {"total", "accepted"}
                         \cup (IF Row.fraud THEN {"fraud"} ELSE {})
                         \cup (IF Row.flagged THEN {"flagged"} ELSE {})
  <2>1. /\ "total" \in names /\ "accepted" \in names /\ "rejected" \notin names
        /\ counters' = Add(counters, names)
    BY <1>1
  <2> HIDE DEF names
  <2> QED BY <1>2, <2>1, AddFacts DEF CounterNames
<1>7. PrepTypeOK'
  <2>1. \A f \in Streams : disk'[f] \in Seq(Lines \cup {Torn}) \cup {None}
    BY <1>1, <1>2, <1>4, <1>5, LineFacts DEF Streams
  <2>2. counters'["total"] <= Len(RowsOf[job'.data])
    BY <1>1, <1>2, <1>6 DEF HasRow
  <2>3. types' \in [NativeTypes -> Nat]
    <3>1. types \in [NativeTypes -> Nat]
      BY DEF LinesInv, PrepTypeOK
    <3>2. types' = [types EXCEPT ![Row.type] = @ + 1]
      BY DEF AcceptRow
    <3>3. \A t : [types EXCEPT ![t] = @ + 1] \in [NativeTypes -> Nat]
      <4>1. ASSUME NEW t
            PROVE  [types EXCEPT ![t] = types[t] + 1] \in [NativeTypes -> Nat]
        <5>1. CASE t \in NativeTypes
          BY <3>1, <5>1
        <5>2. CASE t \notin NativeTypes
          BY <3>1, <5>2
        <5> QED BY <5>1, <5>2
      <4> QED BY <4>1
    <3> QED BY <3>2, <3>3
  <2> QED BY <1>1, <1>6, <2>1, <2>2, <2>3 DEF LinesInv, PrepTypeOK
<1>8. LinesAgree'
  <2>1. \A f \in Streams : Rising(disk'[f])
    BY <1>1, <1>2, <1>4, <1>5 DEF Streams
  <2>2. Agree(d, l)
    <3>1. Len(disk["events"]) = Len(disk["labels"]) /\ Len(disk["events"]) \in Nat
      BY <1>1, <1>6, CountedAtWork
    <3>2. ASSUME NEW i \in 1 .. Len(disk["events"]) + 1, d[i] # Torn, l[i] # Torn
          PROVE  d[i] = l[i]
      <4>1. CASE i = Len(disk["events"]) + 1
        BY <1>4, <1>5, <3>1, <4>1
      <4>2. CASE i \in 1 .. Len(disk["events"])
        BY <1>2, <1>4, <1>5, <3>1, <3>2, <4>2 DEF Agree
      <4> QED BY <3>1, <3>2, <4>1, <4>2
    <3> QED BY <1>4, <1>5, <3>2 DEF Agree
  <2> QED BY <1>1, <2>1, <2>2 DEF LinesAgree
<1>9. CountersAgree'
  <2>1. \A f \in Streams : disk'[f] \in Seq(Lines)
    BY <1>1, <1>2, <1>4, <1>5 DEF Streams
  <2>2. ASSUME NEW f \in Streams, NEW i \in DOMAIN disk[f]
        PROVE  disk[f][i].job = job' /\ disk[f][i].row <= counters'["total"]
    <3>1. disk[f][i].job = job /\ disk[f][i].row <= counters["total"]
      BY <1>1, <2>2 DEF LinesInv, CountersAgree
    <3>2. disk[f][i] \in Lines
      BY <1>2, <2>2, ElementOfSeq, LenProperties
    <3> QED BY <1>1, <1>6, <3>1, <3>2 DEF Lines
  <2>3. Line.job = job' /\ Line.row <= counters'["total"]
    BY <1>1, <1>2, <1>6
  <2>4. ASSUME NEW f \in Streams, NEW i \in DOMAIN disk'[f]
        PROVE  disk'[f][i] = Line \/ (i \in DOMAIN disk[f] /\ disk'[f][i] = disk[f][i])
    <3>0. Len(disk["events"]) \in Nat /\ Len(disk["labels"]) \in Nat
      BY <1>1, <1>6, CountedAtWork
    <3>1. CASE f = "events"
      BY <1>1, <1>4, <2>4, <3>0, <3>1
    <3>2. CASE f = "labels"
      BY <1>1, <1>5, <2>4, <3>0, <3>2
    <3>3. CASE f = "rejected"
      BY <1>1, <2>4, <3>3
    <3> QED BY <3>1, <3>2, <3>3 DEF Streams
  <2>5. ASSUME NEW f \in Streams, NEW i \in DOMAIN disk'[f]
        PROVE  disk'[f][i].job = job' /\ disk'[f][i].row <= counters'["total"]
    <3>1. CASE disk'[f][i] = Line
      BY <2>3, <3>1
    <3>2. CASE i \in DOMAIN disk[f] /\ disk'[f][i] = disk[f][i]
      <4>1. disk[f][i].job = job' /\ disk[f][i].row <= counters'["total"]
        BY <2>2, <3>2
      <4> QED BY <3>2, <4>1
    <3> QED BY <2>4, <3>1, <3>2
  <2>6. /\ Len(disk'["events"]) = counters'["accepted"]
        /\ Len(disk'["labels"]) = counters'["accepted"]
        /\ Len(disk'["rejected"]) = counters'["rejected"]
        /\ counters'["total"] = counters'["accepted"] + counters'["rejected"]
    <3>1. /\ Len(disk["events"]) = counters["accepted"]
          /\ Len(disk["labels"]) = counters["accepted"]
          /\ Len(disk["rejected"]) = counters["rejected"]
          /\ counters["total"] = counters["accepted"] + counters["rejected"]
      BY <1>1, CountedAtWork
    <3>5. /\ counters["total"] \in Nat /\ counters["accepted"] \in Nat
          /\ counters["rejected"] \in Nat
      BY <1>6
    <3>6. counters["total"] = counters["accepted"] + counters["rejected"]
      BY <3>1
    <3>2. counters["total"] + 1 = (counters["accepted"] + 1) + counters["rejected"]
      BY <3>5, <3>6, OneMore
    <3>3. counters'["total"] = counters'["accepted"] + counters'["rejected"]
      BY <1>6, <3>2
    <3>4. Len(d) = Len(disk["events"]) + 1 /\ Len(l) = Len(disk["labels"]) + 1
      BY <1>4, <1>5
    <3> QED BY <1>1, <1>6, <3>1, <3>3, <3>4
  <2> QED BY <2>1, <2>5, <2>6 DEF CountersAgree
<1> QED BY <1>7, <1>8, <1>9 DEF LinesInv

(* A run that ends, by a row, by its report or killed while it writes the  *)
(* report, leaves the lines as they are.                                   *)
LEMMA EndKeeps ==
    ASSUME LinesInv, StopAtRow \/ WriteReport \/ KilledReporting
    PROVE  LinesInv'
<1>1. /\ job # None /\ job' = None /\ UNCHANGED <<counters, types, jobs>>
      /\ DOMAIN disk' = DOMAIN disk
      /\ \A f \in Streams : disk'[f] = disk[f]
      /\ disk'["report"] \in {disk["report"], Torn, Report(job)}
      /\ whole' \in BOOLEAN /\ kills' \in 0 .. MaxKills
  <2>1. CASE StopAtRow
    BY <2>1 DEF StopAtRow, LinesInv, PrepTypeOK
  <2>2. CASE WriteReport
    BY <2>2 DEF WriteReport, LinesInv, PrepTypeOK, Streams
  <2>3. CASE KilledReporting
    BY <2>3 DEF KilledReporting, Kill, LinesInv, PrepTypeOK, Streams
  <2> QED BY <2>1, <2>2, <2>3
<1>2. Report(job) \in Reports
  <2>1. /\ job \in Jobs /\ counters \in [CounterNames -> Nat]
        /\ types \in [NativeTypes -> Nat]
    BY <1>1 DEF LinesInv, PrepTypeOK
  <2> QED BY <2>1 DEF Report, Reports
<1>3. PrepTypeOK'
  BY <1>1, <1>2 DEF LinesInv, PrepTypeOK
<1>4. LinesAgree'
  BY <1>1 DEF LinesInv, LinesAgree, Streams
<1>5. CountersAgree'
  BY <1>1 DEF CountersAgree
<1> QED BY <1>3, <1>4, <1>5 DEF LinesInv

(* Killed between two rows: each file keeps its first lines. *)
LEMMA KilledKeeps ==
    ASSUME LinesInv, Killed
    PROVE  LinesInv'
<1>1. job # None /\ job' = None /\ DOMAIN disk = Streams \cup {"report"}
  BY DEF Killed, LinesInv, PrepTypeOK
<1>2. /\ \A f \in Streams : disk[f] \in Seq(Lines) /\ Rising(disk[f])
      /\ Agree(disk["events"], disk["labels"])
  BY <1>1, AtWork
<1>3. /\ \A f \in Streams : disk'[f] \in Remains(disk[f])
      /\ disk'["report"] = disk["report"] /\ DOMAIN disk' = DOMAIN disk
  BY <1>1 DEF Killed, Streams
<1>4. \A f \in Streams : disk'[f] \in Seq(Lines \cup {Torn}) /\ Rising(disk'[f])
  BY <1>2, <1>3, RemainsPrefix, RemainsRise
<1>5. Agree(disk'["events"], disk'["labels"])
  BY <1>2, <1>3, RemainsAgree DEF Streams
<1>6. PrepTypeOK'
  <2>1. /\ UNCHANGED <<counters, types, jobs, whole>> /\ kills' = kills + 1
        /\ kills < MaxKills
    BY DEF Killed, Kill
  <2>2. /\ counters \in [CounterNames -> Nat] /\ types \in [NativeTypes -> Nat]
        /\ disk["report"] \in Reports \cup {Torn, None} /\ jobs \in 0 .. MaxJobs
        /\ kills \in 0 .. MaxKills /\ whole \in BOOLEAN
    BY DEF LinesInv, PrepTypeOK
  <2>3. kills' \in 0 .. MaxKills
    BY <2>1, <2>2
  <2> QED BY <1>1, <1>3, <1>4, <2>1, <2>2, <2>3 DEF PrepTypeOK
<1>7. LinesAgree'
  BY <1>4, <1>5 DEF LinesAgree
<1>8. CountersAgree'
  BY <1>1 DEF CountersAgree
<1> QED BY <1>6, <1>7, <1>8 DEF LinesInv

-----------------------------------------------------------------------------
(* The lines a run has yet to write: nothing is left out before them.      *)

LEMMA RemainsGapless ==
    ASSUME NEW s \in Seq(Lines), NEW r \in Remains(s), Gapless(s)
    PROVE  Gapless(r)
<1> SUFFICES ASSUME NEW i \in DOMAIN r, r[i] # Torn
             PROVE  /\ r[i].job \in Jobs /\ r[i].row \in Accepted(r[i].job)
                    /\ \A n \in Accepted(r[i].job) : n < r[i].row =>
                          \E k \in 1 .. i - 1 : r[k] = [job |-> r[i].job, row |-> n]
  BY DEF Gapless
<1>1. /\ i \in DOMAIN s /\ r[i] = s[i]
      /\ \A k \in 1 .. i - 1 : r[k] = s[k]
  <2>1. /\ \A d \in DOMAIN r : r[d] # Torn => d \in DOMAIN s /\ r[d] = s[d]
        /\ \A d \in DOMAIN r : r[d] # Torn =>
              \A k \in 1 .. d - 1 : k \in DOMAIN r /\ r[k] = s[k]
    BY RemainsPrefix
  <2> QED BY <2>1
<1>2. s[i] # Torn
  BY <1>1
<1>3. /\ s[i].job \in Jobs /\ s[i].row \in Accepted(s[i].job)
      /\ \A n \in Accepted(s[i].job) : n < s[i].row =>
            \E k \in 1 .. i - 1 : s[k] = [job |-> s[i].job, row |-> n]
  BY <1>1, <1>2 DEF Gapless
<1> QED BY <1>1, <1>3

(* What is counted in a file when a line is added to it. *)
LEMMA CountOneMore ==
    ASSUME NEW n \in Nat, NEW S, S \subseteq 1 .. n, NEW T,
           T = S \/ T = S \cup {n + 1}
    PROVE  /\ Cardinality(S) \in Nat
           /\ Cardinality(T) = Cardinality(S) + (IF n + 1 \in T THEN 1 ELSE 0)
<1>1. IsFiniteSet(1 .. n)
  BY FS_Interval
<1>2. IsFiniteSet(S)
  BY <1>1, FS_Subset
<1>3. Cardinality(S) \in Nat
  BY <1>2, FS_CardinalityType
<1>4. n + 1 \notin S
  OBVIOUS
<1>5. Cardinality(S \cup {n + 1}) = Cardinality(S) + 1
  BY <1>2, <1>4, FS_AddElement
<1>6. CASE T = S
  BY <1>3, <1>4, <1>6
<1>7. CASE T = S \cup {n + 1}
  BY <1>3, <1>5, <1>7
<1> QED BY <1>3, <1>6, <1>7

(* A line that is added to a file counts if it has the flag, the type.     *)
LineCounts(s, l, e) ==
    /\ \A flag \in {"fraud", "flagged"} :
          WithFlag(e, flag) = WithFlag(s, flag) + (IF RowOf(l)[flag] THEN 1 ELSE 0)
    /\ \A t \in NativeTypes :
          WithType(e, t) = WithType(s, t) + (IF RowOf(l).type = t THEN 1 ELSE 0)

LEMMA LineCounted ==
    ASSUME NEW s \in Seq(Lines), NEW l \in Lines
    PROVE  LineCounts(s, l, Append(s, l))
<1> DEFINE e == Append(s, l)
<1> DEFINE n == Len(s)
<1>1. /\ n \in Nat /\ DOMAIN s = 1 .. n /\ DOMAIN e = 1 .. n + 1
      /\ \A i \in 1 .. n : e[i] = s[i]
      /\ e[n + 1] = l
  BY AppendProperties, LenProperties
<1> HIDE DEF n, e
<1>2. ASSUME NEW flag \in {"fraud", "flagged"}
      PROVE  WithFlag(e, flag) = WithFlag(s, flag)
                                     + (IF RowOf(l)[flag] THEN 1 ELSE 0)
  <2> DEFINE S == {i \in DOMAIN s : RowOf(s[i])[flag]}
             T == {i \in DOMAIN e : RowOf(e[i])[flag]}
  <2>1. S \subseteq 1 .. n /\ (n + 1 \in T <=> RowOf(l)[flag])
    BY <1>1
  <2>2. T = S \/ T = S \cup {n + 1}
    BY <1>1
  <2>3. WithFlag(s, flag) = Cardinality(S) /\ WithFlag(e, flag) = Cardinality(T)
    BY DEF WithFlag
  <2> HIDE DEF S, T
  <2>4. /\ Cardinality(S) \in Nat
        /\ Cardinality(T) = Cardinality(S) + (IF n + 1 \in T THEN 1 ELSE 0)
    BY <1>1, <2>1, <2>2, CountOneMore
  <2> QED BY <2>1, <2>3, <2>4
<1>3. ASSUME NEW t \in NativeTypes
      PROVE  WithType(e, t) = WithType(s, t) + (IF RowOf(l).type = t THEN 1 ELSE 0)
  <2> DEFINE S == {i \in DOMAIN s : RowOf(s[i]).type = t}
             T == {i \in DOMAIN e : RowOf(e[i]).type = t}
  <2>1. S \subseteq 1 .. n /\ (n + 1 \in T <=> RowOf(l).type = t)
    BY <1>1
  <2>2. T = S \/ T = S \cup {n + 1}
    BY <1>1
  <2>3. WithType(s, t) = Cardinality(S) /\ WithType(e, t) = Cardinality(T)
    BY DEF WithType
  <2> HIDE DEF S, T
  <2>4. /\ Cardinality(S) \in Nat
        /\ Cardinality(T) = Cardinality(S) + (IF n + 1 \in T THEN 1 ELSE 0)
    BY <1>1, <2>1, <2>2, CountOneMore
  <2> QED BY <2>1, <2>3, <2>4
<1> QED BY <1>2, <1>3 DEF LineCounts, e

(* The reader has a row as long as the last one is not read. *)
LEMMA LastRowFacts ==
    ASSUME NEW j, j.data \in Datasets, j.limit \in Nat \cup {None}
    PROVE  /\ LastRow(j) \in Nat
           /\ \A n \in Nat :
                 n < LastRow(j) <=> /\ n < Len(RowsOf[j.data])
                                    /\ j.limit # None => n < j.limit
<1>1. Len(RowsOf[j.data]) \in Nat
  BY LenProperties
<1> QED BY <1>1 DEF LastRow

LEMMA RowIsLeft ==
    ASSUME LinesInv, job # None
    PROVE  /\ LastRow(job) \in Nat /\ counters["total"] \in Nat
           /\ HasRow <=> counters["total"] < LastRow(job)
<1>1. job.data \in Datasets /\ job.limit \in Nat \cup {None} /\ counters["total"] \in Nat
  BY AtWork DEF JobType, CounterNames
<1> QED BY <1>1, LastRowFacts DEF HasRow

LEMMA StartWorks ==
    ASSUME LinesInv, NEW j \in Jobs, Open(j)
    PROVE  RunningInv'
<1>1. /\ job' = j /\ ~whole'
      /\ \A f \in Streams : disk'[f] = <<>>
      /\ \A n \in CounterNames : counters'[n] = 0
      /\ \A t \in NativeTypes : types'[t] = 0
  BY DEF Open, Start, Truncated, LinesInv, PrepTypeOK
<1>2. <<>> \in Seq(Lines) /\ Len(<<>>) = 0 /\ DOMAIN <<>> = {}
  BY LineFacts
<1>6. \A n \in Accepted(j) : ~(n <= 0)
  BY DEF Accepted
<1>7. /\ \A f : WithFlag(<<>>, f) = 0
      /\ \A t : WithType(<<>>, t) = 0
  <2>1. Cardinality({}) = 0
    BY FS_EmptySet
  <2>2. ASSUME NEW f
        PROVE  {i \in DOMAIN <<>> : RowOf(<<>>[i])[f]} = {}
    BY <1>2
  <2>3. ASSUME NEW t
        PROVE  {i \in DOMAIN <<>> : RowOf(<<>>[i]).type = t} = {}
    BY <1>2
  <2> QED BY <2>1, <2>2, <2>3, Zenon DEF WithFlag, WithType
<1>8. /\ \A f \in {"fraud", "flagged"} : counters'[f] = WithFlag(disk'["labels"], f)
      /\ \A t \in NativeTypes : types'[t] = WithType(disk'["events"], t)
  BY <1>1, <1>7 DEF CounterNames, Streams
<1>9. /\ \A f \in Streams : disk'[f] \in Seq(Lines) /\ DOMAIN disk'[f] = {}
      /\ Len(disk'["events"]) = 0 /\ Len(disk'["rejected"]) = 0
      /\ disk'["labels"] = disk'["events"]
      /\ counters'["total"] = 0 /\ counters'["accepted"] = 0
      /\ counters'["rejected"] = 0
  BY <1>1, <1>2 DEF Streams, CounterNames
<1>10. /\ \A n \in Accepted(j) : n <= counters'["total"] =>
             \E i \in DOMAIN disk'["events"] : disk'["events"][i].row = n
       /\ \A i \in DOMAIN disk'["rejected"] :
             Verdict(RowOf(disk'["rejected"][i])) \notin {"accepted", "TypeError"}
       /\ counters'["total"] = counters'["accepted"] + counters'["rejected"]
  BY <1>6, <1>9 DEF Streams
<1>11. counters'["total"] <= LastRow(j)
  BY <1>9, LastRowFacts DEF JobType
<1> QED BY <1>1, <1>8, <1>9, <1>10, <1>11 DEF RunningInv, Worked

(* A rejected row. *)
LEMMA RejectWorks ==
    ASSUME LinesInv, RunningInv, RejectRow
    PROVE  RunningInv'
<1> DEFINE d == Append(disk["rejected"], Line)
<1>1. /\ job # None /\ job' = job /\ UNCHANGED <<types, whole>>
      /\ counters' = Add(counters, {"total", "rejected"})
      /\ disk'["rejected"] = d
      /\ disk'["events"] = disk["events"] /\ disk'["labels"] = disk["labels"]
      /\ Verdict(Row) \notin {"accepted", "TypeError"}
  BY DEF RejectRow, Append1, LinesInv, PrepTypeOK, Streams
<1>2. ~whole /\ Worked(disk, job, counters, types)
  BY <1>1 DEF RunningInv
<1>3. /\ disk["rejected"] \in Seq(Lines) /\ Line \in Lines
      /\ RowOf(Line) = Row /\ Line.job = job
      /\ counters \in [CounterNames -> Nat]
  BY <1>1, AtWork DEF Streams, RowOf, Line, Row
<1>4. /\ d \in Seq(Lines)
      /\ \A i \in DOMAIN d : \/ d[i] = Line
                             \/ i \in DOMAIN disk["rejected"] /\ d[i] = disk["rejected"][i]
  BY <1>3, AppendProperties, LenProperties
<1> HIDE DEF d
<1>5. LinesInv'
  BY RejectKeeps
<1>6. /\ CountersAgree'
  BY <1>5 DEF LinesInv
<1>7. /\ \A f \in Streams : disk'[f] \in Seq(Lines)
      /\ \A f \in Streams : \A i \in DOMAIN disk'[f] : disk'[f][i].job = job'
      /\ Len(disk'["events"]) = counters'["accepted"]
      /\ Len(disk'["rejected"]) = counters'["rejected"]
      /\ counters'["total"] = counters'["accepted"] + counters'["rejected"]
  BY <1>1, <1>6 DEF CountersAgree
<1>8. /\ counters'["total"] = counters["total"] + 1
      /\ counters'["fraud"] = counters["fraud"]
      /\ counters'["flagged"] = counters["flagged"]
      /\ counters["total"] \in Nat
  BY <1>1, <1>3 DEF Add, CounterNames
<1>9. ASSUME NEW n \in Accepted(job'), n <= counters'["total"]
      PROVE  \E i \in DOMAIN disk'["events"] : disk'["events"][i].row = n
  <2>1. n \in Nat /\ n \in Accepted(job)
    BY <1>1, <1>9 DEF Accepted
  <2>2. n # counters["total"] + 1
    BY <1>1, <2>1 DEF Accepted, Row
  <2>3. n <= counters["total"]
    BY <1>8, <1>9, <2>1, <2>2
  <2> QED BY <1>1, <1>2, <2>1, <2>3 DEF Worked
<1>10. ASSUME NEW i \in DOMAIN disk'["rejected"]
       PROVE  Verdict(RowOf(disk'["rejected"][i])) \notin {"accepted", "TypeError"}
  BY <1>1, <1>2, <1>3, <1>4 DEF Worked
<1>11. /\ \A f \in {"fraud", "flagged"} : counters'[f] = WithFlag(disk'["labels"], f)
       /\ \A t \in NativeTypes : types'[t] = WithType(disk'["events"], t)
       /\ job' \in Jobs /\ disk'["labels"] = disk'["events"]
  BY <1>1, <1>2, <1>8 DEF Worked
<1>12. counters'["total"] <= LastRow(job')
  BY <1>1, <1>8, RowIsLeft DEF RejectRow
<1> QED BY <1>1, <1>2, <1>7, <1>9, <1>10, <1>11, <1>12 DEF RunningInv, Worked

(* An accepted row. *)
LEMMA AcceptWorks ==
    ASSUME LinesInv, RunningInv, AcceptRow
    PROVE  RunningInv'
<1> DEFINE d == Append(disk["events"], Line)
<1>1. /\ job # None /\ job' = job /\ UNCHANGED whole
      /\ types' = [types EXCEPT ![Row.type] = @ + 1]
      /\ counters' = Add(counters, {"total", "accepted"}
                             \cup (IF Row.fraud THEN {"fraud"} ELSE {})
                             \cup (IF Row.flagged THEN {"flagged"} ELSE {}))
      /\ disk'["events"] = d /\ disk'["labels"] = Append(disk["labels"], Line)
      /\ disk'["rejected"] = disk["rejected"]
  BY DEF AcceptRow, Append1, LinesInv, PrepTypeOK, Streams
<1>2. ~whole /\ Worked(disk, job, counters, types)
  BY <1>1 DEF RunningInv
<1>3. /\ disk["events"] \in Seq(Lines) /\ Line \in Lines
      /\ RowOf(Line) = Row /\ Line.job = job /\ Line.row = counters["total"] + 1
      /\ counters \in [CounterNames -> Nat] /\ types \in [NativeTypes -> Nat]
      /\ disk["labels"] = disk["events"]
  BY <1>1, <1>2, AtWork DEF Streams, RowOf, Line, Row, Worked, LinesInv, PrepTypeOK
<1>4. LinesInv'
  BY AcceptKeeps
<1>5. CountersAgree'
  BY <1>4 DEF LinesInv
<1>6. /\ \A f \in Streams : disk'[f] \in Seq(Lines)
      /\ \A f \in Streams : \A i \in DOMAIN disk'[f] : disk'[f][i].job = job'
      /\ Len(disk'["events"]) = counters'["accepted"]
      /\ Len(disk'["rejected"]) = counters'["rejected"]
      /\ counters'["total"] = counters'["accepted"] + counters'["rejected"]
  BY <1>1, <1>5 DEF CountersAgree
<1>7. /\ \A i \in DOMAIN disk["events"] : i \in DOMAIN d /\ d[i] = disk["events"][i]
      /\ Len(disk["events"]) + 1 \in DOMAIN d /\ d[Len(disk["events"]) + 1] = Line
  BY <1>3, AppendProperties, LenProperties
<1>8. /\ counters'["total"] = counters["total"] + 1 /\ counters["total"] \in Nat
      /\ \A f \in {"fraud", "flagged"} :
            counters'[f] = counters[f] + (IF Row[f] THEN 1 ELSE 0)
  BY <1>1, <1>3 DEF Add, CounterNames
<1>9. \A t \in NativeTypes : types'[t] = types[t] + (IF Row.type = t THEN 1 ELSE 0)
  BY <1>1, <1>3
<1>10. /\ \A f \in {"fraud", "flagged"} : counters'[f] = WithFlag(disk'["labels"], f)
       /\ \A t \in NativeTypes : types'[t] = WithType(disk'["events"], t)
  <2>1. /\ \A f \in {"fraud", "flagged"} :
              WithFlag(d, f) = WithFlag(disk["events"], f) + (IF Row[f] THEN 1 ELSE 0)
        /\ \A t \in NativeTypes :
              WithType(d, t) = WithType(disk["events"], t)
                                  + (IF Row.type = t THEN 1 ELSE 0)
    <3>1. LineCounts(disk["events"], Line, d)
      BY <1>3, LineCounted
    <3> HIDE DEF d
    <3> QED BY <1>3, <3>1 DEF LineCounts
  <2>2. /\ \A f \in {"fraud", "flagged"} : counters[f] = WithFlag(disk["events"], f)
        /\ \A t \in NativeTypes : types[t] = WithType(disk["events"], t)
    BY <1>2, <1>3 DEF Worked
  <2> HIDE DEF d
  <2> QED BY <1>1, <1>3, <1>8, <1>9, <2>1, <2>2 DEF d
<1>11. ASSUME NEW n \in Accepted(job'), n <= counters'["total"]
       PROVE  \E i \in DOMAIN disk'["events"] : disk'["events"][i].row = n
  <2>1. n \in Nat /\ n \in Accepted(job)
    BY <1>1, <1>11 DEF Accepted
  <2> HIDE DEF d
  <2>2. CASE n = counters["total"] + 1
    BY <1>1, <1>3, <1>7, <2>2
  <2>3. CASE n <= counters["total"]
    <3>1. PICK i \in DOMAIN disk["events"] : disk["events"][i].row = n
      BY <1>2, <2>1, <2>3 DEF Worked
    <3> QED BY <1>1, <1>7, <3>1
  <2> QED BY <1>8, <1>11, <2>1, <2>2, <2>3
<1> HIDE DEF d
<1>12. ASSUME NEW i \in DOMAIN disk'["rejected"]
       PROVE  Verdict(RowOf(disk'["rejected"][i])) \notin {"accepted", "TypeError"}
  BY <1>1, <1>2 DEF Worked
<1>13. job' \in Jobs /\ disk'["labels"] = disk'["events"]
  BY <1>1, <1>2, <1>3 DEF Worked, d
<1>14. counters'["total"] <= LastRow(job')
  BY <1>1, <1>8, RowIsLeft DEF AcceptRow
<1> QED BY <1>1, <1>2, <1>6, <1>10, <1>11, <1>12, <1>13, <1>14 DEF RunningInv, Worked

LEMMA AcceptGapless ==
    ASSUME LinesInv, RunningInv, FilesInv, AcceptRow
    PROVE  FilesInv'
<1> DEFINE s == disk["events"]
           d == Append(s, Line)
<1>1. /\ job # None /\ HasRow /\ Verdict(Row) = "accepted"
      /\ disk'["events"] = d /\ disk'["labels"] = Append(disk["labels"], Line)
  BY DEF AcceptRow, Append1, LinesInv, PrepTypeOK, Streams
<1>2. /\ Worked(disk, job, counters, types)
      /\ disk["labels"] = s /\ job \in Jobs
  BY <1>1 DEF RunningInv, Worked
<1>3. /\ s \in Seq(Lines) /\ Line \in Lines /\ counters["total"] \in Nat
      /\ Len(RowsOf[job.data]) \in Nat /\ job \in JobType
  BY <1>1, AtWork DEF Streams, CounterNames
<1>4. Gapless(s)
  BY <1>3, LineFacts DEF FilesInv
<1>5. /\ DOMAIN s = 1 .. Len(s) /\ Len(s) \in Nat /\ DOMAIN d = 1 .. Len(s) + 1
      /\ \A i \in 1 .. Len(s) : d[i] = s[i]
      /\ d[Len(s) + 1] = Line
  BY <1>3, AppendProperties, LenProperties
<1>6. \A i \in 1 .. Len(s) : s[i].job = job /\ s[i] \in Lines
  BY <1>2, <1>3, <1>5, ElementOfSeq DEF Worked, Streams
<1> HIDE DEF d, s
<1>7. Line.job = job /\ Line.row = counters["total"] + 1
  BY DEF Line
<1>8. Line.row \in Accepted(job)
  <2>1. counters["total"] + 1 \in 1 .. LastRow(job)
    BY <1>1, <1>3 DEF HasRow, LastRow, JobType
  <2> QED BY <1>1, <1>7, <2>1 DEF Accepted, Row
<1>9. ASSUME NEW n \in Accepted(job), n < Line.row
      PROVE  \E k \in 1 .. Len(s) : d[k] = [job |-> job, row |-> n]
  <2>1. n \in Nat /\ n <= counters["total"]
    BY <1>3, <1>7, <1>9 DEF Accepted
  <2>2. PICK k \in 1 .. Len(s) : s[k].row = n
    BY <1>2, <1>5, <2>1 DEF Worked, s
  <2>3. s[k] = [job |-> job, row |-> n]
    BY <1>6, <2>2 DEF Lines
  <2> QED BY <1>5, <2>2, <2>3
<1>10. ASSUME NEW i \in DOMAIN d, d[i] # Torn
       PROVE  /\ d[i].job \in Jobs /\ d[i].row \in Accepted(d[i].job)
              /\ \A n \in Accepted(d[i].job) : n < d[i].row =>
                    \E k \in 1 .. i - 1 : d[k] = [job |-> d[i].job, row |-> n]
  <2>1. CASE i = Len(s) + 1
    BY <1>2, <1>5, <1>7, <1>8, <1>9, <2>1
  <2>2. CASE i \in 1 .. Len(s)
    <3>1. d[i] = s[i] /\ \A k \in 1 .. i - 1 : d[k] = s[k]
      BY <1>5, <2>2
    <3>2. i \in DOMAIN s /\ s[i] # Torn
      BY <1>5, <1>10, <2>2, <3>1
    <3>3. /\ s[i].job \in Jobs /\ s[i].row \in Accepted(s[i].job)
          /\ \A n \in Accepted(s[i].job) : n < s[i].row =>
                \E k \in 1 .. i - 1 : s[k] = [job |-> s[i].job, row |-> n]
      BY <1>4, <3>2 DEF Gapless
    <3> QED BY <3>1, <3>3
  <2> QED BY <1>5, <1>10, <2>1, <2>2
<1>11. Gapless(d)
  BY <1>10 DEF Gapless
<1> QED BY <1>1, <1>2, <1>11 DEF FilesInv, d

(* Every step keeps the files of events and labels without a gap. *)
LEMMA FilesKept ==
    ASSUME PrepInv, Prepare
    PROVE  FilesInv'
<1>1. CASE \E j \in Jobs : Open(j) \/ KilledOpening(j)
  <2>1. /\ DOMAIN disk = Streams \cup {"report"}
        /\ \A f \in Streams : disk'[f] = <<>> \/ disk'[f] = disk[f]
    BY <1>1 DEF Open, KilledOpening, Truncated, PrepInv, LinesInv, PrepTypeOK
  <2>2. Gapless(<<>>)
    BY LineFacts DEF Gapless
  <2>3. \A f \in {"events", "labels"} : disk[f] # None => Gapless(disk[f])
    BY DEF PrepInv, FilesInv
  <2> QED BY <2>1, <2>2, <2>3 DEF FilesInv, Streams
<1>2. CASE RejectRow \/ StopAtRow \/ WriteReport \/ KilledReporting
  <2>1. disk'["events"] = disk["events"] /\ disk'["labels"] = disk["labels"]
    BY <1>2 DEF RejectRow, StopAtRow, WriteReport, KilledReporting, Append1, PrepInv,
       LinesInv, PrepTypeOK, Streams
  <2>2. \A f \in {"events", "labels"} : disk[f] # None => Gapless(disk[f])
    BY DEF PrepInv, FilesInv
  <2> QED BY <2>1, <2>2 DEF FilesInv
<1>3. CASE AcceptRow
  BY <1>3, AcceptGapless DEF PrepInv
<1>4. CASE Killed
  <2>1. /\ job # None /\ LinesInv
        /\ \A f \in {"events", "labels"} : disk'[f] \in Remains(disk[f])
    BY <1>4 DEF Killed, PrepInv, LinesInv, PrepTypeOK, Streams
  <2>2. \A f \in {"events", "labels"} : disk[f] \in Seq(Lines) /\ Gapless(disk[f])
    BY <2>1, AtWork, LineFacts DEF PrepInv, FilesInv, Streams
  <2> QED BY <2>1, <2>2, RemainsGapless DEF FilesInv
<1> QED BY <1>1, <1>2, <1>3, <1>4 DEF Prepare

(* The report that is written is that of the run at work; until another    *)
(* one starts it remains with its files.                                   *)
LEMMA ReportKept ==
    ASSUME PrepInv, Prepare
    PROVE  WrittenInv'
<1>1. CASE \E j \in Jobs : Open(j) \/ KilledOpening(j)
  BY <1>1 DEF Open, KilledOpening, Start, WrittenInv
<1>2. CASE RejectRow \/ StopAtRow \/ AcceptRow \/ Killed \/ KilledReporting
  BY <1>2 DEF RejectRow, StopAtRow, AcceptRow, Killed, KilledReporting, PrepInv,
     RunningInv, WrittenInv
<1>3. CASE WriteReport
  <2>1. /\ job # None /\ ~HasRow
        /\ disk'["report"] = Report(job)
        /\ \A f \in Streams : disk'[f] = disk[f]
    BY <1>3 DEF WriteReport, PrepInv, LinesInv, PrepTypeOK, Streams
  <2>2. /\ Worked(disk, job, counters, types) /\ LinesInv
        /\ job \in JobType /\ counters["total"] \in Nat
        /\ Len(RowsOf[job.data]) \in Nat
    BY <2>1, AtWork DEF PrepInv, RunningInv, CounterNames
  <2>3. LastRow(job) <= counters["total"]
    BY <2>1, <2>2 DEF HasRow, LastRow, JobType
  <2>4. Report(job) \in Reports
    <3>1. /\ job \in Jobs /\ counters \in [CounterNames -> Nat]
          /\ types \in [NativeTypes -> Nat]
      BY <2>1, <2>2 DEF LinesInv, PrepTypeOK
    <3> QED BY <3>1 DEF Report, Reports
  <2>5. Worked(disk', job, counters, types)
    <3>1. /\ disk'["events"] = disk["events"] /\ disk'["labels"] = disk["labels"]
          /\ disk'["rejected"] = disk["rejected"]
      BY <2>1 DEF Streams
    <3>2. \A f \in Streams :
             disk'[f] \in Seq(Lines) /\ \A i \in DOMAIN disk'[f] : disk'[f][i].job = job
      BY <2>1, <2>2 DEF Worked
    <3> QED BY <2>2, <3>1, <3>2 DEF Worked
  <2> QED BY <2>1, <2>3, <2>4, <2>5 DEF WrittenInv, Report
<1> QED BY <1>1, <1>2, <1>3 DEF Prepare

-----------------------------------------------------------------------------
(* The report. *)

LEMMA ReportTold ==
    ASSUME PrepInv, Prepare
    PROVE  ReportInv'
<1>1. CASE disk'["report"] \in {disk["report"], Torn}
  BY <1>1 DEF PrepInv, ReportInv
<1>2. CASE WriteReport
  <2> DEFINE e == disk["events"]
             A == Accepted(job)
             s == [i \in DOMAIN e |-> e[i].row]
             n == Len(e)
  <2>1. /\ job # None /\ ~HasRow /\ disk'["report"] = Report(job)
        /\ LinesInv /\ Worked(disk, job, counters, types) /\ FilesInv
    BY <1>2 DEF WriteReport, PrepInv, RunningInv, LinesInv, PrepTypeOK
  <2>2. /\ e \in Seq(Lines) /\ Rising(e) /\ Gapless(e) /\ n \in Nat
        /\ DOMAIN e = 1 .. n
        /\ \A i \in DOMAIN e : e[i] \in Lines /\ e[i].job = job /\ e[i] # Torn
    <3>1. e \in Seq(Lines) /\ Rising(e) /\ Gapless(e)
      BY <2>1, AtWork, LineFacts DEF Streams, FilesInv
    <3>2. DOMAIN e = 1 .. n /\ n \in Nat
      BY <3>1, LenProperties
    <3>3. \A i \in DOMAIN e : e[i] \in Lines
      BY <3>1, <3>2, ElementOfSeq
    <3> QED BY <2>1, <3>1, <3>2, <3>3, LineFacts DEF Worked, Streams
  <2>3. /\ counters["total"] = LastRow(job) /\ LastRow(job) \in Nat
    BY <2>1, RowIsLeft DEF Worked
  <2>4. Listed(s, A)
    <3>1. \A i \in DOMAIN e : s[i] \in A
      BY <2>2 DEF Gapless
    <3>2. \A x \in A : \E i \in DOMAIN e : s[i] = x
      BY <2>1, <2>3 DEF Worked, Accepted
    <3>3. \A i, k \in DOMAIN s : i < k => s[i] < s[k]
      BY <2>2 DEF Rising
    <3>4. DOMAIN s = DOMAIN e
      OBVIOUS
    <3> HIDE DEF e, s, A
    <3> QED BY <3>1, <3>2, <3>3, <3>4 DEF Listed, Range
  <2>5. A \subseteq Nat /\ DOMAIN s = 1 .. n
    BY <2>2 DEF Accepted
  <2>6. ASSUME NEW t \in NativeTypes
        PROVE  types[t] = Cardinality(OfType(job, t))
    <3> DEFINE T == OfType(job, t)
    <3>1. types[t] = Cardinality({i \in DOMAIN e : RowOf(e[i]).type = t})
      BY <2>1 DEF Worked, WithType
    <3>2. {i \in DOMAIN e : RowOf(e[i]).type = t} = Places(s, n, T)
      <4>1. ASSUME NEW i \in DOMAIN e
            PROVE  RowOf(e[i]).type = t <=> s[i] \in T
        <5>1. s[i] \in A /\ RowOf(e[i]) = RowsOf[job.data][s[i]]
          BY <2>2, <2>4 DEF RowOf, Listed, Range
        <5> QED BY <5>1 DEF OfType, Accepted
      <4> HIDE DEF T, s
      <4> QED BY <2>2, <4>1 DEF Places
    <3>3. T \subseteq A
      BY DEF OfType, Accepted
    <3> HIDE DEF T, s, A, n
    <3>4. Cardinality(Places(s, n, T)) = Cardinality(T)
      BY <2>2, <2>4, <2>5, <3>3, ListedCount
    <3> QED BY <3>1, <3>2, <3>4, Zenon DEF T
  <2>7. Cardinality(A) = n
    <3> HIDE DEF A, s, n
    <3> QED BY <2>2, <2>4, <2>5, ListedAll
  <2>8. Report(job) \in Reports
    <3>1. /\ job \in Jobs /\ counters \in [CounterNames -> Nat]
          /\ types \in [NativeTypes -> Nat]
      BY <2>1 DEF LinesInv, PrepTypeOK
    <3> QED BY <3>1 DEF Report, Reports
  <2>9. /\ counters["accepted"] = n
        /\ counters["total"] = counters["accepted"] + counters["rejected"]
    BY <2>1 DEF Worked
  <2> DEFINE r == disk'["report"]
  <2>10. r \in Reports /\ r.job = job /\ r.counters = counters /\ r.types = types
    BY <2>1, <2>8 DEF Report
  <2>11. /\ r.counters["total"] = LastRow(r.job)
         /\ r.counters["total"] = r.counters["accepted"] + r.counters["rejected"]
         /\ r.counters["accepted"] = Cardinality(Accepted(r.job))
    BY <2>3, <2>7, <2>9, <2>10
  <2>12. \A t \in NativeTypes : r.types[t] = Cardinality(OfType(r.job, t))
    BY <2>6, <2>10
  <2> HIDE DEF A, n
  <2> QED BY <2>10, <2>11, <2>12 DEF ReportInv
<1>3. CASE \E j \in Jobs : Open(j) \/ KilledOpening(j)
  BY <1>1, <1>3 DEF Open, KilledOpening, Truncated, PrepInv, LinesInv, PrepTypeOK, Streams
<1>4. CASE RejectRow \/ StopAtRow \/ AcceptRow \/ Killed \/ KilledReporting
  BY <1>1, <1>4 DEF RejectRow, StopAtRow, AcceptRow, Killed, KilledReporting, Append1,
     PrepInv, LinesInv, PrepTypeOK, Streams
<1> QED BY <1>2, <1>3, <1>4 DEF Prepare

LEMMA WorkKept ==
    ASSUME PrepInv, Prepare
    PROVE  RunningInv'
<1>1. LinesInv /\ RunningInv
  BY DEF PrepInv
<1>2. CASE \E j \in Jobs : KilledOpening(j)
  BY <1>2 DEF KilledOpening, Start, RunningInv
<1>3. CASE StopAtRow \/ WriteReport \/ KilledReporting \/ Killed
  BY <1>3 DEF StopAtRow, WriteReport, KilledReporting, Killed, RunningInv
<1> QED BY <1>1, <1>2, <1>3, StartWorks, RejectWorks, AcceptWorks DEF Prepare

LEMMA LinesKept ==
    ASSUME LinesInv, Prepare
    PROVE  LinesInv'
BY OpenKeeps, KilledOpeningKeeps, RejectKeeps, AcceptKeeps, EndKeeps, KilledKeeps
   DEF Prepare

LEMMA InitPrep == PrepInit => PrepInv
<1> SUFFICES ASSUME PrepInit PROVE PrepInv
  OBVIOUS
<1>1. /\ DOMAIN disk = Streams \cup {"report"}
      /\ \A f \in Streams \cup {"report"} : disk[f] = None
  BY DEF PrepInit
<1>2. PrepTypeOK
  BY <1>1 DEF PrepInit, PrepTypeOK
<1>3. /\ LinesAgree /\ CountersAgree /\ FilesInv /\ RunningInv /\ WrittenInv
      /\ ReportInv
  BY <1>1 DEF PrepInit, LinesAgree, CountersAgree, FilesInv, RunningInv, WrittenInv,
     ReportInv, Streams
<1> QED BY <1>2, <1>3 DEF PrepInv, LinesInv

LEMMA PrepKept == PrepInv /\ [Prepare]_prepVars => PrepInv'
<1> SUFFICES ASSUME PrepInv, [Prepare]_prepVars PROVE PrepInv'
  OBVIOUS
<1>1. CASE UNCHANGED prepVars
  BY <1>1 DEF prepVars, PrepInv, LinesInv, PrepTypeOK, LinesAgree, CountersAgree,
     FilesInv, RunningInv, WrittenInv, ReportInv
<1>2. CASE Prepare
  BY <1>2, LinesKept, FilesKept, WorkKept, ReportKept,
     ReportTold DEF PrepInv
<1> QED BY <1>1, <1>2

(* However often the script is rejected a row, stopped, killed and started *)
(* again over its files, an eventId occurs once and its label is its own;  *)
(* no accepted row is missing before another one; while a run is at work   *)
(* its counters are the lines it has written, and so are those of a whole  *)
(* report.                                                                 *)
THEOREM PreparationHolds == PrepSpec => []PrepInv
BY InitPrep, PrepKept, PTL DEF PrepSpec
-----------------------------------------------------------------------------
(* The use of the prepared files. *)

(* A script that is killed elsewhere does not touch the files. *)
LEMMA KillKeeps ==
    ASSUME PrepInv, Kill, UNCHANGED <<job, counters, types, disk, jobs, whole>>
    PROVE  PrepInv'
<1>1. kills' \in 0 .. MaxKills
  BY DEF Kill, PrepInv, LinesInv, PrepTypeOK
<1> QED BY <1>1 DEF PrepInv, LinesInv, PrepTypeOK, LinesAgree, CountersAgree, FilesInv,
     RunningInv, WrittenInv, ReportInv

LEMMA OutputsKept == PrepInv /\ [OutputsNext]_<<prepVars, sampleVars>> => PrepInv'
<1> SUFFICES ASSUME PrepInv, [OutputsNext]_<<prepVars, sampleVars>> PROVE PrepInv'
  OBVIOUS
<1>1. CASE Prepare
  BY <1>1, PrepKept
<1>2. CASE UNCHANGED prepVars
  BY <1>2, PrepKept
<1>3. CASE KilledWriting
  BY <1>3, KillKeeps DEF KilledWriting
<1> QED BY <1>1, <1>2, <1>3 DEF OutputsNext, Validate, Generate, WriteSample, sampleVars

(* The verdict on a row is that of the first check it fails. *)
LEMMA VerdictFacts ==
    ASSUME NEW r
    PROVE  /\ Verdict(r) = "accepted" => r.type \in DOMAIN TypeMapping
           /\ Verdict(r) \in {"accepted", "TypeError"} \cup ValidRejectReasons
                             \/ Unmapped(r)
           /\ Verdict(r) = "accepted" \/ \E i \in DOMAIN Checks : Verdict(r) = Checks[i].verdict
<1> DEFINE F == Failing(r)
<1>1. F \subseteq 1 .. 9 /\ DOMAIN Checks = 1 .. 9
  BY DEF Failing, Checks
<1>2. ASSUME NEW i \in 1 .. 9
      PROVE  /\ Checks[i].verdict # "accepted"
             /\ Checks[i].verdict \in {"TypeError", "UNSUPPORTED_NATIVE_TYPE:DEBIT"}
                                      \cup ValidRejectReasons
  BY DEF Checks, Check, ValidRejectReasons
<1>3. F # {} => \E i \in F : \A k \in F : i <= k
  <2>1. ASSUME NEW n \in F, \A m \in 1 .. 9 : m < n => m \notin F
        PROVE  \E i \in F : \A k \in F : i <= k
    <3>1. ASSUME NEW k \in F
          PROVE  n <= k
      <4>1. n \in 1 .. 9 /\ k \in 1 .. 9
        BY <1>1
      <4> QED BY <2>1, <4>1
    <3> QED BY <3>1
  <2>2. F # {} => \/ 1 \in F \/ 2 \in F \/ 3 \in F \/ 4 \in F \/ 5 \in F
                   \/ 6 \in F \/ 7 \in F \/ 8 \in F \/ 9 \in F
    BY <1>1
  <2> HIDE DEF F
  <2>3. F # {} => \E n \in F : \A m \in 1 .. 9 : m < n => m \notin F
    BY <2>2
  <2> QED BY <2>1, <2>3
<1>4. CASE F = {}
  <2>1. Verdict(r) = "accepted"
    BY <1>4 DEF Verdict
  <2>2. Checks[2].flaw = "type" /\ Checks[3].flaw = "unmapped"
    BY DEF Checks, Check
  <2>3. "type" \notin FlawsOf(r) /\ "unmapped" \notin FlawsOf(r)
    BY <1>1, <1>4, <2>2 DEF Failing
  <2>4. r.type \in NativeTypes /\ r.type \notin NativeTypes \ DOMAIN TypeMapping
    BY <2>3 DEF FlawsOf
  <2> QED BY <2>1, <2>4
<1>5. CASE F # {}
  <2>1. PICK i \in F : Verdict(r) = Checks[i].verdict
    BY <1>3, <1>5 DEF Verdict
  <2> HIDE DEF F
  <2> QED BY <1>1, <1>2, <2>1 DEF Unmapped
<1> QED BY <1>4, <1>5

LEMMA VerdictIsReason ==
    ASSUME NEW r, Verdict(r) \notin {"accepted", "TypeError"}
    PROVE  Verdict(r) \in Reasons
BY VerdictFacts DEF Reasons

(* The files of a validated output: two files of the same lines. *)
LEMMA ValidatedFiles ==
    ASSUME PrepInv, Validates(FALSE)
    PROVE  /\ disk["events"] = disk["labels"]
           /\ disk["events"] \in Seq(Lines \cup {Torn})
           /\ \A i \in DOMAIN disk["events"] : disk["events"][i] # Torn
           /\ Rising(disk["events"]) /\ Gapless(disk["events"])
           /\ disk["report"] \in Reports
<1> DEFINE e == disk["events"]
           l == disk["labels"]
<1>1. /\ e \in Seq(Lines \cup {Torn}) /\ l \in Seq(Lines \cup {Torn})
      /\ Rising(e) /\ Gapless(e) /\ Agree(e, l)
      /\ disk["report"] \in Reports
  <2>1. \A f \in Streams \cup {"report"} : disk[f] # None
    BY DEF Validates, Present, PrepInv, LinesInv, PrepTypeOK
  <2>2. disk["report"] # Torn
    BY DEF Validates, ValidateReport
  <2> QED BY <2>1, <2>2 DEF PrepInv, LinesInv, PrepTypeOK, LinesAgree, FilesInv, Streams
<1>2. /\ \A i \in DOMAIN e : e[i] # Torn
      /\ \A i \in DOMAIN l : l[i] # Torn
  BY DEF Validates, ValidateEvents, ValidateLabels, Parses, Range
<1>3. Len(e) = Len(l)
  BY DEF Validates, ValidateReport, ValidateCounts
<1>4. DOMAIN e = 1 .. Len(e) /\ DOMAIN l = 1 .. Len(l) /\ Len(e) \in Nat
  BY <1>1, LenProperties
<1>5. \A i \in 1 .. Len(e) : e[i] = l[i]
  BY <1>1, <1>2, <1>3, <1>4 DEF Agree
<1> HIDE DEF e, l
<1>6. e = l
  BY <1>1, <1>3, <1>5, SeqEqual
<1> QED BY <1>1, <1>2, <1>6 DEF e, l

(* Without a gap, the first line's job is that of all of them. *)
LEMMA OneRun ==
    ASSUME PrepInv, Validates(FALSE)
    PROVE  \E j \in Jobs :
              /\ \A l \in Range(disk["events"]) : l.job = j
              /\ \A n \in Accepted(j), m \in EventIds(disk["events"]) :
                     n < m => n \in EventIds(disk["events"])
<1> DEFINE e == disk["events"]
<1>1. /\ e \in Seq(Lines \cup {Torn}) /\ \A i \in DOMAIN e : e[i] # Torn
      /\ Rising(e) /\ Gapless(e) /\ disk["report"] \in Reports
  BY ValidatedFiles
<1>2. DOMAIN e = 1 .. Len(e) /\ Len(e) \in Nat
  BY <1>1, LenProperties
<1> HIDE DEF e
<1>3. CASE Len(e) = 0
  <2>1. Range(e) = {} /\ EventIds(e) = {}
    BY <1>2, <1>3 DEF Range, EventIds
  <2>2. disk["report"].job \in Jobs
    BY <1>1 DEF Reports
  <2> QED BY <2>1, <2>2 DEF e
<1>4. CASE Len(e) # 0
  <2> DEFINE j == e[1].job
  <2>1. 1 \in DOMAIN e /\ j \in Jobs
    BY <1>1, <1>2, <1>4 DEF Gapless
  <2>2. \A i \in DOMAIN e : e[i].job = j
    <3>1. ASSUME NEW i \in DOMAIN e, i # 1
          PROVE  e[i].job = j
      <4>1. 1 < i
        BY <1>2, <3>1
      <4> QED BY <1>1, <2>1, <3>1, <4>1 DEF Rising
    <3> QED BY <3>1
  <2> HIDE DEF j
  <2>3. \A l \in Range(e) : l.job = j
    BY <2>2 DEF Range
  <2>4. ASSUME NEW n \in Accepted(j), NEW m \in EventIds(e), n < m
        PROVE  n \in EventIds(e)
    <3>1. PICK i \in DOMAIN e : m = e[i].row
      BY <2>4 DEF EventIds, Range
    <3>2. PICK k \in 1 .. i - 1 : e[k] = [job |-> j, row |-> n]
      BY <1>1, <2>2, <2>4, <3>1 DEF Gapless
    <3>3. k \in DOMAIN e
      BY <1>2, <3>1, <3>2
    <3> QED BY <3>2, <3>3 DEF EventIds, Range
  <2> QED BY <2>1, <2>3, <2>4 DEF e
<1> QED BY <1>3, <1>4

(* With the report of its run, the output is all of the rows it accepts.   *)
LEMMA WholeRun ==
    ASSUME PrepInv, whole, disk["report"] # None
    PROVE  LET j == disk["report"].job IN
           /\ \A l \in Range(disk["events"]) \cup Range(disk["rejected"]) : l.job = j
           /\ EventIds(disk["events"]) = Accepted(j)
<1> DEFINE e == disk["events"]
           r == disk["report"]
<1>1. /\ Worked(disk, r.job, r.counters, r.types)
      /\ LastRow(r.job) <= r.counters["total"] /\ r \in Reports
  BY DEF PrepInv, WrittenInv
<1>2. \A f \in {"events", "rejected"} : \A l \in Range(disk[f]) : l.job = r.job
  BY <1>1 DEF Worked, Streams, Range
<1>3. Gapless(e) /\ e \in Seq(Lines) /\ \A i \in DOMAIN e : e[i].job = r.job
  BY <1>1, LineFacts DEF Worked, PrepInv, FilesInv, Streams
<1>4. \A i \in DOMAIN e : e[i] # Torn
  <2>1. DOMAIN e = 1 .. Len(e)
    BY <1>3, LenProperties
  <2> QED BY <1>3, <2>1, ElementOfSeq, LineFacts
<1>5. LastRow(r.job) \in Nat /\ r.counters["total"] \in Nat
  <2>1. r.job \in JobType /\ r.counters \in [CounterNames -> Nat]
    BY <1>1 DEF Reports
  <2>2. Len(RowsOf[r.job.data]) \in Nat
    BY <2>1, LenProperties DEF JobType
  <2> QED BY <2>1, <2>2 DEF LastRow, JobType, CounterNames
<1> HIDE DEF e, r
<1>6. ASSUME NEW n \in Accepted(r.job)
      PROVE  n \in EventIds(e)
  <2>1. n <= r.counters["total"]
    BY <1>1, <1>5, <1>6 DEF Accepted
  <2>2. PICK i \in DOMAIN e : e[i].row = n
    BY <1>1, <1>6, <2>1 DEF Worked, e
  <2> QED BY <2>2 DEF EventIds, Range
<1>7. ASSUME NEW n \in EventIds(e)
      PROVE  n \in Accepted(r.job)
  <2>1. PICK i \in DOMAIN e : e[i].row = n
    BY <1>7 DEF EventIds, Range
  <2> QED BY <1>3, <1>4, <2>1 DEF Gapless
<1> QED BY <1>2, <1>6, <1>7 DEF e, r


(* What the validation of a whole output comes down to. *)
LEMMA WholeFiles ==
    ASSUME PrepInv, whole, disk["report"] # None
    PROVE  /\ \A f \in Streams : disk[f] \in Seq(Lines)
           /\ \A f \in Streams : DOMAIN disk[f] = 1 .. Len(disk[f])
                                    /\ \A i \in DOMAIN disk[f] : disk[f][i] \in Lines
           /\ disk["labels"] = disk["events"]
           /\ disk["report"] \in Reports
           /\ Worked(disk, disk["report"].job, disk["report"].counters,
                     disk["report"].types)
           /\ Rising(disk["events"]) /\ Gapless(disk["events"])
<1>1. /\ Worked(disk, disk["report"].job, disk["report"].counters, disk["report"].types)
      /\ disk["report"] \in Reports
  BY DEF PrepInv, WrittenInv
<1>2. /\ \A f \in Streams : disk[f] \in Seq(Lines)
      /\ disk["labels"] = disk["events"]
  BY <1>1 DEF Worked
<1>3. Rising(disk["events"]) /\ Gapless(disk["events"])
  BY <1>2, LineFacts DEF PrepInv, LinesInv, LinesAgree, FilesInv, Streams
<1>4. ASSUME NEW f \in Streams
      PROVE  /\ DOMAIN disk[f] = 1 .. Len(disk[f])
             /\ \A i \in DOMAIN disk[f] : disk[f][i] \in Lines
  <2>1. DOMAIN disk[f] = 1 .. Len(disk[f])
    BY <1>2, LenProperties
  <2> QED BY <1>2, <2>1, ElementOfSeq
<1> QED BY <1>1, <1>2, <1>3, <1>4

(* The lines of a whole output are well-formed, its ids are unique and     *)
(* those of the labels are those of the events.                            *)
LEMMA WholeIds ==
    ASSUME PrepInv, whole, disk["report"] # None
    PROVE  /\ Present
           /\ \A f \in Streams : Parses(f)
           /\ IsInjective([i \in DOMAIN disk["events"] |-> disk["events"][i].row])
           /\ ValidateLabels
<1> DEFINE e == disk["events"]
<1>1. /\ \A f \in Streams : disk[f] \in Seq(Lines)
      /\ \A f \in Streams : \A i \in DOMAIN disk[f] : disk[f][i] \in Lines
      /\ DOMAIN e = 1 .. Len(e) /\ disk["labels"] = e /\ Rising(e)
  BY WholeFiles DEF Streams
<1>2. Present
  BY <1>1, LineFacts DEF Present, PrepInv, LinesInv, PrepTypeOK
<1>3. \A f \in Streams : Parses(f)
  BY <1>1, LineFacts DEF Parses, Range
<1>4. \A i \in DOMAIN e : e[i] # Torn /\ e[i].row \in Nat
  BY <1>1, LineFacts DEF Lines, Streams
<1> HIDE DEF e
<1>5. Len(e) \in Nat
  BY <1>1, LenProperties DEF e, Streams
<1>6. ASSUME NEW i \in DOMAIN e, NEW k \in DOMAIN e, e[i].row = e[k].row
      PROVE  i = k
  <2>1. ~(i < k) /\ ~(k < i)
    BY <1>1, <1>4, <1>6 DEF Rising
  <2> QED BY <1>1, <1>5, <1>6, <2>1
<1>7. IsInjective([i \in DOMAIN e |-> e[i].row])
  BY <1>6 DEF IsInjective
<1> QED BY <1>1, <1>2, <1>3, <1>7 DEF ValidateLabels, Streams, e

(* The type of an event: an accepted row has a normalized type, which is a *)
(* native one for payments and transfers only.                             *)
LEMMA EventTypes ==
    ASSUME PrepInv, whole, disk["report"] # None, NEW i \in DOMAIN disk["events"]
    PROVE  LET l == disk["events"][i] IN
           /\ EventType(l) \in ValidTypes <=> RowOf(l).type \notin {"CASH_OUT", "CASH_IN"}
           /\ EventType(l) \in ValidTypes => EventType(l) = RowOf(l).type
<1> DEFINE l == disk["events"][i]
<1>1. l \in Lines /\ Gapless(disk["events"])
  BY WholeFiles DEF Streams
<1>2. Verdict(RowOf(l)) = "accepted"
  BY <1>1, LineFacts DEF Gapless, Accepted, RowOf
<1> HIDE DEF l
<1>3. RowOf(l).type \in DOMAIN TypeMapping
  BY <1>2, VerdictFacts
<1>4. RowOf(l).type \in {"PAYMENT", "TRANSFER", "CASH_OUT", "CASH_IN"}
  BY <1>3 DEF TypeMapping
<1>5. /\ EventType(l) \in ValidTypes <=> RowOf(l).type \notin {"CASH_OUT", "CASH_IN"}
      /\ EventType(l) \in ValidTypes => EventType(l) = RowOf(l).type
  BY <1>4 DEF EventType, TypeMapping, ValidTypes, NativeTypes
<1> QED BY <1>5 DEF l

NativeEvents ==
    \A l \in Range(disk["events"]) : RowOf(l).type \notin {"CASH_OUT", "CASH_IN"}

LEMMA EventsVerdict ==
    ASSUME PrepInv, whole, disk["report"] # None
    PROVE  ValidateEvents <=> NativeEvents
<1>1. /\ Parses("events")
      /\ IsInjective([i \in DOMAIN disk["events"] |-> disk["events"][i].row])
  BY WholeIds DEF Streams
<1>2. (\A l \in Range(disk["events"]) : EventType(l) \in ValidTypes) <=> NativeEvents
  <2> DEFINE e == disk["events"]
  <2>1. \A i \in DOMAIN e : EventType(e[i]) \in ValidTypes
                               <=> RowOf(e[i]).type \notin {"CASH_OUT", "CASH_IN"}
    BY EventTypes
  <2> HIDE DEF e
  <2> QED BY <2>1 DEF NativeEvents, Range, e
<1> QED BY <1>1, <1>2 DEF ValidateEvents

LEMMA RejectedVerdict ==
    ASSUME PrepInv, whole, disk["report"] # None
    PROVE  ValidateRejected <=> \A l \in Range(disk["rejected"]) :
                                   ~Unmapped(RowOf(l)) /\ ~ShowsIdentifier(l)
<1>1. Parses("rejected")
  BY WholeIds DEF Streams
<1>2. \A i \in DOMAIN disk["rejected"] :
         Verdict(RowOf(disk["rejected"][i])) \notin {"accepted", "TypeError"}
  BY WholeFiles DEF Worked
<1>3. ASSUME NEW l \in Range(disk["rejected"])
      PROVE  Verdict(RowOf(l)) \in ValidRejectReasons <=> ~Unmapped(RowOf(l))
  <2>1. Verdict(RowOf(l)) \notin {"accepted", "TypeError"}
    BY <1>2 DEF Range
  <2>2. \/ Verdict(RowOf(l)) \in ValidRejectReasons
        \/ Unmapped(RowOf(l))
    BY <2>1, VerdictFacts
  <2> QED BY <2>2 DEF Unmapped, ValidRejectReasons
<1> QED BY <1>1, <1>3 DEF ValidateRejected

LEMMA ReportVerdict ==
    ASSUME PrepInv, whole, disk["report"] # None, NEW strict \in BOOLEAN, NativeEvents
    PROVE  LET c == disk["report"].counters IN
           ValidateReport(strict) <=>
               /\ disk["report"].job.odd = {}
               /\ strict => disk["report"].job.salt # "default-local"
               /\ c["total"] # 0
               /\ ~(100 * c["rejected"] > MaxRejects * c["total"])
<1> DEFINE r == disk["report"]
           e == disk["events"]
<1>1. /\ r \in Reports /\ Worked(disk, r.job, r.counters, r.types)
      /\ disk["labels"] = e /\ \A i \in DOMAIN e : e[i] \in Lines
  BY WholeFiles DEF Streams
<1>2. r.counters \in [CounterNames -> Nat] /\ disk["report"] # Torn
  <2>1. r # Torn
    BY <1>1, ReportAssumption
  <2> QED BY <1>1, <2>1 DEF Reports
<1>3. /\ r.counters["accepted"] = Len(e)
      /\ r.counters["rejected"] = Len(disk["rejected"])
      /\ r.counters["total"] = r.counters["accepted"] + r.counters["rejected"]
      /\ r.counters["fraud"] = CountLines("labels", "fraud")
      /\ r.counters["flagged"] = CountLines("labels", "flagged")
      /\ Len(disk["labels"]) = r.counters["accepted"]
  BY <1>1 DEF Worked, CountLines, WithFlag
<1>4. ValidateTypeCounts(r.types)
  <2>1. \A i \in DOMAIN e : EventType(e[i]) = RowOf(e[i]).type
    BY EventTypes DEF NativeEvents, Range
  <2> HIDE DEF e
  <2>2. ASSUME NEW t \in ValidTypes
        PROVE  r.types[t] = Cardinality({i \in DOMAIN e : EventType(e[i]) = t})
    <3>1. r.types[t] = Cardinality({i \in DOMAIN e : RowOf(e[i]).type = t})
      BY <1>1 DEF Worked, WithType, ValidTypes, e
    <3>2. {i \in DOMAIN e : RowOf(e[i]).type = t} = {i \in DOMAIN e : EventType(e[i]) = t}
      BY <2>1
    <3> QED BY <3>1, <3>2, Zenon
  <2> QED BY <2>2, Zenon DEF ValidateTypeCounts, e
<1> HIDE DEF r, e
<1>5. ValidateCounts(r.counters) <=>
          /\ r.counters["total"] # 0
          /\ ~(100 * r.counters["rejected"] > MaxRejects * r.counters["total"])
  <2>1. r.counters["rejected"] \in Nat /\ r.counters["total"] \in Nat
    BY <1>2 DEF CounterNames
  <2>2. \A x, y \in Nat : x <= y <=> ~(x > y)
    OBVIOUS
  <2>3. MaxRejects \in Nat
    BY OutputsAssumption
  <2>4. \A a, b, m \in Nat : 100 * a \in Nat /\ m * b \in Nat
    OBVIOUS
  <2>5. 100 * r.counters["rejected"] <= MaxRejects * r.counters["total"]
           <=> ~(100 * r.counters["rejected"] > MaxRejects * r.counters["total"])
    <3> DEFINE x == 100 * r.counters["rejected"]
               y == MaxRejects * r.counters["total"]
    <3>1. x \in Nat /\ y \in Nat
      BY <2>1, <2>3, <2>4
    <3> HIDE DEF x, y
    <3>2. x <= y <=> ~(x > y)
      BY <2>2, <3>1
    <3> QED BY <3>2 DEF x, y
  <2> QED BY <1>3, <2>5, Zenon DEF ValidateCounts, e
<1> QED BY <1>2, <1>3, <1>4, <1>5 DEF ValidateReport, r
-----------------------------------------------------------------------------
(* The sample. *)

(* A file that parses, of lines with different ids. *)
LEMMA FilesOfLines ==
    ASSUME PrepInv, NEW f \in Streams, disk[f] # None, Parses(f)
    PROVE  IsFile(disk[f])
<1> DEFINE s == disk[f]
<1>1. s \in Seq(Lines \cup {Torn}) /\ Rising(s)
  BY DEF PrepInv, LinesInv, PrepTypeOK, LinesAgree
<1>2. DOMAIN s = 1 .. Len(s) /\ Len(s) \in Nat
  BY <1>1, LenProperties
<1>3. \A i \in DOMAIN s : s[i] # Torn
  BY DEF Parses, Range
<1> HIDE DEF s
<1>4. \A i \in 1 .. Len(s) : s[i] \in Lines
  BY <1>1, <1>2, <1>3, ElementOfSeq
<1>5. s \in Seq(Lines)
  <2>1. s \in [1 .. Len(s) -> Lines]
    BY <1>1, <1>4, LenProperties
  <2> QED BY <1>2, <2>1, IsSequence
<1>6. ASSUME NEW i \in DOMAIN s, NEW k \in DOMAIN s, s[i].row = s[k].row
      PROVE  i = k
  <2>1. s[i].row \in Nat /\ s[k].row \in Nat
    BY <1>2, <1>4 DEF Lines
  <2>2. ~(i < k) /\ ~(k < i)
    BY <1>1, <1>3, <1>6, <2>1 DEF Rising
  <2> QED BY <1>2, <2>2
<1> QED BY <1>5, <1>6 DEF IsFile, s


(* What is generated is a sample: the ids found in both files pick the same *)
(* lines, and with the report of its run these are lines of its job.        *)
LEMMA GeneratedIsSample ==
    ASSUME PrepInv, NEW r \in SampleRequests, Generate(r)
    PROVE  LET events == SelectRows("events", ChooseIds(r))
               labels == SelectRows("labels", ChooseIds(r))
           IN Sampled(events, labels, Manifest(r, labels))
<1> DEFINE e == disk["events"]
           l == disk["labels"]
           ids == ChooseIds(r)
           q == Picked(e, ids)
           n == Cardinality(Chosen(e, ids))
<1>1. r \in SampleRequestType /\ r.size \in Nat
  BY OutputsAssumption DEF SampleRequestType
<1>2. /\ e # None /\ l # None /\ disk["report"] # None
      /\ Parses("events") /\ Parses("labels") /\ ids # <<>>
      /\ EventIds(SelectRows("events", ids)) = EventIds(SelectRows("labels", ids))
  BY DEF Generate, ValidateGenerated
<1>3. IsFile(e) /\ IsFile(l) /\ Agree(e, l)
  BY <1>2, FilesOfLines DEF Streams, PrepInv, LinesInv, LinesAgree
<1>4. /\ ids \in Seq(Nat) /\ Len(ids) <= r.size
      /\ \E f \in {"events", "labels"} : Chosen(disk[f], ids) # {}
  BY <1>1, <1>2, <1>3, ChosenIds
<1>5. SelectRows("events", ids) = Picked(e, ids) /\ SelectRows("labels", ids) = Picked(l, ids)
  BY SelectIsPicked
<1> HIDE DEF ids, e, l
<1>6. Chosen(e, ids) = Chosen(l, ids) /\ Picked(e, ids) = Picked(l, ids)
  BY <1>2, <1>3, <1>4, <1>5, PickedAgree
<1>7. Chosen(e, ids) # {}
  BY <1>4, <1>6 DEF e, l
<1>8. /\ q \in Seq(Lines) /\ Len(q) = n /\ n <= Len(ids)
      /\ Range(q) = {e[i] : i \in Chosen(e, ids)}
      /\ \A i, k \in DOMAIN q : q[i] = q[k] => i = k
  BY <1>3, <1>4, PickedFacts
<1> HIDE DEF q, n
<1>9. DOMAIN q = 1 .. Len(q) /\ Len(q) \in Nat /\ Len(ids) \in Nat
  BY <1>4, <1>8, LenProperties
<1>10. Len(q) \in 1 .. r.size
  <2>1. PICK i \in Chosen(e, ids) : TRUE
    BY <1>7
  <2>2. PICK k \in DOMAIN q : q[k] = e[i]
    BY <1>8 DEF Range
  <2>3. Len(q) # 0
    BY <1>9, <2>2
  <2> QED BY <1>1, <1>4, <1>8, <1>9, <2>3
<1>11. Cardinality({i \in DOMAIN q : RowOf(q[i]).fraud})
         = Cardinality({x \in Range(q) : RowOf(x).fraud})
  BY <1>8, <1>9, NumbersUpTo, FraudLines
<1>12. whole => \A x \in Range(q) : x.job = disk["report"].job
  <2>1. Range(q) \subseteq Range(e)
    BY <1>8 DEF Chosen, Range
  <2>2. whole => \A x \in Range(e) : x.job = disk["report"].job
    BY <1>2, WholeRun DEF e
  <2> QED BY <2>1, <2>2
<1> DEFINE m == Manifest(r, q)
<1>13. /\ m.sampleLabels = Len(q) /\ m.size = r.size /\ m.whole = whole
       /\ m.source = disk["report"].job
       /\ m.sampleFraudRows = Cardinality({i \in DOMAIN q : RowOf(q[i]).fraud})
  BY DEF Manifest
<1> HIDE DEF m
<1>14. Sampled(q, q, m)
  BY <1>10, <1>11, <1>12, <1>13 DEF Sampled
<1> QED BY <1>5, <1>6, <1>14 DEF q, m, ids

LEMMA SampleStays ==
    ASSUME SampleInv, UNCHANGED sampleVars
    PROVE  SampleInv'
BY DEF SampleInv, SamplingInv, SampleIsTrue, sampleVars

LEMMA SampleKept ==
    ASSUME PrepInv, SampleInv, [OutputsNext]_<<prepVars, sampleVars>>
    PROVE  SampleInv'
<1>1. CASE UNCHANGED <<sampling, sample, sampleWhole>>
  BY <1>1 DEF SampleInv, SamplingInv, SampleIsTrue
<1>2. ASSUME NEW r \in SampleRequests, Generate(r)
      PROVE  SampleInv'
  <2> DEFINE ids == ChooseIds(r)
             events == SelectRows("events", ids)
             labels == SelectRows("labels", ids)
  <2>1. Sampled(events, labels, Manifest(r, labels))
    BY <1>2, GeneratedIsSample
  <2>2. /\ sampling' = [todo |-> <<"events", "labels", "manifest">>,
                        events |-> events, labels |-> labels,
                        manifest |-> Manifest(r, labels)]
        /\ ~sampleWhole' /\ sample' = sample
    BY <1>2 DEF Generate
  <2> HIDE DEF events, labels
  <2>3. /\ DOMAIN sampling' = {"todo", "events", "labels", "manifest"}
        /\ sampling'.events = events /\ sampling'.labels = labels
        /\ sampling'.manifest = Manifest(r, labels)
        /\ sampling'.todo = <<"events", "labels", "manifest">>
    BY <2>2
  <2> QED BY <2>1, <2>2, <2>3 DEF SampleInv, SamplingInv, SampleIsTrue
<1>3. CASE WriteSample
  <2> DEFINE f == Head(sampling.todo)
  <2>1. /\ sampling # None /\ sample' = [sample EXCEPT ![f] = sampling[f]]
        /\ DOMAIN sample = SampleFiles
        /\ DOMAIN sampling = {"todo", "events", "labels", "manifest"}
        /\ Sampled(sampling.events, sampling.labels, sampling.manifest)
        /\ ~sampleWhole
        /\ Len(sampling.todo) = 1 => sampling' = None
        /\ Len(sampling.todo) # 1 =>
              sampling' = [sampling EXCEPT !.todo = Tail(sampling.todo)] /\ ~sampleWhole'
    BY <1>3 DEF WriteSample, SampleInv, SamplingInv
  <2>2. CASE sampling.todo = <<"events", "labels", "manifest">>
    <3>1. f = "events" /\ Len(sampling.todo) # 1 /\ Tail(sampling.todo) = <<"labels", "manifest">>
      BY <2>2
    <3>2. sampling' = [sampling EXCEPT !.todo = <<"labels", "manifest">>] /\ ~sampleWhole'
      BY <2>1, <3>1, Zenon
    <3>3. /\ DOMAIN sampling' = {"todo", "events", "labels", "manifest"}
          /\ sampling'.todo = <<"labels", "manifest">>
          /\ sampling'.events = sampling.events /\ sampling'.labels = sampling.labels
          /\ sampling'.manifest = sampling.manifest
      BY <2>1, <3>2
    <3>4. DOMAIN sample' = SampleFiles /\ sample'["events"] = sampling.events
      BY <2>1, <3>1 DEF SampleFiles
    <3> QED BY <2>1, <3>2, <3>3, <3>4 DEF SampleInv, SamplingInv, SampleIsTrue
  <2>3. CASE /\ sampling.todo = <<"labels", "manifest">>
             /\ sample["events"] = sampling.events
    <3>1. f = "labels" /\ Len(sampling.todo) # 1 /\ Tail(sampling.todo) = <<"manifest">>
      BY <2>3
    <3>2. sampling' = [sampling EXCEPT !.todo = <<"manifest">>] /\ ~sampleWhole'
      BY <2>1, <3>1, Zenon
    <3>3. /\ DOMAIN sampling' = {"todo", "events", "labels", "manifest"}
          /\ sampling'.todo = <<"manifest">>
          /\ sampling'.events = sampling.events /\ sampling'.labels = sampling.labels
          /\ sampling'.manifest = sampling.manifest
      BY <2>1, <3>2
    <3>4. /\ DOMAIN sample' = SampleFiles /\ sample'["labels"] = sampling.labels
          /\ sample'["events"] = sampling.events
      BY <2>1, <2>3, <3>1 DEF SampleFiles
    <3> QED BY <2>1, <3>2, <3>3, <3>4 DEF SampleInv, SamplingInv, SampleIsTrue
  <2>4. CASE /\ sampling.todo = <<"manifest">>
             /\ sample["events"] = sampling.events
             /\ sample["labels"] = sampling.labels
    <3>1. f = "manifest" /\ Len(sampling.todo) = 1
      BY <2>4
    <3>2. sampling' = None
      BY <2>1, <3>1, Zenon
    <3>3. /\ DOMAIN sample' = SampleFiles /\ sample'["manifest"] = sampling.manifest
          /\ sample'["events"] = sampling.events /\ sample'["labels"] = sampling.labels
      BY <2>1, <2>4, <3>1 DEF SampleFiles
    <3> QED BY <2>1, <3>2, <3>3 DEF SampleInv, SamplingInv, SampleIsTrue
  <2> QED BY <2>1, <2>2, <2>3, <2>4 DEF SampleInv, SamplingInv
<1>4. CASE KilledWriting
  <2>1. /\ sampling' = None /\ ~sampleWhole'
        /\ DOMAIN sample' = DOMAIN sample
    BY <1>4 DEF KilledWriting, SampleInv, SamplingInv
  <2> QED BY <2>1 DEF SampleInv, SamplingInv, SampleIsTrue
<1> QED BY <1>1, <1>2, <1>3, <1>4 DEF OutputsNext, Validate, sampleVars

-----------------------------------------------------------------------------
(* The profile: what was made of all the accepted rows is right. *)

TallyNames == {"total", "accepted", "rejected", "fraud"}

(* The profile was made of a table with the rows its command line accepts. *)
Made ==
    LET j == profile.job IN
    /\ j \in ProfileJobs
    /\ profile.tally \in [TallyNames -> Nat]
    /\ profile.tally["total"] = LastRow(j)
    /\ profile.tally["total"] = profile.tally["accepted"] + profile.tally["rejected"]
    /\ SumOf(profile.reasons, Reasons) = profile.tally["rejected"]
    /\ \E s : /\ DOMAIN s = 1 .. profile.tally["accepted"]
              /\ Listed(s, Accepted(j))
              /\ profile.aggregates = Aggregates(j.data, s)

LEMMA MadeIsRight ==
    ASSUME Made
    PROVE  ProfileInv /\ CountsAgree /\ SumsAgree
<1> DEFINE j == profile.job
           a == profile.aggregates
           n == profile.tally["accepted"]
           S == Accepted(j)
           f == UserOf(j.data, S)
           g == UserStepOf(j.data, S)
           h == StepOf(j.data, S)
<1>1. /\ j \in ProfileJobs /\ profile.tally \in [TallyNames -> Nat]
      /\ n \in Nat /\ profile.tally["rejected"] \in Nat
      /\ profile.tally["total"] = LastRow(j)
      /\ profile.tally["total"] = n + profile.tally["rejected"]
      /\ SumOf(profile.reasons, Reasons) = profile.tally["rejected"]
  BY DEF Made, TallyNames
<1>2. PICK s : DOMAIN s = 1 .. n /\ Listed(s, S) /\ a = Aggregates(j.data, s)
  BY DEF Made
<1>3. S \in SUBSET Nat /\ IsFiniteSet(S) /\ Cardinality(S) = n
  <2>1. S \in SUBSET Nat
    BY DEF Accepted
  <2> HIDE DEF S, n
  <2> QED BY <1>1, <1>2, <2>1, ListedAll
<1>4. /\ a.users = Cardinality(DOMAIN CountBy(f))
      /\ a.perUser = Quantiles(CountBy(f))
      /\ a.maxPerUser = MaxCount(CountBy(f))
      /\ a.topEvents = TopEvents(CountBy(f))
      /\ a.maxPerUserStep = MaxCount(CountBy(g))
      /\ a.usersWith2 = Cardinality(UsersWith(CountBy(g), 2))
      /\ a.usersWith5 = Cardinality(UsersWith(CountBy(g), 5))
      /\ a.repeated = Repeated(CountBy(f))
      /\ a.types = CountBy(TypeOf(j.data, S))
      /\ a.steps = CountBy(h)
      /\ a.peak = MaxCount(CountBy(h))
  <2>1. a = Aggregates(j.data, s)
    BY <1>2
  <2> HIDE DEF S, n, a
  <2> QED BY <1>1, <1>2, <1>3, <2>1, AggregateFacts
<1>5. /\ DOMAIN f = S /\ DOMAIN g = S /\ DOMAIN h = S
      /\ \A d, e \in S : g[d] = g[e] => f[d] = f[e] /\ h[d] = h[e]
      /\ g = [d \in DOMAIN f |-> <<f[d], h[d]>>]
  BY DEF UserOf, UserStepOf, StepOf
<1> HIDE DEF f, g, h
<1>6. ASSUME NEW t \in NativeTypes
      PROVE  CountOf(a.types, t) = Cardinality(OfType(j, t))
  <2> DEFINE y == TypeOf(j.data, S)
  <2>1. DOMAIN y = S /\ Class(y, t) = OfType(j, t)
    BY DEF TypeOf, Class, OfType, Accepted
  <2>2. t \notin Range(y) => Class(y, t) = {}
    BY DEF Class, Range
  <2> HIDE DEF y, S
  <2>3. DOMAIN CountBy(y) = Range(y) /\ (t \in Range(y) => CountBy(y)[t] = Cardinality(Class(y, t)))
    BY <1>3, <2>1, CountByFacts
  <2>4. a.types = CountBy(y)
    BY <1>4 DEF y
  <2>5. CASE t \in Range(y)
    BY <2>1, <2>3, <2>4, <2>5 DEF CountOf
  <2>6. CASE t \notin Range(y)
    BY <2>1, <2>2, <2>3, <2>4, <2>6, FS_EmptySet DEF CountOf
  <2> QED BY <2>5, <2>6
<1>7. ProfileInv
  BY <1>1, <1>3, <1>6 DEF ProfileInv, TallyNames
<1> DEFINE perUser == [u \in {RowsOf[j.data][d].user : d \in S} |->
                          Cardinality({d \in S : RowsOf[j.data][d].user = u})]
<1>8. perUser = CountBy(f)
  <2>1. {RowsOf[j.data][d].user : d \in S} = Range(f)
    BY DEF f, UserOf, Range
  <2>2. ASSUME NEW u
        PROVE  {d \in S : RowsOf[j.data][d].user = u} = Class(f, u)
    BY DEF f, UserOf, Class
  <2>3. CountBy(f) = [u \in Range(f) |-> Cardinality(Class(f, u))]
    BY DEF CountBy, Class
  <2> QED BY <2>1, <2>2, <2>3
<1>9. ASSUME NEW q \in {50, 95, 99}, S # {}
      PROVE  IsNearestRank(a.perUser[q], q, perUser)
  <2>1. /\ DOMAIN CountBy(f) = Range(f) /\ IsFiniteSet(Range(f)) /\ Range(f) # {}
        /\ MaxCount(CountBy(f)) \in Nat
        /\ \A u \in Range(f) : CountBy(f)[u] \in Nat /\ CountBy(f)[u] <= MaxCount(CountBy(f))
    <3> HIDE DEF S
    <3>1. IsFiniteSet(DOMAIN f) /\ DOMAIN f # {}
      BY <1>3, <1>5, <1>9
    <3> HIDE DEF f
    <3>2. IsFiniteSet(Range(f)) /\ Range(f) # {}
      BY <3>1, RangeFinite
    <3>3. /\ DOMAIN CountBy(f) = Range(f)
          /\ \A u \in Range(f) : CountBy(f)[u] \in Nat
      BY <3>1, CountByFacts
    <3>4. /\ MaxCount(CountBy(f)) \in Nat
          /\ \A u \in Range(f) : CountBy(f)[u] <= MaxCount(CountBy(f))
      BY <3>1, MaxCountFacts
    <3> QED BY <3>2, <3>3, <3>4
  <2>2. IsNearestRank(Quantiles(CountBy(f))[q], q, CountBy(f))
    BY <2>1, NearestRanks
  <2> HIDE DEF perUser, a
  <2> QED BY <1>4, <1>8, <2>2
<1>10. a.maxPerUser >= a.maxPerUserStep /\ a.peak >= a.maxPerUserStep
  <2> HIDE DEF S, a
  <2>1. /\ MaxCount(CountBy(g)) <= MaxCount(CountBy(f))
        /\ MaxCount(CountBy(g)) <= MaxCount(CountBy(h))
    BY <1>3, <1>5, FinerCounts
  <2>2. /\ MaxCount(CountBy(f)) \in Nat /\ MaxCount(CountBy(g)) \in Nat
        /\ MaxCount(CountBy(h)) \in Nat
    BY <1>3, <1>5, MaxCountFacts
  <2> QED BY <1>4, <2>1, <2>2
<1> HIDE DEF S, a, n
<1>11. /\ IsFiniteSet(AtLeast(CountBy(f), 2))
       /\ Cardinality(AtLeast(CountBy(f), 2)) \in Nat
       /\ Repeated(CountBy(f)) \in Nat
       /\ Cardinality(AtLeast(CountBy(f), 2)) <= Repeated(CountBy(f))
       /\ Repeated(CountBy(f)) <= n
       /\ n - Repeated(CountBy(f)) + Cardinality(AtLeast(CountBy(f), 2)) <= Cardinality(Range(f))
  BY <1>3, <1>5, RepeatedFacts
<1>12. /\ UsersWith(CountBy(g), 5) \subseteq UsersWith(CountBy(g), 2)
       /\ UsersWith(CountBy(g), 2) \subseteq AtLeast(CountBy(f), 2)
  BY <1>3, <1>5, UsersWithFacts
<1>13. /\ a.usersWith5 <= a.usersWith2 /\ a.usersWith2 \in Nat
       /\ a.usersWith2 <= Cardinality(AtLeast(CountBy(f), 2))
  BY <1>4, <1>11, <1>12, FS_Subset, FS_CardinalityType
<1>14. DOMAIN CountBy(f) = Range(f) /\ Cardinality(Range(f)) \in Nat
  BY <1>3, <1>5, CountByFacts, RangeFinite
<1>15. CountsAgree
  <2>1. a.users = Cardinality(DOMAIN perUser)
    BY <1>4, <1>8
  <2> HIDE DEF perUser
  <2> QED BY <1>1, <1>3, <1>9, <1>10, <1>13, <2>1 DEF CountsAgree, perUser, a, S, n
<1>16. SumOf(a.steps, DOMAIN a.steps) = n
  BY <1>3, <1>4, <1>5, AllInGroups
<1>17. a.topEvents >= a.maxPerUser
  BY <1>3, <1>4, <1>5, TopEventsFacts
<1>18. a.usersWith2 <= a.repeated /\ n - a.repeated + a.usersWith2 <= a.users
  BY <1>1, <1>4, <1>11, <1>13, <1>14
<1> QED BY <1>1, <1>7, <1>15, <1>16, <1>17, <1>18 DEF SumsAgree, a, n

-----------------------------------------------------------------------------
(* The profile: the table and the batch hold the accepted rows. *)

LEMMA ConcatAppend ==
    ASSUME NEW s \in Seq(Nat), NEW t \in Seq(Nat), NEW x \in Nat
    PROVE  s \o Append(t, x) = Append(s \o t, x)
<1>1. <<x>> \in Seq(Nat) /\ s \o t \in Seq(Nat)
  BY ConcatProperties
<1>2. Append(t, x) = t \o <<x>> /\ Append(s \o t, x) = (s \o t) \o <<x>>
  BY <1>1, AppendIsConcat
<1>3. (s \o t) \o <<x>> = s \o (t \o <<x>>)
  BY <1>1, ConcatAssociative, SMTT(30)
<1> QED BY <1>2, <1>3, Zenon

(* A number after all of those of a list continues it. *)
LEMMA ListedAppend ==
    ASSUME NEW s \in Seq(Nat), NEW S, Listed(s, S), NEW m \in Nat,
           \A x \in S : x < m
    PROVE  Listed(Append(s, m), S \cup {m})
<1> DEFINE e == Append(s, m)
           n == Len(s)
<1>1. /\ n \in Nat /\ DOMAIN s = 1 .. n /\ DOMAIN e = 1 .. n + 1
      /\ \A i \in 1 .. n : e[i] = s[i] /\ s[i] \in Nat /\ s[i] \in S
      /\ e[n + 1] = m
  BY AppendProperties, LenProperties, ElementOfSeq DEF Listed, Range
<1> HIDE DEF e, n
<1>2. Range(e) = S \cup {m}
  <2>1. \A i \in 1 .. n + 1 : e[i] \in S \cup {m}
    BY <1>1
  <2>2. \A x \in S : \E i \in 1 .. n : e[i] = x
    BY <1>1 DEF Listed, Range
  <2>3. e[n + 1] = m /\ n + 1 \in 1 .. n + 1 /\ 1 .. n \subseteq 1 .. n + 1
    BY <1>1
  <2>4. Range(e) = {e[i] : i \in 1 .. n + 1}
    BY <1>1 DEF Range
  <2>5. ASSUME NEW x \in S \cup {m}
        PROVE  \E i \in 1 .. n + 1 : e[i] = x
    <3>1. CASE x \in S
      <4>1. PICK i \in 1 .. n : e[i] = x
        BY <2>2, <3>1
      <4> QED BY <2>3, <4>1
    <3>2. CASE x = m
      BY <2>3, <3>2
    <3> QED BY <2>5, <3>1, <3>2
  <2>6. Range(e) \subseteq S \cup {m}
    BY <2>1, <2>4
  <2>7. S \cup {m} \subseteq Range(e)
    BY <2>4, <2>5
  <2> QED BY <2>6, <2>7
<1>3. ASSUME NEW i \in 1 .. n + 1, NEW k \in 1 .. n + 1, i < k
      PROVE  e[i] < e[k]
  <2>1. i \in 1 .. n
    BY <1>1, <1>3
  <2>2. CASE k = n + 1
    BY <1>1, <2>1, <2>2
  <2>3. CASE k \in 1 .. n
    <3>1. s[i] < s[k]
      BY <1>1, <1>3, <2>1, <2>3 DEF Listed
    <3> QED BY <1>1, <2>1, <2>3, <3>1
  <2> QED BY <1>1, <1>3, <2>2, <2>3
<1> QED BY <1>1, <1>2, <1>3 DEF Listed, e

ReadBy(j, n) == {x \in Accepted(j) : x <= n}

LEMMA ProfileJobFacts ==
    ASSUME NEW j \in ProfileJobs
    PROVE  /\ j.data \in Datasets /\ j.limit \in Nat \cup {None}
           /\ LastRow(j) \in Nat
           /\ ReadBy(j, 0) = {} /\ ReadBy(j, LastRow(j)) = Accepted(j)
           /\ \A n \in Nat : ReadBy(j, n + 1) = ReadBy(j, n) \cup (Accepted(j) \cap {n + 1})
<1>1. j.data \in Datasets /\ j.limit \in Nat \cup {None}
  BY ProfileAssumption
<1>2. LastRow(j) \in Nat
  BY <1>1, LastRowFacts
<1>3. Accepted(j) \subseteq 1 .. LastRow(j)
  BY DEF Accepted
<1> QED BY <1>1, <1>2, <1>3 DEF ReadBy

(* What the profiler at work knows. *)
LEMMA AtProfile ==
    ASSUME ProfilingInv, profiling # None
    PROVE  /\ profiling \in ProfileJobs /\ tally \in [TallyNames -> Nat]
           /\ rows \in Seq(Nat) /\ batch \in Seq(Nat) /\ rows \o batch \in Seq(Nat)
           /\ Listed(rows \o batch, ReadBy(profiling, tally["total"]))
           /\ tally["accepted"] = Len(rows \o batch)
           /\ tally["total"] = tally["accepted"] + tally["rejected"]
           /\ tally["total"] <= LastRow(profiling) /\ Len(batch) < BatchSize
           /\ reasons \in [Reasons -> Nat] /\ SumOf(reasons, Reasons) = tally["rejected"]
           /\ Unread <=> tally["total"] < LastRow(profiling)
<1>1. /\ profiling \in ProfileJobs /\ tally \in [TallyNames -> Nat]
      /\ rows \in Seq(Nat) /\ batch \in Seq(Nat)
      /\ Listed(rows \o batch, ReadBy(profiling, tally["total"]))
      /\ tally["accepted"] = Len(rows \o batch)
      /\ tally["total"] = tally["accepted"] + tally["rejected"]
      /\ tally["total"] <= LastRow(profiling) /\ Len(batch) < BatchSize
      /\ reasons \in [Reasons -> Nat] /\ SumOf(reasons, Reasons) = tally["rejected"]
  BY DEF ProfilingInv, TallyNames, ReadBy
<1>2. rows \o batch \in Seq(Nat)
  BY <1>1, ConcatProperties
<1>3. tally["total"] \in Nat
  BY <1>1 DEF TallyNames
<1>4. Unread <=> tally["total"] < LastRow(profiling)
  BY <1>1, <1>3, ProfileJobFacts, LastRowFacts DEF Unread
<1> QED BY <1>1, <1>2, <1>4

LEMMA ProfileStarts ==
    ASSUME NEW j \in ProfileJobs, StartProfile(j)
    PROVE  ProfilingInv'
<1>1. /\ profiling' = j /\ rows' = <<>> /\ batch' = <<>>
      /\ tally' = [c \in TallyNames |-> 0] /\ reasons' = [v \in Reasons |-> 0]
  BY DEF StartProfile, Forgotten, TallyNames
<1>2. /\ <<>> \in Seq(Nat) /\ Len(<<>>) = 0 /\ <<>> \o <<>> = <<>> /\ DOMAIN <<>> = {}
  BY EmptySeq, ConcatEmptySeq
<1>3. Listed(<<>>, ReadBy(j, 0))
  BY <1>2, ProfileJobFacts DEF Listed, Range
<1>4. 0 <= LastRow(j) /\ 0 < BatchSize
  BY ProfileJobFacts, ProfileAssumption
<1>5. /\ tally' \in [TallyNames -> Nat] /\ tally'["total"] = 0
      /\ tally'["accepted"] = 0 /\ tally'["rejected"] = 0
  BY <1>1 DEF TallyNames
<1>6. reasons' \in [Reasons -> Nat] /\ SumOf(reasons', Reasons) = 0
  BY <1>1, SumOfNone
<1> QED BY <1>1, <1>2, <1>3, <1>4, <1>5, <1>6 DEF ProfilingInv, TallyNames, ReadBy

LEMMA ProfileRejects ==
    ASSUME ProfilingInv, ProfileRejectedRow
    PROVE  ProfilingInv'
<1> DEFINE j == profiling
           t == tally["total"]
<1>1. /\ j # None /\ UNCHANGED <<profiling, batch, rows>>
      /\ Verdict(Current) \notin {"accepted", "TypeError"} /\ Unread
      /\ reasons' = [reasons EXCEPT ![Verdict(Current)] = @ + 1]
      /\ tally' = [c \in DOMAIN tally |->
                      tally[c] + (IF c \in {"total", "rejected"} THEN 1 ELSE 0)]
  BY DEF ProfileRejectedRow, Unread, Tally
<1>2. j \in ProfileJobs /\ tally \in [TallyNames -> Nat]
  BY <1>1, AtProfile
<1>3. /\ tally' \in [TallyNames -> Nat] /\ t \in Nat
      /\ tally'["total"] = t + 1 /\ tally'["accepted"] = tally["accepted"]
      /\ tally'["rejected"] = tally["rejected"] + 1
      /\ tally["accepted"] \in Nat /\ tally["rejected"] \in Nat
  BY <1>1, <1>2 DEF TallyNames
<1>4. t + 1 \notin Accepted(j)
  BY <1>1 DEF Accepted, Current
<1>5. ReadBy(j, t + 1) = ReadBy(j, t)
  <2>1. ReadBy(j, t + 1) = ReadBy(j, t) \cup (Accepted(j) \cap {t + 1})
    BY <1>2, <1>3, ProfileJobFacts
  <2> HIDE DEF j, t
  <2> QED BY <1>4, <2>1
<1>6. t + 1 <= LastRow(j)
  BY <1>1, <1>2, <1>3, AtProfile, ProfileJobFacts
<1>7. t + 1 = tally["accepted"] + (tally["rejected"] + 1)
  <2>1. t = tally["accepted"] + tally["rejected"]
    BY <1>1, AtProfile
  <2> HIDE DEF t
  <2> QED BY <1>3, <2>1, OneMore
<1>8. Listed(rows' \o batch', ReadBy(profiling', tally'["total"]))
  BY <1>1, <1>3, <1>5, AtProfile
<1>9. reasons' \in [Reasons -> Nat] /\ SumOf(reasons', Reasons) = tally["rejected"] + 1
  <2> DEFINE v == Verdict(Current)
  <2>1. reasons \in [Reasons -> Nat] /\ SumOf(reasons, Reasons) = tally["rejected"]
    BY <1>1, AtProfile
  <2>2. v \in Reasons /\ IsFiniteSet(Reasons)
    BY <1>1, VerdictIsReason, ReasonsFinite
  <2>3. reasons' = [reasons EXCEPT ![v] = @ + 1]
    BY <1>1
  <2> HIDE DEF v
  <2>4. SumOf([reasons EXCEPT ![v] = @ + 1], Reasons) = SumOf(reasons, Reasons) + 1
    BY <2>1, <2>2, SumOfPlus
  <2> QED BY <2>1, <2>2, <2>3, <2>4
<1> QED BY <1>1, <1>2, <1>3, <1>6, <1>7, <1>8, <1>9, AtProfile DEF ProfilingInv, TallyNames, ReadBy

(* An accepted row goes to the end of the batch, and with a full one into  *)
(* the table.                                                              *)
LEMMA ProfileAccepts ==
    ASSUME ProfilingInv, ProfileAcceptedRow
    PROVE  ProfilingInv'
<1> DEFINE j == profiling
           t == tally["total"]
           s == rows \o batch
           full == Append(batch, t + 1)
<1>1. /\ j # None /\ UNCHANGED <<profiling, reasons>> /\ Unread
      /\ Verdict(Current) = "accepted" /\ Inserted(full)
      /\ tally' = [c \in DOMAIN tally |->
                      tally[c] + (IF c \in {"total", "accepted"}
                                            \cup (IF Current.fraud THEN {"fraud"} ELSE {})
                                  THEN 1 ELSE 0)]
  BY DEF ProfileAcceptedRow, Unread, Tally
<1>2. /\ j \in ProfileJobs /\ tally \in [TallyNames -> Nat]
      /\ rows \in Seq(Nat) /\ batch \in Seq(Nat) /\ s \in Seq(Nat)
      /\ Listed(s, ReadBy(j, t)) /\ t < LastRow(j) /\ Len(batch) < BatchSize
      /\ tally["accepted"] = Len(s)
  BY <1>1, AtProfile
<1>3. /\ tally' \in [TallyNames -> Nat] /\ t \in Nat
      /\ tally'["total"] = t + 1 /\ tally'["accepted"] = tally["accepted"] + 1
      /\ tally'["rejected"] = tally["rejected"]
      /\ tally["accepted"] \in Nat /\ tally["rejected"] \in Nat
  BY <1>1, <1>2 DEF TallyNames
<1>4. t + 1 \in Accepted(j)
  <2>1. t + 1 \in 1 .. LastRow(j)
    BY <1>2, <1>3, ProfileJobFacts
  <2> QED BY <1>1, <2>1 DEF Accepted, Current
<1>5. /\ full \in Seq(Nat) /\ Append(s, t + 1) \in Seq(Nat)
      /\ Len(Append(s, t + 1)) = Len(s) + 1
      /\ rows \o full = Append(s, t + 1)
  <2>1. t + 1 \in Nat
    BY <1>3
  <2> HIDE DEF t
  <2> QED BY <1>2, <2>1, ConcatAppend, AppendProperties
<1>6. Listed(Append(s, t + 1), ReadBy(j, t + 1))
  <2>1. ReadBy(j, t + 1) = ReadBy(j, t) \cup {t + 1}
    <3>1. ReadBy(j, t + 1) = ReadBy(j, t) \cup (Accepted(j) \cap {t + 1})
      BY <1>2, <1>3, ProfileJobFacts
    <3> HIDE DEF j, t
    <3> QED BY <1>4, <3>1
  <2>2. t + 1 \in Nat /\ \A x \in ReadBy(j, t) : x < t + 1
    BY <1>3 DEF ReadBy, Accepted
  <2>3. Listed(Append(s, t + 1), ReadBy(j, t) \cup {t + 1})
    <3> DEFINE m == t + 1
               S == ReadBy(j, t)
    <3>1. m \in Nat /\ \A x \in S : x < m
      BY <2>2
    <3>2. s \in Seq(Nat) /\ Listed(s, S)
      BY <1>2
    <3> HIDE DEF m, S, s
    <3>3. Listed(Append(s, m), S \cup {m})
      BY <3>1, <3>2, ListedAppend
    <3> QED BY <3>3 DEF m, S
  <2> QED BY <2>1, <2>3
<1>7. /\ rows' \o batch' = Append(s, t + 1)
      /\ rows' \in Seq(Nat) /\ batch' \in Seq(Nat) /\ Len(batch') < BatchSize
  <2> HIDE DEF full, s
  <2>1. CASE Len(full) >= BatchSize
    <3>1. rows' = rows \o full /\ batch' = <<>>
      BY <1>1, <2>1 DEF Inserted
    <3>2. rows' \in Seq(Nat) /\ rows' \o <<>> = rows'
      BY <1>5, <3>1, ConcatEmptySeq
    <3> QED BY <1>5, <3>1, <3>2, EmptySeq, ProfileAssumption
  <2>2. CASE ~(Len(full) >= BatchSize)
    <3>1. rows' = rows /\ batch' = full
      BY <1>1, <2>2 DEF Inserted
    <3>2. Len(full) \in Nat /\ BatchSize \in Nat
      BY <1>5, LenProperties, ProfileAssumption
    <3>3. Len(full) < BatchSize
      BY <2>2, <3>2
    <3>4. Len(batch') < BatchSize
      BY <3>1, <3>3
    <3> QED BY <1>2, <1>5, <3>1, <3>4
  <2> QED BY <2>1, <2>2
<1>8. t + 1 = (tally["accepted"] + 1) + tally["rejected"]
  <2>1. t = tally["accepted"] + tally["rejected"]
    BY <1>1, AtProfile
  <2> HIDE DEF t
  <2> QED BY <1>3, <2>1, OneMore
<1>9. t + 1 <= LastRow(j)
  BY <1>2, <1>3, ProfileJobFacts
<1>10. reasons' \in [Reasons -> Nat] /\ SumOf(reasons', Reasons) = tally'["rejected"]
  BY <1>1, <1>3, AtProfile
<1> HIDE DEF s, full
<1> QED BY <1>1, <1>2, <1>3, <1>5, <1>6, <1>7, <1>8, <1>9, <1>10
     DEF ProfilingInv, TallyNames, ReadBy

(* The profile is made of all the accepted rows. *)
LEMMA ProfileWrites ==
    ASSUME ProfilingInv, WriteProfile
    PROVE  Made'
<1> DEFINE j == profiling
           s == rows \o batch
           used == Accepted(j)
           n == Len(s)
<1>1. /\ j # None /\ ~Unread
      /\ profile' = [job |-> j, tally |-> tally, reasons |-> reasons,
                     aggregates |-> Aggregates(j.data, s)]
  BY DEF WriteProfile
<1>2. /\ j \in ProfileJobs /\ tally \in [TallyNames -> Nat]
      /\ s \in Seq(Nat) /\ Listed(s, ReadBy(j, tally["total"]))
      /\ tally["accepted"] = n
      /\ tally["total"] = tally["accepted"] + tally["rejected"]
      /\ tally["total"] <= LastRow(j) /\ ~(tally["total"] < LastRow(j))
      /\ SumOf(reasons, Reasons) = tally["rejected"]
  BY <1>1, AtProfile
<1>3. tally["total"] = LastRow(j)
  BY <1>2, ProfileJobFacts DEF TallyNames
<1>4. Listed(s, used)
  BY <1>2, <1>3, ProfileJobFacts
<1>5. DOMAIN s = 1 .. tally["accepted"]
  BY <1>2, LenProperties
<1>6. /\ profile'.job = j /\ profile'.tally = tally /\ profile'.reasons = reasons
      /\ profile'.aggregates = Aggregates(j.data, s)
  BY <1>1
<1>7. \E q : /\ DOMAIN q = 1 .. tally["accepted"] /\ Listed(q, used)
             /\ profile'.aggregates = Aggregates(j.data, q)
  <2> HIDE DEF used, s
  <2> QED BY <1>4, <1>5, <1>6
<1> HIDE DEF s
<1> QED BY <1>2, <1>3, <1>6, <1>7 DEF Made

LEMMA MadeRight == Made => ProfileInv /\ CountsAgree /\ SumsAgree
BY MadeIsRight

(* A profile does not change until it is overwritten, and then it is right. *)
Right == profile \notin {None, Torn} => CountsAgree /\ SumsAgree

LEMMA RightStays ==
    ASSUME Right, UNCHANGED profile
    PROVE  Right'
<1>1. CountsAgree => CountsAgree'
  BY SMTT(30) DEF CountsAgree
<1>2. SumsAgree => SumsAgree'
  BY DEF SumsAgree
<1> QED BY <1>1, <1>2 DEF Right

LEMMA ProfileKept ==
    ASSUME ProfilingInv, ProfileInv, Profile \/ ProfileKilled
    PROVE  ProfilingInv' /\ ProfileInv' /\ (Right => Right')
<1>1. CASE ProfileRejectedRow \/ ProfileAcceptedRow
  <2>1. profile' = profile
    BY <1>1 DEF ProfileRejectedRow, ProfileAcceptedRow
  <2>2. ProfilingInv'
    BY <1>1, ProfileRejects, ProfileAccepts
  <2> QED BY <2>1, <2>2, RightStays DEF ProfileInv
<1>2. CASE \E j \in ProfileJobs : StartProfile(j)
  <2>1. profile' = profile
    BY <1>2 DEF StartProfile
  <2>2. ProfilingInv'
    BY <1>2, ProfileStarts
  <2> QED BY <2>1, <2>2, RightStays DEF ProfileInv
<1>3. CASE WriteProfile
  <2>1. profiling' = None
    BY <1>3 DEF WriteProfile
  <2>2. Made'
    BY <1>3, ProfileWrites
  <2>3. (Made => ProfileInv /\ CountsAgree /\ SumsAgree)'
    BY MadeRight, PTL
  <2>4. ProfileInv' /\ CountsAgree' /\ SumsAgree'
    BY <2>2, <2>3
  <2>5. ProfilingInv'
    BY <2>1 DEF ProfilingInv
  <2> QED BY <2>4, <2>5 DEF Right
<1>4. CASE ProfileStops \/ ProfileKilled
  <2>1. profiling' = None /\ (profile' = profile \/ profile' = Torn)
    BY <1>4 DEF ProfileStops, ProfileKilled
  <2>2. ProfilingInv'
    BY <2>1 DEF ProfilingInv
  <2>3. CASE profile' = profile
    BY <2>2, <2>3, RightStays DEF ProfileInv
  <2>4. CASE profile' = Torn
    BY <2>2, <2>4 DEF ProfileInv, Right
  <2> QED BY <2>1, <2>3, <2>4
<1> QED BY <1>1, <1>2, <1>3, <1>4 DEF Profile

LEMMA DataKept == DataInv /\ [DataNext]_dataVars => DataInv'
<1> SUFFICES ASSUME DataInv, [DataNext]_dataVars PROVE DataInv'
  OBVIOUS
<1>1. CASE UNCHANGED profileVars
  <2>1. ProfilingInv' /\ ProfileInv'
    BY <1>1 DEF DataInv, profileVars, ProfilingInv, ProfileInv
  <2>2. [OutputsNext]_<<prepVars, sampleVars>> => PrepInv' /\ SampleInv'
    BY OutputsKept, SampleKept DEF DataInv
  <2>3. CASE OutputsNext
    BY <2>1, <2>2, <2>3 DEF DataInv
  <2>4. CASE UNCHANGED <<prepVars, sampleVars>>
    BY <2>1, <2>2, <2>4 DEF DataInv
  <2>5. CASE Profile /\ UNCHANGED <<prepVars, sampleVars>>
    BY <2>1, <2>2, <2>5 DEF DataInv
  <2>6. CASE ProfileKilled /\ UNCHANGED sampleVars
    <3>1. SampleInv'
      BY <2>6, SampleStays DEF DataInv
    <3>2. PrepInv'
      BY <2>6, KillKeeps DEF ProfileKilled, DataInv
    <3> QED BY <2>1, <3>1, <3>2 DEF DataInv
  <2> QED BY <2>3, <2>4, <2>5, <2>6 DEF DataNext, dataVars
<1>2. CASE Profile /\ UNCHANGED <<prepVars, sampleVars>>
  <2>1. PrepInv' /\ SampleInv'
    BY <1>2, OutputsKept, SampleKept DEF DataInv
  <2> QED BY <1>2, <2>1, ProfileKept DEF DataInv
<1>3. CASE ProfileKilled /\ UNCHANGED sampleVars
  <2>1. SampleInv'
    BY <1>3, SampleStays DEF DataInv
  <2>2. PrepInv'
    BY <1>3, KillKeeps DEF ProfileKilled, DataInv
  <2> QED BY <1>3, <2>1, <2>2, ProfileKept DEF DataInv
<1> QED BY <1>1, <1>2, <1>3 DEF DataNext, dataVars, profileVars

(* The files of the preparation, the table and the batch of the profiler   *)
(* and the profile it leaves are at any time the rows that were accepted,  *)
(* in their order and each once.                                           *)
THEOREM DataInvariantHolds == DataSpec => []DataInv
<1>1. DataInit => DataInv
  <2> SUFFICES ASSUME DataInit PROVE DataInv
    OBVIOUS
  <2>1. PrepInv
    BY InitPrep DEF DataInit, OutputsInit
  <2>2. ProfilingInv /\ ProfileInv
    BY DEF DataInit, ProfileInit, ProfilingInv, ProfileInv
  <2>3. SampleInv
    BY DEF DataInit, OutputsInit, SampleInv, SamplingInv, SampleIsTrue, SampleFiles
  <2> QED BY <2>1, <2>2, <2>3 DEF DataInv
<1> QED BY <1>1, DataKept, PTL DEF DataSpec

(* A complete profile says what the raw rows give, and agrees with every    *)
(* report of the same rows: that of the profiler was right when it was     *)
(* written, the report is about the rows its command line accepts.         *)
THEOREM ProfilesAgree == DataSpec => []ProfileAgrees
<1>1. DataInit => Right
  BY DEF DataInit, ProfileInit, Right
<1>2. DataInv /\ Right /\ [DataNext]_dataVars => Right'
  <2> SUFFICES ASSUME DataInv, Right, [DataNext]_dataVars PROVE Right'
    OBVIOUS
  <2>1. CASE UNCHANGED profile
    BY <2>1, RightStays
  <2>2. CASE Profile \/ ProfileKilled
    BY <2>2, ProfileKept DEF DataInv
  <2> QED BY <2>1, <2>2 DEF DataNext, dataVars, profileVars
<1>3. DataInv /\ Right => ProfileAgrees
  <2> SUFFICES ASSUME DataInv, profile \notin {None, Torn}
               PROVE  ReportAgrees
    BY DEF Right, ProfileAgrees
  <2> DEFINE j == profile.job
             r == disk["report"]
  <2> SUFFICES ASSUME r \notin {None, Torn}, r.job.data = j.data, r.job.limit = j.limit
               PROVE  /\ r.counters["accepted"] = profile.tally["accepted"]
                      /\ r.counters["rejected"] = profile.tally["rejected"]
                      /\ \A t \in NativeTypes :
                            r.types[t] = CountOf(profile.aggregates.types, t)
    BY DEF ReportAgrees
  <2>1. /\ r \in Reports /\ r.counters["total"] = LastRow(r.job)
        /\ r.counters["total"] = r.counters["accepted"] + r.counters["rejected"]
        /\ r.counters["accepted"] = Cardinality(Accepted(r.job))
        /\ \A t \in NativeTypes : r.types[t] = Cardinality(OfType(r.job, t))
    BY DEF DataInv, PrepInv, ReportInv
  <2>2. /\ profile.tally \in [TallyNames -> Nat]
        /\ profile.tally["total"] = LastRow(j)
        /\ profile.tally["total"] = profile.tally["accepted"] + profile.tally["rejected"]
        /\ profile.tally["accepted"] = Cardinality(Accepted(j))
        /\ \A t \in NativeTypes :
              CountOf(profile.aggregates.types, t) = Cardinality(OfType(j, t))
    BY DEF DataInv, ProfileInv, TallyNames
  <2>3. LastRow(r.job) = LastRow(j)
    BY DEF LastRow
  <2>4. Accepted(r.job) = Accepted(j) /\ \A t \in NativeTypes : OfType(r.job, t) = OfType(j, t)
    BY <2>3 DEF Accepted, OfType
  <2>5. r.counters \in [CounterNames -> Nat]
    BY <2>1 DEF Reports
  <2>6. r.counters["accepted"] = profile.tally["accepted"]
    BY <2>1, <2>2, <2>4
  <2>7. r.counters["rejected"] = profile.tally["rejected"]
    <3>1. /\ r.counters["rejected"] \in Nat /\ profile.tally["rejected"] \in Nat
          /\ profile.tally["accepted"] \in Nat
      BY <2>2, <2>5 DEF CounterNames, TallyNames
    <3>2. profile.tally["accepted"] + r.counters["rejected"]
             = profile.tally["accepted"] + profile.tally["rejected"]
      BY <2>1, <2>2, <2>3, <2>6
    <3> QED BY <3>1, <3>2
  <2>8. \A t \in NativeTypes : r.types[t] = CountOf(profile.aggregates.types, t)
    BY <2>1, <2>2, <2>4
  <2> QED BY <2>6, <2>7, <2>8
<1> QED BY <1>1, <1>2, <1>3, DataInvariantHolds, PTL DEF DataSpec

(* What a validation lets pass is the work of one run: the same lines in   *)
(* the events and the labels, without a gap, and if the report came with   *)
(* them all the rows that its command line accepts.                        *)
THEOREM ValidatedOutputsAreOneRun == DataSpec => []ValidatedIsOneRun
<1>1. PrepInv => ValidatedIsOneRun
  <2> SUFFICES ASSUME PrepInv, Validates(FALSE)
               PROVE  /\ disk["events"] = disk["labels"]
                      /\ \E j \in Jobs :
                            /\ \A l \in Range(disk["events"]) : l.job = j
                            /\ \A n \in Accepted(j), m \in EventIds(disk["events"]) :
                                   n < m => n \in EventIds(disk["events"])
                      /\ whole => LET j == disk["report"].job IN
                            /\ \A l \in Range(disk["events"]) \cup Range(disk["rejected"]) :
                                  l.job = j
                            /\ EventIds(disk["events"]) = Accepted(j)
    BY DEF ValidatedIsOneRun
  <2>1. disk["events"] = disk["labels"]
    BY ValidatedFiles
  <2>2. disk["report"] # None
    BY DEF Validates, Present, PrepInv, LinesInv, PrepTypeOK
  <2> QED BY <2>1, <2>2, OneRun, WholeRun
<1>2. DataInv => PrepInv
  BY DEF DataInv
<1> QED BY <1>1, <1>2, DataInvariantHolds, PTL

(* The validation of an output that came with its report: it is refused    *)
(* for the names the report repeats, no row, too many rejected rows, the   *)
(* salt, a type or a reason the validator does not know or a type that     *)
(* looks like an identifier, and never for a count that differs.           *)
THEOREM VerdictsAreExplained == DataSpec => []VerdictIsExplained
<1>1. PrepInv => VerdictIsExplained
  <2> SUFFICES ASSUME PrepInv, whole, disk["report"] # None, NEW strict \in BOOLEAN
               PROVE  Validates(strict) <=> ~Excusable(strict)
    BY DEF VerdictIsExplained
  <2>1. /\ Present /\ ValidateLabels
        /\ ValidateEvents <=> NativeEvents
        /\ ValidateRejected <=> \A l \in Range(disk["rejected"]) :
                                   ~Unmapped(RowOf(l)) /\ ~ShowsIdentifier(l)
    BY WholeIds, EventsVerdict, RejectedVerdict
  <2>2. CASE NativeEvents
    BY <2>1, <2>2, ReportVerdict DEF Validates, Excusable, NativeEvents
  <2>3. CASE ~NativeEvents
    BY <2>1, <2>3 DEF Validates, Excusable, NativeEvents
  <2> QED BY <2>2, <2>3
<1>2. DataInv => PrepInv
  BY DEF DataInv
<1> QED BY <1>1, <1>2, DataInvariantHolds, PTL

(* A sample that was written to its end is closed, counted by its manifest *)
(* and, if the prepared files came with their report, named truthfully,    *)
(* whatever became of the prepared files before and since.                 *)
THEOREM SamplesAreTrue == DataSpec => []SampleIsTrue
<1>1. DataInv => SampleIsTrue
  BY DEF DataInv, SampleInv
<1> QED BY <1>1, DataInvariantHolds, PTL
=============================================================================
