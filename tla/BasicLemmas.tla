---------------------------- MODULE BasicLemmas ----------------------------
(***************************************************************************)
(* The lemmas that the proofs about several modules rest on: what Put does *)
(* to a Map, how integer division brackets a number, and what becomes of a *)
(* sum when its summands change.                                           *)
(***************************************************************************)
EXTENDS Maps, Integers, Sequences, FiniteSetTheorems, TLAPS

\* The empty Map is a Map from any keys to any values.
LEMMA EmptyIsMap == ASSUME NEW K, NEW V PROVE IsMap(EmptyMap, K, V) /\ DOMAIN EmptyMap = {}
  BY DEF IsMap, EmptyMap

\* Setting a key of the right type to a value of the right type keeps a Map a Map.
LEMMA PutIsMap ==
  ASSUME NEW m, NEW K, NEW V, IsMap(m, K, V), NEW k \in K, NEW v \in V
  PROVE  IsMap(Put(m, k, v), K, V)
  BY DEF IsMap, Put

\* So does overwriting the value of a key.
LEMMA ExceptIsMap ==
  ASSUME NEW m, NEW K, NEW V, IsMap(m, K, V), NEW k \in DOMAIN m, NEW v \in V
  PROVE  /\ IsMap([m EXCEPT ![k] = v], K, V)
         /\ DOMAIN [m EXCEPT ![k] = v] = DOMAIN m
         /\ [m EXCEPT ![k] = v][k] = v
         /\ \A x \in DOMAIN m : x # k => [m EXCEPT ![k] = v][x] = m[x]
  BY DEF IsMap

-----------------------------------------------------------------------------
(* Integer division                                                        *)

\* Multiplying by a natural number keeps the order.
LEMMA TimesMonotone ==
  ASSUME NEW a \in Int, NEW b \in Int, NEW d \in Nat, a <= b
  PROVE  a * d <= b * d
<1>1. PICK k \in Nat : b = a + k
  <2>1. b - a \in Nat /\ b = a + (b - a)
    OBVIOUS
  <2>2. QED
    BY <2>1
<1>2. b * d = a * d + k * d
  BY <1>1
<1>3. k * d >= 0
  BY SMT
<1>4. QED
  BY <1>2, <1>3

\* A multiple that reaches less than the next one above another is no larger.
LEMMA TimesCancel ==
  ASSUME NEW a \in Int, NEW b \in Int, NEW d \in Nat \ {0}, a * d < b * d + d
  PROVE  a <= b
<1>1. CASE b + 1 <= a
  <2>1. (b + 1) * d <= a * d
    BY <1>1, TimesMonotone
  <2>2. (b + 1) * d = b * d + d
    OBVIOUS
  <2>3. QED
    BY <2>1, <2>2
<1>2. QED
  BY <1>1

\* A sequence of whatever it holds.
IsList(s) == Len(s) \in Nat /\ s \in Seq({s[i] : i \in DOMAIN s})

\* What is appended comes last, and nothing else changes.
LEMMA AppendIsList ==
  ASSUME NEW s, IsList(s), NEW e
  PROVE  /\ IsList(Append(s, e)) /\ DOMAIN Append(s, e) = DOMAIN s \cup {Len(s) + 1}
         /\ \A i \in DOMAIN s : Append(s, e)[i] = s[i]
         /\ Append(s, e)[Len(s) + 1] = e /\ Len(s) + 1 \notin DOMAIN s
<1> DEFINE S == {s[i] : i \in DOMAIN s} \cup {e}
           t == Append(s, e)
<1>1. s \in Seq(S) /\ e \in S
  BY DEF IsList
<1>2. /\ t \in Seq(S) /\ Len(t) = Len(s) + 1 /\ DOMAIN t = 1 .. Len(s) + 1 /\ DOMAIN s = 1 .. Len(s)
      /\ \A i \in 1 .. Len(s) : t[i] = s[i]
      /\ t[Len(s) + 1] = e
  BY <1>1
<1> HIDE DEF t
<1>3. t \in Seq({t[i] : i \in DOMAIN t})
  BY <1>2
<1>4. Len(t) \in Nat
  BY <1>2
<1> QED
  BY <1>2, <1>3, <1>4 DEF IsList, t

\* Integer division brackets its argument between two multiples.
LEMMA Quotient ==
  ASSUME NEW n \in Nat, NEW d \in Nat \ {0}
  PROVE  LET q == n \div d IN q \in Nat /\ q * d <= n /\ n < q * d + d
  OBVIOUS

-----------------------------------------------------------------------------
(* Sums.  The fold takes its elements in an order that nobody knows.  That  *)
(* there is a function it computes, and that the order does not matter, is  *)
(* shown by looking at a smallest set for which it would not be so.         *)

\* A set of subsets of a finite set has one that contains no other.
LEMMA LeastSubset ==
  ASSUME NEW S, IsFiniteSet(S), NEW T \in SUBSET SUBSET S, T # {}
  PROVE  \E m \in T : \A t \in T : t \subseteq m => t = m
<1>1. IsWellFoundedOn(StrictSubsetOrdering(S), SUBSET S)
  BY FS_StrictSubsetOrderingWellFounded, FS_FiniteSubsetsOfFinite
<1>2. PICK m \in T : \A t \in T : ~(<<t, m>> \in StrictSubsetOrdering(S))
  BY <1>1, WFMin
<1>3. QED
  BY <1>2 DEF StrictSubsetOrdering

\* Of finitely many things with a whole number each, one has the greatest.
LEMMA GreatestOfFinite ==
  ASSUME NEW S, IsFiniteSet(S), S # {}, NEW f, \A x \in S : f[x] \in Int
  PROVE  \E m \in S : \A x \in S : f[x] <= f[m]
<1> DEFINE from(m) == {x \in S : f[x] >= f[m]}
           T == {from(m) : m \in S}
<1>1. T \in SUBSET SUBSET S /\ T # {}
  OBVIOUS
<1>2. PICK t \in T : \A u \in T : u \subseteq t => u = t
  <2> HIDE DEF T
  <2> QED
    BY <1>1, LeastSubset
<1>3. PICK m \in S : t = from(m)
  BY <1>2
<1>4. ASSUME NEW x \in S PROVE f[x] <= f[m]
  <2> SUFFICES ASSUME f[m] < f[x] PROVE FALSE
    BY <1>4
  <2>1. from(x) \subseteq from(m) /\ from(x) \in T
    BY <1>4
  <2>2. m \in from(m) /\ m \notin from(x)
    BY <1>4
  <2> HIDE DEF from, T
  <2> QED
    BY <1>2, <1>3, <2>1, <2>2
<1> QED
  BY <1>4

\* The ranks that there are have a value of the list.
LEMMA RankedListed ==
  ASSUME NEW f, IsFiniteSet(DOMAIN f), \A s \in DOMAIN f : f[s] \in Int,
         NEW k \in 1 .. Cardinality(DOMAIN f)
  PROVE  \E s \in DOMAIN f : Ranked(f, k) = f[s]
<1> DEFINE D == DOMAIN f
           E == {y \in D : AtMost(f, f[y]) >= k}
           enough == {f[x] : x \in E}
           below == [x \in E |-> 0 - f[x]]
<1>1. Cardinality(D) \in Nat /\ D # {}
  BY FS_CardinalityType, FS_EmptySet
<1>2. PICK top \in D : \A x \in D : f[x] <= f[top]
  <2> HIDE DEF D
  <2>1. IsFiniteSet(D) /\ D # {} /\ \A x \in D : f[x] \in Int
    BY <1>1 DEF D
  <2> QED
    BY ONLY <2>1, GreatestOfFinite
<1>3. {x \in D : f[x] <= f[top]} = D
  BY <1>2
<1>4. AtMost(f, f[top]) = Cardinality(D)
  BY <1>3 DEF AtMost
<1>5. top \in E
  BY <1>1, <1>4
<1>6. IsFiniteSet(E)
  BY FS_Subset
<1>7. PICK low \in E : \A x \in E : below[x] <= below[low]
  <2> HIDE DEF E
  <2>1. IsFiniteSet(E) /\ E # {}
    BY <1>5, <1>6
  <2>2. \A x \in E : below[x] \in Int
    BY DEF E
  <2> HIDE DEF below
  <2> QED
    BY ONLY <2>1, <2>2, GreatestOfFinite
<1>8. f[low] \in enough /\ \A u \in enough : f[low] <= u
  BY <1>7
<1>9. Ranked(f, k) \in enough
  <2>1. Ranked(f, k) = CHOOSE v \in enough : \A u \in enough : v <= u
    BY DEF Ranked
  <2> HIDE DEF enough
  <2> QED
    BY <2>1, <1>8
<1> QED
  BY <1>9

\* A set of numbers has a least one.
LEMMA LeastNumber ==
  ASSUME NEW S \in SUBSET Nat, S # {}
  PROVE  \E n \in S : \A y \in S : n <= y
<1>1. PICK first \in S : TRUE
  OBVIOUS
<1> DEFINE T == {0..n : n \in {x \in S : x <= first}}
<1>2. IsFiniteSet(0..first)
  BY FS_Interval
<1>3. T \in SUBSET SUBSET (0..first) /\ T # {}
  OBVIOUS
<1>4. PICK m \in T : \A t \in T : t \subseteq m => t = m
  <2> HIDE DEF T
  <2>1. PICK B : IsFiniteSet(B) /\ T \in SUBSET SUBSET B /\ T # {}
    BY <1>2, <1>3
  <2>2. \E m \in T : \A t \in T : t \subseteq m => t = m
    BY ONLY <2>1, LeastSubset
  <2>3. QED
    BY <2>2
<1>5. PICK n \in S : n <= first /\ m = 0..n
  OBVIOUS
<1>6. ASSUME NEW y \in S, y < n PROVE FALSE
  <2>1. 0..y \in T /\ 0..y \subseteq m /\ n \in m /\ n \notin 0..y
    BY <1>5, <1>6
  <2>2. QED
    BY <1>4, <2>1
<1>7. QED
  BY <1>6

\* A set of numbers that are bounded has a greatest one.
LEMMA GreatestNumber ==
  ASSUME NEW bound \in Nat, NEW S \in SUBSET (0..bound), S # {}
  PROVE  \E n \in S : \A y \in S : n >= y
<1> DEFINE R == {bound - x : x \in S}
<1>1. \A x \in S : bound - x \in Nat
  OBVIOUS
<1>2. R \in SUBSET Nat /\ R # {}
  BY <1>1
<1>3. PICK r \in R : \A y \in R : r <= y
  <2> HIDE DEF R
  <2>1. QED
    BY <1>2, LeastNumber
<1>4. PICK n \in S : r = bound - n
  BY Zenon
<1>5. \A y \in S : bound - y \in R
  OBVIOUS
<1>6. QED
  BY <1>3, <1>4, <1>5

\* The element that a fold takes next, and the function it defines on the subsets.
Pick(s) == CHOOSE x \in s : TRUE
Adds(g, f, S) == g = [s \in SUBSET S |-> IF s = {} THEN 0 ELSE f[Pick(s)] + g[s \ {Pick(s)}]]

\* A sum is a value of the function that Adds describes, if there is one.
LEMMA TotalUnfolds ==
  ASSUME NEW f
  PROVE  Total(f) = (CHOOSE g : Adds(g, f, DOMAIN f))[DOMAIN f]
  BY Zenon DEF Total, MapThenSumSet, MapThenFoldSet, Pick, Adds

\* Such a function starts at nothing, and takes its elements one by one.
LEMMA AddsEmpty ==
  ASSUME NEW f, NEW S, NEW g, Adds(g, f, S)
  PROVE  g[{}] = 0
  BY DEF Adds

LEMMA AddsValue ==
  ASSUME NEW f, NEW S, NEW g, Adds(g, f, S), NEW s \in SUBSET S, s # {}
  PROVE  /\ Pick(s) \in s /\ s \ {Pick(s)} \in SUBSET S
         /\ g[s] = f[Pick(s)] + g[s \ {Pick(s)}]
  BY DEF Adds, Pick

\* Two such functions agree on every set that both are defined for.
LEMMA AddsUnique ==
  ASSUME NEW f, NEW S, IsFiniteSet(S), NEW R, NEW g, NEW h, Adds(g, f, S), Adds(h, f, R),
         NEW s \in SUBSET (S \cap R)
  PROVE  g[s] = h[s]
<1> DEFINE T == {t \in SUBSET (S \cap R) : g[t] # h[t]}
<1>1. SUFFICES ASSUME T # {} PROVE FALSE
  OBVIOUS
<1>2. PICK m \in T : \A t \in T : t \subseteq m => t = m
  <2>1. T \in SUBSET SUBSET S
    OBVIOUS
  <2> HIDE DEF T
  <2>2. QED
    BY <1>1, <2>1, LeastSubset
<1>3. m \in SUBSET S /\ m \in SUBSET R
  OBVIOUS
<1>4. m # {}
  <2>1. g[{}] = 0 /\ h[{}] = 0
    BY AddsEmpty
  <2>2. QED
    BY <1>2, <2>1
<1>5. /\ Pick(m) \in m /\ g[m] = f[Pick(m)] + g[m \ {Pick(m)}]
      /\ h[m] = f[Pick(m)] + h[m \ {Pick(m)}]
  BY <1>3, <1>4, AddsValue
<1>6. m \ {Pick(m)} \notin T
  BY <1>2, <1>5
<1>7. g[m \ {Pick(m)}] = h[m \ {Pick(m)}]
  BY <1>6
<1>8. QED
  BY <1>5, <1>7

\* There is one for every finite set.
LEMMA AddsExists ==
  ASSUME NEW f, NEW S, IsFiniteSet(S)
  PROVE  \E g : Adds(g, f, S)
<1> DEFINE T == {t \in SUBSET S : ~\E g : Adds(g, f, t)}
<1>1. SUFFICES ASSUME T # {} PROVE FALSE
  OBVIOUS
<1>2. PICK m \in T : \A t \in T : t \subseteq m => t = m
  <2>1. T \in SUBSET SUBSET S
    OBVIOUS
  <2> HIDE DEF T
  <2>2. QED
    BY <1>1, <2>1, LeastSubset
<1> DEFINE G(t) == CHOOSE g : Adds(g, f, t)
           below(t) == IF t = {} THEN 0 ELSE f[Pick(t)] + G(t \ {Pick(t)})[t \ {Pick(t)}]
           g == [t \in SUBSET m |-> below(t)]
<1>3. \A t \in SUBSET m : t # m => Adds(G(t), f, t)
  BY <1>2
<1>4. \A t \in SUBSET m : t # {} => Pick(t) \in t
  BY DEF Pick
<1> HIDE DEF G
<1>5. ASSUME NEW t \in SUBSET m, t # m
      PROVE  G(t)[t] = below(t)
  <2>1. Adds(G(t), f, t) /\ t \in SUBSET t
    BY <1>3, <1>5
  <2>2. CASE t = {}
    <3>1. G(t)[{}] = 0
      BY <2>1, AddsEmpty
    <3>2. QED
      BY <2>2, <3>1
  <2>3. CASE t # {}
    <3> DEFINE u == t \ {Pick(t)}
    <3>1. u \in SUBSET m /\ u # m /\ u \in SUBSET (t \cap u)
      BY <1>4, <1>5, <2>3
    <3>2. Adds(G(u), f, u)
      BY <1>3, <3>1
    <3>3. IsFiniteSet(t)
      BY <1>2, FS_Subset
    <3>4. G(t)[t] = f[Pick(t)] + G(t)[u]
      BY <2>1, <2>3, AddsValue
    <3>5. G(t)[u] = G(u)[u]
      BY <2>1, <3>1, <3>2, <3>3, AddsUnique
    <3>6. QED
      BY <2>3, <3>4, <3>5
  <2>4. QED
    BY <2>2, <2>3
<1>6. \A t \in SUBSET m : t # {} => g[t \ {Pick(t)}] = G(t \ {Pick(t)})[t \ {Pick(t)}]
  <2>1. SUFFICES ASSUME NEW t \in SUBSET m, t # {}
                 PROVE  g[t \ {Pick(t)}] = G(t \ {Pick(t)})[t \ {Pick(t)}]
    OBVIOUS
  <2>2. t \ {Pick(t)} \in SUBSET m /\ t \ {Pick(t)} # m
    BY <1>4, <2>1
  <2> HIDE DEF below
  <2>3. QED
    BY <1>5, <2>2
<1>7. Adds(g, f, m)
  BY <1>6 DEF Adds
<1>8. QED
  BY <1>2, <1>7

\* Any such function gives the sum.
LEMMA SumIs ==
  ASSUME NEW f, IsFiniteSet(DOMAIN f), NEW g, Adds(g, f, DOMAIN f)
  PROVE  Total(f) = g[DOMAIN f]
<1> DEFINE h == CHOOSE k : Adds(k, f, DOMAIN f)
<1>1. Adds(h, f, DOMAIN f)
  BY AddsExists
<1> HIDE DEF h
<1>2. h[DOMAIN f] = g[DOMAIN f]
  BY <1>1, AddsUnique
<1>3. QED
  BY <1>2, TotalUnfolds DEF h

\* On integers, any element may be taken first.
LEMMA AddsAny ==
  ASSUME NEW S, IsFiniteSet(S), NEW f, \A x \in S : f[x] \in Int, NEW g, Adds(g, f, S)
  PROVE  \A s \in SUBSET S : g[s] \in Int /\ \A x \in s : g[s] = f[x] + g[s \ {x}]
<1> DEFINE T == {s \in SUBSET S : ~(g[s] \in Int /\ \A x \in s : g[s] = f[x] + g[s \ {x}])}
<1>1. SUFFICES ASSUME T # {} PROVE FALSE
  OBVIOUS
<1>2. PICK m \in T : \A t \in T : t \subseteq m => t = m
  <2>1. T \in SUBSET SUBSET S
    OBVIOUS
  <2> HIDE DEF T
  <2>2. QED
    BY <1>1, <2>1, LeastSubset
<1>3. \A t \in SUBSET m : t # m => g[t] \in Int /\ \A x \in t : g[t] = f[x] + g[t \ {x}]
  BY <1>2
<1>4. m # {}
  <2>1. g[{}] = 0
    BY AddsEmpty
  <2>2. g[{}] \in Int
    BY <2>1
  <2>3. QED
    BY <1>2, <2>2
<1> DEFINE p == Pick(m)
<1>5. p \in m /\ g[m] = f[p] + g[m \ {p}]
  <2>1. m \in SUBSET S
    BY <1>2
  <2> HIDE DEF T
  <2>2. QED
    BY <1>4, <2>1, AddsValue
<1> HIDE DEF p, T
<1>6. m \in SUBSET S
  BY <1>2 DEF T
<1>7. g[m \ {p}] \in Int /\ f[p] \in Int
  BY <1>3, <1>5, <1>6
<1>8. ASSUME NEW x \in m
      PROVE  g[m] = f[x] + g[m \ {x}]
  <2>1. CASE x = p
    BY <1>5, <2>1
  <2>2. CASE x # p
    <3>1. /\ g[m \ {p}] = f[x] + g[(m \ {p}) \ {x}]
          /\ g[m \ {x}] = f[p] + g[(m \ {x}) \ {p}]
          /\ g[(m \ {p}) \ {x}] \in Int
      BY <1>3, <1>5, <1>8, <2>2
    <3>2. (m \ {p}) \ {x} = (m \ {x}) \ {p}
      OBVIOUS
    <3>3. f[x] \in Int
      BY <1>6, <1>8
    <3> DEFINE a == f[p]
               b == f[x]
               c == g[(m \ {p}) \ {x}]
               u == g[m \ {p}]
               v == g[m \ {x}]
    <3>4. a \in Int /\ b \in Int /\ c \in Int /\ u = b + c /\ v = a + c
      BY <1>7, <3>1, <3>2, <3>3
    <3> HIDE DEF a, b, c, u, v
    <3>5. a + u = b + v
      BY <3>4
    <3>6. f[p] + g[m \ {p}] = f[x] + g[m \ {x}]
      BY <3>5 DEF a, b, u, v
    <3>7. QED
      BY <1>5, <3>6
  <2>3. QED
    BY <2>1, <2>2
<1>9. g[m] \in Int
  BY <1>5, <1>7
<1>10. QED
  BY <1>2, <1>8, <1>9 DEF T

\* The fold over a part of the domain is the sum of the function on that part.
LEMMA RestrictSum ==
  ASSUME NEW f, NEW S, IsFiniteSet(S), NEW g, Adds(g, f, S), NEW s \in SUBSET S
  PROVE  Total(Restrict(f, s)) = g[s]
<1> DEFINE e == Restrict(f, s)
           h == [t \in SUBSET s |-> g[t]]
<1>1. IsFiniteSet(s) /\ DOMAIN e = s /\ \A x \in s : e[x] = f[x]
  BY FS_Subset DEF Restrict
<1>2. Adds(h, e, s)
  <2>1. ASSUME NEW t \in SUBSET s
        PROVE  h[t] = IF t = {} THEN 0 ELSE e[Pick(t)] + h[t \ {Pick(t)}]
    <3>1. t \in SUBSET S /\ h[t] = g[t]
      OBVIOUS
    <3>2. CASE t = {}
      <4>1. g[{}] = 0
        BY AddsEmpty
      <4>2. QED
        BY <3>1, <3>2, <4>1
    <3>3. CASE t # {}
      <4>1. Pick(t) \in t /\ g[t] = f[Pick(t)] + g[t \ {Pick(t)}]
        BY <3>1, <3>3, AddsValue
      <4>2. QED
        BY <1>1, <3>1, <3>3, <4>1
    <3>4. QED
      BY <3>2, <3>3
  <2>2. h = [t \in SUBSET s |-> h[t]]
    OBVIOUS
  <2> HIDE DEF h, e
  <2>3. QED
    BY <2>1, <2>2 DEF Adds
<1>3. h[s] = g[s]
  OBVIOUS
<1> HIDE DEF h
<1>4. QED
  BY <1>1, <1>2, <1>3, SumIs

\* Nothing adds up to nothing.
LEMMA TotalEmpty ==
  ASSUME NEW f, DOMAIN f = {}
  PROVE  Total(f) = 0
<1>1. IsFiniteSet(DOMAIN f)
  BY FS_EmptySet
<1>2. PICK g : Adds(g, f, DOMAIN f)
  BY <1>1, AddsExists
<1>3. g[DOMAIN f] = 0
  BY <1>2, AddsEmpty
<1>4. QED
  BY <1>1, <1>2, <1>3, SumIs

\* The function but for one element.
Others(f, x) == Restrict(f, DOMAIN f \ {x})

\* A sum of integers is an integer, and any one of them may be taken out of it.
LEMMA TotalTakes ==
  ASSUME NEW f, IsFiniteSet(DOMAIN f), \A x \in DOMAIN f : f[x] \in Int
  PROVE  Total(f) \in Int /\ \A x \in DOMAIN f : Total(f) = f[x] + Total(Others(f, x))
<1>1. PICK g : Adds(g, f, DOMAIN f)
  BY AddsExists
<1>2. Total(f) = g[DOMAIN f]
  BY <1>1, SumIs
<1>3. g[DOMAIN f] \in Int /\ \A x \in DOMAIN f : g[DOMAIN f] = f[x] + g[DOMAIN f \ {x}]
  <2>1. DOMAIN f \in SUBSET DOMAIN f
    OBVIOUS
  <2>2. \A s \in SUBSET DOMAIN f : g[s] \in Int /\ \A x \in s : g[s] = f[x] + g[s \ {x}]
    BY <1>1, AddsAny
  <2>3. QED
    BY <2>1, <2>2
<1>4. \A x \in DOMAIN f : Total(Others(f, x)) = g[DOMAIN f \ {x}]
  BY <1>1, RestrictSum DEF Others
<1>5. QED
  BY <1>2, <1>3, <1>4

\* The same of the part of a function on some of its domain.
LEMMA RestrictTakes ==
  ASSUME NEW f, NEW S, IsFiniteSet(S), \A x \in S : f[x] \in Int, NEW s \in SUBSET S
  PROVE  /\ Total(Restrict(f, s)) \in Int
         /\ \A x \in s : Total(Restrict(f, s)) = f[x] + Total(Restrict(f, s \ {x}))
<1>1. PICK g : Adds(g, f, S)
  BY AddsExists
<1>2. \A t \in SUBSET S : Total(Restrict(f, t)) = g[t]
  BY <1>1, RestrictSum
<1>3. \A t \in SUBSET S : g[t] \in Int /\ \A x \in t : g[t] = f[x] + g[t \ {x}]
  BY <1>1, AddsAny
<1>4. \A x \in s : s \ {x} \in SUBSET S
  OBVIOUS
<1>5. QED
  BY <1>2, <1>3, <1>4

\* The whole of a function, and none of it.
LEMMA RestrictWhole ==
  ASSUME NEW f, IsFiniteSet(DOMAIN f)
  PROVE  Total(Restrict(f, DOMAIN f)) = Total(f)
<1>1. PICK g : Adds(g, f, DOMAIN f)
  BY AddsExists
<1>2. DOMAIN f \in SUBSET DOMAIN f
  OBVIOUS
<1>3. QED
  BY <1>1, <1>2, RestrictSum, SumIs

LEMMA RestrictEmpty == ASSUME NEW f PROVE Total(Restrict(f, {})) = 0
  BY TotalEmpty DEF Restrict

\* Any function on the parts that counts nothing for no element and each element once
\* is the sum.
LEMMA TotalUnique ==
  ASSUME NEW f, IsFiniteSet(DOMAIN f), NEW g,
         g[{}] = 0, \A s \in SUBSET DOMAIN f : \A x \in s : g[s] = f[x] + g[s \ {x}]
  PROVE  Total(f) = g[DOMAIN f]
<1> DEFINE D == DOMAIN f
           h == [s \in SUBSET D |-> g[s]]
<1>1. Adds(h, f, D)
  <2>1. ASSUME NEW s \in SUBSET D
        PROVE  h[s] = IF s = {} THEN 0 ELSE f[Pick(s)] + h[s \ {Pick(s)}]
    <3>1. CASE s = {}
      BY <3>1
    <3>2. CASE s # {}
      <4>1. Pick(s) \in s
        BY <3>2 DEF Pick
      <4>2. QED
        BY <3>2, <4>1
    <3>3. QED
      BY <3>1, <3>2
  <2>2. h = [s \in SUBSET D |-> h[s]]
    OBVIOUS
  <2> HIDE DEF h
  <2>3. QED
    BY <2>1, <2>2 DEF Adds
<1>2. h[D] = g[D]
  OBVIOUS
<1> HIDE DEF h
<1>3. QED
  BY <1>1, <1>2, SumIs

\* The sum of sums is the sum of both.
LEMMA TotalPlus ==
  ASSUME NEW f, NEW h, NEW e, IsFiniteSet(DOMAIN f), DOMAIN h = DOMAIN f, DOMAIN e = DOMAIN f,
         \A x \in DOMAIN f : f[x] \in Int /\ h[x] \in Int /\ e[x] = f[x] + h[x]
  PROVE  Total(e) = Total(f) + Total(h)
<1> DEFINE D == DOMAIN f
           g == [s \in SUBSET D |-> Total(Restrict(f, s)) + Total(Restrict(h, s))]
<1>1. g[{}] = 0
  <2>1. g[{}] = Total(Restrict(f, {})) + Total(Restrict(h, {}))
    OBVIOUS
  <2>2. QED
    BY <2>1, RestrictEmpty
<1>2. ASSUME NEW s \in SUBSET D, NEW x \in s
      PROVE  g[s] = e[x] + g[s \ {x}]
  <2> DEFINE a == Total(Restrict(f, s \ {x}))
             b == Total(Restrict(h, s \ {x}))
  <2>1. s \ {x} \in SUBSET D /\ x \in D
    OBVIOUS
  <2>2. a \in Int /\ b \in Int
    BY <2>1, RestrictTakes
  <2>3. Total(Restrict(f, s)) = f[x] + a /\ Total(Restrict(h, s)) = h[x] + b
    BY RestrictTakes
  <2>4. g[s] = Total(Restrict(f, s)) + Total(Restrict(h, s)) /\ g[s \ {x}] = a + b
    BY <2>1
  <2> HIDE DEF a, b, g
  <2>5. f[x] \in Int /\ h[x] \in Int /\ e[x] = f[x] + h[x]
    BY <2>1
  <2>6. (f[x] + a) + (h[x] + b) = (f[x] + h[x]) + (a + b)
    BY <2>2, <2>5
  <2>7. QED
    BY <2>3, <2>4, <2>5, <2>6
<1>3. g[D] = Total(Restrict(f, D)) + Total(Restrict(h, D))
  OBVIOUS
<1> HIDE DEF g
<1>4. Total(e) = g[D]
  <2>1. \A s \in SUBSET DOMAIN e : \A x \in s : g[s] = e[x] + g[s \ {x}]
    BY <1>2
  <2>2. QED
    BY <1>1, <2>1, TotalUnique
<1>5. Total(Restrict(f, D)) = Total(f) /\ Total(Restrict(h, D)) = Total(h)
  BY RestrictWhole
<1>6. QED
  BY <1>3, <1>4, <1>5

\* A sum of multiples is the multiple of the sum.
LEMMA TotalTimes ==
  ASSUME NEW f, NEW c \in Int, NEW e, IsFiniteSet(DOMAIN f), DOMAIN e = DOMAIN f,
         \A x \in DOMAIN f : f[x] \in Int /\ e[x] = c * f[x]
  PROVE  Total(f) \in Int /\ Total(e) = c * Total(f)
<1> DEFINE D == DOMAIN f
           g == [s \in SUBSET D |-> c * Total(Restrict(f, s))]
<1>1. g[{}] = 0
  <2>1. g[{}] = c * Total(Restrict(f, {}))
    OBVIOUS
  <2>2. QED
    BY <2>1, RestrictEmpty
<1>2. ASSUME NEW s \in SUBSET D, NEW x \in s
      PROVE  g[s] = e[x] + g[s \ {x}]
  <2> DEFINE a == Total(Restrict(f, s \ {x}))
             y == f[x]
  <2>1. s \ {x} \in SUBSET D /\ x \in D
    OBVIOUS
  <2>2. a \in Int /\ Total(Restrict(f, s)) = y + a
    BY <2>1, RestrictTakes
  <2>3. y \in Int /\ e[x] = c * y
    BY <2>1
  <2>4. g[s] = c * Total(Restrict(f, s)) /\ g[s \ {x}] = c * a
    BY <2>1
  <2> HIDE DEF a, y, g
  <2>5. g[s] = c * (y + a)
    BY <2>2, <2>4
  <2>6. c * (y + a) = c * y + c * a
    BY <2>2, <2>3
  <2>7. QED
    BY <2>3, <2>4, <2>5, <2>6
<1>3. g[D] = c * Total(Restrict(f, D))
  OBVIOUS
<1> HIDE DEF g
<1>4. Total(e) = g[D]
  <2>1. \A s \in SUBSET DOMAIN e : \A x \in s : g[s] = e[x] + g[s \ {x}]
    BY <1>2
  <2>2. QED
    BY <1>1, <2>1, TotalUnique
<1>5. Total(Restrict(f, D)) = Total(f) /\ Total(f) \in Int
  BY RestrictWhole, TotalTakes
<1>6. QED
  BY <1>3, <1>4, <1>5

\* Where a function is zero there is nothing to add.
LEMMA TotalWhere ==
  ASSUME NEW f, IsFiniteSet(DOMAIN f), \A x \in DOMAIN f : f[x] \in Int,
         NEW T \in SUBSET DOMAIN f, \A x \in DOMAIN f \ T : f[x] = 0
  PROVE  Total(f) = Total(Restrict(f, T))
<1> DEFINE D == DOMAIN f
           g == [s \in SUBSET D |-> Total(Restrict(f, s \cap T))]
<1>1. g[{}] = 0
  <2>1. g[{}] = Total(Restrict(f, {}))
    OBVIOUS
  <2>2. QED
    BY <2>1, RestrictEmpty
<1>2. ASSUME NEW s \in SUBSET D, NEW x \in s
      PROVE  g[s] = f[x] + g[s \ {x}]
  <2>1. g[s] = Total(Restrict(f, s \cap T)) /\ g[s \ {x}] = Total(Restrict(f, (s \ {x}) \cap T))
    OBVIOUS
  <2> HIDE DEF g
  <2>2. CASE x \in T
    <3>1. s \cap T \in SUBSET D /\ x \in s \cap T /\ (s \cap T) \ {x} = (s \ {x}) \cap T
      BY <2>2
    <3>2. Total(Restrict(f, s \cap T)) = f[x] + Total(Restrict(f, (s \cap T) \ {x}))
      BY <3>1, RestrictTakes
    <3>3. QED
      BY <2>1, <3>1, <3>2
  <2>3. CASE x \notin T
    <3>1. (s \ {x}) \cap T = s \cap T /\ f[x] = 0 /\ s \cap T \in SUBSET D
      BY <2>3
    <3>2. Total(Restrict(f, s \cap T)) \in Int
      BY <3>1, RestrictTakes
    <3>3. g[s] = Total(Restrict(f, s \cap T)) /\ g[s \ {x}] = Total(Restrict(f, s \cap T))
      BY <2>1, <3>1
    <3> HIDE DEF g
    <3> DEFINE t == Total(Restrict(f, s \cap T))
    <3>4. t = 0 + t
      BY <3>2
    <3>5. QED
      BY <3>1, <3>3, <3>4
  <2>4. QED
    BY <2>2, <2>3
<1>3. g[D] = Total(Restrict(f, T))
  <2>1. D \cap T = T
    OBVIOUS
  <2>2. QED
    BY <2>1
<1> HIDE DEF g
<1>4. QED
  BY <1>1, <1>2, <1>3, TotalUnique

\* A sum of zeros is zero.
LEMMA TotalZero ==
  ASSUME NEW f, IsFiniteSet(DOMAIN f), \A x \in DOMAIN f : f[x] = 0
  PROVE  Total(f) = 0
<1>1. Total(f) = Total(Restrict(f, {}))
  BY TotalWhere
<1>2. QED
  BY <1>1, RestrictEmpty

\* Larger values, larger sum.
LEMMA TotalMonotone ==
  ASSUME NEW f, NEW h, IsFiniteSet(DOMAIN f), DOMAIN h = DOMAIN f,
         \A x \in DOMAIN f : f[x] \in Int /\ h[x] \in Int /\ f[x] <= h[x]
  PROVE  Total(f) <= Total(h)
<1> DEFINE D == DOMAIN f
           T == {s \in SUBSET D : ~(Total(Restrict(f, s)) <= Total(Restrict(h, s)))}
<1>1. ASSUME T # {} PROVE FALSE
  <2>1. PICK m \in T : \A t \in T : t \subseteq m => t = m
    <3>1. T \in SUBSET SUBSET D
      OBVIOUS
    <3> HIDE DEF T
    <3>2. QED
      BY <1>1, <3>1, LeastSubset
  <2>2. m # {}
    <3>1. Total(Restrict(f, {})) = 0 /\ Total(Restrict(h, {})) = 0
      BY RestrictEmpty
    <3>2. Total(Restrict(f, {})) <= Total(Restrict(h, {}))
      BY <3>1
    <3>3. QED
      BY <3>2
  <2>3. PICK x \in m : TRUE
    BY <2>2
  <2> DEFINE a == Total(Restrict(f, m \ {x}))
             b == Total(Restrict(h, m \ {x}))
  <2>4. m \ {x} \in SUBSET D /\ x \in D /\ m \in SUBSET D
    OBVIOUS
  <2>5. a <= b
    <3>1. m \ {x} \notin T
      BY <2>1
    <3>2. QED
      BY <2>4, <3>1
  <2>6. a \in Int /\ b \in Int
    BY <2>4, RestrictTakes
  <2>7. Total(Restrict(f, m)) = f[x] + a /\ Total(Restrict(h, m)) = h[x] + b
    BY <2>4, RestrictTakes
  <2>8. ~(Total(Restrict(f, m)) <= Total(Restrict(h, m)))
    OBVIOUS
  <2> HIDE DEF a, b, T
  <2>9. f[x] \in Int /\ h[x] \in Int /\ f[x] <= h[x]
    BY <2>4
  <2>10. f[x] + a <= h[x] + b
    BY <2>5, <2>6, <2>9
  <2>11. QED
    BY <2>7, <2>8, <2>10
<1>2. Total(Restrict(f, D)) <= Total(Restrict(h, D))
  BY <1>1
<1>3. Total(Restrict(f, D)) = Total(f) /\ Total(Restrict(h, D)) = Total(h)
  BY RestrictWhole
<1>4. QED
  BY <1>2, <1>3

\* A sum of natural numbers is one, and no smaller than any of them.
LEMMA TotalNat ==
  ASSUME NEW f, IsFiniteSet(DOMAIN f), \A x \in DOMAIN f : f[x] \in Nat
  PROVE  Total(f) \in Nat /\ \A x \in DOMAIN f : f[x] <= Total(f)
<1> DEFINE D == DOMAIN f
<1>1. \A x \in D : f[x] \in Int /\ 0 <= f[x]
  OBVIOUS
<1>2. ASSUME NEW s \in SUBSET D
      PROVE  Total(Restrict(f, s)) \in Nat
  <2> DEFINE z == [x \in s |-> 0]
             p == Restrict(f, s)
  <2>1. IsFiniteSet(s) /\ DOMAIN z = s /\ DOMAIN p = s /\ \A x \in s : z[x] = 0 /\ p[x] = f[x]
    BY FS_Subset DEF Restrict
  <2>2. \A x \in s : z[x] \in Int /\ p[x] \in Int /\ z[x] <= p[x]
    BY <1>1, <2>1
  <2>3. Total(p) \in Int
    BY <1>1, RestrictTakes
  <2> HIDE DEF z, p
  <2>4. Total(z) = 0
    BY <2>1, TotalZero
  <2>5. Total(z) <= Total(p)
    BY <2>1, <2>2, TotalMonotone
  <2>6. 0 <= Total(p)
    BY <2>4, <2>5
  <2>7. Total(p) \in Nat
    BY <2>3, <2>6
  <2>8. QED
    BY <2>7 DEF p
<1>3. Total(f) \in Nat
  BY <1>2, RestrictWhole
<1>4. ASSUME NEW x \in D
      PROVE  f[x] <= Total(f)
  <2>1. Total(f) = f[x] + Total(Restrict(f, D \ {x})) /\ Total(Restrict(f, D \ {x})) \in Nat
    BY <1>1, <1>2, TotalTakes DEF Others
  <2>2. f[x] \in Nat
    OBVIOUS
  <2> DEFINE r == Total(Restrict(f, D \ {x}))
  <2> HIDE DEF r
  <2>3. f[x] <= f[x] + r
    BY <2>1, <2>2 DEF r
  <2>4. QED
    BY <2>1, <2>3 DEF r
<1>5. QED
  BY <1>3, <1>4

\* A sum with one summand.
LEMMA TotalOne ==
  ASSUME NEW f, DOMAIN f = {1}, f[1] \in Int
  PROVE  Total(f) = f[1]
<1>1. IsFiniteSet(DOMAIN f) /\ 1 \in DOMAIN f /\ \A i \in DOMAIN f : f[i] \in Int
  BY FS_Singleton
<1>2. Total(f) = f[1] + Total(Others(f, 1))
  BY <1>1, TotalTakes
<1>3. DOMAIN Others(f, 1) = {}
  BY DEF Others, Restrict
<1>4. Total(Others(f, 1)) = 0
  BY <1>3, TotalEmpty
<1>5. QED
  BY <1>2, <1>4

\* One more key adds its value.
LEMMA TotalPut ==
  ASSUME NEW f, IsFiniteSet(DOMAIN f), \A x \in DOMAIN f : f[x] \in Int,
         NEW k, k \notin DOMAIN f, NEW v \in Int, NEW e, DOMAIN e = DOMAIN f \cup {k},
         e[k] = v, \A x \in DOMAIN f : e[x] = f[x]
  PROVE  Total(e) = Total(f) + v
<1>1. IsFiniteSet(DOMAIN e) /\ \A x \in DOMAIN e : e[x] \in Int
  BY FS_AddElement
<1>2. Total(e) = v + Total(Others(e, k))
  BY <1>1, TotalTakes
<1>3. Others(e, k) = Restrict(f, DOMAIN f)
  BY DEF Others, Restrict
<1>4. Total(Others(e, k)) = Total(f) /\ Total(f) \in Int
  BY <1>3, RestrictWhole, TotalTakes
<1>5. QED
  BY <1>2, <1>4

\* A value that is replaced leaves the sum, and its successor enters it.
LEMMA TotalReplace ==
  ASSUME NEW f, IsFiniteSet(DOMAIN f), \A x \in DOMAIN f : f[x] \in Int,
         NEW e, DOMAIN e = DOMAIN f, NEW k \in DOMAIN f, e[k] \in Int,
         \A x \in DOMAIN f : x # k => e[x] = f[x]
  PROVE  Total(e) = Total(f) - f[k] + e[k]
<1>1. \A x \in DOMAIN e : e[x] \in Int
  OBVIOUS
<1>2. Total(e) = e[k] + Total(Others(e, k)) /\ Total(f) = f[k] + Total(Others(f, k))
  BY <1>1, TotalTakes
<1>3. Others(e, k) = Others(f, k)
  BY DEF Others, Restrict
<1>4. Total(Others(f, k)) \in Int
  BY RestrictTakes DEF Others
<1>5. QED
  BY <1>2, <1>3, <1>4

\* One more place at the end of a list adds its value.
LEMMA TotalOneMore ==
  ASSUME NEW n \in Nat, NEW f, DOMAIN f = 1 .. n, \A i \in 1 .. n : f[i] \in Int,
         NEW e, DOMAIN e = 1 .. n + 1, \A i \in 1 .. n : e[i] = f[i], e[n + 1] \in Int
  PROVE  Total(f) \in Int /\ Total(e) = Total(f) + e[n + 1]
<1> DEFINE k == n + 1
           v == e[k]
<1>1. 1 .. n + 1 = 1 .. n \cup {k} /\ k \notin 1 .. n /\ IsFiniteSet(1 .. n)
  <2>1. 1 .. n + 1 = 1 .. n \cup {n + 1} /\ n + 1 \notin 1 .. n
    OBVIOUS
  <2>2. n \in Int /\ 1 \in Int
    OBVIOUS
  <2>3. IsFiniteSet(1 .. n)
    BY <2>2, FS_Interval
  <2>4. QED
    BY <2>1, <2>3
<1>2. /\ IsFiniteSet(DOMAIN f) /\ k \notin DOMAIN f /\ DOMAIN e = DOMAIN f \cup {k}
      /\ v \in Int /\ e[k] = v /\ \A i \in DOMAIN f : f[i] \in Int /\ e[i] = f[i]
  BY <1>1
<1> HIDE DEF k, v
<1>3. Total(f) \in Int
  BY <1>2, TotalTakes
<1>4. Total(e) = Total(f) + v
  BY <1>2, TotalPut
<1>5. QED
  BY <1>3, <1>4 DEF k, v

\* Of natural numbers, a larger part has a larger sum.
LEMMA TotalSubset ==
  ASSUME NEW f, IsFiniteSet(DOMAIN f), \A x \in DOMAIN f : f[x] \in Nat,
         NEW T \in SUBSET DOMAIN f, NEW S \in SUBSET T
  PROVE  /\ Total(Restrict(f, S)) \in Nat /\ Total(Restrict(f, T)) \in Nat
         /\ Total(Restrict(f, S)) <= Total(Restrict(f, T))
<1> DEFINE g == [x \in T |-> IF x \in S THEN f[x] ELSE 0]
           h == Restrict(f, T)
           r == Restrict(f, S)
<1>1. /\ DOMAIN g = T /\ DOMAIN h = T /\ DOMAIN r = S
      /\ \A x \in T : g[x] \in Nat /\ h[x] \in Nat /\ g[x] <= h[x]
      /\ \A x \in T \ S : g[x] = 0
      /\ \A x \in S : r[x] \in Nat
  BY DEF Restrict
<1>2. Restrict(g, S) = r
  BY DEF Restrict
<1>3. IsFiniteSet(T) /\ IsFiniteSet(S)
  BY FS_Subset
<1> HIDE DEF g, h, r
<1>4. \A x \in T : g[x] \in Int /\ h[x] \in Int
  BY <1>1
<1>5. Total(g) = Total(Restrict(g, S))
  BY <1>1, <1>3, <1>4, TotalWhere
<1>6. Total(g) <= Total(h)
  BY <1>1, <1>3, <1>4, TotalMonotone
<1>7. Total(h) \in Nat /\ Total(r) \in Nat
  BY <1>1, <1>3, TotalNat
<1>8. QED
  BY <1>2, <1>5, <1>6, <1>7 DEF h, r

\* Also by what the larger part has besides.
LEMMA TotalSubsetAnd ==
  ASSUME NEW f, IsFiniteSet(DOMAIN f), \A x \in DOMAIN f : f[x] \in Nat,
         NEW T \in SUBSET DOMAIN f, NEW S \in SUBSET T, NEW y \in T \ S
  PROVE  Total(Restrict(f, S)) + f[y] <= Total(Restrict(f, T))
<1> DEFINE U == S \cup {y}
<1>1. U \in SUBSET T /\ U \in SUBSET DOMAIN f /\ y \in U /\ U \ {y} = S
  OBVIOUS
<1>2. \A x \in DOMAIN f : f[x] \in Int
  OBVIOUS
<1> HIDE DEF U
<1>3. Total(Restrict(f, U)) = f[y] + Total(Restrict(f, S))
  BY <1>1, <1>2, RestrictTakes
<1>4. /\ Total(Restrict(f, U)) <= Total(Restrict(f, T))
  BY <1>1, TotalSubset
<1>5. Total(Restrict(f, S)) \in Nat /\ f[y] \in Nat
  BY TotalSubset
<1>6. QED
  BY <1>3, <1>4, <1>5

\* Numbers moved up by one.
LEMMA MovedUp ==
  ASSUME NEW n \in Nat, NEW s \in SUBSET (1 .. n)
  PROVE  /\ {i + 1 : i \in s} \in SUBSET (1 .. n + 1)
         /\ \A x \in s : x + 1 \in {i + 1 : i \in s} /\ {i + 1 : i \in s \ {x}} = {i + 1 : i \in s} \ {x + 1}
         /\ {i + 1 : i \in 1 .. n} = (1 .. n + 1) \ {1}
<1>1. {i + 1 : i \in s} \in SUBSET (1 .. n + 1)
  OBVIOUS
<1>2. ASSUME NEW x \in s
      PROVE  {i + 1 : i \in s \ {x}} = {i + 1 : i \in s} \ {x + 1}
  <2>1. ASSUME NEW y \in {i + 1 : i \in s \ {x}}
        PROVE  y \in {i + 1 : i \in s} \ {x + 1}
    <3>1. PICK i \in s \ {x} : y = i + 1
      OBVIOUS
    <3>2. y # x + 1
      BY <3>1
    <3> QED
      BY <3>1, <3>2
  <2>2. ASSUME NEW y \in {i + 1 : i \in s} \ {x + 1}
        PROVE  y \in {i + 1 : i \in s \ {x}}
    <3>1. PICK i \in s : y = i + 1
      OBVIOUS
    <3>2. i # x
      BY <3>1
    <3> QED
      BY <3>1, <3>2
  <2> QED
    BY <2>1, <2>2
<1>3. \A j \in (1 .. n + 1) \ {1} : j - 1 \in 1 .. n /\ (j - 1) + 1 = j
  OBVIOUS
<1>4. (1 .. n + 1) \ {1} \subseteq {i + 1 : i \in 1 .. n}
  BY <1>3
<1>5. {i + 1 : i \in 1 .. n} \subseteq (1 .. n + 1) \ {1}
  OBVIOUS
<1> QED
  BY <1>1, <1>2, <1>4, <1>5

\* The sum of a list that has one more at its head.
LEMMA TotalHead ==
  ASSUME NEW n \in Nat, NEW f, DOMAIN f = 1 .. n, NEW e, DOMAIN e = 1 .. n + 1,
         \A i \in 1 .. n + 1 : e[i] \in Int, \A i \in 1 .. n : f[i] = e[i + 1]
  PROVE  Total(f) \in Int /\ Total(e) = e[1] + Total(f)
<1> DEFINE D == 1 .. n
           E == 1 .. n + 1
           up(s) == {i + 1 : i \in s}
           g == [s \in SUBSET D |-> Total(Restrict(e, up(s)))]
<1>1. IsFiniteSet(D) /\ IsFiniteSet(E)
  <2>1. n + 1 \in Int /\ n \in Int /\ 1 \in Int
    OBVIOUS
  <2> QED
    BY <2>1, FS_Interval
<1>2. \A i \in E : e[i] \in Int
  OBVIOUS
<1>3. ASSUME NEW s \in SUBSET D
      PROVE  /\ up(s) \in SUBSET E
             /\ \A x \in s : x + 1 \in up(s) /\ up(s \ {x}) = up(s) \ {x + 1}
             /\ \A x \in s : f[x] = e[x + 1]
  <2>1. s \in SUBSET (1 .. n)
    OBVIOUS
  <2>2. /\ {i + 1 : i \in s} \in SUBSET (1 .. n + 1)
        /\ \A x \in s : x + 1 \in {i + 1 : i \in s} /\ {i + 1 : i \in s \ {x}} = {i + 1 : i \in s} \ {x + 1}
    BY ONLY n \in Nat, <2>1, MovedUp
  <2> QED
    BY <2>1, <2>2
<1>4. up(D) = E \ {1} /\ up({}) = {} /\ 1 \in E /\ E \in SUBSET E /\ E \ {1} \in SUBSET E
  <2>1. {} \in SUBSET (1 .. n)
    OBVIOUS
  <2>2. {i + 1 : i \in 1 .. n} = (1 .. n + 1) \ {1}
    BY ONLY n \in Nat, <2>1, MovedUp
  <2> QED
    BY <2>2
<1> HIDE DEF up, D, E
<1>5. ASSUME NEW s \in SUBSET D, NEW x \in s
      PROVE  g[s] = f[x] + g[s \ {x}]
  <2>1. Total(Restrict(e, up(s))) = e[x + 1] + Total(Restrict(e, up(s) \ {x + 1}))
    <3>1. up(s) \in SUBSET E /\ x + 1 \in up(s)
      BY <1>3
    <3> DEFINE t == up(s)
    <3>2. t \in SUBSET E /\ x + 1 \in t
      BY <3>1
    <3> HIDE DEF t
    <3>3. Total(Restrict(e, t)) = e[x + 1] + Total(Restrict(e, t \ {x + 1}))
      BY ONLY <3>2, <1>1, <1>2, RestrictTakes
    <3> QED
      BY <3>3 DEF t
  <2>2. s \ {x} \in SUBSET D
    OBVIOUS
  <2> QED
    BY <1>3, <2>1, <2>2
<1>6. g[{}] = 0
  <2>1. {} \in SUBSET D
    OBVIOUS
  <2> QED
    BY <1>4, <2>1, RestrictEmpty
<1>7. g[D] = Total(Restrict(e, E \ {1}))
  BY <1>4
<1> HIDE DEF g
<1>8. Total(f) = g[D]
  <2>1. DOMAIN f = D /\ IsFiniteSet(DOMAIN f)
    BY <1>1 DEF D
  <2>2. g[{}] = 0 /\ \A s \in SUBSET DOMAIN f : \A x \in s : g[s] = f[x] + g[s \ {x}]
    BY <1>5, <1>6, <2>1
  <2> QED
    BY ONLY <2>1, <2>2, TotalUnique
<1>9. Total(Restrict(e, E)) = e[1] + Total(Restrict(e, E \ {1})) /\ Total(Restrict(e, E \ {1})) \in Int
  BY <1>1, <1>2, <1>4, RestrictTakes
<1>10. Total(Restrict(e, E)) = Total(e)
  <2>1. DOMAIN e = E /\ IsFiniteSet(DOMAIN e)
    BY <1>1 DEF E
  <2> QED
    BY <2>1, RestrictWhole
<1> QED
  BY <1>7, <1>8, <1>9, <1>10

\* Things that each have one of finitely many labels are as many as all labels count.
LEMMA LabelsCount ==
  ASSUME NEW D, IsFiniteSet(D), NEW f, IsFiniteSet(DOMAIN f), NEW label,
         \A i \in D : label[i] \in DOMAIN f,
         \A m \in DOMAIN f : f[m] = Cardinality({i \in D : label[i] = m})
  PROVE  Total(f) = Cardinality(D)
<1> DEFINE part(s) == {i \in D : label[i] \in s}
           g == [s \in SUBSET DOMAIN f |-> Cardinality(part(s))]
<1>1. g[{}] = 0
  <2>1. part({}) = {} /\ {} \in SUBSET DOMAIN f
    OBVIOUS
  <2> QED
    BY <2>1, FS_EmptySet
<1>2. ASSUME NEW s \in SUBSET DOMAIN f, NEW x \in s PROVE g[s] = f[x] + g[s \ {x}]
  <2> DEFINE A == {i \in D : label[i] = x}
             B == part(s \ {x})
             C == part(s)
  <2>1. A \in SUBSET D /\ B \in SUBSET D /\ A \cup B = C /\ A \cap B = {}
    OBVIOUS
  <2>2. f[x] = Cardinality(A) /\ g[s] = Cardinality(C) /\ g[s \ {x}] = Cardinality(B)
    <3>1. x \in DOMAIN f /\ s \ {x} \in SUBSET DOMAIN f
      OBVIOUS
    <3> HIDE DEF B, C
    <3> QED
      BY <3>1 DEF B, C
  <2> HIDE DEF A, B, C, g, part
  <2>3. IsFiniteSet(A) /\ IsFiniteSet(B)
    BY <2>1, FS_Subset
  <2>4. Cardinality(A) \in Nat /\ Cardinality(B) \in Nat /\ Cardinality({}) = 0
    BY <2>3, FS_CardinalityType, FS_EmptySet
  <2>5. Cardinality(A \cup B) = Cardinality(A) + Cardinality(B) - Cardinality(A \cap B)
    BY ONLY <2>3, FS_Union
  <2>6. Cardinality(C) = Cardinality(A) + Cardinality(B) - 0
    BY <2>1, <2>4, <2>5
  <2> QED
    BY <2>2, <2>4, <2>6
<1>3. g[DOMAIN f] = Cardinality(D)
  <2>1. part(DOMAIN f) = D
    OBVIOUS
  <2> QED
    BY <2>1
<1> HIDE DEF g
<1>4. Total(f) = g[DOMAIN f]
  BY ONLY <1>1, <1>2, IsFiniteSet(DOMAIN f), TotalUnique
<1> QED
  BY <1>3, <1>4
=============================================================================
