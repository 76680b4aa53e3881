---------------------------- MODULE SumTheorems ----------------------------
(***************************************************************************)
(* Facts about sums over finite sets, SumFunctionOnSet of Functions.  It   *)
(* is defined by recursion over subsets with CHOOSE, so each fact is       *)
(* proved by looking at a minimal subset that would refute it.             *)
(***************************************************************************)
EXTENDS Integers, Functions, FiniteSetTheorems, WellFoundedInduction, TLAPS

\* The element the fold takes next.
Pick(s) == CHOOSE x \in s : TRUE

\* One step of the fold: g is the sum over the smaller subsets.
Body(f, g, s) == IF s = {} THEN 0 ELSE f[Pick(s)] + g[s \ {Pick(s)}]

\* The library's sum is the fold defined by Body.
LEMMA Unfold ==
  ASSUME NEW f, NEW S
  PROVE SumFunctionOnSet(f, S) = (CHOOSE g : g = [s \in SUBSET S |-> Body(f, g, s)])[S]
BY DEF SumFunctionOnSet, FoldFunctionOnSet, MapThenFoldSet, Body, Pick

\* A set of subsets of a finite set has a member none of whose proper subsets
\* belongs to it.
LEMMA MinimalSubset ==
  ASSUME NEW S, IsFiniteSet(S), NEW T \in SUBSET (SUBSET S), T # {}
  PROVE  \E m \in T : \A y \in T : y \subseteq m => y = m
<1>1. IsWellFoundedOn(StrictSubsetOrdering(S), SUBSET S)
  BY FS_StrictSubsetOrderingWellFounded, FS_FiniteSubsetsOfFinite
<1>2. PICK m \in T : \A y \in T : ~ (<<y, m>> \in StrictSubsetOrdering(S))
  <2>1. T \subseteq SUBSET S OBVIOUS
  <2> QED BY <1>1, <2>1, WFMin
<1>3. ASSUME NEW y \in T, y \subseteq m, y # m PROVE FALSE
  <2>1. <<y, m>> \in (SUBSET S) \X (SUBSET S) OBVIOUS
  <2>2. <<y, m>> \in StrictSubsetOrdering(S) BY <2>1, <1>3 DEF StrictSubsetOrdering
  <2> QED BY <2>2, <1>2
<1> QED BY <1>3

\* g is a fold of f over the subsets of D.
IsIter(f, g, D) ==
  g \in [SUBSET D -> Int] /\ \A s \in SUBSET D : g[s] = Body(f, g, s)

\* Pick takes an element.
LEMMA PickIn == ASSUME NEW s, s # {} PROVE Pick(s) \in s
BY DEF Pick

\* Two folds of the same function agree where both are defined.
LEMMA IterAgree ==
  ASSUME NEW S, IsFiniteSet(S), NEW f, NEW D \in SUBSET S, NEW E \in SUBSET S,
         NEW g, NEW h, IsIter(f, g, D), IsIter(f, h, E),
         NEW s0 \in SUBSET D, s0 \in SUBSET E
  PROVE  g[s0] = h[s0]
<1> DEFINE T == {s \in SUBSET S : s \subseteq D /\ s \subseteq E /\ g[s] # h[s]}
<1>1. SUFFICES ASSUME T # {} PROVE FALSE
  OBVIOUS
<1>2. T \in SUBSET (SUBSET S) OBVIOUS
<1> HIDE DEF T
<1>3. PICK m \in T : \A y \in T : y \subseteq m => y = m
  BY <1>1, <1>2, MinimalSubset
<1>4. m \in SUBSET D /\ m \in SUBSET E /\ g[m] # h[m] BY <1>3 DEF T
<1>5. g[m] = Body(f, g, m) /\ h[m] = Body(f, h, m) BY <1>4 DEF IsIter
<1>6. m # {} BY <1>4, <1>5 DEF Body
<1> DEFINE n == m \ {Pick(m)}
<1>7. n \subseteq m /\ n # m BY <1>6, PickIn
<1>8. n \notin T BY <1>7, <1>3
<1>9. g[n] = h[n] BY <1>8, <1>7, <1>4 DEF T
<1> QED BY <1>9, <1>5, <1>4, <1>6 DEF Body

\* Every integer-valued function has a fold over a finite set.
LEMMA IterExists ==
  ASSUME NEW S, IsFiniteSet(S), NEW f, \A x \in S : f[x] \in Int
  PROVE  \E g : IsIter(f, g, S)
<1> DEFINE T == {D \in SUBSET S : ~ \E g : IsIter(f, g, D)}
<1>1. SUFFICES ASSUME T # {} PROVE FALSE
  OBVIOUS
<1>2. T \in SUBSET (SUBSET S) OBVIOUS
<1> HIDE DEF T
<1>3. PICK D \in T : \A y \in T : y \subseteq D => y = D
  BY <1>1, <1>2, MinimalSubset
<1>4. D \in SUBSET S /\ ~ \E g : IsIter(f, g, D) BY <1>3 DEF T
<1> DEFINE G(s) == CHOOSE g : IsIter(f, g, s)
<1>5. ASSUME NEW s \in SUBSET D, s # D PROVE IsIter(f, G(s), s)
  BY <1>5, <1>3, <1>4 DEF T
<1> DEFINE V(s) == G(s)[s]
<1> DEFINE W(s) == IF s = {} THEN 0 ELSE f[Pick(s)] + V(s \ {Pick(s)})
<1> DEFINE h == [s \in SUBSET D |-> W(s)]
<1>6. ASSUME NEW s \in SUBSET D, s # D PROVE V(s) \in Int /\ V(s) = W(s)
  <2>1. IsIter(f, G(s), s) BY <1>5, <1>6
  <2>2. V(s) \in Int /\ V(s) = Body(f, G(s), s) BY <2>1 DEF IsIter
  <2>3. CASE s = {} BY <2>2, <2>3 DEF Body
  <2>4. CASE s # {}
    <3> DEFINE n == s \ {Pick(s)}
    <3>1. n \in SUBSET D /\ n # D /\ n \in SUBSET s BY <2>4, PickIn, <1>6
    <3>2. IsIter(f, G(n), n) BY <1>5, <3>1
    <3>3. n \in SUBSET S /\ s \in SUBSET S BY <1>4, <3>1
    <3> HIDE DEF n, G
    <3>4. G(n)[n] = G(s)[n] BY <3>2, <2>1, <3>3, <3>1, IterAgree
    <3> QED BY <3>4, <2>2, <2>4 DEF Body, n
  <2> QED BY <2>3, <2>4
<1> HIDE DEF G
<1>7. ASSUME NEW s \in SUBSET D, s # {}
      PROVE s \ {Pick(s)} \in SUBSET D /\ s \ {Pick(s)} # D /\ f[Pick(s)] \in Int
  BY <1>7, PickIn, <1>4
<1>8. ASSUME NEW s \in SUBSET D PROVE W(s) \in Int
  <2>1. CASE s = {} BY <2>1
  <2>2. CASE s # {}
    <3> DEFINE n == s \ {Pick(s)}
    <3>1. n \in SUBSET D /\ n # D /\ f[Pick(s)] \in Int BY <2>2, <1>7
    <3>2. V(n) \in Int BY <3>1, <1>6
    <3>3. W(s) = f[Pick(s)] + V(n) BY <2>2
    <3> HIDE DEF n, V, W
    <3> QED BY <3>1, <3>2, <3>3
  <2> QED BY <2>1, <2>2
<1>9. h \in [SUBSET D -> Int] BY <1>8
<1>10. ASSUME NEW s \in SUBSET D PROVE h[s] = Body(f, h, s)
  <2>1. CASE s = {} BY <2>1 DEF Body
  <2>2. CASE s # {}
    <3> DEFINE n == s \ {Pick(s)}
    <3>1. n \in SUBSET D /\ n # D BY <2>2, <1>7
    <3>2. h[n] = V(n) BY <3>1, <1>6
    <3>3. h[s] = f[Pick(s)] + V(n) BY <2>2
    <3> QED BY <3>2, <3>3, <2>2 DEF Body
  <2> QED BY <2>1, <2>2
<1>11. IsIter(f, h, D) BY <1>9, <1>10 DEF IsIter
<1> QED BY <1>11, <1>4

\* A sum is the value of such a fold.
LEMMA SumUnfold ==
  ASSUME NEW S, IsFiniteSet(S), NEW f, \A x \in S : f[x] \in Int
  PROVE  \E g : IsIter(f, g, S) /\ SumFunctionOnSet(f, S) = g[S]
<1>1. PICK g : IsIter(f, g, S) BY IterExists
<1>2. g = [s \in SUBSET S |-> Body(f, g, s)] BY <1>1 DEF IsIter
<1> DEFINE c == CHOOSE k : k = [s \in SUBSET S |-> Body(f, k, s)]
<1>3. c = [s \in SUBSET S |-> Body(f, c, s)] BY <1>2
<1> HIDE DEF c
<1>4. \A s \in SUBSET S : c[s] = Body(f, c, s) BY <1>3
<1>5. \A s \in SUBSET S : c[s] = g[s]
  <2> DEFINE T == {s \in SUBSET S : c[s] # g[s]}
  <2>1. SUFFICES ASSUME T # {} PROVE FALSE OBVIOUS
  <2>2. T \in SUBSET (SUBSET S) OBVIOUS
  <2> HIDE DEF T
  <2>3. PICK m \in T : \A y \in T : y \subseteq m => y = m
    BY <2>1, <2>2, MinimalSubset
  <2>4. m \in SUBSET S /\ c[m] # g[m] BY <2>3 DEF T
  <2>5. c[m] = Body(f, c, m) /\ g[m] = Body(f, g, m) BY <2>4, <1>4, <1>1 DEF IsIter
  <2>6. m # {} BY <2>4, <2>5 DEF Body
  <2> DEFINE n == m \ {Pick(m)}
  <2>7. n \subseteq m /\ n # m BY <2>6, PickIn
  <2>8. c[n] = g[n] BY <2>7, <2>3, <2>4 DEF T
  <2> QED BY <2>8, <2>5, <2>4, <2>6 DEF Body
<1>6. SumFunctionOnSet(f, S) = c[S] BY Unfold DEF c
<1> QED BY <1>6, <1>5, <1>1

\* A sum of natural numbers is a natural number.
LEMMA SumNat ==
  ASSUME NEW S, IsFiniteSet(S), NEW f, \A x \in S : f[x] \in Nat
  PROVE  SumFunctionOnSet(f, S) \in Nat
<1>1. PICK g : IsIter(f, g, S) /\ SumFunctionOnSet(f, S) = g[S] BY SumUnfold
<1> DEFINE T == {s \in SUBSET S : g[s] \notin Nat}
<1>2. SUFFICES ASSUME T # {} PROVE FALSE BY <1>1
<1>3. T \in SUBSET (SUBSET S) OBVIOUS
<1> HIDE DEF T
<1>4. PICK m \in T : \A y \in T : y \subseteq m => y = m
  BY <1>2, <1>3, MinimalSubset
<1>5. m \in SUBSET S /\ g[m] \notin Nat BY <1>4 DEF T
<1>6. g[m] = Body(f, g, m) BY <1>5, <1>1 DEF IsIter
<1>7. m # {} BY <1>5, <1>6 DEF Body
<1> DEFINE n == m \ {Pick(m)}
<1>8. n \subseteq m /\ n # m /\ Pick(m) \in S BY <1>7, PickIn, <1>5
<1>9. g[n] \in Nat BY <1>8, <1>4, <1>5 DEF T
<1> QED BY <1>9, <1>6, <1>7, <1>8, <1>5 DEF Body

\* Changing one summand changes the sum by the difference.
LEMMA SumUpdate ==
  ASSUME NEW S, IsFiniteSet(S), NEW f, NEW h, NEW k \in S,
         \A x \in S : f[x] \in Int, \A x \in S : h[x] \in Int,
         \A x \in S \ {k} : h[x] = f[x]
  PROVE  SumFunctionOnSet(h, S) = SumFunctionOnSet(f, S) + h[k] - f[k]
<1>1. PICK g : IsIter(f, g, S) /\ SumFunctionOnSet(f, S) = g[S] BY SumUnfold
<1>2. PICK q : IsIter(h, q, S) /\ SumFunctionOnSet(h, S) = q[S] BY SumUnfold
<1> DEFINE D(s) == IF k \in s THEN h[k] - f[k] ELSE 0
<1> DEFINE T == {s \in SUBSET S : q[s] # g[s] + D(s)}
<1>3. SUFFICES ASSUME T # {} PROVE FALSE
  <2>1. g[S] \in Int BY <1>1 DEF IsIter
  <2> QED BY <1>1, <1>2, <2>1
<1>4. T \in SUBSET (SUBSET S) OBVIOUS
<1> HIDE DEF T
<1>5. PICK m \in T : \A y \in T : y \subseteq m => y = m
  BY <1>3, <1>4, MinimalSubset
<1>6. m \in SUBSET S /\ q[m] # g[m] + D(m) BY <1>5 DEF T
<1>7. q[m] = Body(h, q, m) /\ g[m] = Body(f, g, m) BY <1>6, <1>1, <1>2 DEF IsIter
<1>8. m # {} BY <1>6, <1>7 DEF Body
<1> DEFINE n == m \ {Pick(m)}
<1>9. n \subseteq m /\ n # m /\ Pick(m) \in S /\ n \in SUBSET S BY <1>8, PickIn, <1>6
<1>10. q[n] = g[n] + D(n) BY <1>9, <1>5, <1>6 DEF T
<1>11. g[n] \in Int /\ q[n] \in Int BY <1>9, <1>1, <1>2 DEF IsIter
<1>12. q[m] = h[Pick(m)] + q[n] /\ g[m] = f[Pick(m)] + g[n] BY <1>7, <1>8 DEF Body
<1>13. CASE Pick(m) = k
  <2>1. k \in m /\ k \notin n BY <1>8, PickIn, <1>13
  <2> HIDE DEF n
  <2> QED BY <2>1, <1>10, <1>11, <1>12, <1>13, <1>6
<1>14. CASE Pick(m) # k
  <2>1. k \in m <=> k \in n BY <1>14
  <2>2. h[Pick(m)] = f[Pick(m)] /\ f[Pick(m)] \in Int BY <1>14, <1>9
  <2> HIDE DEF n
  <2> QED BY <2>1, <2>2, <1>10, <1>11, <1>12, <1>6
<1> QED BY <1>13, <1>14

\* A sum of integers is an integer.
LEMMA SumInt ==
  ASSUME NEW S, IsFiniteSet(S), NEW f, \A x \in S : f[x] \in Int
  PROVE  SumFunctionOnSet(f, S) \in Int
<1>1. PICK g : IsIter(f, g, S) /\ SumFunctionOnSet(f, S) = g[S] BY SumUnfold
<1>2. g \in [SUBSET S -> Int] BY <1>1 DEF IsIter
<1> QED BY <1>1, <1>2

\* The empty sum.
LEMMA SumEmpty ==
  ASSUME NEW f PROVE SumFunctionOnSet(f, {}) = 0
<1>1. IsFiniteSet({}) BY FS_EmptySet
<1>2. PICK g : IsIter(f, g, {}) /\ SumFunctionOnSet(f, {}) = g[{}] BY <1>1, SumUnfold
<1> QED BY <1>2 DEF IsIter, Body

\* Only the values on the set matter.
LEMMA SumSame ==
  ASSUME NEW S, IsFiniteSet(S), NEW f, NEW h,
         \A x \in S : f[x] \in Int, \A x \in S : h[x] = f[x]
  PROVE  SumFunctionOnSet(h, S) = SumFunctionOnSet(f, S)
<1>1. PICK g : IsIter(f, g, S) /\ SumFunctionOnSet(f, S) = g[S] BY SumUnfold
<1>2. PICK q : IsIter(h, q, S) /\ SumFunctionOnSet(h, S) = q[S] BY SumUnfold
<1>3. \A s \in SUBSET S : Body(f, q, s) = Body(h, q, s) BY PickIn DEF Body
<1>4. IsIter(f, q, S) BY <1>2, <1>3 DEF IsIter
<1>5. g[S] = q[S] BY <1>1, <1>4, IterAgree
<1> QED BY <1>1, <1>2, <1>5

\* Any element can be split off, not only the one the fold takes first.
LEMMA SumRemove ==
  ASSUME NEW S, IsFiniteSet(S), NEW f, \A x \in S : f[x] \in Int, NEW p \in S
  PROVE  SumFunctionOnSet(f, S) = f[p] + SumFunctionOnSet(f, S \ {p})
<1>1. PICK g : IsIter(f, g, S) /\ SumFunctionOnSet(f, S) = g[S] BY SumUnfold
<1> DEFINE T == {s \in SUBSET S : \E x \in s : g[s] # f[x] + g[s \ {x}]}
<1>2. T = {}
  <2>1. SUFFICES ASSUME T # {} PROVE FALSE OBVIOUS
  <2>2. T \in SUBSET (SUBSET S) OBVIOUS
  <2> HIDE DEF T
  <2>3. PICK m \in T : \A y \in T : y \subseteq m => y = m
    BY <2>1, <2>2, MinimalSubset
  <2>4. m \in SUBSET S BY <2>3 DEF T
  <2>5. PICK x \in m : g[m] # f[x] + g[m \ {x}] BY <2>3 DEF T
  <2> DEFINE c == Pick(m)
             n == m \ {c}
             o == m \ {x}
             z == n \ {x}
  <2>6. c \in m BY <2>5, PickIn
  <2>7. g[m] = f[c] + g[n] BY <2>4, <2>5, <1>1 DEF IsIter, Body
  <2>8. c # x BY <2>5, <2>7
  <2>9. g[n] = f[x] + g[z]
    <3>1. n \in SUBSET S /\ x \in n /\ n \subseteq m /\ n # m BY <2>4, <2>6, <2>8
    <3> QED BY <3>1, <2>3 DEF T
  <2>10. g[o] = f[c] + g[z]
    <3>1. o \in SUBSET S /\ c \in o /\ o \subseteq m /\ o # m BY <2>4, <2>6, <2>8
    <3>2. o \ {c} = z OBVIOUS
    <3> QED BY <3>1, <3>2, <2>3 DEF T
  <2>11. f[c] \in Int /\ f[x] \in Int /\ g[z] \in Int /\ z \in SUBSET S
    BY <2>4, <2>6, <1>1 DEF IsIter
  <2> HIDE DEF c, n, o, z
  <2>12. g[m] = f[x] + g[o] BY <2>7, <2>9, <2>10, <2>11
  <2> QED BY <2>5, <2>12 DEF o
<1>3. g[S] = f[p] + g[S \ {p}] BY <1>2
<1> DEFINE D == S \ {p}
<1>4. IsFiniteSet(D) /\ D \in SUBSET S BY FS_RemoveElement
<1>5. PICK h : IsIter(f, h, D) /\ SumFunctionOnSet(f, D) = h[D] BY <1>4, SumUnfold
<1>6. g[D] = h[D]
  <2> HIDE DEF D
  <2> QED BY <1>1, <1>4, <1>5, IterAgree
<1> QED BY <1>1, <1>3, <1>5, <1>6

\* Putting an element in adds its value.
LEMMA SumInsert ==
  ASSUME NEW S, IsFiniteSet(S), NEW p, p \notin S, NEW U, U = S \cup {p}, NEW f, NEW h,
         \A x \in S : f[x] \in Int, \A x \in S : h[x] = f[x], h[p] \in Int
  PROVE  SumFunctionOnSet(h, U) = SumFunctionOnSet(f, S) + h[p]
<1>1. IsFiniteSet(U) BY FS_AddElement
<1>2. \A x \in U : h[x] \in Int OBVIOUS
<1>3. U \ {p} = S /\ p \in U OBVIOUS
<1>4. SumFunctionOnSet(h, U) = h[p] + SumFunctionOnSet(h, S) BY <1>1, <1>2, <1>3, SumRemove
<1>5. SumFunctionOnSet(h, S) = SumFunctionOnSet(f, S) BY SumSame
<1>6. SumFunctionOnSet(f, S) \in Int BY SumInt
<1> QED BY <1>4, <1>5, <1>6

\* Sums add up pointwise.
LEMMA SumAdd ==
  ASSUME NEW S, IsFiniteSet(S), NEW f, NEW d, NEW h,
         \A x \in S : f[x] \in Int /\ d[x] \in Int /\ h[x] = f[x] + d[x]
  PROVE  SumFunctionOnSet(h, S) = SumFunctionOnSet(f, S) + SumFunctionOnSet(d, S)
<1>0. \A x \in S : h[x] \in Int OBVIOUS
<1>1. PICK g : IsIter(f, g, S) /\ SumFunctionOnSet(f, S) = g[S] BY SumUnfold
<1>2. PICK e : IsIter(d, e, S) /\ SumFunctionOnSet(d, S) = e[S] BY SumUnfold
<1>3. PICK q : IsIter(h, q, S) /\ SumFunctionOnSet(h, S) = q[S] BY <1>0, SumUnfold
<1> DEFINE T == {s \in SUBSET S : q[s] # g[s] + e[s]}
<1>4. SUFFICES ASSUME T # {} PROVE FALSE BY <1>1, <1>2, <1>3
<1>5. T \in SUBSET (SUBSET S) OBVIOUS
<1> HIDE DEF T
<1>6. PICK m \in T : \A y \in T : y \subseteq m => y = m
  BY <1>4, <1>5, MinimalSubset
<1>7. m \in SUBSET S /\ q[m] # g[m] + e[m] BY <1>6 DEF T
<1>8. q[m] = Body(h, q, m) /\ g[m] = Body(f, g, m) /\ e[m] = Body(d, e, m)
  BY <1>7, <1>1, <1>2, <1>3 DEF IsIter
<1>9. m # {} BY <1>7, <1>8 DEF Body
<1> DEFINE c == Pick(m)
           n == m \ {c}
<1>10. c \in S /\ n \in SUBSET S /\ n \subseteq m /\ n # m BY <1>9, <1>7, PickIn
<1>11. q[n] = g[n] + e[n] BY <1>10, <1>6 DEF T
<1>12. q[m] = h[c] + q[n] /\ g[m] = f[c] + g[n] /\ e[m] = d[c] + e[n]
  BY <1>8, <1>9 DEF Body
<1>13. g[n] \in Int /\ e[n] \in Int /\ q[n] \in Int BY <1>10, <1>1, <1>2, <1>3 DEF IsIter
<1>14. f[c] \in Int /\ d[c] \in Int /\ h[c] = f[c] + d[c] BY <1>10
<1> HIDE DEF c, n
<1> QED BY <1>7, <1>11, <1>12, <1>13, <1>14

\* A sum of zeros.
LEMMA SumZero ==
  ASSUME NEW S, IsFiniteSet(S), NEW f, \A x \in S : f[x] = 0
  PROVE  SumFunctionOnSet(f, S) = 0
<1>1. \A x \in S : f[x] \in Int /\ f[x] = f[x] + f[x] OBVIOUS
<1>2. SumFunctionOnSet(f, S) = SumFunctionOnSet(f, S) + SumFunctionOnSet(f, S)
  BY <1>1, SumAdd
<1>3. SumFunctionOnSet(f, S) \in Int BY <1>1, SumInt
<1> DEFINE v == SumFunctionOnSet(f, S)
<1>4. v \in Int /\ v = v + v BY <1>2, <1>3
<1> HIDE DEF v
<1>5. v = 0 BY <1>4
<1> QED BY <1>5 DEF v

\* A larger function has a larger sum.
LEMMA SumMonotone ==
  ASSUME NEW S, IsFiniteSet(S), NEW f, NEW h,
         \A x \in S : f[x] \in Int /\ h[x] \in Int /\ f[x] <= h[x]
  PROVE  SumFunctionOnSet(f, S) <= SumFunctionOnSet(h, S)
<1> DEFINE d == [x \in S |-> h[x] - f[x]]
<1>1. \A x \in S : d[x] \in Nat OBVIOUS
<1>2. \A x \in S : f[x] \in Int /\ d[x] \in Int /\ h[x] = f[x] + d[x] OBVIOUS
<1> HIDE DEF d
<1>3. SumFunctionOnSet(h, S) = SumFunctionOnSet(f, S) + SumFunctionOnSet(d, S) BY <1>2, SumAdd
<1>4. SumFunctionOnSet(d, S) \in Nat BY <1>1, SumNat
<1>5. SumFunctionOnSet(f, S) \in Int BY SumInt
<1> QED BY <1>3, <1>4, <1>5

=============================================================================
