------------------------------ MODULE SumFacts -------------------------------
(***************************************************************************)
(* SumFunction, the sum of the values of a function with a finite domain,  *)
(* by induction on the size of the sets it is summed over.                 *)
(***************************************************************************)
EXTENDS NaturalFacts, Functions, FiniteSetTheorems

\* The element that the sum over s takes first.
Pick(s) == CHOOSE x \in s : TRUE

\* h is the function that the recursive definition of the sum of g defines.
IsSum(h, g) ==
    h = [s \in SUBSET DOMAIN g |-> IF s = {} THEN 0 ELSE g[Pick(s)] + h[s \ {Pick(s)}]]

\* The fold behind SumFunction, with its recursion named.
LEMMA SumDef ==
    ASSUME NEW g
    PROVE  SumFunction(g) = (CHOOSE h : IsSum(h, g))[DOMAIN g]
BY DEF SumFunction, SumFunctionOnSet, FoldFunctionOnSet, MapThenFoldSet, IsSum, Pick

\* Sets grow by one element at a time.
LEMMA PickFacts ==
    ASSUME NEW S, IsFiniteSet(S), NEW s \in SUBSET S, s # {}
    PROVE  /\ Pick(s) \in s /\ s \ {Pick(s)} \in SUBSET S
           /\ Cardinality(s) \in Nat /\ Cardinality(s) > 0
           /\ Cardinality(s \ {Pick(s)}) = Cardinality(s) - 1
<1>1. Pick(s) \in s
  BY DEF Pick
<1>2. IsFiniteSet(s)
  BY FS_Subset
<1>3. Cardinality(s) \in Nat /\ Cardinality(s) # 0
  BY <1>2, FS_CardinalityType, FS_EmptySet
<1>4. Cardinality(s \ {Pick(s)}) = Cardinality(s) - 1
  BY <1>1, <1>2, FS_RemoveElement
<1> QED BY <1>1, <1>3, <1>4

\* The recursive definition of the sum defines a function: the equations for
\* all sets of at most n elements have a solution, by induction on n.
LEMMA SumExists ==
    ASSUME NEW g, IsFiniteSet(DOMAIN g), g \in [DOMAIN g -> Int]
    PROVE  \E h : IsSum(h, g)
<1> DEFINE S == DOMAIN g
           Rec(h, s) == IF s = {} THEN 0 ELSE g[Pick(s)] + h[s \ {Pick(s)}]
           Upto(h, n) == \A s \in SUBSET S : Cardinality(s) <= n => h[s] = Rec(h, s)
           Bad == {n \in Nat : ~ \E h \in [SUBSET S -> Int] : Upto(h, n)}
<1>1. Bad = {}
  <2> SUFFICES ASSUME Bad # {} PROVE FALSE
    OBVIOUS
  <2>1. PICK m \in Bad : \A k \in Bad : m <= k
    <3>1. Bad \in SUBSET Nat
      OBVIOUS
    <3> HIDE DEF Bad
    <3> QED BY <3>1, LeastNat
  <2>2. \A s \in SUBSET S : Cardinality(s) <= 0 => s = {}
    <3> TAKE s \in SUBSET S
    <3>1. s # {} => Cardinality(s) \in Nat /\ Cardinality(s) > 0
      BY PickFacts
    <3> QED BY <3>1
  <2>3. m # 0
    <3> SUFFICES ASSUME m = 0 PROVE FALSE
      OBVIOUS
    <3> DEFINE h == [s \in SUBSET S |-> 0]
    <3>1. h \in [SUBSET S -> Int] /\ Upto(h, 0)
      BY <2>2
    <3> QED BY <2>1, <3>1
  <2>4. m - 1 \in Nat /\ m - 1 \notin Bad
    <3>1. m \in Nat
      OBVIOUS
    <3> HIDE DEF Bad
    <3> QED BY <2>1, <2>3, <3>1
  <2>5. PICK h \in [SUBSET S -> Int] : Upto(h, m - 1)
    BY <2>4
  <2> DEFINE new == [s \in SUBSET S |-> Rec(h, s)]
  <2>6. new \in [SUBSET S -> Int]
    <3>1. ASSUME NEW s \in SUBSET S PROVE Rec(h, s) \in Int
      <4>1. CASE s = {}
        BY <4>1
      <4>2. CASE s # {}
        <5>1. Pick(s) \in S /\ s \ {Pick(s)} \in SUBSET S
          BY <4>2, PickFacts
        <5>2. g[Pick(s)] \in Int /\ h[s \ {Pick(s)}] \in Int
          BY <5>1
        <5> QED BY <4>2, <5>2
      <4> QED BY <4>1, <4>2
    <3> HIDE DEF Rec
    <3> QED BY <3>1
  <2>7. Upto(new, m)
    <3> SUFFICES ASSUME NEW s \in SUBSET S, Cardinality(s) <= m
                 PROVE  new[s] = Rec(new, s)
      OBVIOUS
    <3>1. CASE s = {}
      BY <3>1
    <3>2. CASE s # {}
      <4> DEFINE r == s \ {Pick(s)}
      <4>1. r \in SUBSET S /\ Cardinality(s) \in Nat /\ Cardinality(r) = Cardinality(s) - 1
        BY <3>2, PickFacts
      <4>2. Cardinality(r) <= m - 1
        BY <2>1, <4>1
      <4>3. h[r] = Rec(h, r)
        BY <2>5, <4>1, <4>2
      <4>4. new[r] = h[r]
        <5> HIDE DEF Rec, r
        <5> QED BY <4>1, <4>3
      <4>5. new[s] = Rec(h, s)
        <5> HIDE DEF Rec
        <5> QED OBVIOUS
      <4>6. Rec(h, s) = g[Pick(s)] + h[r] /\ Rec(new, s) = g[Pick(s)] + new[r]
        <5> HIDE DEF new
        <5> QED BY <3>2
      <4> HIDE DEF Rec, new, r
      <4> QED BY <4>4, <4>5, <4>6
    <3> QED BY <3>1, <3>2
  <2> HIDE DEF new, Upto
  <2> QED BY <2>1, <2>6, <2>7
<1>2. Cardinality(S) \in Nat
  BY FS_CardinalityType
<1>3. PICK h \in [SUBSET S -> Int] : Upto(h, Cardinality(S))
  BY <1>1, <1>2
<1>4. \A s \in SUBSET S : h[s] = Rec(h, s)
  <2>1. \A s \in SUBSET S : Cardinality(s) <= Cardinality(S)
    BY FS_Subset
  <2> QED BY <1>3, <2>1
<1>5. h = [s \in SUBSET S |-> Rec(h, s)]
  <2> HIDE DEF Rec
  <2> QED BY <1>3, <1>4
<1>6. IsSum(h, g)
  BY <1>5, Zenon DEF IsSum
<1> QED BY <1>6

\* The function behind SumFunction.
LEMMA SumHas ==
    ASSUME NEW g, IsFiniteSet(DOMAIN g), g \in [DOMAIN g -> Int]
    PROVE  \E h : IsSum(h, g) /\ SumFunction(g) = h[DOMAIN g]
<1> DEFINE h == CHOOSE h : IsSum(h, g)
<1>1. IsSum(h, g)
  BY SumExists, Zenon
<1>2. SumFunction(g) = h[DOMAIN g]
  BY SumDef
<1> QED BY <1>1, <1>2

\* h has the sums of g over the subsets of S.
Sums(h, g, S) ==
    /\ SumFunction(g) = h[S]
    /\ h[{}] = 0
    /\ \A s \in SUBSET S : s # {} => h[s] = g[Pick(s)] + h[s \ {Pick(s)}]

\* The same, with the equations and the set of indices spelled out.
LEMMA SumSolution ==
    ASSUME NEW S, IsFiniteSet(S), NEW g \in [S -> Int]
    PROVE  \E h : Sums(h, g, S)
<1>1. DOMAIN g = S
  OBVIOUS
<1>2. IsFiniteSet(DOMAIN g) /\ g \in [DOMAIN g -> Int]
  BY <1>1, Zenon
<1>3. PICK h : IsSum(h, g) /\ SumFunction(g) = h[DOMAIN g]
  BY <1>2, SumHas, Zenon
<1> DEFINE Rec(s) == IF s = {} THEN 0 ELSE g[Pick(s)] + h[s \ {Pick(s)}]
<1>4. h = [s \in SUBSET S |-> Rec(s)]
  BY <1>1, <1>3, Zenon DEF IsSum
<1>5. \A s \in SUBSET S : h[s] = Rec(s)
  <2> HIDE DEF Rec
  <2> QED BY <1>4
<1>6. h[{}] = 0
  BY <1>5
<1>7. \A s \in SUBSET S : s # {} => h[s] = g[Pick(s)] + h[s \ {Pick(s)}]
  BY <1>5
<1>8. SumFunction(g) = h[S]
  BY <1>1, <1>3, Zenon
<1> QED BY <1>6, <1>7, <1>8, Zenon DEF Sums

\* Induction on finite sets: G has the empty set, and a set if it has the set
\* without its first element.
LEMMA SetInduction ==
    ASSUME NEW S, IsFiniteSet(S), NEW G, {} \in G,
           \A s \in SUBSET S : s # {} /\ s \ {Pick(s)} \in G => s \in G
    PROVE  \A s \in SUBSET S : s \in G
<1> DEFINE Bad == {Cardinality(s) : s \in {r \in SUBSET S : r \notin G}}
<1> SUFFICES ASSUME NEW q \in SUBSET S, q \notin G PROVE FALSE
  OBVIOUS
<1>1. \A s \in SUBSET S : Cardinality(s) \in Nat
  BY FS_Subset, FS_CardinalityType
<1>2. Bad \in SUBSET Nat /\ Bad # {}
  BY <1>1
<1>3. PICK m \in Bad : \A k \in Bad : m <= k
  <2> HIDE DEF Bad
  <2> QED BY <1>2, LeastNat
<1>4. PICK s \in SUBSET S : s \notin G /\ Cardinality(s) = m
  BY <1>3
<1>5. s # {}
  BY <1>4
<1> DEFINE r == s \ {Pick(s)}
<1>6. r \in SUBSET S /\ Cardinality(s) \in Nat /\ Cardinality(r) = Cardinality(s) - 1
  BY <1>5, PickFacts
<1>7. r \notin G
  BY <1>4, <1>5
<1>8. Cardinality(r) \in Bad
  BY <1>6, <1>7
<1> HIDE DEF r, Bad
<1> QED BY <1>3, <1>4, <1>6, <1>8

\* The sum of integers is an integer; of naturals, a natural and no less than
\* each of them.
LEMMA SumType ==
    ASSUME NEW S, IsFiniteSet(S), NEW g \in [S -> Int]
    PROVE  /\ SumFunction(g) \in Int
           /\ g \in [S -> Nat] => \A t \in S : g[t] <= SumFunction(g)
<1>1. PICK h : Sums(h, g, S)
  BY SumSolution
<1> DEFINE Holds(s) == /\ h[s] \in Int
                       /\ g \in [S -> Nat] => h[s] >= 0 /\ \A t \in s : g[t] <= h[s]
<1>3. Holds({})
  BY <1>1 DEF Sums
<1>4. ASSUME NEW s \in SUBSET S, s # {}, Holds(s \ {Pick(s)})
      PROVE  Holds(s)
  <2> DEFINE p == Pick(s)
             r == s \ {p}
  <2>1. p \in s /\ p \in S /\ h[s] = g[p] + h[r] /\ g[p] \in Int /\ h[r] \in Int
    BY <1>1, <1>4, PickFacts DEF Sums
  <2> HIDE DEF p
  <2>2. h[s] \in Int
    BY <2>1
  <2>3. ASSUME g \in [S -> Nat] PROVE h[s] >= 0 /\ \A t \in s : g[t] <= h[s]
    <3>1. g[p] \in Nat /\ h[r] >= 0 /\ \A t \in r : g[t] <= h[r] /\ g[t] \in Nat
      BY <1>4, <2>1, <2>3 DEF p
    <3>2. \A t \in s : t = p \/ t \in r
      OBVIOUS
    <3> HIDE DEF r
    <3> QED BY <2>1, <3>1, <3>2
  <2> QED BY <2>2, <2>3
<1>5. \A s \in SUBSET S : Holds(s)
  <2> DEFINE G == {s \in SUBSET S : Holds(s)}
  <2> HIDE DEF Holds
  <2>1. {} \in G
    BY <1>3
  <2>2. \A s \in SUBSET S : s # {} /\ s \ {Pick(s)} \in G => s \in G
    BY <1>4
  <2> HIDE DEF G
  <2>3. \A s \in SUBSET S : s \in G
    BY <2>1, <2>2, SetInduction
  <2> QED BY <2>3 DEF G
<1>6. Holds(S)
  <2> HIDE DEF Holds
  <2> QED BY <1>5
<1> QED BY <1>1, <1>6 DEF Sums

\* The sum of the sums is the sum of the values summed.
LEMMA SumAdd ==
    ASSUME NEW S, IsFiniteSet(S), NEW f \in [S -> Int], NEW g \in [S -> Int]
    PROVE  SumFunction([t \in S |-> f[t] + g[t]]) = SumFunction(f) + SumFunction(g)
<1> DEFINE e == [t \in S |-> f[t] + g[t]]
<1>1. e \in [S -> Int]
  OBVIOUS
<1>2. \A t \in S : e[t] = f[t] + g[t]
  OBVIOUS
<1> HIDE DEF e
<1>3. PICK he : Sums(he, e, S)
  BY <1>1, SumSolution
<1>4. PICK hf : Sums(hf, f, S)
  BY <1>1, SumSolution
<1>5. PICK hg : Sums(hg, g, S)
  BY <1>1, SumSolution
<1> DEFINE Holds(s) == /\ hf[s] \in Int /\ hg[s] \in Int
                       /\ he[s] = hf[s] + hg[s]
<1>9. Holds({})
  BY <1>3, <1>4, <1>5 DEF Sums
<1>10. ASSUME NEW s \in SUBSET S, s # {}, Holds(s \ {Pick(s)})
       PROVE  Holds(s)
  <2> DEFINE p == Pick(s)
             r == s \ {p}
  <2>1. p \in S /\ e[p] = f[p] + g[p] /\ f[p] \in Int /\ g[p] \in Int
    BY <1>2, <1>10, PickFacts
  <2>2. he[s] = e[p] + he[r] /\ hf[s] = f[p] + hf[r] /\ hg[s] = g[p] + hg[r]
    BY <1>3, <1>4, <1>5, <1>10 DEF Sums
  <2>3. hf[r] \in Int /\ hg[r] \in Int /\ he[r] = hf[r] + hg[r]
    BY <1>10
  <2> HIDE DEF p, r
  <2> QED BY <2>1, <2>2, <2>3
<1>11. \A s \in SUBSET S : Holds(s)
  <2> DEFINE G == {s \in SUBSET S : Holds(s)}
  <2> HIDE DEF Holds
  <2>1. {} \in G
    BY <1>9
  <2>2. \A s \in SUBSET S : s # {} /\ s \ {Pick(s)} \in G => s \in G
    BY <1>10
  <2> HIDE DEF G
  <2>3. \A s \in SUBSET S : s \in G
    BY <2>1, <2>2, SetInduction
  <2> QED BY <2>3 DEF G
<1>12. Holds(S)
  <2> HIDE DEF Holds
  <2> QED BY <1>11
<1> QED BY <1>3, <1>4, <1>5, <1>12 DEF e, Sums

\* A function that is 0 except at t sums up to its value there.
LEMMA SumSingle ==
    ASSUME NEW S, IsFiniteSet(S), NEW t \in S, NEW d \in Int
    PROVE  SumFunction([u \in S |-> IF u = t THEN d ELSE 0]) = d
<1> DEFINE e == [u \in S |-> IF u = t THEN d ELSE 0]
<1>1. e \in [S -> Int]
  OBVIOUS
<1>2. \A u \in S : e[u] = IF u = t THEN d ELSE 0
  OBVIOUS
<1> HIDE DEF e
<1>3. PICK h : Sums(h, e, S)
  BY <1>1, SumSolution
<1> DEFINE Holds(s) == h[s] = IF t \in s THEN d ELSE 0
<1>5. Holds({})
  BY <1>3 DEF Sums
<1>6. ASSUME NEW s \in SUBSET S, s # {}, Holds(s \ {Pick(s)})
      PROVE  Holds(s)
  <2> DEFINE p == Pick(s)
             r == s \ {p}
  <2>1. p \in s /\ p \in S /\ e[p] = IF p = t THEN d ELSE 0
    BY <1>2, <1>6, PickFacts
  <2>2. h[s] = e[p] + h[r] /\ h[r] = IF t \in r THEN d ELSE 0
    BY <1>3, <1>6 DEF Sums
  <2> HIDE DEF p
  <2>3. CASE p = t
    BY <2>1, <2>2, <2>3
  <2>4. CASE p # t
    <3>1. t \in r <=> t \in s
      BY <2>4
    <3> QED BY <2>1, <2>2, <2>4, <3>1
  <2> QED BY <2>3, <2>4
<1>7. \A s \in SUBSET S : Holds(s)
  <2> DEFINE G == {s \in SUBSET S : Holds(s)}
  <2> HIDE DEF Holds
  <2>1. {} \in G
    BY <1>5
  <2>2. \A s \in SUBSET S : s # {} /\ s \ {Pick(s)} \in G => s \in G
    BY <1>6
  <2> HIDE DEF G
  <2>3. \A s \in SUBSET S : s \in G
    BY <2>1, <2>2, SetInduction
  <2> QED BY <2>3 DEF G
<1>8. h[S] = d
  BY <1>7
<1> QED BY <1>3, <1>8 DEF e, Sums

\* Changing one value changes the sum by as much.
LEMMA SumUpdate ==
    ASSUME NEW S, IsFiniteSet(S), NEW f \in [S -> Int], NEW t \in S, NEW v \in Int
    PROVE  SumFunction([f EXCEPT ![t] = v]) = SumFunction(f) + v - f[t]
<1> DEFINE d == v - f[t]
           g == [u \in S |-> IF u = t THEN d ELSE 0]
<1>1. d \in Int /\ g \in [S -> Int]
  OBVIOUS
<1>2. SumFunction(g) = d
  BY <1>1, SumSingle
<1>3. SumFunction([u \in S |-> f[u] + g[u]]) = SumFunction(f) + SumFunction(g)
  <2> HIDE DEF g
  <2> QED BY <1>1, SumAdd
<1>4. [u \in S |-> f[u] + g[u]] = [f EXCEPT ![t] = v]
  <2>1. \A u \in S : f[u] + g[u] = IF u = t THEN v ELSE f[u]
    OBVIOUS
  <2> HIDE DEF g
  <2> QED BY <2>1
<1>5. SumFunction(f) \in Int
  BY SumType
<1> HIDE DEF g
<1> QED BY <1>1, <1>2, <1>3, <1>4, <1>5
=============================================================================
