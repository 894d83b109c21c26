----------------------------- MODULE PerEdgeProofs -----------------------------
(***************************************************************************)
(* For every finite set of edges and any number of operations: after each  *)
(* operation the per-edge engine holds the exact trussness, in whatever    *)
(* order its queue is worked off.                                          *)
(***************************************************************************)
EXTENDS PerEdgeMaintainer, TrussProofs

(* eval_trussness *)

\* The values are numbers, and no edge closes more triangles than a level can count.
LEMMA DataFacts ==
  ASSUME TypeOK
  PROVE  /\ graph \in SUBSET Edge /\ tau \in [Edge -> Nat] /\ EvalLimit \in Nat
         /\ \A e \in Edge : \A t \in TrianglesAt(graph, e) :
              t \in Triangle /\ e \in t /\ t \subseteq graph
         /\ \A e \in Edge : Sup(graph, e) \in Nat /\ Sup(graph, e) + 2 < EvalLimit
<1>1. graph \in SUBSET Edge /\ tau \in [Edge -> Nat] /\ EvalLimit \in Nat
  BY PerEdgeAssumption DEF TypeOK
<1>2. ASSUME NEW e \in Edge PROVE Sup(graph, e) \in Nat /\ Sup(graph, e) + 2 < EvalLimit
  <2>1. /\ Sup(graph, e) \in Nat /\ Sup(Edge, e) \in Nat
        /\ Sup(graph, e) <= Sup(Edge, e)
    <3>1. Edge \in SUBSET Edge /\ graph \in SUBSET Edge
      BY <1>1
    <3> QED BY <3>1, SupMonotone
  <2> QED BY <1>1, <2>1, PerEdgeAssumption
<1> QED BY <1>1, <1>2 DEF TrianglesAt

\* The level of a triangle is the smaller value of its other edges.
LEMMA LevelFacts ==
  ASSUME TypeOK, NEW e, NEW t \in Triangle, e \in t
  PROVE  /\ TriangleLevel(e, t) \in Nat
         /\ \A k \in Nat : k <= TriangleLevel(e, t) <=> \A f \in t \ {e} : k <= tau[f]
<1>1. PICK a, b : t \ {e} = {a, b}
  BY OtherEdges
<1>2. a \in Edge /\ b \in Edge
  BY <1>1, TriangleAssumption
<1>3. tau[a] \in Nat /\ tau[b] \in Nat
  BY <1>2, DataFacts
<1> DEFINE IsLevel(k) == k \in {tau[f] : f \in t \ {e}} /\ \A f \in t \ {e} : k <= tau[f]
<1>4. \E k : IsLevel(k)
  <2>1. CASE tau[a] <= tau[b]
    BY <1>1, <1>3, <2>1
  <2>2. CASE tau[b] <= tau[a]
    BY <1>1, <1>3, <2>2
  <2> QED BY <1>3, <2>1, <2>2
<1>5. TriangleLevel(e, t) = CHOOSE k : IsLevel(k)
  BY DEF TriangleLevel
<1>6. IsLevel(TriangleLevel(e, t))
  BY <1>4, <1>5
<1> QED BY <1>1, <1>3, <1>6

\* How many triangles have level k or more.
LEMMA PlaceFacts ==
  ASSUME TypeOK, NEW e \in Edge, NEW k \in Nat
  PROVE  /\ Place(e, k) \in Nat /\ Place(e, k) <= Sup(graph, e)
         /\ \A l \in Nat : l <= k => Place(e, k) <= Place(e, l)
         /\ Place(e, k) > 0 => \E l \in LevelsAt(e) : l >= k
<1> DEFINE Above(l) == {t \in TrianglesAt(graph, e) : TriangleLevel(e, t) >= l}
<1>1. IsFiniteSet(TrianglesAt(graph, e))
  BY DataFacts, SupMonotone
<1>2. \A l : Above(l) \in SUBSET TrianglesAt(graph, e)
  OBVIOUS
<1>3. \A l : IsFiniteSet(Above(l)) /\ Cardinality(Above(l)) \in Nat
               /\ Cardinality(Above(l)) <= Cardinality(TrianglesAt(graph, e))
  BY <1>1, <1>2, FS_Subset, FS_CardinalityType
<1>4. ASSUME NEW l \in Nat, l <= k PROVE Cardinality(Above(k)) <= Cardinality(Above(l))
  <2>1. \A t \in TrianglesAt(graph, e) : TriangleLevel(e, t) \in Nat
    BY DataFacts, LevelFacts
  <2>2. Above(k) \in SUBSET Above(l)
    BY <1>4, <2>1
  <2> QED BY <1>3, <2>2, FS_Subset
<1>5. Cardinality(Above(k)) > 0 => \E l \in LevelsAt(e) : l >= k
  <2>1. SUFFICES ASSUME Cardinality(Above(k)) > 0 PROVE \E t : t \in Above(k)
    BY DEF LevelsAt
  <2>2. Above(k) # {}
    BY <2>1, FS_EmptySet
  <2> QED BY <2>2
<1>6. \A l : Place(e, l) = Cardinality(Above(l))
  BY DEF Place
<1> HIDE DEF Above
<1> QED BY <1>3, <1>4, <1>5, <1>6 DEF Sup

\* Of a non-empty bounded set of numbers Largest takes the greatest.
LEMMA LargestFacts ==
  ASSUME NEW S \in SUBSET Nat, S # {}, NEW n \in Nat, \A k \in S : k <= n
  PROVE  Largest(S) \in S /\ \A k \in S : k <= Largest(S)
<1>1. \E m \in S : \A k \in S : k <= m
  BY GreatestNumber
<1> QED BY <1>1 DEF Largest

\* What a level contributes to the result of the loop.
Best(e, k) == Smaller(k, Smaller(Place(e, k) + 2, EvalLimit))

\* eval_trussness returns the largest k for which k - 2 triangles have level k.
LEMMA EvalFacts ==
  ASSUME TypeOK, NEW e \in Edge
  PROVE  /\ Eval(e) \in Nat /\ Eval(e) >= 2
         /\ Place(e, Eval(e)) + 2 >= Eval(e)
         /\ \A k \in Nat : Place(e, k) + 2 >= k => k <= Eval(e)
<1> DEFINE S == {2} \cup {Best(e, k) : k \in LevelsAt(e)}
<1>1. LevelsAt(e) \subseteq Nat
  BY DataFacts, LevelFacts DEF LevelsAt
<1>2. EvalLimit \in Nat /\ 2 < EvalLimit /\ Sup(graph, e) \in Nat /\ Sup(graph, e) + 2 < EvalLimit
  BY DataFacts
<1>3. \A k \in LevelsAt(e) :
        /\ Best(e, k) \in Nat /\ Best(e, k) <= EvalLimit
        /\ Best(e, k) <= k /\ Best(e, k) <= Place(e, k) + 2
        /\ Best(e, k) = k \/ Best(e, k) = Place(e, k) + 2
  <2>1. ASSUME NEW k \in LevelsAt(e)
        PROVE k \in Nat /\ Place(e, k) \in Nat /\ Place(e, k) <= Sup(graph, e)
    BY <1>1, PlaceFacts
  <2> QED BY <1>2, <2>1 DEF Best, Smaller
<1>4. Eval(e) = Largest(S)
  BY DEF Eval, Best
<1>5. Eval(e) \in S /\ \A k \in S : k <= Eval(e)
  <2>1. S \in SUBSET Nat /\ S # {} /\ \A k \in S : k <= EvalLimit
    BY <1>2, <1>3
  <2> HIDE DEF S
  <2> QED BY <1>2, <1>4, <2>1, LargestFacts
<1>6. Eval(e) \in Nat /\ Eval(e) >= 2
  BY <1>3, <1>5
<1>7. Place(e, Eval(e)) + 2 >= Eval(e)
  <2>1. CASE Eval(e) = 2
    BY <2>1, PlaceFacts
  <2>2. CASE Eval(e) # 2
    <3>1. PICK k \in LevelsAt(e) : Eval(e) = Best(e, k)
      BY <1>5, <2>2
    <3>2. k \in Nat /\ Eval(e) <= k /\ Eval(e) <= Place(e, k) + 2
      BY <1>1, <1>3, <3>1
    <3>3. Place(e, k) <= Place(e, Eval(e)) /\ Place(e, k) \in Nat /\ Place(e, Eval(e)) \in Nat
      BY <1>6, <3>2, PlaceFacts
    <3> QED BY <1>6, <3>2, <3>3
  <2> QED BY <2>1, <2>2
<1>8. ASSUME NEW k \in Nat, Place(e, k) + 2 >= k PROVE k <= Eval(e)
  <2>1. CASE k <= 2
    BY <1>6, <2>1
  <2>2. CASE k > 2
    <3>1. Place(e, k) > 0 /\ Place(e, k) \in Nat
      BY <1>8, <2>2, PlaceFacts
    <3>2. {l \in LevelsAt(e) : l >= k} \in SUBSET Nat /\ {l \in LevelsAt(e) : l >= k} # {}
      BY <1>1, <3>1, PlaceFacts
    <3>3. PICK l \in LevelsAt(e) : l >= k /\ \A m \in LevelsAt(e) : m >= k => l <= m
      BY <3>2, LeastNumber
    <3>4. l \in Nat
      BY <1>1
    <3>5. Place(e, l) = Place(e, k)
      <4>1. \A t \in TrianglesAt(graph, e) : TriangleLevel(e, t) \in LevelsAt(e)
        BY DEF LevelsAt
      <4>2. \A t \in TrianglesAt(graph, e) : TriangleLevel(e, t) >= l <=> TriangleLevel(e, t) >= k
        BY <1>1, <3>3, <3>4, <4>1
      <4> QED BY <4>2 DEF Place
    <3>6. k <= Best(e, l)
      <4>1. k <= Place(e, l) + 2 /\ Place(e, l) \in Nat
        BY <1>8, <3>1, <3>5
      <4> QED BY <1>3, <3>3, <3>4, <4>1
    <3>7. Best(e, l) <= Eval(e) /\ Best(e, l) \in Nat
      BY <1>3, <1>5
    <3> QED BY <1>6, <3>6, <3>7
  <2> QED BY <2>1, <2>2
<1> QED BY <1>6, <1>7, <1>8

\* The evaluation of an edge depends on its triangles and its partners' values only.
LEMMA EvalLocal ==
  ASSUME NEW e, TrianglesAt(graph', e) = TrianglesAt(graph, e),
         \A f \in Mates(graph, e) : tau'[f] = tau[f]
  PROVE  Eval(e)' = Eval(e)
<1>1. \A t \in TrianglesAt(graph, e) : \A f \in t \ {e} : tau'[f] = tau[f]
  BY DEF Mates
<1>2. \A t \in TrianglesAt(graph, e) : TriangleLevel(e, t)' = TriangleLevel(e, t)
  <2>1. ASSUME NEW t \in TrianglesAt(graph, e)
        PROVE {tau'[f] : f \in t \ {e}} = {tau[f] : f \in t \ {e}}
    BY <1>1
  <2> QED BY <1>1, <2>1 DEF TriangleLevel
<1>3. TrianglesAt(graph, e)' = TrianglesAt(graph, e)
  BY DEF TrianglesAt
<1>4. LevelsAt(e)' = LevelsAt(e)
  BY <1>2, <1>3 DEF LevelsAt
<1>5. \A k : Place(e, k)' = Place(e, k)
  BY <1>2, <1>3 DEF Place
<1> QED BY <1>4, <1>5 DEF Eval

\* A value that k - 2 triangles within the edges of that value support is no higher
\* than its evaluation.
LEMMA SupportedBelow ==
  ASSUME TypeOK, NEW k \in Nat, NEW S \in SUBSET graph, Dense(S, k),
         \A f \in S : tau[f] >= k, NEW e \in S
  PROVE  k <= Eval(e)
<1>1. e \in Edge /\ graph \in SUBSET Edge
  BY DataFacts
<1>2. Sup(S, e) \in Nat /\ Sup(S, e) + 2 >= k
  BY <1>1, SupMonotone DEF Dense
<1>3. Sup(S, e) <= Place(e, k)
  <2> DEFINE Above == {t \in TrianglesAt(graph, e) : TriangleLevel(e, t) >= k}
  <2>1. TrianglesAt(S, e) \in SUBSET Above
    <3>1. ASSUME NEW t \in TrianglesAt(S, e) PROVE t \in Above
      <4>1. t \in TrianglesAt(graph, e) /\ t \in Triangle /\ e \in t /\ t \subseteq S
        BY DEF TrianglesAt
      <4>2. \A f \in t \ {e} : k <= tau[f]
        <5>1. \A f \in S : tau[f] \in Nat /\ tau[f] >= k
          BY DataFacts
        <5> QED BY <4>1, <5>1
      <4>3. k <= TriangleLevel(e, t) /\ TriangleLevel(e, t) \in Nat
        BY <4>1, <4>2, LevelFacts
      <4> QED BY <4>1, <4>3
    <3> QED BY <3>1
  <2>2. IsFiniteSet(TrianglesAt(graph, e)) /\ Above \in SUBSET TrianglesAt(graph, e)
    BY <1>1, SupMonotone
  <2>3. IsFiniteSet(Above)
    BY <2>2, FS_Subset
  <2>4. Place(e, k) = Cardinality(Above)
    BY DEF Place
  <2> HIDE DEF Above
  <2> QED BY <2>1, <2>3, <2>4, FS_Subset DEF Sup
<1>4. Place(e, k) \in Nat
  BY <1>1, PlaceFacts
<1>5. Place(e, k) + 2 >= k
  BY <1>2, <1>3, <1>4
<1> QED BY <1>1, <1>5, EvalFacts

\* Values that are nowhere below the trussness evaluate to no less than it.
LEMMA EvalAboveTrussness ==
  ASSUME TypeOK, \A f \in graph : tau[f] >= Trussness[graph][f], NEW e \in graph
  PROVE  Trussness[graph][e] <= Eval(e)
<1> DEFINE k == Trussness[graph][e]
           S == KTruss(graph, k)
<1>1. graph \in SUBSET Edge /\ \A f \in graph : tau[f] \in Nat
  BY DataFacts
<1>2. \A f \in graph : Trussness[graph][f] \in Nat
  <2>1. \A f \in graph : Sup(graph, f) \in Nat
    BY <1>1, SupMonotone
  <2> QED BY <1>1, <2>1, TrussnessDefined
<1>3. k \in Nat /\ k <= Trussness[graph][e]
  BY <1>2
<1> HIDE DEF k
<1>4. S \in SUBSET graph /\ Dense(S, k) /\ e \in S
  BY <1>1, <1>3, KTrussFacts, TrussLevels
<1>5. \A f \in S : tau[f] >= k
  <2>1. ASSUME NEW f \in S PROVE tau[f] >= k
    <3>1. f \in graph /\ k <= Trussness[graph][f]
      BY <1>1, <1>3, <1>4, TrussLevels
    <3> QED BY <1>1, <1>2, <1>3, <3>1
  <2> QED BY <2>1
<1> HIDE DEF S
<1> QED BY <1>3, <1>4, <1>5, SupportedBelow DEF k

\* Values that are their own evaluation, or less, are nowhere above the trussness.
LEMMA SettledBelowTrussness ==
  ASSUME TypeOK, \A f \in graph : tau[f] <= Eval(f), NEW e \in graph
  PROVE  tau[e] <= Trussness[graph][e]
<1> DEFINE k == tau[e]
           S == {f \in graph : tau[f] >= k}
<1>1. /\ graph \in SUBSET Edge /\ k \in Nat
      /\ \A f \in graph : tau[f] \in Nat /\ f \in Edge
  BY DataFacts
<1> HIDE DEF k
<1>2. ASSUME NEW f \in S PROVE Sup(S, f) + 2 >= k
  <2>1. f \in Edge /\ k <= tau[f] /\ tau[f] <= Eval(f) /\ tau[f] \in Nat /\ Eval(f) \in Nat
    BY <1>1, EvalFacts
  <2>2. Place(f, Eval(f)) + 2 >= Eval(f) /\ Place(f, Eval(f)) <= Place(f, k)
    BY <1>1, <2>1, EvalFacts, PlaceFacts
  <2>3. Place(f, k) <= Sup(S, f)
    <3> DEFINE Above == {t \in TrianglesAt(graph, f) : TriangleLevel(f, t) >= k}
    <3>1. Above \in SUBSET TrianglesAt(S, f)
      <4>1. ASSUME NEW t \in Above PROVE t \in TrianglesAt(S, f)
        <5>1. t \in Triangle /\ f \in t /\ t \subseteq graph
          BY DEF TrianglesAt
        <5>2. k <= TriangleLevel(f, t)
          BY <1>1, <5>1, LevelFacts
        <5>3. \A g \in t \ {f} : k <= tau[g]
          BY <1>1, <5>1, <5>2, LevelFacts
        <5>4. t \subseteq S
          BY <1>1, <5>1, <5>3, <2>1
        <5> QED BY <5>1, <5>4 DEF TrianglesAt
      <4> QED BY <4>1
    <3>2. S \in SUBSET graph
      OBVIOUS
    <3>3. IsFiniteSet(TrianglesAt(S, f))
      BY <1>1, <3>2, SupMonotone
    <3>4. Place(f, k) = Cardinality(Above)
      BY DEF Place
    <3> HIDE DEF Above, S
    <3> QED BY <3>1, <3>3, <3>4, FS_Subset DEF Sup
  <2>4. Place(f, k) \in Nat /\ Place(f, Eval(f)) \in Nat /\ Sup(S, f) \in Nat
    <3>1. S \in SUBSET graph
      OBVIOUS
    <3> QED BY <1>1, <2>1, <3>1, PlaceFacts, SupMonotone
  <2> QED BY <1>1, <2>1, <2>2, <2>3, <2>4
<1>3. Dense(S, k) /\ S \in SUBSET graph
  BY <1>2 DEF Dense
<1>4. e \in S
  BY <1>1 DEF k
<1> HIDE DEF S
<1>5. k <= Trussness[graph][e]
  BY <1>1, <1>3, <1>4, DenseBound
<1> QED BY <1>5 DEF k

\* The values of a settled graph are supported where they stand.
LEMMA TrussnessSupported ==
  ASSUME TypeOK, NEW F \in SUBSET graph,
         \A f \in F : tau[f] = Trussness[F][f],
         NEW e \in F
  PROVE  tau[e] <= Eval(e)
<1> DEFINE k == tau[e]
           S == KTruss(F, k)
<1>1. graph \in SUBSET Edge /\ F \in SUBSET Edge /\ k \in Nat /\ k <= Trussness[F][e]
  BY DataFacts
<1> HIDE DEF k
<1>2. S \in SUBSET F /\ Dense(S, k) /\ e \in S
  BY <1>1, KTrussFacts, TrussLevels
<1>3. \A f \in S : tau[f] >= k
  <2>1. \A f \in S : f \in F /\ k <= Trussness[F][f]
    BY <1>1, <1>2, TrussLevels
  <2>2. \A f \in F : tau[f] \in Nat
    BY DataFacts
  <2> QED BY <1>1, <2>1, <2>2
<1> HIDE DEF S
<1>4. k <= Eval(e)
  BY <1>1, <1>2, <1>3, SupportedBelow
<1> QED BY <1>4 DEF k

(* insert *)

\* What the values are between two operations.
LEMMA IdleFacts ==
  ASSUME IInv, phase = "idle"
  PROVE  /\ graph \in SUBSET Edge /\ view.graph = graph
         /\ \A f \in graph : /\ tau[f] = Trussness[graph][f] /\ tau[f] \in Nat
                             /\ 2 <= tau[f] /\ tau[f] <= sup[f] + 2
                             /\ sup[f] = Sup(graph, f) /\ sup[f] \in Nat
<1>1. graph \in SUBSET Edge /\ view.graph = graph
  BY DEF IInv, TypeOK, OwnerSees
<1>2. ASSUME NEW f \in graph
      PROVE  /\ tau[f] = Trussness[graph][f] /\ tau[f] \in Nat
             /\ 2 <= tau[f] /\ tau[f] <= sup[f] + 2
             /\ sup[f] = Sup(graph, f) /\ sup[f] \in Nat
  <2>1. tau[f] = Trussness[graph][f] /\ sup[f] = Sup(graph, f)
    BY DEF IInv, SettledExact, SupportsExact
  <2>2. Sup(graph, f) \in Nat /\ Trussness[graph][f] \in 2 .. Sup(graph, f) + 2
    BY <1>1, SupMonotone, TrussnessDefined
  <2> QED BY <2>1, <2>2
<1> QED BY <1>1, <1>2

\* The tentative value of a new edge is not below its trussness: in its truss one
\* of its triangles has partners that were at most one lower before.
LEMMA CeilingBound ==
  ASSUME IInv, phase = "idle", NEW e \in Edge, e \notin graph
  PROVE  /\ Ceiling(e, TrianglesAt(graph \cup {e}, e)) \in Nat
         /\ Trussness[graph \cup {e}][e] <= Ceiling(e, TrianglesAt(graph \cup {e}, e))
<1> DEFINE G == graph \cup {e}
           T == TrianglesAt(G, e)
           k == Trussness[G][e]
           L == {TriangleLevel(e, t) : t \in T}
<1>1. TypeOK /\ G \in SUBSET Edge /\ G \ {e} = graph /\ e \in G
  BY IdleFacts DEF IInv
<1>2. k \in Nat /\ 2 <= k /\ k <= Sup(G, e) + 2 /\ Sup(G, e) \in Nat
  <2>1. Sup(G, e) \in Nat
    BY <1>1, SupMonotone
  <2> QED BY <1>1, <2>1, TrussnessDefined
<1>3. IsFiniteSet(T) /\ Sup(G, e) = Cardinality(T)
  BY <1>1, SupMonotone DEF Sup
<1>4. \A t \in T : t \in Triangle /\ e \in t /\ t \ {e} \subseteq graph
  BY <1>1 DEF TrianglesAt
<1> HIDE DEF G, k
<1>5. CASE T = {}
  <2>1. Sup(G, e) = 0
    BY <1>3, <1>5, FS_EmptySet
  <2> QED BY <1>2, <1>5, <2>1 DEF Ceiling, G, k
<1>6. CASE T # {}
  <2>1. \A t \in T : /\ TriangleLevel(e, t) \in Nat /\ 2 <= TriangleLevel(e, t)
                     /\ TriangleLevel(e, t) <= EvalLimit
    <3>1. ASSUME NEW t \in T
          PROVE  /\ TriangleLevel(e, t) \in Nat /\ 2 <= TriangleLevel(e, t)
                 /\ TriangleLevel(e, t) <= EvalLimit
      <4>1. /\ TriangleLevel(e, t) \in Nat
            /\ \A m \in Nat : m <= TriangleLevel(e, t) <=> \A f \in t \ {e} : m <= tau[f]
        BY <1>1, <1>4, LevelFacts
      <4>2. \A f \in t \ {e} : f \in graph /\ f \in Edge
        BY <1>1, <1>4
      <4>3. \A f \in t \ {e} : /\ 2 <= tau[f] /\ tau[f] \in Nat
                               /\ tau[f] <= Sup(graph, f) + 2 /\ Sup(graph, f) \in Nat
        BY <4>2, IdleFacts
      <4>4. \A f \in t \ {e} : tau[f] <= EvalLimit
        <5>1. EvalLimit \in Nat /\ \A f \in Edge : Sup(graph, f) + 2 < EvalLimit
          BY <1>1, DataFacts
        <5> QED BY <4>2, <4>3, <5>1
      <4>5. PICK a : a \in t \ {e}
        BY <1>4, OtherEdges
      <4>6. TriangleLevel(e, t) <= tau[a] /\ tau[a] \in Nat /\ tau[a] <= EvalLimit
        BY <4>1, <4>3, <4>4, <4>5
      <4>7. EvalLimit \in Nat
        BY <1>1, DataFacts
      <4>8. 2 <= TriangleLevel(e, t)
        BY <4>1, <4>3
      <4> QED BY <4>1, <4>6, <4>7, <4>8
    <3> QED BY <3>1
  <2>2. L \in SUBSET Nat /\ L # {} /\ EvalLimit \in Nat /\ \A m \in L : m <= EvalLimit
    BY <1>1, <1>6, <2>1, DataFacts
  <2>3. Largest(L) \in Nat /\ \A m \in L : m <= Largest(L)
    <3> HIDE DEF L
    <3> QED BY <2>2, LargestFacts
  <2>4. \E t \in T : k <= TriangleLevel(e, t) + 1
    <3>1. CASE k = 2
      BY <1>6, <2>1, <3>1
    <3>2. CASE k > 2
      <4> DEFINE S == KTruss(G, k)
      <4>1. e \in S /\ S \in SUBSET G /\ Sup(S, e) + 2 >= k
        <5>1. e \in S
          BY <1>1, <1>2, TrussLevels DEF k
        <5> QED BY <1>1, <1>2, <5>1, KTrussFacts DEF Dense
      <4>2. PICK t : t \in TrianglesAt(S, e)
        <5>1. Sup(S, e) \in Nat /\ Sup(S, e) # 0
          BY <1>1, <1>2, <3>2, <4>1, SupMonotone
        <5> QED BY <5>1, FS_EmptySet DEF Sup
      <4>3. t \in T /\ t \subseteq S
        BY <4>1, <4>2 DEF TrianglesAt
      <4>4. ASSUME NEW f \in t \ {e} PROVE k - 1 <= tau[f]
        <5>1. f \in S /\ f \in G /\ f # e /\ f \in graph
          BY <1>1, <4>1, <4>3
        <5>2. k <= Trussness[G][f]
          BY <1>1, <1>2, <5>1, TrussLevels
        <5>3. /\ Trussness[graph][f] \in Nat /\ Trussness[G][f] \in Nat
              /\ Trussness[G][f] <= Trussness[graph][f] + 1
          BY <1>1, <5>1, TrussnessWithout
        <5>4. tau[f] = Trussness[graph][f]
          BY <5>1, IdleFacts
        <5> QED BY <1>2, <5>2, <5>3, <5>4
      <4>5. k - 1 \in Nat
        BY <1>2
      <4>6. k - 1 <= TriangleLevel(e, t)
        BY <1>1, <1>4, <4>3, <4>4, <4>5, LevelFacts
      <4>7. k <= TriangleLevel(e, t) + 1
        BY <1>2, <2>1, <4>3, <4>6
      <4> QED BY <4>3, <4>7
    <3> QED BY <1>2, <3>1, <3>2
  <2>5. k <= Largest(L) + 1
    <3>1. PICK t \in T : k <= TriangleLevel(e, t) + 1
      BY <2>4
    <3>2. TriangleLevel(e, t) <= Largest(L) /\ TriangleLevel(e, t) \in Nat
      BY <2>1, <2>3
    <3> QED BY <1>2, <2>3, <3>1, <3>2
  <2>6. Ceiling(e, T) = Smaller(Sup(G, e) + 2, Largest(L) + 1)
    BY <1>3, <1>6 DEF Ceiling
  <2>7. Ceiling(e, T) \in Nat /\ k <= Ceiling(e, T)
    BY <1>2, <2>3, <2>5, <2>6 DEF Smaller
  <2> QED BY <2>7 DEF G, k
<1> QED BY <1>5, <1>6

\* The new edge and the partners that rise start no lower than their new trussness; the
\* others keep the old one.
LEMMA InsertKeeps ==
  ASSUME IInv, NEW e \in Edge, InsertEdge(e)
  PROVE  IInv'
<1> DEFINE G == graph \cup {e}
           mates == Mates(G, e)
<1>1. /\ phase = "idle" /\ op' = {[del |-> FALSE, edge |-> e]} /\ view' = view
      /\ e \notin graph /\ graph' = G /\ phase' = "close" /\ ops' = ops + 1
  BY DEF InsertEdge, Call
<1>2. /\ graph \in SUBSET Edge /\ G \in SUBSET Edge /\ G \ {e} = graph
      /\ view.graph = graph /\ TypeOK /\ mates \subseteq graph
  BY <1>1, IdleFacts DEF IInv, Mates, TrianglesAt
<1>3. \A f \in graph : /\ tau[f] = Trussness[graph][f] /\ tau[f] \in Nat
                       /\ tau[f] <= sup[f] + 2
                       /\ sup[f] = Sup(graph, f) /\ sup[f] \in Nat
  BY <1>1, IdleFacts
<1>4. \A f \in mates : Raised(f, sup[f] + 1) = tau[f] + 1
  BY <1>2, <1>3 DEF Raised, Smaller
<1>5. {f \in mates : Raised(f, sup[f] + 1) > tau[f]} = mates
  BY <1>2, <1>3, <1>4
<1>6. /\ sup' = [f \in Edge |-> IF f = e THEN Cardinality(TrianglesAt(G, e))
                                ELSE IF f \in mates THEN sup[f] + 1 ELSE sup[f]]
      /\ tau' = [f \in Edge |-> IF f = e THEN Ceiling(e, TrianglesAt(G, e))
                                ELSE IF f \in mates THEN Raised(f, sup[f] + 1) ELSE tau[f]]
      /\ region' = {e} \cup mates
      /\ queue' = mates
  BY <1>5 DEF InsertEdge
<1> HIDE DEF mates
<1>7. Sup(G, e) \in Nat /\ Sup(G, e) = Cardinality(TrianglesAt(G, e))
  BY <1>2, SupMonotone DEF Sup
<1>8. /\ Ceiling(e, TrianglesAt(G, e)) \in Nat
      /\ Trussness[G][e] <= Ceiling(e, TrianglesAt(G, e))
  BY <1>1, CeilingBound
<1> HIDE DEF G
<1>9. TypeOK'
  <2>1. tau' \in [Edge -> Nat]
    BY <1>2, <1>3, <1>4, <1>6, <1>8 DEF TypeOK
  <2>2. sup' \in [Edge -> Nat]
    BY <1>2, <1>6, <1>7 DEF TypeOK
  <2>3. {graph, queue, region}' \subseteq SUBSET Edge
    BY <1>1, <1>2, <1>6
  <2> QED BY <1>1, <1>2, <2>1, <2>2, <2>3 DEF TypeOK
<1>10. SupportsExact'
  <2>1. ASSUME NEW f \in graph PROVE sup'[f] = Sup(G, f)
    <3>1. Sup(graph, f) = IF f \in mates THEN Sup(G, f) - 1 ELSE Sup(G, f)
      <4>1. e \in G /\ f \in G /\ f # e
        BY <1>1 DEF G
      <4> QED BY <1>2, <4>1, SupWithout DEF mates
    <3>2. sup'[f] = IF f \in mates THEN sup[f] + 1 ELSE sup[f]
      BY <1>1, <1>2, <1>6
    <3>3. Sup(G, f) \in Nat
      BY <1>2, SupMonotone
    <3> QED BY <1>3, <3>1, <3>2, <3>3
  <2>2. sup'[e] = Sup(G, e)
    BY <1>6, <1>7
  <2>3. \A f : Sup(graph', f) = Sup(G, f)
    BY <1>1
  <2> QED BY <1>1, <2>1, <2>2, <2>3 DEF SupportsExact, G
<1>11. OwnerSees'
  <2>1. [del |-> FALSE, edge |-> e] \in [del : BOOLEAN, edge : Edge]
    OBVIOUS
  <2> QED BY <1>1, <1>2, <2>1 DEF IInv, OwnerSees, G
<1>12. SettledExact' /\ NeverBelow' /\ Unsettled'
  BY <1>1 DEF SettledExact, NeverBelow, Unsettled
<1>13. Rising'
  <2>1. queue' \subseteq region' /\ region' \subseteq graph'
    BY <1>1, <1>2, <1>6 DEF G
  <2>2. e \in region' /\ e \notin view'.graph /\ graph' = view'.graph \cup {e}
    BY <1>1, <1>2, <1>6 DEF G
  <2>3. \A f \in region' \ queue' : Mates(graph', f) \subseteq region'
    BY <1>1, <1>6 DEF mates
  <2>4. ASSUME NEW f \in mates PROVE tau'[f] >= Trussness[G][f]
    <3>1. e \in G /\ f \in G /\ f # e /\ f \in graph /\ f \in Edge
      BY <1>1, <1>2 DEF G
    <3>2. /\ Trussness[graph][f] \in Nat /\ Trussness[G][f] \in Nat
          /\ Trussness[G][f] <= Trussness[graph][f] + 1
      BY <1>2, <3>1, TrussnessWithout
    <3>3. tau'[f] = tau[f] + 1
      BY <1>4, <1>6, <3>1
    <3> QED BY <1>3, <3>1, <3>2, <3>3
  <2>5. tau'[e] >= Trussness[G][e]
    <3>1. tau'[e] = Ceiling(e, TrianglesAt(G, e))
      BY <1>6
    <3> QED BY <1>8, <3>1
  <2>6. \A f \in region' : tau'[f] >= Trussness[graph'][f]
    BY <1>1, <1>6, <2>4, <2>5
  <2>7. \A f \in graph' \ region' : tau'[f] = Trussness[view'.graph][f]
    BY <1>1, <1>2, <1>3, <1>6 DEF G
  <2> QED BY <2>1, <2>2, <2>3, <2>6, <2>7 DEF Rising
<1> QED BY <1>9, <1>10, <1>11, <1>12, <1>13 DEF IInv

\* What the closure reaches rises by one at most, and to no less than its new trussness.
LEMMA CloseKeeps ==
  ASSUME IInv, NEW f \in queue, Close(f)
  PROVE  IInv'
<1>1. /\ phase = "close" /\ UNCHANGED <<phase, graph, sup, op, ops, view>>
      /\ tau' = [g \in Edge |-> IF g \in Reached(f) THEN Raised(g, sup[g]) ELSE tau[g]]
      /\ region' = region \cup Reached(f)
      /\ queue' = (queue \ {f}) \cup Reached(f)
  BY DEF Close
<1>2. TypeOK /\ OwnerSees /\ SupportsExact /\ Rising
  BY DEF IInv
<1>3. /\ graph \in SUBSET Edge /\ tau \in [Edge -> Nat] /\ sup \in [Edge -> Nat]
      /\ queue \subseteq region /\ region \subseteq graph
  BY <1>1, <1>2 DEF TypeOK, Rising
<1>4. Reached(f) \subseteq graph \ region
  BY DEF Reached, Mates, TrianglesAt
<1>5. \A g \in Edge : Raised(g, sup[g]) \in Nat
  BY <1>3 DEF Raised, Smaller
<1>6. TypeOK'
  <2>1. tau' \in [Edge -> Nat]
    BY <1>1, <1>3, <1>5
  <2>2. {queue, region}' \subseteq SUBSET Edge
    BY <1>1, <1>3, <1>4
  <2> QED BY <1>1, <1>2, <2>1, <2>2 DEF TypeOK
<1>7. OwnerSees' /\ SupportsExact'
  BY <1>1, <1>2 DEF OwnerSees, SupportsExact
<1>8. SettledExact' /\ NeverBelow' /\ Unsettled'
  BY <1>1 DEF SettledExact, NeverBelow, Unsettled
<1>9. Rising'
  <2>1. PICK e \in region : e \notin view.graph /\ graph = view.graph \cup {e}
    BY <1>1, <1>2 DEF Rising
  <2>2. \A g \in region' \ queue' : Mates(graph', g) \subseteq region'
    <3>1. \A g \in region \ queue : Mates(graph, g) \subseteq region
      BY <1>1, <1>2 DEF Rising
    <3>2. Mates(graph, f) \subseteq region \cup Reached(f)
      BY DEF Reached
    <3>3. Mates(graph, f)' = Mates(graph, f)
      BY <1>1 DEF Mates, TrianglesAt
    <3>4. \A g : Mates(graph', g) = Mates(graph, g)
      BY <1>1
    <3> QED BY <1>1, <3>1, <3>2, <3>4
  <2>3. ASSUME NEW g \in Reached(f) PROVE tau'[g] >= Trussness[graph][g]
    <3>1. g \in graph \ region /\ g \in Edge /\ g # e /\ graph \ {e} = view.graph
      BY <1>3, <1>4, <2>1
    <3>2. tau[g] = Trussness[view.graph][g]
      BY <1>1, <1>2, <3>1 DEF Rising
    <3>3. /\ Trussness[graph][g] \in Nat
          /\ Trussness[graph][g] <= Trussness[view.graph][g] + 1
      BY <1>3, <2>1, <3>1, TrussnessWithout
    <3>4. Trussness[graph][g] <= sup[g] + 2
      <4>1. Sup(graph, g) \in Nat /\ sup[g] = Sup(graph, g)
        BY <1>2, <1>3, <3>1, SupMonotone DEF SupportsExact
      <4> QED BY <1>3, <3>1, <4>1, TrussnessDefined
    <3>5. tau'[g] = Raised(g, sup[g]) /\ tau[g] \in Nat /\ sup[g] \in Nat
      BY <1>1, <1>3, <3>1
    <3> QED BY <3>2, <3>3, <3>4, <3>5 DEF Raised, Smaller
  <2>4. \A g \in region : tau'[g] = tau[g] /\ tau[g] >= Trussness[graph][g]
    BY <1>1, <1>2, <1>3, <1>4 DEF Rising
  <2>5. \A g \in graph \ (region \cup Reached(f)) : tau'[g] = Trussness[view.graph][g]
    BY <1>1, <1>2, <1>3 DEF Rising
  <2>6. queue' \subseteq region' /\ region' \subseteq graph' /\ e \in region'
    BY <1>1, <1>3, <1>4
  <2> QED BY <1>1, <2>1, <2>2, <2>3, <2>4, <2>5, <2>6 DEF Rising
<1> QED BY <1>6, <1>7, <1>8, <1>9 DEF IInv

\* When the region is closed, the edges outside share no triangle with it: their
\* trussness is what it was, and their values stand on their own.
LEMMA ClosedKeeps ==
  ASSUME IInv, Closed
  PROVE  IInv'
<1>1. /\ phase = "close" /\ queue = {} /\ queue' = region /\ phase' = "demote"
      /\ UNCHANGED <<graph, tau, sup, region, op, ops, view>>
  BY DEF Closed
<1>2. TypeOK /\ OwnerSees /\ SupportsExact /\ Rising
  BY DEF IInv
<1>3. TypeOK' /\ SupportsExact' /\ SettledExact' /\ Rising' /\ OwnerSees'
  BY <1>1, <1>2 DEF TypeOK, OwnerSees, SupportsExact, SettledExact, Rising
<1> DEFINE F == graph \ region
<1>4. PICK e \in region : e \notin view.graph /\ graph = view.graph \cup {e}
  BY <1>1, <1>2 DEF Rising
<1>5. /\ graph \in SUBSET Edge /\ view.graph \in SUBSET Edge
      /\ F \in SUBSET graph /\ F \in SUBSET view.graph
  BY <1>2, <1>4 DEF TypeOK
<1>6. ASSUME NEW f \in F PROVE TrianglesAt(graph, f) = TrianglesAt(F, f)
  <2>1. ASSUME NEW t \in TrianglesAt(graph, f), NEW g \in t PROVE g \notin region
    <3>1. SUFFICES ASSUME g \in region PROVE FALSE
      OBVIOUS
    <3>2. Mates(graph, g) \subseteq region
      BY <1>1, <1>2, <3>1 DEF Rising
    <3>3. t \in TrianglesAt(graph, g) /\ f \in t /\ f # g
      BY <2>1, <3>1 DEF TrianglesAt
    <3> QED BY <3>2, <3>3 DEF Mates
  <2> QED BY <2>1 DEF TrianglesAt
<1>7. ASSUME NEW f \in F PROVE TrianglesAt(view.graph, f) = TrianglesAt(F, f)
  BY <1>4, <1>5, <1>6 DEF TrianglesAt
<1>8. \A f \in F : /\ tau[f] = Trussness[F][f]
                   /\ tau[f] = Trussness[graph][f]
  <2>1. ASSUME NEW f \in F
        PROVE /\ Trussness[graph][f] = Trussness[F][f]
              /\ Trussness[view.graph][f] = Trussness[F][f]
    BY <1>5, <1>6, <1>7, ComponentTrussness
  <2>2. \A f \in F : tau[f] = Trussness[view.graph][f]
    BY <1>1, <1>2 DEF Rising
  <2> QED BY <2>1, <2>2
<1>9. NeverBelow'
  <2>1. \A f \in region : tau[f] >= Trussness[graph][f]
    BY <1>1, <1>2 DEF Rising
  <2>2. \A f \in graph : tau[f] \in Nat
    BY <1>2, DataFacts
  <2>3. \A f \in graph : tau[f] >= Trussness[graph][f]
    BY <1>8, <2>1, <2>2
  <2> QED BY <1>1, <2>3 DEF NeverBelow
<1>10. Unsettled'
  <2>1. \A f \in F : tau[f] <= Eval(f)
    BY <1>2, <1>5, <1>8, TrussnessSupported
  <2>2. ASSUME NEW f \in F PROVE Eval(f)' = Eval(f)
    BY <1>1, EvalLocal
  <2> QED BY <1>1, <2>1, <2>2 DEF Unsettled
<1> QED BY <1>3, <1>9, <1>10 DEF IInv

(* remove, fixpoint and return *)

\* Only the partners of the removed edge may have lost a triangle, and they are queued.
LEMMA RemoveKeeps ==
  ASSUME IInv, NEW e \in Edge, RemoveEdge(e)
  PROVE  IInv'
<1> DEFINE G == graph \ {e}
           mates == Mates(graph, e)
<1>1. /\ phase = "idle" /\ op' = {[del |-> TRUE, edge |-> e]} /\ view' = view
      /\ e \in graph /\ graph' = G /\ phase' = "demote" /\ ops' = ops + 1
      /\ sup' = [f \in Edge |-> IF f = e THEN 0 ELSE sup[f] - Lost(e, f)]
      /\ tau' = [tau EXCEPT ![e] = 0]
      /\ queue' = mates /\ region' = region
  BY DEF RemoveEdge, Call
<1>2. /\ graph \in SUBSET Edge /\ G \in SUBSET Edge /\ mates \subseteq G
      /\ view.graph = graph /\ TypeOK
  BY <1>1, IdleFacts DEF IInv, Mates, TrianglesAt
<1>3. \A f \in graph : /\ tau[f] = Trussness[graph][f] /\ tau[f] \in Nat
                       /\ sup[f] = Sup(graph, f) /\ sup[f] \in Nat
  BY <1>1, IdleFacts
<1>4. TypeOK'
  <2>1. tau' \in [Edge -> Nat]
    BY <1>1, <1>2 DEF TypeOK
  <2>2. sup' \in [Edge -> Nat]
    <3>1. ASSUME NEW f \in Edge PROVE sup[f] - Lost(e, f) \in Nat
      BY <1>2 DEF Lost, TypeOK
    <3> QED BY <1>1, <3>1
  <2>3. {graph, queue, region}' \subseteq SUBSET Edge
    BY <1>1, <1>2 DEF TypeOK
  <2> QED BY <1>1, <1>2, <2>1, <2>2, <2>3 DEF TypeOK
<1>5. SupportsExact'
  <2>1. ASSUME NEW f \in G PROVE sup'[f] = Sup(G, f)
    <3>1. Sup(G, f) = IF f \in mates THEN Sup(graph, f) - 1 ELSE Sup(graph, f)
      BY <1>1, <1>2, SupWithout
    <3>2. sup'[f] = sup[f] - Lost(e, f) /\ sup[f] = Sup(graph, f)
      BY <1>1, <1>2, <1>3
    <3>3. Sup(G, f) \in Nat /\ Sup(graph, f) \in Nat
      BY <1>2, SupMonotone
    <3>4. Lost(e, f) = IF f \in mates THEN 1 ELSE 0
      BY <3>1, <3>2, <3>3 DEF Lost
    <3> QED BY <3>1, <3>2, <3>3, <3>4
  <2> QED BY <1>1, <2>1 DEF SupportsExact
<1>6. OwnerSees'
  <2>1. [del |-> TRUE, edge |-> e] \in [del : BOOLEAN, edge : Edge]
    OBVIOUS
  <2> QED BY <1>1, <1>2, <2>1 DEF IInv, OwnerSees
<1>7. SettledExact' /\ Rising'
  BY <1>1 DEF SettledExact, Rising
<1>8. NeverBelow'
  <2>1. ASSUME NEW f \in G PROVE tau'[f] >= Trussness[G][f]
    <3>1. f \in graph /\ f # e /\ f \in Edge
      BY <1>2
    <3>2. /\ Trussness[G][f] \in Nat /\ Trussness[graph][f] \in Nat
          /\ Trussness[G][f] <= Trussness[graph][f]
      BY <1>1, <1>2, <3>1, TrussnessWithout
    <3>3. tau'[f] = tau[f]
      BY <1>1, <1>2, <3>1 DEF TypeOK
    <3> QED BY <1>3, <3>1, <3>2, <3>3
  <2> QED BY <1>1, <2>1 DEF NeverBelow
<1>9. Unsettled'
  <2>1. ASSUME NEW f \in G \ mates PROVE tau'[f] <= Eval(f)'
    <3>1. f \in graph /\ f # e /\ f \in Edge
      BY <1>2
    <3>2. tau[f] <= Eval(f)
      <4>1. graph \in SUBSET graph
        OBVIOUS
      <4> QED BY <1>2, <1>3, <3>1, <4>1, TrussnessSupported
    <3>3. \A t \in TrianglesAt(graph, f) : e \notin t
      BY <1>1, <3>1 DEF Mates, TrianglesAt
    <3>4. TrianglesAt(graph', f) = TrianglesAt(graph, f)
      BY <1>1, <3>3 DEF TrianglesAt
    <3>5. \A g \in Mates(graph, f) : tau'[g] = tau[g]
      <4>1. \A g \in Mates(graph, f) : g \in Edge /\ g # e
        BY <1>2, <3>3 DEF Mates, TrianglesAt
      <4> QED BY <1>1, <1>2, <4>1 DEF TypeOK
    <3>6. Eval(f)' = Eval(f)
      BY <3>4, <3>5, EvalLocal
    <3>7. tau'[f] = tau[f]
      BY <1>1, <1>2, <3>1 DEF TypeOK
    <3> QED BY <3>2, <3>6, <3>7
  <2> QED BY <1>1, <2>1 DEF Unsettled
<1> QED BY <1>4, <1>5, <1>6, <1>7, <1>8, <1>9 DEF IInv

\* Lowering an edge to its evaluation stays at or above its trussness and re-queues whoever
\* may have relied on it.
LEMMA DemoteKeeps ==
  ASSUME IInv, NEW f \in queue, Demote(f)
  PROVE  IInv'
<1>1. phase = "demote" /\ UNCHANGED <<phase, graph, sup, region, op, ops, view>>
  BY DEF Demote
<1>2. TypeOK /\ NeverBelow /\ Unsettled /\ OwnerSees /\ SupportsExact
  BY DEF IInv
<1>3. /\ graph \in SUBSET Edge /\ f \in Edge /\ tau \in [Edge -> Nat]
      /\ Eval(f) \in Nat
  <2>1. f \in Edge
    BY <1>2 DEF TypeOK
  <2> QED BY <1>2, <2>1, DataFacts, EvalFacts
<1>4. OwnerSees' /\ SupportsExact' /\ SettledExact' /\ Rising'
  BY <1>1, <1>2 DEF OwnerSees, SupportsExact, SettledExact, Rising
<1>5. CASE /\ Eval(f) < tau[f] /\ tau' = [tau EXCEPT ![f] = Eval(f)]
           /\ queue' = (queue \ {f}) \cup Incident(f)
  <2>1. TypeOK'
    <3>1. queue' \subseteq Edge /\ tau' \in [Edge -> Nat]
      BY <1>2, <1>3, <1>5 DEF TypeOK, Incident
    <3> QED BY <1>1, <1>2, <3>1 DEF TypeOK
  <2>2. NeverBelow'
    <3>1. ASSUME NEW g \in graph PROVE tau'[g] >= Trussness[graph][g]
      <4>1. \A h \in graph : tau[h] >= Trussness[graph][h]
        BY <1>1, <1>2 DEF NeverBelow
      <4>2. CASE g = f
        <5>1. Trussness[graph][f] <= Eval(f)
          BY <1>2, <4>1, <4>2, EvalAboveTrussness
        <5>2. Trussness[graph][f] \in Nat
          <6>1. Sup(graph, f) \in Nat
            BY <1>3, SupMonotone
          <6> QED BY <1>3, <4>2, <6>1, TrussnessDefined
        <5> QED BY <1>3, <1>5, <4>2, <5>1, <5>2
      <4>3. CASE g # f
        BY <1>3, <1>5, <4>1, <4>3
      <4> QED BY <4>2, <4>3
    <3> QED BY <1>1, <3>1 DEF NeverBelow
  <2>3. Unsettled'
    <3>1. ASSUME NEW g \in graph \ queue' PROVE tau'[g] <= Eval(g)'
      <4>1. g \in Edge /\ f \cap g = {}
        BY <1>3, <1>5 DEF Incident
      <4>2. g # f
        <5>1. f # {}
          <6>1. Cardinality(f) = 2 /\ Cardinality({}) = 0
            BY <1>3, PerEdgeAssumption, FS_EmptySet
          <6> QED BY <6>1
        <5> QED BY <4>1, <5>1
      <4>3. tau[g] <= Eval(g)
        BY <1>1, <1>2, <1>5, <4>2 DEF Unsettled
      <4>4. \A h \in Mates(graph, g) : h # f
        BY <4>1, PerEdgeAssumption DEF Mates, TrianglesAt
      <4>5. \A h \in Mates(graph, g) : tau'[h] = tau[h]
        <5>1. \A h \in Mates(graph, g) : h \in Edge
          BY <1>3 DEF Mates, TrianglesAt
        <5> QED BY <1>3, <1>5, <4>4, <5>1
      <4>6. Eval(g)' = Eval(g)
        BY <1>1, <4>5, EvalLocal
      <4> QED BY <1>3, <1>5, <4>1, <4>2, <4>3, <4>6
    <3> QED BY <1>1, <3>1 DEF Unsettled
  <2> QED BY <1>4, <2>1, <2>2, <2>3 DEF IInv
<1>6. CASE Eval(f) >= tau[f] /\ queue' = queue \ {f} /\ tau' = tau
  <2>1. TypeOK' /\ NeverBelow'
    BY <1>1, <1>2, <1>6 DEF TypeOK, NeverBelow
  <2>2. Unsettled'
    <3>1. \A g \in graph \ queue' : tau[g] <= Eval(g)
      BY <1>1, <1>2, <1>3, <1>6 DEF Unsettled
    <3>2. ASSUME NEW g \in graph PROVE Eval(g)' = Eval(g)
      BY <1>1, <1>6, EvalLocal
    <3> QED BY <1>1, <1>6, <3>1, <3>2 DEF Unsettled
  <2> QED BY <1>4, <2>1, <2>2 DEF IInv
<1> QED BY <1>5, <1>6 DEF Demote

\* The end of the demotion: nothing is queued, so what is nowhere below the
\* trussness is nowhere above it either.
LEMMA SettledKeeps ==
  ASSUME IInv, Settled
  PROVE  IInv'
<1>1. /\ phase = "demote" /\ queue = {} /\ region' = {} /\ phase' = "return"
      /\ UNCHANGED <<graph, tau, sup, queue, op, ops, view>>
  BY DEF Settled
<1>2. TypeOK /\ NeverBelow /\ Unsettled /\ OwnerSees /\ SupportsExact
  BY DEF IInv
<1>3. TypeOK' /\ OwnerSees' /\ SupportsExact' /\ Rising' /\ NeverBelow' /\ Unsettled'
  BY <1>1, <1>2 DEF TypeOK, OwnerSees, SupportsExact, Rising, NeverBelow, Unsettled
<1>4. SettledExact'
  <2>1. ASSUME NEW e \in graph PROVE tau[e] = Trussness[graph][e]
    <3>1. \A f \in graph : tau[f] <= Eval(f)
      BY <1>1, <1>2 DEF Unsettled
    <3>2. tau[e] <= Trussness[graph][e]
      BY <1>2, <3>1, SettledBelowTrussness
    <3>3. tau[e] >= Trussness[graph][e]
      BY <1>1, <1>2 DEF NeverBelow
    <3>4. tau[e] \in Nat /\ Trussness[graph][e] \in Nat
      <4>1. graph \in SUBSET Edge /\ tau[e] \in Nat
        BY <1>2, DataFacts
      <4>2. Sup(graph, e) \in Nat
        BY <4>1, SupMonotone
      <4> QED BY <4>1, <4>2, TrussnessDefined
    <3> QED BY <3>2, <3>3, <3>4
  <2> QED BY <1>1, <2>1 DEF SettledExact
<1> QED BY <1>3, <1>4 DEF IInv

\* What the operation returns to the owner is the trussness.
LEMMA ReturnKeeps ==
  ASSUME IInv, ReturnOp
  PROVE  IInv' /\ view' = [graph |-> graph, truss |-> Trussness[graph]]
<1>1. /\ phase = "return" /\ phase' = "idle" /\ op' = {}
      /\ view' = [graph |-> graph, truss |-> [e \in graph |-> tau[e]]]
      /\ UNCHANGED <<graph, tau, sup, queue, region, ops>>
  BY DEF ReturnOp
<1>2. TypeOK /\ SettledExact /\ SupportsExact /\ graph \in SUBSET Edge
  BY DEF IInv, TypeOK
<1>3. [e \in graph |-> tau[e]] = Trussness[graph]
  <2>1. \A e \in graph : tau[e] = Trussness[graph][e]
    BY <1>1, <1>2 DEF SettledExact
  <2>2. Trussness[graph] = [e \in graph |-> Trussness[graph][e]]
    BY <1>2, TrussnessIsFunction
  <2> QED BY <2>1, <2>2
<1>4. OwnerSees'
  BY <1>1, <1>2, <1>3 DEF OwnerSees
<1>5. TypeOK' /\ SupportsExact' /\ SettledExact' /\ Rising' /\ NeverBelow' /\ Unsettled'
  BY <1>1, <1>2 DEF TypeOK, SupportsExact, SettledExact, Rising, NeverBelow, Unsettled
<1> QED BY <1>1, <1>3, <1>4, <1>5 DEF IInv

\* An operation without effect leaves the net graph as it is.
LEMMA RefusedKeeps ==
  ASSUME IInv, NEW del \in BOOLEAN, NEW e \in Edge, Refused(del, e)
  PROVE  IInv'
<1>1. /\ phase = "idle" /\ phase' = "return" /\ op' = {[del |-> del, edge |-> e]}
      /\ ops' = ops + 1 /\ del # (e \in graph)
      /\ UNCHANGED <<graph, tau, sup, queue, region, view>>
  BY DEF Refused, Call
<1>2. TypeOK /\ SettledExact /\ SupportsExact /\ OwnerSees /\ view.graph = graph
  BY <1>1 DEF IInv, OwnerSees
<1>3. OwnerSees'
  <2>1. [del |-> del, edge |-> e] \in [del : BOOLEAN, edge : Edge]
    OBVIOUS
  <2>2. graph = IF del THEN graph \ {e} ELSE graph \cup {e}
    BY <1>1
  <2> QED BY <1>1, <1>2, <2>1, <2>2 DEF OwnerSees
<1>4. TypeOK'
  BY <1>1, <1>2 DEF TypeOK
<1>5. SupportsExact' /\ SettledExact' /\ Rising' /\ NeverBelow' /\ Unsettled'
  BY <1>1, <1>2 DEF SupportsExact, SettledExact, Rising, NeverBelow, Unsettled
<1> QED BY <1>3, <1>4, <1>5 DEF IInv

-----------------------------------------------------------------------------

\* A fresh engine holds the static decomposition.
LEMMA InitInv == Init => IInv
<1> SUFFICES ASSUME Init PROVE IInv
  OBVIOUS
<1>1. /\ phase = "idle" /\ graph \in SUBSET Edge /\ op = {} /\ ops = 0
      /\ queue = {} /\ region = {}
      /\ tau = [e \in Edge |-> IF e \in graph THEN Trussness[graph][e] ELSE 0]
      /\ sup = [e \in Edge |-> IF e \in graph THEN Sup(graph, e) ELSE 0]
      /\ view = [graph |-> graph, truss |-> Trussness[graph]]
  BY PerEdgeAssumption DEF Init
<1>2. \A e \in graph : Sup(graph, e) \in Nat /\ Trussness[graph][e] \in Nat
  <2>1. \A e \in graph : Sup(graph, e) \in Nat
    BY <1>1, SupMonotone
  <2> QED BY <1>1, <2>1, TrussnessDefined
<1>3. TypeOK
  BY <1>1, <1>2 DEF TypeOK
<1>4. OwnerSees /\ SupportsExact /\ SettledExact /\ Rising /\ NeverBelow /\ Unsettled
  BY <1>1 DEF OwnerSees, SupportsExact, SettledExact, Rising, NeverBelow, Unsettled
<1> QED BY <1>3, <1>4 DEF IInv

\* Every step of the engine keeps the invariant.
LEMMA StepInv == IInv /\ [Next]_vars => IInv'
<1> SUFFICES ASSUME IInv, [Next]_vars PROVE IInv'
  OBVIOUS
<1>1. ASSUME NEW e \in Edge, InsertEdge(e) \/ RemoveEdge(e) PROVE IInv'
  BY <1>1, InsertKeeps, RemoveKeeps
<1>2. ASSUME NEW e \in Edge, NEW del \in BOOLEAN, Refused(del, e) PROVE IInv'
  BY <1>2, RefusedKeeps
<1>3. ASSUME NEW f \in queue, Close(f) \/ Demote(f) PROVE IInv'
  BY <1>3, CloseKeeps, DemoteKeeps
<1>4. CASE Closed \/ Settled \/ ReturnOp
  BY <1>4, ClosedKeeps, SettledKeeps, ReturnKeeps
<1>5. CASE StreamEnds \/ UNCHANGED vars
  <2>1. UNCHANGED vars
    BY <1>5 DEF StreamEnds
  <2>2. \A e : Eval(e)' = Eval(e)
    BY <2>1 DEF vars, Eval, LevelsAt, Place, TriangleLevel
  <2> QED BY <2>1, <2>2 DEF vars, IInv, TypeOK, OwnerSees, SupportsExact, SettledExact,
                            Rising, NeverBelow, Unsettled
<1> QED BY <1>1, <1>2, <1>3, <1>4, <1>5 DEF Next, OpStep

\* No operation, in any order of its queue, leaves the corridor between the
\* trussness and the evaluation; supports stay exact.
THEOREM EngineInvariant == Safety => []IInv
  BY InitInv, StepInv, PTL DEF Safety

\* The supports are those of the current graph at all times.
THEOREM EngineSupports == Safety => []SupportsExact
<1>1. IInv => SupportsExact
  BY DEF IInv
<1> QED BY <1>1, EngineInvariant, PTL

\* eval_trussness returns the largest k that k - 2 triangles support.
THEOREM EvalCorrect == Safety => []EvalExact
<1>1. IInv => EvalExact
  <2> SUFFICES ASSUME IInv, NEW e \in graph
               PROVE  /\ Place(e, Eval(e)) + 2 >= Eval(e)
                      /\ \A k \in (Eval(e) + 1) .. (Sup(graph, e) + 2) : ~(Place(e, k) + 2 >= k)
    BY DEF EvalExact
  <2>1. TypeOK /\ e \in Edge /\ Sup(graph, e) \in Nat
    <3>1. TypeOK /\ e \in Edge
      BY DEF IInv, TypeOK
    <3> QED BY <3>1, DataFacts
  <2> QED BY <2>1, EvalFacts
<1> QED BY <1>1, EngineInvariant, PTL

\* What the owner sees between operations is the net graph with its exact
\* trussness.
THEOREM EngineImplementsMaintained == Safety => MaintainedSafety
<1>1. Init => Maintained!Init
  BY DEF Init, Maintained!Init
<1>2. IInv /\ [Next]_vars => [Maintained!Next]_Maintained!maintainedVars
  <2> SUFFICES ASSUME IInv, [Next]_vars
               PROVE  Maintained!Next \/ UNCHANGED Maintained!maintainedVars
    OBVIOUS
  <2> USE DEF Maintained!maintainedVars
  <2>1. ASSUME NEW del \in BOOLEAN, NEW e \in Edge, Call(del, e)
        PROVE  Maintained!Next
    <3>1. op = {} /\ view' = view /\ op' = {[del |-> del, edge |-> e]}
      BY <2>1 DEF Call, IInv, OwnerSees
    <3> QED BY <3>1 DEF Maintained!Next, Maintained!Begin
  <2>2. CASE ReturnOp
    <3>1. phase = "return" /\ op' = {} /\ view' = [graph |-> graph, truss |-> Trussness[graph]]
      BY <2>2, ReturnKeeps DEF ReturnOp
    <3>2. PICK o \in [del : BOOLEAN, edge : Edge] :
            op = {o} /\ graph = IF o.del THEN view.graph \ {o.edge} ELSE view.graph \cup {o.edge}
      BY <3>1 DEF IInv, OwnerSees
    <3>3. graph = Maintained!Net(view.graph, op)
      <4>1. CASE o.del
        <5>1. o = [del |-> TRUE, edge |-> o.edge]
          BY <4>1
        <5>2. Maintained!Removed(view.graph, op) = view.graph \cap {o.edge}
          BY <3>2, <5>1 DEF Maintained!Removed
        <5>3. Maintained!Added(view.graph, op) = {}
          BY <3>2, <4>1 DEF Maintained!Added
        <5> QED BY <3>2, <4>1, <5>2, <5>3 DEF Maintained!Net
      <4>2. CASE ~o.del
        <5>1. Maintained!Removed(view.graph, op) = {}
          BY <3>2, <4>2 DEF Maintained!Removed
        <5>2. Maintained!Added(view.graph, op) = {o.edge} \ view.graph
          BY <3>2, <4>2 DEF Maintained!Added
        <5> QED BY <3>2, <4>2, <5>1, <5>2 DEF Maintained!Net
      <4> QED BY <4>1, <4>2
    <3> QED BY <3>1, <3>2, <3>3 DEF Maintained!Next, Maintained!End
  <2>3. ASSUME \/ Closed \/ Settled \/ StreamEnds \/ UNCHANGED vars
               \/ \E f \in queue : Close(f) \/ Demote(f)
        PROVE  UNCHANGED <<view, op>>
    BY <2>3 DEF Closed, Settled, StreamEnds, vars, Close, Demote
  <2> QED BY <2>1, <2>2, <2>3 DEF Next, OpStep, InsertEdge, RemoveEdge, Refused
<1> QED BY <1>1, <1>2, EngineInvariant, PTL DEF Safety, MaintainedSafety, Maintained!Safety
=============================================================================
