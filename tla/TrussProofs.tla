------------------------------ MODULE TrussProofs ------------------------------
(***************************************************************************)
(* What the proofs about the engines use of supports and k-trusses, for    *)
(* every finite set of edges.                                              *)
(***************************************************************************)
EXTENDS Truss, FiniteSetTheorems, TLAPS

(* Numbers *)

\* A non-empty set of numbers has a least element.
LEMMA LeastNumber ==
  ASSUME NEW S \in SUBSET Nat, S # {}
  PROVE  \E m \in S : \A k \in S : m <= k
<1>1. IsWellFoundedOn(OpToRel(<, Nat), Nat)
  BY NatLessThanWellFounded
<1>2. PICK m \in S : \A k \in S : <<k, m>> \notin OpToRel(<, Nat)
  BY <1>1, WFMin
<1>3. \A k \in S : ~(k < m)
  BY <1>2 DEF OpToRel
<1> QED BY <1>3

\* A bounded set of numbers has a greatest element.
LEMMA GreatestNumber ==
  ASSUME NEW S \in SUBSET Nat, S # {}, NEW n \in Nat, \A k \in S : k <= n
  PROVE  \E m \in S : \A k \in S : k <= m
<1> DEFINE Bounds == {m \in Nat : \A k \in S : k <= m}
<1>1. PICK m \in Bounds : \A k \in Bounds : m <= k
  <2>1. n \in Bounds
    OBVIOUS
  <2> QED BY <2>1, LeastNumber
<1>2. m \in S
  <2>1. SUFFICES ASSUME m \notin S PROVE FALSE
    OBVIOUS
  <2>2. \A k \in S : k < m
    BY <2>1
  <2>3. PICK k \in S : TRUE
    OBVIOUS
  <2>4. m > 0
    BY <2>2, <2>3
  <2>5. m - 1 \in Bounds
    BY <2>2, <2>4
  <2> QED BY <1>1, <2>4, <2>5
<1> QED BY <1>1, <1>2

(* Triangles and supports *)

\* A triangle has two edges besides each of its edges.
LEMMA OtherEdges ==
  ASSUME NEW t \in Triangle, NEW e \in t
  PROVE  \E a, b : a # b /\ a # e /\ b # e /\ t \ {e} = {a, b}
<1>1. IsFiniteSet(t) /\ Cardinality(t) = 3
  BY TriangleAssumption, FS_Subset
<1>2. IsFiniteSet(t \ {e}) /\ Cardinality(t \ {e}) = 2
  BY <1>1, FS_RemoveElement
<1>3. PICK a : a \in t \ {e}
  BY <1>2, FS_EmptySet
<1>4. IsFiniteSet(t \ {e, a}) /\ Cardinality(t \ {e, a}) = 1
  <2>1. IsFiniteSet((t \ {e}) \ {a}) /\ Cardinality((t \ {e}) \ {a}) = 1
    BY <1>2, <1>3, FS_RemoveElement
  <2>2. (t \ {e}) \ {a} = t \ {e, a}
    OBVIOUS
  <2> QED BY <2>1, <2>2
<1>5. PICK b : t \ {e, a} = {b}
  BY <1>4, FS_Singleton
<1> QED BY <1>3, <1>5

\* A support is a number; in a smaller graph it is no larger.
LEMMA SupMonotone ==
  ASSUME NEW G \in SUBSET Edge, NEW H \in SUBSET G, NEW e
  PROVE  /\ IsFiniteSet(TrianglesAt(G, e))
         /\ Sup(G, e) \in Nat /\ Sup(H, e) \in Nat
         /\ Sup(H, e) <= Sup(G, e)
<1>1. IsFiniteSet(SUBSET Edge)
  BY TriangleAssumption, FS_SUBSET
<1>2. TrianglesAt(G, e) \subseteq SUBSET Edge
  BY DEF TrianglesAt
<1>3. IsFiniteSet(TrianglesAt(G, e))
  BY <1>1, <1>2, FS_Subset
<1>4. TrianglesAt(H, e) \in SUBSET TrianglesAt(G, e)
  BY DEF TrianglesAt
<1>5. IsFiniteSet(TrianglesAt(H, e))
  BY <1>3, <1>4, FS_Subset
<1> QED BY <1>3, <1>4, <1>5, FS_Subset, FS_CardinalityType DEF Sup

\* Removing an edge costs each of its partners one triangle, the others none.
LEMMA SupWithout ==
  ASSUME NEW G \in SUBSET Edge, NEW e \in G, NEW f \in G, f # e
  PROVE  Sup(G \ {e}, f) = IF f \in Mates(G, e) THEN Sup(G, f) - 1 ELSE Sup(G, f)
<1>1. IsFiniteSet(TrianglesAt(G, f)) /\ Sup(G, f) \in Nat
  BY SupMonotone
<1>2. CASE f \in Mates(G, e)
  <2>1. PICK t \in TrianglesAt(G, e) : f \in t
    BY <1>2 DEF Mates
  <2>2. t \in TrianglesAt(G, f) /\ e \in t
    BY <2>1 DEF TrianglesAt
  <2>3. \A s \in TrianglesAt(G, f) : e \in s => s = t
    BY <2>2, TriangleAssumption DEF TrianglesAt
  <2>4. TrianglesAt(G \ {e}, f) = TrianglesAt(G, f) \ {t}
    BY <2>2, <2>3 DEF TrianglesAt
  <2>5. Cardinality(TrianglesAt(G, f) \ {t}) = Cardinality(TrianglesAt(G, f)) - 1
    <3>1. IsFiniteSet(TrianglesAt(G, f)) /\ t \in TrianglesAt(G, f)
      BY <1>1, <2>2
    <3> HIDE DEF TrianglesAt
    <3> QED BY <3>1, FS_RemoveElement
  <2> QED BY <1>2, <2>4, <2>5 DEF Sup
<1>3. CASE f \notin Mates(G, e)
  <2>1. \A s \in TrianglesAt(G, f) : e \notin s
    BY <1>3 DEF Mates, TrianglesAt
  <2>2. TrianglesAt(G \ {e}, f) = TrianglesAt(G, f)
    BY <2>1 DEF TrianglesAt
  <2> QED BY <1>3, <2>2 DEF Sup
<1> QED BY <1>2, <1>3

\* A k-truss is a subgraph, dense, and the largest.
LEMMA KTrussFacts ==
  ASSUME NEW G \in SUBSET Edge, NEW k \in Nat
  PROVE  /\ KTruss(G, k) \subseteq G
         /\ Dense(KTruss(G, k), k)
         /\ \A S \in SUBSET G : Dense(S, k) => S \subseteq KTruss(G, k)
<1>1. KTruss(G, k) \subseteq G
  BY DEF KTruss
<1>2. \A S \in SUBSET G : Dense(S, k) => S \subseteq KTruss(G, k)
  BY DEF KTruss
<1>3. ASSUME NEW e \in KTruss(G, k) PROVE Sup(KTruss(G, k), e) + 2 >= k
  <2>1. PICK S \in SUBSET G : Dense(S, k) /\ e \in S
    BY <1>3 DEF KTruss
  <2>2. Sup(S, e) + 2 >= k
    BY <2>1 DEF Dense
  <2>3. S \in SUBSET KTruss(G, k) /\ KTruss(G, k) \in SUBSET Edge
    BY <1>1, <1>2, <2>1
  <2>4. /\ Sup(S, e) \in Nat /\ Sup(KTruss(G, k), e) \in Nat
        /\ Sup(S, e) <= Sup(KTruss(G, k), e)
    BY <2>3, SupMonotone
  <2> QED BY <2>2, <2>4
<1> QED BY <1>1, <1>2, <1>3 DEF Dense

\* The k-trusses are nested.
LEMMA KTrussNested ==
  ASSUME NEW G \in SUBSET Edge, NEW k \in Nat, NEW l \in Nat, k <= l
  PROVE  KTruss(G, l) \subseteq KTruss(G, k)
<1>1. /\ KTruss(G, l) \in SUBSET G /\ Dense(KTruss(G, l), l)
  BY KTrussFacts
<1>2. \A e \in KTruss(G, l) : Sup(KTruss(G, l), e) \in Nat
  BY <1>1, SupMonotone
<1>3. Dense(KTruss(G, l), k)
  BY <1>1, <1>2 DEF Dense
<1> QED BY <1>1, <1>3, KTrussFacts

\* An edge has at most one trussness: what satisfies its definition is the entry
\* of the table.
THEOREM TrussnessUnique ==
  ASSUME NEW G \in SUBSET Edge, NEW e \in G, NEW k \in 2 .. Sup(G, e) + 2,
         IsTrussness(G, e, k)
  PROVE  Trussness[G][e] = k
<1>1. Sup(G, e) \in Nat
  BY SupMonotone
<1>2. ASSUME NEW l \in 2 .. Sup(G, e) + 2, IsTrussness(G, e, l) PROVE l = k
  <2>1. k \in Nat /\ l \in Nat
    BY <1>1
  <2>2. ~(k < l)
    <3>1. SUFFICES ASSUME k < l PROVE FALSE
      OBVIOUS
    <3>2. KTruss(G, l) \subseteq KTruss(G, k + 1)
      BY <2>1, <3>1, KTrussNested
    <3> QED BY <3>2, <1>2 DEF IsTrussness
  <2>3. ~(l < k)
    <3>1. SUFFICES ASSUME l < k PROVE FALSE
      OBVIOUS
    <3>2. KTruss(G, k) \subseteq KTruss(G, l + 1)
      BY <2>1, <3>1, KTrussNested
    <3> QED BY <3>2, <1>2 DEF IsTrussness
  <2> QED BY <2>1, <2>2, <2>3
<1>3. (CHOOSE l \in 2 .. Sup(G, e) + 2 : IsTrussness(G, e, l)) = k
  BY <1>2
<1>4. Trussness[G][e] = CHOOSE l \in 2 .. Sup(G, e) + 2 : IsTrussness(G, e, l)
  BY TrussnessAssumption DEF TrussnessTable
<1> QED BY <1>3, <1>4

(* The trussness of an edge *)

\* Every edge has a trussness: the least k with the edge outside the next truss.
THEOREM TrussnessDefined ==
  ASSUME NEW G \in SUBSET Edge, NEW e \in G
  PROVE  /\ Trussness[G][e] \in 2 .. Sup(G, e) + 2
         /\ IsTrussness(G, e, Trussness[G][e])
<1> DEFINE Outside == {k \in Nat : k >= 2 /\ e \notin KTruss(G, k + 1)}
<1>1. Sup(G, e) \in Nat /\ \A f \in G : Sup(G, f) \in Nat
  BY SupMonotone
<1>2. Sup(G, e) + 2 \in Outside
  <2>1. SUFFICES ASSUME e \in KTruss(G, Sup(G, e) + 3) PROVE FALSE
    BY <1>1
  <2>2. Sup(KTruss(G, Sup(G, e) + 3), e) + 2 >= Sup(G, e) + 3
    BY <1>1, <2>1, KTrussFacts DEF Dense
  <2>3. KTruss(G, Sup(G, e) + 3) \in SUBSET G
    BY <1>1, KTrussFacts
  <2>4. /\ Sup(KTruss(G, Sup(G, e) + 3), e) \in Nat
        /\ Sup(KTruss(G, Sup(G, e) + 3), e) <= Sup(G, e)
    BY <2>3, SupMonotone
  <2> QED BY <1>1, <2>2, <2>4
<1>3. PICK k \in Outside : \A l \in Outside : k <= l
  BY <1>2, LeastNumber
<1>4. e \in KTruss(G, k)
  <2>1. CASE k = 2
    <3>1. Dense(G, 2)
      BY <1>1 DEF Dense
    <3>2. G \in SUBSET G
      OBVIOUS
    <3> QED BY <2>1, <3>1, <3>2, KTrussFacts
  <2>2. CASE k # 2
    <3>1. k - 1 \in Nat /\ k - 1 >= 2 /\ (k - 1) + 1 = k /\ ~(k <= k - 1)
      BY <2>2
    <3> QED BY <1>3, <3>1
  <2> QED BY <2>1, <2>2
<1>5. k \in 2 .. Sup(G, e) + 2 /\ IsTrussness(G, e, k)
  BY <1>1, <1>2, <1>3, <1>4 DEF IsTrussness
<1> QED BY <1>5, TrussnessUnique

\* The table's entry for a graph is a function on its edges.
LEMMA TrussnessIsFunction ==
  ASSUME NEW G \in SUBSET Edge
  PROVE  Trussness[G] = [e \in G |-> Trussness[G][e]]
<1>1. Trussness[G] = [e \in G |-> CHOOSE k \in 2 .. Sup(G, e) + 2 : IsTrussness(G, e, k)]
  BY TrussnessAssumption DEF TrussnessTable
<1> QED BY <1>1, Zenon

\* An edge lies in the trusses up to its trussness.
LEMMA TrussLevels ==
  ASSUME NEW G \in SUBSET Edge, NEW e \in G, NEW k \in Nat
  PROVE  e \in KTruss(G, k) <=> k <= Trussness[G][e]
<1> DEFINE m == Trussness[G][e]
<1>1. m \in Nat /\ e \in KTruss(G, m) /\ e \notin KTruss(G, m + 1)
  <2>1. Sup(G, e) \in Nat
    BY SupMonotone
  <2> QED BY <2>1, TrussnessDefined DEF IsTrussness
<1> HIDE DEF m
<1>2. ASSUME k <= m PROVE e \in KTruss(G, k)
  BY <1>1, <1>2, KTrussNested
<1>3. ASSUME k >= m + 1 PROVE e \notin KTruss(G, k)
  BY <1>1, <1>3, KTrussNested
<1>4. k <= m \/ k >= m + 1
  BY <1>1
<1>5. e \in KTruss(G, k) <=> k <= m
  BY <1>1, <1>2, <1>3, <1>4
<1> QED BY <1>5 DEF m

\* A subgraph in which every edge closes k - 2 triangles has trussness k.
LEMMA DenseBound ==
  ASSUME NEW G \in SUBSET Edge, NEW S \in SUBSET G, NEW k \in Nat, Dense(S, k), NEW e \in S
  PROVE  k <= Trussness[G][e]
  BY KTrussFacts, TrussLevels

\* Edges that share no triangle with the rest of the graph have the trussness they
\* have by themselves.
THEOREM ComponentTrussness ==
  ASSUME NEW G \in SUBSET Edge, NEW F \in SUBSET G,
         \A f \in F : TrianglesAt(G, f) = TrianglesAt(F, f),
         NEW e \in F
  PROVE  Trussness[G][e] = Trussness[F][e]
<1> DEFINE k == Trussness[G][e]
           l == Trussness[F][e]
<1>1. Sup(G, e) \in Nat /\ Sup(F, e) \in Nat /\ F \in SUBSET Edge
  BY SupMonotone
<1>2. k \in Nat /\ l \in Nat
  BY <1>1, TrussnessDefined
<1> HIDE DEF k, l
<1>3. e \in KTruss(G, k) /\ e \in KTruss(F, l)
  BY <1>1, <1>2, TrussLevels DEF k, l
<1>4. l <= k
  <2>1. KTruss(F, l) \in SUBSET G /\ Dense(KTruss(F, l), l)
    BY <1>1, <1>2, KTrussFacts
  <2> QED BY <1>2, <1>3, <2>1, DenseBound DEF k
<1>5. k <= l
  <2> DEFINE S == KTruss(G, k) \cap F
  <2>1. KTruss(G, k) \subseteq G /\ Dense(KTruss(G, k), k)
    BY <1>2, KTrussFacts
  <2>2. ASSUME NEW f \in S PROVE TrianglesAt(S, f) = TrianglesAt(KTruss(G, k), f)
    <3>1. \A t \in TrianglesAt(KTruss(G, k), f) : t \in TrianglesAt(G, f)
      BY <2>1 DEF TrianglesAt
    <3>2. \A t \in TrianglesAt(KTruss(G, k), f) : t \subseteq F
      BY <3>1 DEF TrianglesAt
    <3> QED BY <3>2 DEF TrianglesAt
  <2>3. Dense(S, k)
    BY <2>1, <2>2 DEF Dense, Sup
  <2>4. S \in SUBSET F /\ e \in S
    BY <1>3
  <2> HIDE DEF S
  <2> QED BY <1>1, <1>2, <2>3, <2>4, DenseBound DEF l
<1> QED BY <1>2, <1>4, <1>5 DEF k, l

\* In a larger graph a trussness is no smaller; one more edge raises it by at most one.
THEOREM TrussnessWithout ==
  ASSUME NEW G \in SUBSET Edge, NEW e \in G, NEW f \in G, f # e
  PROVE  /\ Trussness[G \ {e}][f] \in Nat /\ Trussness[G][f] \in Nat
         /\ Trussness[G \ {e}][f] <= Trussness[G][f]
         /\ Trussness[G][f] <= Trussness[G \ {e}][f] + 1
<1> DEFINE H == G \ {e}
           k == Trussness[G][f]
           l == Trussness[H][f]
<1>1. H \in SUBSET Edge /\ H \in SUBSET G /\ f \in H
  OBVIOUS
<1>2. Sup(G, f) \in Nat /\ Sup(H, f) \in Nat
  BY <1>1, SupMonotone
<1>3. k \in Nat /\ k >= 2 /\ l \in Nat
  BY <1>1, <1>2, TrussnessDefined
<1> HIDE DEF k, l
<1>4. f \in KTruss(G, k) /\ f \in KTruss(H, l)
  BY <1>1, <1>3, TrussLevels DEF k, l
<1>5. l <= k
  <2>1. KTruss(H, l) \in SUBSET H /\ Dense(KTruss(H, l), l)
    BY <1>1, <1>3, KTrussFacts
  <2>2. KTruss(H, l) \in SUBSET G
    BY <2>1
  <2> QED BY <1>3, <1>4, <2>1, <2>2, DenseBound DEF k
<1>6. k - 1 <= l
  <2> DEFINE S == KTruss(G, k)
  <2>1. S \in SUBSET G /\ Dense(S, k)
    BY <1>3, KTrussFacts
  <2> HIDE DEF S
  <2>2. ASSUME NEW g \in S \ {e} PROVE Sup(S \ {e}, g) + 2 >= k - 1
    <3>1. Sup(S, g) \in Nat /\ Sup(S, g) + 2 >= k
      BY <2>1, SupMonotone DEF Dense
    <3>2. CASE e \in S
      <4>1. Sup(S \ {e}, g) \in {Sup(S, g) - 1, Sup(S, g)}
        BY <2>1, <3>2, SupWithout
      <4> QED BY <1>3, <3>1, <4>1
    <3>3. CASE e \notin S
      <4>1. S \ {e} = S
        BY <3>3
      <4> QED BY <1>3, <3>1, <4>1
    <3> QED BY <3>2, <3>3
  <2>3. Dense(S \ {e}, k - 1)
    BY <2>2 DEF Dense
  <2>4. S \ {e} \in SUBSET H /\ f \in S \ {e} /\ k - 1 \in Nat
    BY <1>3, <1>4, <2>1 DEF S
  <2> HIDE DEF H
  <2> QED BY <1>1, <2>3, <2>4, DenseBound DEF l
<1> QED BY <1>3, <1>5, <1>6 DEF k, l
=============================================================================
