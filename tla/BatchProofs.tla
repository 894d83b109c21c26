------------------------------ MODULE BatchProofs ------------------------------
(***************************************************************************)
(* For every finite set of edges, every set of batches and any number of   *)
(* them: BatchMaintainer keeps IInv, hence never takes a defensive exit,   *)
(* recycles ids without loss, and shows its owner the net graph with its   *)
(* exact trussness.                                                        *)
(***************************************************************************)
EXTENDS BatchInvariant, TrussProofs, SequenceTheorems

(* Ids and edges *)

\* The live ids and the edges of the graph name each other.
LEMMA IdFacts ==
  ASSUME TypeOK, IdsSound
  PROVE  /\ Graph \in SUBSET Edge
         /\ \A e \in Graph : idOf[e] \in Live /\ ends[idOf[e]] = e
         /\ \A x \in Live : x \in Ids /\ ends[x] \in Graph /\ ends[x] \in Edge /\ idOf[ends[x]] = x
<1>1. Graph \in SUBSET Edge
  BY DEF Graph
<1>2. Live = IdsOf(Graph) /\ \A e \in Graph : ends[idOf[e]] = e
  BY DEF IdsSound, Live
<1>3. \A e \in Graph : idOf[e] \in Live
  BY <1>2 DEF IdsOf
<1>4. ASSUME NEW x \in Live
      PROVE  x \in Ids /\ ends[x] \in Graph /\ ends[x] \in Edge /\ idOf[ends[x]] = x
  <2>1. PICK e \in Graph : x = idOf[e]
    BY <1>2 DEF IdsOf
  <2> QED BY <1>1, <1>2, <2>1 DEF Live
<1> QED BY <1>1, <1>2, <1>3, <1>4

\* The ids of a set of edges of the graph.
LEMMA IdsOfFacts ==
  ASSUME TypeOK, IdsSound, NEW S \in SUBSET Graph
  PROVE  IdsOf(S) = {y \in Live : ends[y] \in S}
<1>1. ASSUME NEW y \in IdsOf(S) PROVE y \in Live /\ ends[y] \in S
  <2>1. PICK e \in S : y = idOf[e]
    BY DEF IdsOf
  <2> QED BY <2>1, IdFacts
<1>2. ASSUME NEW y \in Live, ends[y] \in S PROVE y \in IdsOf(S)
  <2>1. y = idOf[ends[y]]
    BY IdFacts
  <2> QED BY <1>2, <2>1 DEF IdsOf
<1> QED BY <1>1, <1>2

\* The mates of a live id, and the pairs that close a triangle with it.
LEMMA MateFacts ==
  ASSUME TypeOK, IdsSound, NEW x \in Live
  PROVE  /\ MatesOf(x) = {y \in Live : y # x /\ \E t \in TrianglesAt(Graph, ends[x]) : ends[y] \in t}
         /\ PairsAt(x) = {{y \in Live : y # x /\ ends[y] \in t} : t \in TrianglesAt(Graph, ends[x])}
<1> DEFINE e == ends[x]
<1>1. e \in Graph /\ \A y \in Live : y # x <=> ends[y] # e
  BY IdFacts
<1>2. \A t \in TrianglesAt(Graph, e) : t \in SUBSET Graph
  BY DEF TrianglesAt
<1>3. MatesOf(x) = {y \in Live : ends[y] \in Mates(Graph, e)}
  <2>1. Mates(Graph, e) \in SUBSET Graph
    BY <1>2 DEF Mates
  <2> QED BY <2>1, IdsOfFacts DEF MatesOf
<1>4. \A t \in TrianglesAt(Graph, e) : IdsOf(t \ {e}) = {y \in Live : y # x /\ ends[y] \in t}
  <2>1. ASSUME NEW t \in TrianglesAt(Graph, e)
        PROVE  IdsOf(t \ {e}) = {y \in Live : y # x /\ ends[y] \in t}
    <3>1. t \ {e} \in SUBSET Graph
      BY <1>2
    <3>2. IdsOf(t \ {e}) = {y \in Live : ends[y] \in t \ {e}}
      BY <3>1, IdsOfFacts
    <3> QED BY <1>1, <3>2
  <2> QED BY <2>1
<1>5. \A y \in Live : ends[y] \in Mates(Graph, e) <=>
                        y # x /\ \E t \in TrianglesAt(Graph, e) : ends[y] \in t
  BY <1>1 DEF Mates
<1>6. MatesOf(x) = {y \in Live : y # x /\ \E t \in TrianglesAt(Graph, e) : ends[y] \in t}
  BY <1>3, <1>5
<1>7. PairsAt(x) = {{y \in Live : y # x /\ ends[y] \in t} : t \in TrianglesAt(Graph, e)}
  <2> DEFINE Others(t) == {y \in Live : y # x /\ ends[y] \in t}
  <2>1. \A t \in TrianglesAt(Graph, e) : IdsOf(t \ {e}) = Others(t)
    BY <1>4
  <2>2. PairsAt(x) = {IdsOf(t \ {e}) : t \in TrianglesAt(Graph, e)}
    BY DEF PairsAt
  <2> HIDE DEF Others
  <2>3. PairsAt(x) = {Others(t) : t \in TrianglesAt(Graph, e)}
    BY <2>1, <2>2
  <2> QED BY <2>3 DEF Others
<1> QED BY <1>6, <1>7

\* What a triangle of the graph is made of.
LEMMA TriangleFacts ==
  ASSUME TypeOK, IdsSound, NEW e
  PROVE  \A t \in TrianglesAt(Graph, e) :
           /\ t \in Triangle /\ e \in t /\ t \subseteq Graph
           /\ \A f \in t : t \in TrianglesAt(Graph, f)
  BY DEF TrianglesAt

\* Two live edges lie together in at most one triangle.
LEMMA OneTriangle ==
  ASSUME TypeOK, IdsSound, NEW x \in Live, NEW y \in Live, x # y,
         NEW s \in Triangle, NEW t \in Triangle,
         ends[x] \in s, ends[y] \in s, ends[x] \in t, ends[y] \in t
  PROVE  s = t
<1>1. ends[x] # ends[y]
  BY IdFacts
<1> QED BY <1>1, TriangleAssumption

(* phase_deletions *)

\* Of the ids to be removed, x is the one that counts triangle t.
Counts(x, t) == ends[x] \in t /\ \A z \in dels : ends[z] \in t => x <= z

\* The jobs that lower the support of y.
Lowerers(y) == {x \in dels : \E p \in Witnessed(x) : y \in p}

\* The smallest-id rule: x lowers the support of y when they share a triangle that x counts.
LEMMA WitnessedFacts ==
  ASSUME TypeOK, IdsSound, dels \subseteq Live, NEW x \in dels
  PROVE  /\ \A p \in Witnessed(x) : p \subseteq Live
         /\ \A y \in Live : (\E p \in Witnessed(x) : y \in p) <=>
                x # y /\ \E t \in TrianglesAt(Graph, ends[y]) : Counts(x, t)
<1>1. x \in Live /\ x \in Int /\ \A z \in dels : z \in Live /\ z \in Int
  BY IdFacts DEF Ids
<1> DEFINE Others(t) == {y \in Live : y # x /\ ends[y] \in t}
<1>2. PairsAt(x) = {Others(t) : t \in TrianglesAt(Graph, ends[x])}
  BY <1>1, MateFacts
<1>3. \A p \in Witnessed(x) : p \subseteq Live
  BY <1>2 DEF Witnessed
<1>4. ASSUME NEW t \in TrianglesAt(Graph, ends[x])
      PROVE  (\A z \in Others(t) : ~(z \in dels /\ z < x)) <=> Counts(x, t)
  <2>1. ends[x] \in t
    BY DEF TrianglesAt
  <2>2. ASSUME \A z \in Others(t) : ~(z \in dels /\ z < x), NEW z \in dels, ends[z] \in t
        PROVE  x <= z
    <3>1. CASE z = x
      BY <1>1, <3>1
    <3>2. CASE z # x
      <4>1. z \in Others(t)
        BY <1>1, <2>2, <3>2
      <4> QED BY <1>1, <2>2, <4>1
    <3> QED BY <3>1, <3>2
  <2>3. ASSUME Counts(x, t), NEW z \in Others(t), z \in dels, z < x PROVE FALSE
    BY <1>1, <2>3 DEF Counts
  <2> QED BY <2>1, <2>2, <2>3 DEF Counts
<1>5. ASSUME NEW y \in Live, NEW p \in Witnessed(x), y \in p
      PROVE  x # y /\ \E t \in TrianglesAt(Graph, ends[y]) : Counts(x, t)
  <2>1. PICK t \in TrianglesAt(Graph, ends[x]) : p = Others(t)
    BY <1>2, <1>5 DEF Witnessed
  <2>2. Counts(x, t)
    BY <1>4, <1>5, <2>1 DEF Witnessed
  <2>3. y # x /\ ends[y] \in t
    BY <1>5, <2>1
  <2> QED BY <2>2, <2>3, TriangleFacts
<1>6. ASSUME NEW y \in Live, x # y, NEW t \in TrianglesAt(Graph, ends[y]), Counts(x, t)
      PROVE  \E p \in Witnessed(x) : y \in p
  <2>1. t \in TrianglesAt(Graph, ends[x]) /\ ends[y] \in t
    BY <1>6, TriangleFacts DEF Counts
  <2>2. Others(t) \in Witnessed(x)
    BY <1>2, <1>4, <1>6, <2>1 DEF Witnessed
  <2>3. y \in Others(t)
    BY <1>6, <2>1
  <2> QED BY <2>2, <2>3
<1> QED BY <1>3, <1>5, <1>6

\* A support is lowered once for every triangle a lowerer counts; of an edge that
\* stays, these are all the triangles that lose an edge.
LEMMA LoweringsFacts ==
  ASSUME TypeOK, IdsSound, dels \subseteq Live, NEW y \in Live
  PROVE  /\ Lowerings(y) \in Nat /\ Lowerings(y) <= Sup(Graph, ends[y])
         /\ y \notin dels =>
              /\ Lowerings(y) = Cardinality({t \in TrianglesAt(Graph, ends[y]) :
                                               t \cap EdgesOf(dels) # {}})
              /\ \A t \in TrianglesAt(Graph, ends[y]) : t \cap EdgesOf(dels) # {} =>
                   \E x \in dels : \E p \in Witnessed(x) : y \in p
<1> DEFINE T == TrianglesAt(Graph, ends[y])
           L == Lowerers(y)
           D == {t \in T : t \cap EdgesOf(dels) # {}}
           f == [x \in L |-> CHOOSE t \in T : Counts(x, t)]
<1>1. ends[y] \in Graph /\ IsFiniteSet(T) /\ Sup(Graph, ends[y]) = Cardinality(T)
  BY IdFacts, SupMonotone DEF Sup
<1>2. \A x \in dels : x \in Live /\ x \in Int
  BY IdFacts DEF Ids
<1>3. L = {x \in dels : x # y /\ \E t \in T : Counts(x, t)}
  BY WitnessedFacts DEF Lowerers
<1>4. \A x \in L : x \in dels /\ x # y /\ f[x] \in T /\ Counts(x, f[x])
  BY <1>3
<1> HIDE DEF f
<1>5. \A x \in L : f[x] \in D
  BY <1>4 DEF Counts, EdgesOf
<1>6. \A w, x \in L : f[w] = f[x] => w = x
  <2>1. ASSUME NEW w \in L, NEW x \in L, f[w] = f[x] PROVE w <= x
    BY <1>4, <2>1 DEF Counts
  <2>2. ASSUME NEW w \in L, NEW x \in L, f[w] = f[x] PROVE w = x
    <3>1. w <= x /\ x <= w
      BY <2>1, <2>2
    <3> QED BY <1>2, <1>4, <3>1
  <2> QED BY <2>2
<1>7. f \in Injection(L, T) /\ f \in Injection(L, D)
  <2>1. f \in [L -> T] /\ f \in [L -> D] /\ DOMAIN f = L
    BY <1>4, <1>5 DEF f
  <2> QED BY <1>6, <2>1 DEF Injection, IsInjective
<1>8. IsFiniteSet(L) /\ Cardinality(L) \in Nat /\ Cardinality(L) <= Cardinality(T)
  BY <1>1, <1>7, FS_Injection, FS_CardinalityType
<1>9. ASSUME y \notin dels, NEW t \in D PROVE \E x \in L : f[x] = t
  <2>1. PICK z \in dels : ends[z] \in t
    BY <1>9 DEF EdgesOf
  <2>2. {x \in dels : ends[x] \in t} \in SUBSET Nat /\ {x \in dels : ends[x] \in t} # {}
    BY <1>2, <2>1, IdFacts DEF Ids
  <2>3. PICK x \in {w \in dels : ends[w] \in t} : \A w \in {v \in dels : ends[v] \in t} : x <= w
    BY <2>2, LeastNumber
  <2>4. Counts(x, t) /\ x \in dels /\ x # y
    BY <1>9, <2>3 DEF Counts
  <2>5. x \in L
    BY <1>3, <2>4
  <2>6. t \in Triangle /\ f[x] \in Triangle /\ ends[y] \in t /\ ends[y] \in f[x]
    BY <1>4, <2>5, TriangleFacts
  <2>7. ends[x] \in t /\ ends[x] \in f[x]
    BY <1>4, <2>4, <2>5 DEF Counts
  <2>8. f[x] = t
    BY <1>2, <2>4, <2>6, <2>7, OneTriangle
  <2> QED BY <2>5, <2>8
<1>10. ASSUME y \notin dels PROVE Cardinality(L) = Cardinality(D)
  <2>1. f \in Surjection(L, D)
    BY <1>7, <1>9, <1>10 DEF Surjection, Injection
  <2>2. ExistsBijection(L, D)
    BY <1>7, <2>1 DEF ExistsBijection, Bijection
  <2> QED BY <1>8, <2>2, FS_Bijection
<1>11. Lowerings(y) = Cardinality(L)
  BY DEF Lowerings, Lowerers
<1>12. ASSUME y \notin dels, NEW t \in D PROVE \E x \in dels : \E p \in Witnessed(x) : y \in p
  BY <1>9, <1>12 DEF Lowerers
<1> QED BY <1>1, <1>8, <1>10, <1>11, <1>12

\* Nothing lowers the support of an id that is not live.
LEMMA NoLowerings ==
  ASSUME TypeOK, IdsSound, dels \subseteq Live, NEW y, y \notin Live
  PROVE  Lowerings(y) = 0
<1>1. {x \in dels : \E p \in Witnessed(x) : y \in p} = {}
  BY WitnessedFacts
<1> QED BY <1>1, FS_EmptySet DEF Lowerings

(* The graph and the batch *)

\* What the phases know of the net graph.
LEMMA NetFacts ==
  ASSUME GraphProgress
  PROVE  /\ Kept \subseteq view.graph /\ Kept \subseteq Edge /\ Wanted \cap Kept = {}
         /\ Wanted \cap view.graph = {}
  BY DEF GraphProgress, Kept, Wanted, Maintained!Added

\* apply_batch drops the operations without effect.
LEMMA NettedFacts ==
  ASSUME IInv, phase = "idle", NEW b \in Batches
  PROVE  /\ Delset(b) \ Insset(b) = Maintained!Removed(view.graph, b)
         /\ Insset(b) \ Delset(b) = Maintained!Added(view.graph, b)
         /\ Maintained!Added(view.graph, b) \subseteq Edge
<1>1. Graph = view.graph /\ Graph \in SUBSET Edge
  BY IdFacts DEF IInv, GraphProgress
<1>2. b \subseteq [del : BOOLEAN, edge : Edge]
  BY BatchAssumption
<1>3. Delset(b) = Maintained!Removed(view.graph, b)
  <2>1. ASSUME NEW e \in Delset(b) PROVE e \in Maintained!Removed(view.graph, b)
    <3>1. PICK o \in b : o.del /\ o.edge \in Graph /\ e = o.edge
      BY DEF Delset
    <3>2. o = [del |-> TRUE, edge |-> e]
      BY <1>2, <3>1
    <3> QED BY <1>1, <3>1, <3>2 DEF Maintained!Removed
  <2>2. ASSUME NEW e \in Maintained!Removed(view.graph, b) PROVE e \in Delset(b)
    <3>1. e \in Graph /\ [del |-> TRUE, edge |-> e] \in b
      BY <1>1 DEF Maintained!Removed
    <3> QED BY <3>1 DEF Delset
  <2> QED BY <2>1, <2>2
<1>4. Insset(b) = Maintained!Added(view.graph, b)
  BY <1>1 DEF Insset, Maintained!Added
<1>5. Delset(b) \cap Insset(b) = {} /\ Insset(b) \subseteq Edge
  BY <1>2 DEF Delset, Insset
<1> QED BY <1>3, <1>4, <1>5

(* ApplyBatch *)

\* After netting, what is to be removed is in the graph and what is to be inserted is not.
LEMMA ApplyKeeps ==
  ASSUME IInv, ApplyBatch
  PROVE  IInv'
<1>1. /\ phase = "idle" /\ batch' \in Batches /\ dels' = IdsOf(Delset(batch') \ Insset(batch'))
      /\ ins' = Insset(batch') \ Delset(batch')
      /\ phase' = IF dels' # {} THEN "witness" ELSE IF ins' # {} THEN "insert" ELSE "return"
      /\ UNCHANGED <<ends, idOf, freeIds, capEdges, slots, supcap, view, tau, sup, seeds, reg,
                     newIds, events, inReg, ubIn, deadMark, palive>>
  BY DEF ApplyBatch, graphVars, flagVars, peelVars
<1>2. /\ Graph = view.graph /\ newIds = {} /\ reg = {} /\ Graph \in SUBSET Edge
      /\ TypeOK /\ IdsSound /\ FlagsInv
      /\ \A e \in Graph : tau[idOf[e]] = Trussness[Graph][e]
      /\ ExactSupports
      /\ view = [graph |-> view.graph, truss |-> Trussness[view.graph]]
  BY <1>1, IdFacts DEF IInv, GraphProgress, FlagsInv, TauInv, SupInv
<1>3. /\ Graph' = Graph /\ EdgesOf(newIds)' = {} /\ Live' = Live
      /\ \A e : Sup(Graph, e)' = Sup(Graph, e)
  BY <1>1, <1>2 DEF Graph, EdgesOf, Live, Alive, Sup, TrianglesAt
<1>4. Kept' = view.graph \ Maintained!Removed(view.graph, batch')
      /\ Wanted' = Maintained!Added(view.graph, batch')
  BY <1>1 DEF Kept, Wanted, Maintained!Removed, Maintained!Added
<1>5. /\ dels' = IdsOf(Maintained!Removed(view.graph, batch')) /\ ins' = Wanted'
      /\ Wanted' \subseteq Edge
  BY <1>1, <1>4, NettedFacts
<1>6. Maintained!Removed(view.graph, batch') \subseteq Graph
  BY <1>2 DEF Maintained!Removed
<1>7. /\ EdgesOf(dels)' = Maintained!Removed(view.graph, batch')
      /\ dels' \subseteq Live
      /\ dels' = {} => Maintained!Removed(view.graph, batch') = {}
  <2>1. dels' = {y \in Live : ends[y] \in Maintained!Removed(view.graph, batch')}
    BY <1>2, <1>5, <1>6, IdsOfFacts
  <2>2. \A e \in Maintained!Removed(view.graph, batch') : idOf[e] \in dels' /\ ends[idOf[e]] = e
    BY <1>2, <1>6, <2>1, IdFacts
  <2> QED BY <1>1, <2>1, <2>2 DEF EdgesOf
<1>8. phase' \in {"witness", "insert", "return"} /\ (phase' # "witness" => dels' = {} /\ Kept' = Graph)
  BY <1>1, <1>2, <1>4, <1>7
<1>9. TypeOK'
  <2>1. dels' \subseteq Ids /\ ins' \subseteq Edge /\ batches' \in Nat
    <3>1. batches \in Nat /\ batches' = batches + 1
      BY <1>2 DEF TypeOK, ApplyBatch
    <3> QED BY <1>5, <1>7, <3>1 DEF Live
  <2> QED BY <1>2, <2>1, <1>8 DEF TypeOK, ApplyBatch, graphVars, flagVars, peelVars, Phases
<1>10. NoExit' /\ IdsSound'
  BY <1>1, <1>2, <1>8, <1>3 DEF NoExit, IdsSound, Alive, IdsOf
<1>11. GraphProgress'
  <2>1. phase' = "return" => ins' = {}
    BY <1>1
  <2> QED BY <1>1, <1>2, <1>3, <1>4, <1>5, <1>6, <1>7, <1>8, <2>1
          DEF GraphProgress, Deleting, InsertionDone, WithRegion
<1>12. FlagsInv'
  BY <1>1, <1>2, <1>3, <1>8 DEF FlagsInv
<1>13. SeedsCover' /\ RegionGrows' /\ SweepBookkeeping' /\ SweepSandwich' /\ FrozenExact'
  BY <1>8 DEF SeedsCover, RegionGrows, SweepBookkeeping, SweepSandwich, FrozenExact
<1>14. TauInv'
  <2>1. Base' = Graph
    BY <1>2, <1>8, <1>1 DEF Base, Deleting, WithRegion
  <2>2. \A e \in Kept' : e \in Graph
    BY <1>2, <1>4
  <2> QED BY <1>1, <1>2, <1>3, <1>8, <1>13, <2>1, <2>2 DEF TauInv
<1>15. SupInv'
  BY <1>1, <1>2, <1>3, <1>8 DEF SupInv, ExactSupports, Sup, TrianglesAt
<1> QED BY <1>9, <1>10, <1>11, <1>12, <1>13, <1>14, <1>15 DEF IInv

(* DeletionWitness *)

\* A subgraph has the triangles that lose no edge to it.
LEMMA SubgraphTriangles ==
  ASSUME NEW G \in SUBSET Edge, NEW K \in SUBSET G, NEW D, D = G \ K, NEW e
  PROVE  Sup(K, e) = Sup(G, e) - Cardinality({t \in TrianglesAt(G, e) : t \cap D # {}})
<1> DEFINE lost == {t \in TrianglesAt(G, e) : t \cap D # {}}
<1>1. IsFiniteSet(TrianglesAt(G, e))
  BY SupMonotone
<1>2. TrianglesAt(K, e) = TrianglesAt(G, e) \ lost
  BY DEF TrianglesAt
<1>3. lost \in SUBSET TrianglesAt(G, e) /\ TrianglesAt(G, e) \cap lost = lost
  OBVIOUS
<1> HIDE DEF lost
<1>4. Cardinality(TrianglesAt(G, e) \ lost) = Cardinality(TrianglesAt(G, e)) - Cardinality(lost)
  BY <1>1, <1>3, FS_Difference
<1>5. Sup(K, e) = Sup(G, e) - Cardinality(lost)
  BY <1>2, <1>4 DEF Sup
<1> QED BY <1>5 DEF lost

\* Every surviving edge loses exactly its destroyed triangles: no support is too small for
\* its lowerings, and each edge that loses one becomes a seed.
LEMMA DeletionWitnessKeeps ==
  ASSUME IInv, DeletionWitness
  PROVE  IInv'
<1>1. /\ phase = "witness" /\ TypeOK /\ IdsSound /\ GraphProgress /\ FlagsInv /\ TauInv
      /\ ExactSupports /\ deadMark' = Mark(deadMark, dels)
      /\ UNCHANGED <<ends, idOf, freeIds, capEdges, slots, supcap, tau, dcount, inReg, ubIn,
                     palive, psup, events, buckets, level, popped, dels, ins, newIds, inserting,
                     batch, batches, view, reg>>
  BY DEF IInv, SupInv, DeletionWitness, graphVars, peelVars, batchVars
<1>2. /\ dels \subseteq Live /\ EdgesOf(dels) = view.graph \ Kept /\ ins = Wanted
      /\ Kept \subseteq view.graph /\ Graph \in SUBSET Edge /\ newIds = {} /\ reg = {}
  BY <1>1, IdFacts, NetFacts DEF GraphProgress, Deleting, FlagsInv
<1>3. Graph = view.graph
  BY <1>1, <1>2 DEF GraphProgress
<1>4. /\ Graph' = Graph /\ Live' = Live /\ Kept' = Kept /\ Wanted' = Wanted
      /\ EdgesOf(dels)' = EdgesOf(dels)
  BY <1>1 DEF Graph, Live, Alive, Kept, Wanted, Maintained!Removed, Maintained!Added, EdgesOf
<1>5. \A y \in Live : y \in Ids /\ ends[y] \in Graph /\ sup[y] = Sup(Graph, ends[y])
  BY <1>1, IdFacts DEF ExactSupports
<1>6. \A y \in Ids : Lowerings(y) \in Nat /\ Lowerings(y) <= sup[y] /\ sup[y] \in Nat
  <2>1. ASSUME NEW y \in Ids PROVE Lowerings(y) \in Nat /\ Lowerings(y) <= sup[y] /\ sup[y] \in Nat
    <3>1. sup[y] \in Nat
      BY <1>1 DEF TypeOK
    <3>2. CASE y \in Live
      BY <1>1, <1>2, <1>5, <3>1, <3>2, LoweringsFacts
    <3>3. CASE y \notin Live
      BY <1>1, <1>2, <3>1, <3>3, NoLowerings
    <3> QED BY <3>2, <3>3
  <2> QED BY <2>1
<1>7. /\ phase' = "remove" /\ sup' = [y \in Ids |-> sup[y] - Lowerings(y)]
      /\ seeds' = UNION {UNION Witnessed(x) : x \in dels}
  <2>1. ~ \E y \in Ids : Lowerings(y) > sup[y]
    BY <1>6
  <2> QED BY <2>1 DEF DeletionWitness
<1>8. \A e \in Kept : LET y == idOf[e]
                      IN y \in Live /\ y \notin dels /\ ends[y] = e
  <2>1. \A e \in Kept : idOf[e] \in Live /\ ends[idOf[e]] = e /\ e \notin EdgesOf(dels)
    BY <1>1, <1>2, <1>3, IdFacts
  <2> QED BY <2>1 DEF EdgesOf
<1>9. TypeOK'
  <2>1. seeds' \subseteq Ids
    BY <1>1, <1>2, <1>7, WitnessedFacts DEF Live
  <2>2. sup' \in [Ids -> Nat]
    BY <1>6, <1>7
  <2>3. deadMark' \in [Ids -> BOOLEAN]
    BY <1>1 DEF Mark, TypeOK
  <2> QED BY <1>1, <1>7, <2>1, <2>2, <2>3 DEF TypeOK, Phases
<1>10. NoExit' /\ IdsSound'
  BY <1>1, <1>4, <1>7 DEF NoExit, IdsSound, Alive, IdsOf
<1>11. GraphProgress'
  BY <1>1, <1>2, <1>3, <1>4, <1>7 DEF GraphProgress, Deleting, InsertionDone, WithRegion
<1>12. FlagsInv'
  BY <1>1, <1>2, <1>4, <1>7 DEF FlagsInv, Mark
<1>13. SeedsCover'
  <2>1. ASSUME NEW e \in Kept, TrianglesAt(Kept, e) # TrianglesAt(view.graph, e)
        PROVE  idOf[e] \in seeds'
    <3>1. PICK t \in TrianglesAt(Graph, e) : t \cap EdgesOf(dels) # {}
      BY <1>2, <1>3, <2>1 DEF TrianglesAt
    <3>2. \E x \in dels : \E p \in Witnessed(x) : idOf[e] \in p
      BY <1>1, <1>2, <1>8, <3>1, LoweringsFacts
    <3> QED BY <1>7, <3>2
  <2> QED BY <1>1, <1>4, <1>7, <2>1 DEF SeedsCover, TrianglesAt
<1>14. RegionGrows' /\ SweepBookkeeping' /\ SweepSandwich' /\ FrozenExact'
  BY <1>7 DEF RegionGrows, SweepBookkeeping, SweepSandwich, FrozenExact
<1>15. TauInv'
  <2>1. Base' = Base
    BY <1>1, <1>7 DEF Base, Deleting
  <2> QED BY <1>1, <1>4, <1>7, <1>14, <2>1 DEF TauInv
<1>16. SupInv'
  <2>1. ASSUME NEW e \in Kept PROVE sup'[idOf[e]] = Sup(Kept, e)
    <3>1. sup'[idOf[e]] = Sup(Graph, e) - Lowerings(idOf[e])
      BY <1>5, <1>7, <1>8
    <3>2. Lowerings(idOf[e]) = Cardinality({t \in TrianglesAt(Graph, e) : t \cap EdgesOf(dels) # {}})
      BY <1>1, <1>2, <1>8, LoweringsFacts
    <3>3. Graph \ Kept = EdgesOf(dels) /\ Kept \in SUBSET Graph
      BY <1>2, <1>3
    <3>4. Sup(Kept, e) = Sup(Graph, e) - Cardinality({t \in TrianglesAt(Graph, e) :
                                                        t \cap EdgesOf(dels) # {}})
      <4> DEFINE D == EdgesOf(dels)
      <4>1. D = Graph \ Kept
        BY <3>3
      <4> HIDE DEF D
      <4>2. Sup(Kept, e) = Sup(Graph, e) - Cardinality({t \in TrianglesAt(Graph, e) : t \cap D # {}})
        BY <1>2, <3>3, <4>1, SubgraphTriangles
      <4> QED BY <4>2 DEF D
    <3> QED BY <3>1, <3>2, <3>4
  <2> QED BY <1>1, <1>4, <1>7, <2>1 DEF SupInv, Sup, TrianglesAt
<1> QED BY <1>9, <1>10, <1>11, <1>12, <1>13, <1>14, <1>15, <1>16 DEF IInv

(* RemoveEdge *)

\* free_ids with an id pushed on it.
LEMMA PushFacts ==
  ASSUME NEW S, NEW s \in Seq(S), NEW x \in S
  PROVE  /\ Append(s, x) \in Seq(S) /\ Len(Append(s, x)) = Len(s) + 1 /\ Len(s) \in Nat
         /\ ToSet(Append(s, x)) = ToSet(s) \cup {x}
         /\ IsInjective(s) /\ x \notin ToSet(s) => IsInjective(Append(s, x))
<1>1. /\ DOMAIN s = 1 .. Len(s) /\ Len(s) \in Nat
      /\ Append(s, x) \in Seq(S) /\ Len(Append(s, x)) = Len(s) + 1
      /\ DOMAIN Append(s, x) = 1 .. (Len(s) + 1)
      /\ \A i \in 1 .. Len(s) : Append(s, x)[i] = s[i]
      /\ Append(s, x)[Len(s) + 1] = x
  OBVIOUS
<1>2. ToSet(Append(s, x)) = ToSet(s) \cup {x}
  BY <1>1 DEF ToSet
<1>3. ASSUME IsInjective(s), x \notin ToSet(s) PROVE IsInjective(Append(s, x))
  <2>1. \A i \in 1 .. Len(s) : s[i] # x
    BY <1>1, <1>3 DEF ToSet
  <2>2. \A i \in 1 .. (Len(s) + 1) : i \in 1 .. Len(s) \/ i = Len(s) + 1
    BY <1>1
  <2> QED BY <1>1, <1>3, <2>1, <2>2 DEF IsInjective
<1> QED BY <1>1, <1>2, <1>3

\* free_ids with its top taken off.
LEMMA PopFacts ==
  ASSUME NEW S, NEW s \in Seq(S), s # <<>>
  PROVE  /\ Front(s) \in Seq(S) /\ Len(Front(s)) = Len(s) - 1 /\ Len(s) \in Nat
         /\ Last(s) \in S /\ Last(s) \in ToSet(s)
         /\ IsInjective(s) => IsInjective(Front(s)) /\ ToSet(Front(s)) = ToSet(s) \ {Last(s)}
<1>1. /\ DOMAIN s = 1 .. Len(s) /\ Len(s) \in Nat /\ Len(s) > 0
      /\ \A i \in 1 .. Len(s) : s[i] \in S
  OBVIOUS
<1>2. /\ Front(s) \in Seq(S) /\ Len(Front(s)) = Len(s) - 1
      /\ \A i \in 1 .. (Len(s) - 1) : Front(s)[i] = s[i]
  <2>1. \A i \in 1 .. (Len(s) - 1) : s[i] \in S
    BY <1>1
  <2>2. 1 \in Int /\ Len(s) - 1 \in Int
    BY <1>1
  <2>3. /\ SubSeq(s, 1, Len(s) - 1) \in Seq(S)
        /\ Len(SubSeq(s, 1, Len(s) - 1)) = IF 1 <= Len(s) - 1 THEN (Len(s) - 1) - 1 + 1 ELSE 0
        /\ \A i \in 1 .. ((Len(s) - 1) - 1 + 1) : SubSeq(s, 1, Len(s) - 1)[i] = s[1 + i - 1]
    BY <2>1, <2>2, SubSeqProperties
  <2> QED BY <1>1, <2>3 DEF Front
<1>3. DOMAIN Front(s) = 1 .. (Len(s) - 1)
  BY <1>2
<1>4. Last(s) \in S /\ Last(s) \in ToSet(s) /\ Last(s) = s[Len(s)] /\ Len(s) \in 1 .. Len(s)
  BY <1>1 DEF Last, ToSet
<1>5. ASSUME IsInjective(s)
      PROVE  IsInjective(Front(s)) /\ ToSet(Front(s)) = ToSet(s) \ {Last(s)}
  <2>1. \A i \in 1 .. Len(s) : i \in 1 .. (Len(s) - 1) <=> s[i] # s[Len(s)]
    BY <1>1, <1>4, <1>5 DEF IsInjective
  <2>2. \A i \in 1 .. (Len(s) - 1) : i \in 1 .. Len(s)
    BY <1>1
  <2>3. IsInjective(Front(s))
    BY <1>1, <1>2, <1>3, <1>5, <2>2 DEF IsInjective
  <2>4. ToSet(Front(s)) = ToSet(s) \ {Last(s)}
    BY <1>1, <1>2, <1>3, <1>4, <2>1, <2>2 DEF ToSet
  <2> QED BY <2>3, <2>4
<1> QED BY <1>1, <1>2, <1>4, <1>5

\* There are finitely many ids.
LEMMA LiveFinite == IsFiniteSet(Ids) /\ IsFiniteSet(Live) /\ \A S \in SUBSET Ids : IsFiniteSet(S)
<1>1. IsFiniteSet(Ids)
  <2>1. 0 \in Int /\ MaxIds - 1 \in Int
    BY BatchAssumption
  <2> QED BY <2>1, FS_Interval DEF Ids
<1>2. Live \in SUBSET Ids
  BY DEF Live
<1> QED BY <1>1, <1>2, FS_Subset

\* The graph and the ids after a removal.
LEMMA RemovedFacts ==
  ASSUME TypeOK, IdsSound, NEW x \in Live, x \notin ToSet(freeIds),
         ends' = [ends EXCEPT ![x] = NoEdge], idOf' = [idOf EXCEPT ![ends[x]] = NoId],
         freeIds' = Append(freeIds, x), UNCHANGED <<capEdges, slots, supcap>>
  PROVE  /\ Graph' = Graph \ {ends[x]} /\ Live' = Live \ {x}
         /\ \A e \in Graph \ {ends[x]} : idOf'[e] = idOf[e] /\ idOf[e] # x
         /\ \A y \in Live \ {x} : ends'[y] = ends[y] /\ ends[y] # ends[x]
         /\ IdsSound'
<1>1. /\ x \in Ids /\ ends[x] \in Edge /\ idOf[ends[x]] = x /\ ends[x] \in Graph
      /\ Graph \in SUBSET Edge
      /\ \A e \in Graph : idOf[e] \in Live /\ ends[idOf[e]] = e
      /\ \A y \in Live : y \in Ids /\ ends[y] \in Graph /\ idOf[ends[y]] = y
  BY IdFacts
<1>2. /\ ends \in [Ids -> Edge \cup {NoEdge}] /\ idOf \in [Edge -> Ids \cup {NoId}]
      /\ freeIds \in Seq(Ids) /\ NoEdge \notin Edge
  BY BatchAssumption DEF TypeOK
<1>3. Graph' = Graph \ {ends[x]}
  BY <1>1, <1>2 DEF Graph
<1>4. Live' = Live \ {x}
  BY <1>1, <1>2 DEF Live, Alive
<1>5. \A e \in Graph \ {ends[x]} : idOf'[e] = idOf[e] /\ idOf[e] # x
  BY <1>1, <1>2
<1>6. \A y \in Live \ {x} : ends'[y] = ends[y] /\ ends[y] # ends[x]
  BY <1>1, <1>2
<1>7. Live' = IdsOf(Graph)' /\ \A e \in Graph' : ends'[idOf'[e]] = e
  <2>1. \A e \in Graph' : idOf'[e] = idOf[e] /\ idOf[e] \in Live \ {x} /\ ends'[idOf'[e]] = e
    BY <1>1, <1>3, <1>5, <1>6
  <2>2. \A y \in Live' : ends[y] \in Graph' /\ idOf'[ends[y]] = y
    BY <1>1, <1>3, <1>4, <1>5, <1>6
  <2>3. IdsOf(Graph)' = {idOf'[e] : e \in Graph'}
    BY DEF IdsOf
  <2> QED BY <1>4, <2>1, <2>2, <2>3
<1>8. /\ ToSet(freeIds)' = ToSet(freeIds) \cup {x} /\ IsInjective(freeIds)'
      /\ Len(freeIds') = Len(freeIds) + 1 /\ Len(freeIds) \in Nat
  BY <1>1, <1>2, PushFacts DEF IdsSound
<1>9. /\ Live = IdsOf(Graph) /\ ToSet(freeIds) \cap Live = {}
      /\ Cardinality(Live) + Len(freeIds) = capEdges - FirstId - Reserve
      /\ \A y \in Live \cup ToSet(freeIds) : y < capEdges /\ y < supcap /\ y < slots
  BY DEF IdsSound, Live
<1>10. Cardinality(Live') = Cardinality(Live) - 1 /\ Cardinality(Live) \in Nat
  BY <1>4, LiveFinite, FS_RemoveElement, FS_CardinalityType
<1>11. Cardinality(Live') + Len(freeIds') = capEdges' - FirstId - Reserve
  BY <1>8, <1>9, <1>10
<1>12. /\ ToSet(freeIds)' \cap Live' = {}
       /\ \A y \in Live' \cup ToSet(freeIds)' : y < capEdges' /\ y < supcap' /\ y < slots'
  BY <1>4, <1>8, <1>9
<1>13. IdsSound'
  BY <1>7, <1>8, <1>11, <1>12 DEF IdsSound, Live
<1> QED BY <1>3, <1>4, <1>5, <1>6, <1>13

\* The graph shrinks by one edge and the id goes to the free list with clean arrays; with
\* the last one gone the graph is Kept, of which the supports are already exact.
LEMMA RemoveKeeps ==
  ASSUME IInv, NEW x \in dels, RemoveEdge(x)
  PROVE  IInv'
<1>1. /\ phase = "remove" /\ TypeOK /\ IdsSound /\ GraphProgress /\ FlagsInv /\ TauInv /\ SupInv
      /\ SeedsCover
      /\ ends' = [ends EXCEPT ![x] = NoEdge] /\ idOf' = [idOf EXCEPT ![ends[x]] = NoId]
      /\ freeIds' = Append(freeIds, x) /\ tau' = [tau EXCEPT ![x] = 0]
      /\ sup' = [sup EXCEPT ![x] = 0] /\ deadMark' = [deadMark EXCEPT ![x] = FALSE]
      /\ dels' = dels \ {x} /\ phase' = (IF dels = {x} THEN "closure" ELSE "remove")
      /\ inserting' = FALSE /\ reg' = {}
      /\ UNCHANGED <<capEdges, slots, supcap, dcount, inReg, ubIn, palive, psup, events, buckets,
                     level, popped, ins, newIds, batch, batches, view, seeds>>
  BY DEF IInv, RemoveEdge, peelVars
<1>2. /\ dels \subseteq Live /\ ins = Wanted /\ newIds = {} /\ reg = {}
      /\ EdgesOf(dels) \subseteq view.graph \ Kept
      /\ Graph = Kept \cup EdgesOf(dels) /\ Kept \subseteq view.graph
  BY <1>1, NetFacts DEF GraphProgress, Deleting, FlagsInv
<1>3. x \in Live /\ x \in Ids /\ x \notin ToSet(freeIds) /\ ends[x] \notin Kept
  BY <1>1, <1>2 DEF IdsSound, Live, EdgesOf
<1>4. /\ Graph' = Graph \ {ends[x]} /\ Live' = Live \ {x} /\ IdsSound'
      /\ \A e \in Graph \ {ends[x]} : idOf'[e] = idOf[e] /\ idOf[e] # x
      /\ \A y \in Live \ {x} : ends'[y] = ends[y] /\ ends[y] # ends[x]
  BY <1>1, <1>3, RemovedFacts
<1>5. Kept' = Kept /\ Wanted' = Wanted
  BY <1>1 DEF Kept, Wanted, Maintained!Removed, Maintained!Added
<1>6. EdgesOf(dels)' = EdgesOf(dels) \ {ends[x]}
  <2>1. EdgesOf(dels)' = {ends'[y] : y \in dels \ {x}}
    BY <1>1 DEF EdgesOf
  <2>2. \A y \in dels \ {x} : ends'[y] = ends[y] /\ ends[y] # ends[x]
    BY <1>2, <1>4
  <2> QED BY <2>1, <2>2 DEF EdgesOf
<1>7. Graph' = Kept \cup EdgesOf(dels)' /\ dels' \subseteq Live'
  BY <1>1, <1>2, <1>3, <1>4, <1>6
<1>8. /\ phase' \in {"remove", "closure"} /\ (phase' = "closure" => dels' = {} /\ Graph' = Kept)
      /\ \A e \in Kept : idOf'[e] = idOf[e] /\ idOf[e] # x /\ idOf[e] \in Ids
  <2>1. dels = {x} => EdgesOf(dels)' = {}
    BY <1>1 DEF EdgesOf
  <2>2. \A e \in Kept : e \in Graph \ {ends[x]}
    BY <1>2, <1>3
  <2> QED BY <1>1, <1>4, <1>7, <2>1, <2>2, IdFacts DEF Live
<1>9. TypeOK'
  <2>1. ends' \in [Ids -> Edge \cup {NoEdge}] /\ idOf' \in [Edge -> Ids \cup {NoId}]
    BY <1>1 DEF TypeOK
  <2>2. freeIds' \in Seq(Ids)
    BY <1>1, <1>3, PushFacts DEF TypeOK
  <2>3. tau' \in [Ids -> Nat] /\ sup' \in [Ids -> Nat] /\ deadMark' \in [Ids -> BOOLEAN]
    BY <1>1 DEF TypeOK
  <2>4. dels' \subseteq Ids
    BY <1>1 DEF TypeOK
  <2>5. dcount' \in [Ids -> Nat] /\ psup' \in [Ids -> Nat] /\ inReg' \in [Ids -> BOOLEAN]
        /\ ubIn' \in [Ids -> BOOLEAN] /\ palive' \in [Ids -> BOOLEAN]
    BY <1>1 DEF TypeOK
  <2>6. /\ {capEdges, slots, supcap, level, popped, batches}' \subseteq Nat
        /\ newIds' \subseteq Ids /\ seeds' \subseteq Ids /\ reg' \subseteq Ids
        /\ events' \subseteq Ids /\ ins' \subseteq Edge
        /\ inserting' \in BOOLEAN /\ \A k \in DOMAIN buckets' : buckets'[k] \subseteq Ids
    BY <1>1 DEF TypeOK
  <2>7. phase' \in Phases
    BY <1>8 DEF Phases
  <2> QED BY <2>1, <2>2, <2>3, <2>4, <2>5, <2>6, <2>7 DEF TypeOK
<1>10. NoExit'
  BY <1>8 DEF NoExit
<1>11. GraphProgress'
  <2>1. Deleting' /\ ~InsertionDone'
    BY <1>1, <1>8 DEF Deleting, InsertionDone, WithRegion
  <2>2. EdgesOf(newIds)' = {} /\ newIds' \subseteq Live'
    BY <1>1, <1>2 DEF EdgesOf
  <2>3. view' = view /\ batch' = batch /\ batch \in Batches /\ ins' = Wanted
        /\ view.graph \subseteq Edge
        /\ view = [graph |-> view.graph, truss |-> Trussness[view.graph]]
    BY <1>1, <1>2 DEF GraphProgress
  <2>4. Graph' = (Kept \cup EdgesOf(dels) \cup (Wanted \ ins))'
        /\ (EdgesOf(dels) \subseteq view.graph \ Kept)'
    BY <1>2, <1>5, <1>6, <1>7, <2>3
  <2> QED BY <1>8, <2>1, <2>2, <2>3, <2>4, <1>7, <1>5, <1>2, <1>1 DEF GraphProgress
<1>12. FlagsInv'
  <2>1. \A z \in Ids : deadMark'[z] => deadMark[z] /\ z # x
    BY <1>1 DEF TypeOK
  <2>2. \A z \in Ids : deadMark'[z] => z \in dels' /\ phase' = "remove"
    BY <1>1, <2>1 DEF FlagsInv
  <2> QED BY <1>1, <1>2, <1>8, <2>2 DEF FlagsInv
<1>13. SeedsCover'
  <2>1. \A e \in Kept : TrianglesAt(Kept, e) # TrianglesAt(view.graph, e) => idOf'[e] \in seeds'
    BY <1>1, <1>8 DEF SeedsCover
  <2>2. phase' = "closure" => Base' = view.graph
    BY <1>1 DEF Base, Deleting, WithRegion
  <2>3. ASSUME phase' = "closure", NEW e \in Graph', Touched(e)' PROVE idOf'[e] \in seeds'
    BY <1>2, <1>8, <2>1, <2>2, <2>3 DEF Touched, TrianglesAt
  <2> QED BY <1>1, <1>5, <1>8, <2>1, <2>3 DEF SeedsCover, TrianglesAt
<1>14. RegionGrows' /\ SweepBookkeeping' /\ SweepSandwich' /\ FrozenExact'
  BY <1>8 DEF RegionGrows, SweepBookkeeping, SweepSandwich, FrozenExact
<1>15. TauInv'
  <2>1. Base' = view.graph /\ Base = view.graph
    BY <1>1, <1>8 DEF Base, Deleting, WithRegion
  <2>2. \A e \in Kept : tau'[idOf'[e]] = tau[idOf[e]]
    BY <1>1, <1>8 DEF TypeOK
  <2> QED BY <1>1, <1>5, <1>8, <1>14, <2>1, <2>2 DEF TauInv
<1>16. SupInv'
  <2>1. \A e \in Kept : sup'[idOf'[e]] = Sup(Kept, e)
    BY <1>1, <1>8 DEF TypeOK, SupInv
  <2>2. phase' = "closure" => \A e \in Graph' : sup'[idOf'[e]] = Sup(Graph', e)
    BY <1>8, <2>1
  <2> QED BY <1>5, <1>8, <2>1, <2>2 DEF SupInv, ExactSupports, Sup, TrianglesAt
<1> QED BY <1>4, <1>9, <1>10, <1>11, <1>12, <1>13, <1>14, <1>15, <1>16 DEF IInv

(* InsertEdge *)

\* The id an inserted edge takes: the one freed last or a fresh one.
TakenId == IF freeIds = <<>> THEN capEdges ELSE Last(freeIds)

\* The graph and the ids after an insertion; the arrays have a slot for the id.
LEMMA InsertedFacts ==
  ASSUME TypeOK, IdsSound, NEW e \in Edge, e \notin Graph, InsertEdge(e)
  PROVE  /\ TakenId \in Ids /\ TakenId \notin Live
         /\ Graph' = Graph \cup {e} /\ Live' = Live \cup {TakenId}
         /\ ends' = [ends EXCEPT ![TakenId] = e] /\ idOf' = [idOf EXCEPT ![e] = TakenId]
         /\ \A f \in Graph : idOf'[f] = idOf[f] /\ idOf[f] # TakenId
         /\ \A y \in Live : ends'[y] = ends[y]
         /\ idOf'[e] = TakenId /\ ends'[TakenId] = e
         /\ IdsSound' /\ freeIds' \in Seq(Ids)
         /\ capEdges' \in Nat /\ slots' \in Nat /\ supcap' \in Nat
<1> DEFINE x == TakenId
           fresh == freeIds = <<>>
           grows == fresh /\ NeedsGrowth(x)
           size == Larger(x + 1, 2 * slots)
<1>1. /\ x \in Ids
      /\ freeIds' = IF fresh THEN freeIds ELSE Front(freeIds)
      /\ capEdges' = IF fresh THEN capEdges + 1 ELSE capEdges
      /\ slots' = IF grows THEN size ELSE slots
      /\ supcap' = IF grows THEN size ELSE supcap
      /\ ends' = [ends EXCEPT ![x] = e]
      /\ idOf' = [idOf EXCEPT ![e] = x]
  BY DEF InsertEdge, TakenId
<1>2. /\ Graph \in SUBSET Edge
      /\ \A f \in Graph : idOf[f] \in Live /\ ends[idOf[f]] = f
      /\ \A y \in Live : y \in Ids /\ ends[y] \in Graph /\ idOf[ends[y]] = y
  BY IdFacts
<1>3. /\ ends \in [Ids -> Edge \cup {NoEdge}] /\ idOf \in [Edge -> Ids \cup {NoId}]
      /\ freeIds \in Seq(Ids) /\ NoEdge \notin Edge /\ NoId \notin Ids
      /\ capEdges \in Nat /\ slots \in Nat /\ supcap \in Nat /\ Ids \subseteq Nat
  BY BatchAssumption DEF TypeOK, Ids, NoId
<1>4. /\ Live = IdsOf(Graph) /\ ToSet(freeIds) \cap Live = {} /\ IsInjective(freeIds)
      /\ Cardinality(Live) + Len(freeIds) = capEdges - FirstId - Reserve
      /\ \A y \in Live \cup ToSet(freeIds) : y < capEdges /\ y < supcap /\ y < slots
  BY DEF IdsSound, Live
<1>5. x \notin Live /\ (~fresh => x \in ToSet(freeIds) /\ x = Last(freeIds))
  <2>1. CASE fresh
    BY <1>2, <1>3, <1>4, <2>1 DEF TakenId
  <2>2. CASE ~fresh
    BY <1>3, <1>4, <2>2, PopFacts DEF TakenId
  <2> QED BY <2>1, <2>2
<1>6. /\ freeIds' \in Seq(Ids) /\ IsInjective(freeIds')
      /\ ToSet(freeIds') = ToSet(freeIds) \ {x}
      /\ Len(freeIds') \in Nat /\ Len(freeIds) \in Nat
      /\ Len(freeIds') = IF fresh THEN Len(freeIds) ELSE Len(freeIds) - 1
  <2>1. CASE fresh
    <3>1. ToSet(freeIds) = {}
      BY <2>1 DEF ToSet
    <3> QED BY <1>1, <1>3, <1>4, <2>1, <3>1
  <2>2. CASE ~fresh
    BY <1>1, <1>3, <1>4, <1>5, <2>2, PopFacts
  <2> QED BY <2>1, <2>2
<1>7. x < capEdges' /\ x < slots' /\ x < supcap'
      /\ capEdges' \in Nat /\ slots' \in Nat /\ supcap' \in Nat
      /\ capEdges' >= capEdges
      /\ \A y \in Live \cup ToSet(freeIds) : y < slots' /\ y < supcap'
  <2>1. CASE ~fresh
    BY <1>1, <1>3, <1>4, <1>5, <2>1
  <2>2. CASE fresh /\ ~grows
    BY <1>1, <1>3, <1>4, <2>2 DEF NeedsGrowth, TakenId
  <2>3. CASE grows
    <3>1. x = capEdges
      BY <2>3 DEF TakenId
    <3>2. size \in Nat /\ size >= x + 1
      BY <1>3, <3>1 DEF Larger
    <3>3. slots' = size /\ supcap' = size /\ capEdges' = capEdges + 1
      BY <1>1, <2>3
    <3>4. \A y \in Live \cup ToSet(freeIds) : y \in Nat /\ y < capEdges
      <4>1. ToSet(freeIds) \subseteq Ids
        BY <1>3 DEF ToSet
      <4> QED BY <1>2, <1>3, <1>4, <4>1
    <3> HIDE DEF x, size
    <3> QED BY <1>3, <3>1, <3>2, <3>3, <3>4
  <2> QED BY <2>1, <2>2, <2>3
<1> HIDE DEF x, fresh, grows, size
<1>8. Graph' = Graph \cup {e} /\ Live' = Live \cup {x}
  BY <1>1, <1>2, <1>3 DEF Graph, Live, Alive
<1>9. /\ \A f \in Graph : idOf'[f] = idOf[f] /\ idOf[f] # x
      /\ \A y \in Live : ends'[y] = ends[y]
      /\ idOf'[e] = x /\ ends'[x] = e
  BY <1>1, <1>2, <1>3, <1>5
<1>10. Live' = IdsOf(Graph)' /\ \A f \in Graph' : ends'[idOf'[f]] = f
  <2>1. \A f \in Graph' : idOf'[f] \in Live' /\ ends'[idOf'[f]] = f
    BY <1>2, <1>8, <1>9
  <2>2. \A y \in Live' : ends'[y] \in Graph' /\ idOf'[ends'[y]] = y
    BY <1>2, <1>8, <1>9
  <2>3. IdsOf(Graph)' = {idOf'[f] : f \in Graph'}
    BY DEF IdsOf
  <2> QED BY <2>1, <2>2, <2>3
<1>11. Cardinality(Live') + Len(freeIds') = capEdges' - FirstId - Reserve
  <2>1. Cardinality(Live') = Cardinality(Live) + 1 /\ Cardinality(Live) \in Nat
    BY <1>5, <1>8, LiveFinite, FS_AddElement, FS_CardinalityType
  <2>2. capEdges' = IF fresh THEN capEdges + 1 ELSE capEdges
    BY <1>1
  <2>3. FirstId \in Nat /\ Reserve \in Nat
    BY BatchAssumption
  <2> QED BY <1>3, <1>4, <1>6, <2>1, <2>2, <2>3
<1>12. ToSet(freeIds') \cap Live' = {}
  BY <1>4, <1>6, <1>8
<1>13. \A y \in Live' \cup ToSet(freeIds') : y < capEdges' /\ y < supcap' /\ y < slots'
  <2>1. \A y \in Live \cup ToSet(freeIds) : y < capEdges /\ y \in Nat
    <3>1. ToSet(freeIds) \subseteq Ids
      BY <1>3 DEF ToSet
    <3> QED BY <1>2, <1>3, <1>4, <3>1
  <2> QED BY <1>3, <1>6, <1>7, <1>8, <2>1
<1>14. IdsSound'
  BY <1>6, <1>10, <1>11, <1>12, <1>13 DEF IdsSound, Live
<1> QED BY <1>1, <1>5, <1>6, <1>7, <1>8, <1>9, <1>14 DEF x

\* The id that is taken, recycled or fresh, is not live and has a slot, and its arrays are
\* clean; the new edges wait in newIds.
LEMMA InsertKeeps ==
  ASSUME IInv, NEW e \in ins, InsertEdge(e)
  PROVE  IInv'
<1> DEFINE x == TakenId
<1>1. /\ phase = "insert" /\ TypeOK /\ IdsSound /\ GraphProgress /\ FlagsInv /\ TauInv /\ SupInv
      /\ tau' = [tau EXCEPT ![x] = 0] /\ sup' = [sup EXCEPT ![x] = 0]
      /\ inReg' = [inReg EXCEPT ![x] = FALSE] /\ ubIn' = [ubIn EXCEPT ![x] = FALSE]
      /\ newIds' = newIds \cup {x} /\ ins' = ins \ {e}
      /\ phase' = (IF ins = {e} THEN "inswitness" ELSE "insert")
      /\ UNCHANGED <<dcount, palive, psup, events, buckets, level, popped, dels, inserting, batch,
                     batches, view, seeds, reg>>
  BY DEF IInv, InsertEdge, TakenId, peelVars
<1>2. /\ ins \subseteq Wanted /\ dels = {} /\ newIds \subseteq Live /\ reg = {}
      /\ EdgesOf(newIds) = Wanted \ ins
      /\ Graph = Kept \cup (Wanted \ ins) /\ Wanted \cap Kept = {} /\ e \in Edge
  <2>1. EdgesOf({}) = {}
    BY DEF EdgesOf
  <2> QED BY <1>1, <2>1, NetFacts DEF GraphProgress, FlagsInv, TypeOK
<1>3. e \notin Graph
  BY <1>2
<1>4. /\ x \in Ids /\ x \notin Live
      /\ Graph' = Graph \cup {e} /\ Live' = Live \cup {x}
      /\ ends' = [ends EXCEPT ![x] = e] /\ idOf' = [idOf EXCEPT ![e] = x]
      /\ \A f \in Graph : idOf'[f] = idOf[f] /\ idOf[f] # x
      /\ \A y \in Live : ends'[y] = ends[y]
      /\ idOf'[e] = x /\ ends'[x] = e
      /\ IdsSound' /\ freeIds' \in Seq(Ids)
      /\ capEdges' \in Nat /\ slots' \in Nat /\ supcap' \in Nat
  BY <1>1, <1>2, <1>3, InsertedFacts
<1> HIDE DEF x
<1>5. Kept' = Kept /\ Wanted' = Wanted
  BY <1>1 DEF Kept, Wanted, Maintained!Removed, Maintained!Added
<1>6. EdgesOf(newIds)' = EdgesOf(newIds) \cup {e}
  <2>1. EdgesOf(newIds)' = {ends'[y] : y \in newIds} \cup {ends'[x]}
    BY <1>1 DEF EdgesOf
  <2>2. \A y \in newIds : ends'[y] = ends[y]
    BY <1>2, <1>4
  <2>3. {ends'[y] : y \in newIds} = {ends[y] : y \in newIds}
    BY <2>2
  <2> QED BY <1>4, <2>1, <2>3 DEF EdgesOf
<1>7. /\ phase' \in {"insert", "inswitness"} /\ (phase' = "inswitness" => ins' = {})
      /\ \A f \in Kept : f \in Graph /\ idOf[f] \in Ids
      /\ \A y \in Ids : ~deadMark'[y] /\ ~deadMark[y]
  <2>1. \A y \in Ids : ~deadMark[y]
    BY <1>1 DEF FlagsInv
  <2>2. deadMark' = deadMark \/ deadMark' = None
    BY DEF InsertEdge
  <2>3. \A f \in Graph : idOf[f] \in Ids
    BY <1>1, IdFacts
  <2> QED BY <1>1, <1>2, <2>1, <2>2, <2>3 DEF None
<1>8. TypeOK'
  <2>1. ends' \in [Ids -> Edge \cup {NoEdge}] /\ idOf' \in [Edge -> Ids \cup {NoId}]
    BY <1>1, <1>2, <1>4 DEF TypeOK
  <2>2. /\ tau' \in [Ids -> Nat] /\ sup' \in [Ids -> Nat] /\ dcount' \in [Ids -> Nat]
        /\ psup' \in [Ids -> Nat]
    BY <1>1 DEF TypeOK
  <2>3. inReg' \in [Ids -> BOOLEAN] /\ ubIn' \in [Ids -> BOOLEAN] /\ palive' \in [Ids -> BOOLEAN]
    BY <1>1 DEF TypeOK
  <2>4. deadMark' \in [Ids -> BOOLEAN]
    BY <1>1 DEF TypeOK, InsertEdge, None
  <2>5. /\ {level, popped, batches}' \subseteq Nat
        /\ dels' \subseteq Ids /\ seeds' \subseteq Ids /\ reg' \subseteq Ids
        /\ events' \subseteq Ids /\ ins' \subseteq Edge /\ newIds' \subseteq Ids
        /\ inserting' \in BOOLEAN /\ \A k \in DOMAIN buckets' : buckets'[k] \subseteq Ids
    BY <1>1, <1>4 DEF TypeOK
  <2>6. phase' \in Phases
    BY <1>7 DEF Phases
  <2> QED BY <1>4, <2>1, <2>2, <2>3, <2>4, <2>5, <2>6 DEF TypeOK
<1>9. NoExit'
  BY <1>7 DEF NoExit
<1>10. GraphProgress'
  <2>1. ~Deleting'
    BY <1>1, <1>7 DEF Deleting, WithRegion
  <2>2. InsertionDone' => ins' = {}
    BY <1>7 DEF InsertionDone, WithRegion
  <2>3. EdgesOf(dels)' = {} /\ dels' = {} /\ newIds' \subseteq Live'
    BY <1>1, <1>2, <1>4 DEF EdgesOf
  <2>4. view' = view /\ batch' = batch /\ batch \in Batches
        /\ view.graph \subseteq Edge
        /\ view = [graph |-> view.graph, truss |-> Trussness[view.graph]]
    BY <1>1 DEF GraphProgress
  <2>5. Graph' = Kept \cup (Wanted \ ins') /\ ins' \subseteq Wanted
        /\ EdgesOf(newIds)' = Wanted \ ins'
    BY <1>1, <1>2, <1>4, <1>6
  <2> QED BY <1>5, <1>7, <2>1, <2>2, <2>3, <2>4, <2>5 DEF GraphProgress
<1>11. FlagsInv'
  <2>1. \A y \in Ids : ~inReg'[y] /\ ~ubIn'[y] /\ ~palive'[y]
    BY <1>1, <1>2 DEF FlagsInv, TypeOK
  <2> QED BY <1>1, <1>2, <1>7, <2>1 DEF FlagsInv
<1>12. SeedsCover' /\ RegionGrows' /\ SweepBookkeeping' /\ SweepSandwich' /\ FrozenExact'
  BY <1>7 DEF SeedsCover, RegionGrows, SweepBookkeeping, SweepSandwich, FrozenExact
<1>13. TauInv'
  <2>1. Base' = Kept /\ Base = Kept
    BY <1>1, <1>5, <1>7 DEF Base, Deleting, WithRegion
  <2>2. \A f \in Kept : tau'[idOf'[f]] = tau[idOf[f]]
    BY <1>1, <1>4, <1>7 DEF TypeOK
  <2> QED BY <1>1, <1>5, <1>7, <1>12, <2>1, <2>2 DEF TauInv
<1>14. SupInv'
  <2>1. \A f \in Kept : sup'[idOf'[f]] = Sup(Kept, f)
    BY <1>1, <1>4, <1>7 DEF TypeOK, SupInv
  <2> QED BY <1>5, <1>7, <2>1 DEF SupInv, Sup, TrianglesAt
<1> QED BY <1>4, <1>8, <1>9, <1>10, <1>11, <1>12, <1>13, <1>14 DEF IInv

(* InsertionWitness *)

\* An edge outside the seeds has no triangle with a new edge, so that its support and its
\* triangles are the old ones.
LEMMA InsertionWitnessKeeps ==
  ASSUME IInv, InsertionWitness
  PROVE  IInv'
<1> DEFINE mates == UNION {MatesOf(x) : x \in newIds}
           own(y) == IF y \in newIds THEN Sup(Graph, ends[y]) ELSE sup[y]
<1>1. /\ phase = "inswitness" /\ TypeOK /\ IdsSound /\ GraphProgress /\ FlagsInv /\ TauInv /\ SupInv
      /\ sup' = [y \in Ids |-> own(y) + Raisings(y)]
      /\ dcount' = [y \in Ids |-> IF y \in mates THEN Raisings(y) ELSE dcount[y]]
      /\ seeds' = newIds \cup {y \in mates : dcount'[y] > 0}
      /\ newIds' = {} /\ inserting' = TRUE /\ reg' = {} /\ phase' = "closure"
      /\ UNCHANGED <<ends, idOf, freeIds, capEdges, slots, supcap, tau, inReg, ubIn, deadMark,
                     palive, psup, events, buckets, level, popped, dels, ins, batch, batches,
                     view>>
  BY DEF IInv, InsertionWitness, graphVars, flagVars, peelVars
<1>2. /\ newIds \subseteq Live /\ dels = {} /\ ins = {} /\ reg = {} /\ EdgesOf(newIds) = Wanted
      /\ Graph = Kept \cup Wanted /\ Graph \in SUBSET Edge /\ Wanted \cap Kept = {}
  <2>1. EdgesOf({}) = {}
    BY DEF EdgesOf
  <2>2. newIds \subseteq Live /\ dels = {} /\ ins = {} /\ EdgesOf(newIds) = Wanted \ ins
        /\ Graph = Kept \cup EdgesOf(dels) \cup (Wanted \ ins)
    BY <1>1 DEF GraphProgress, InsertionDone
  <2>3. reg = {} /\ Graph \in SUBSET Edge /\ Wanted \cap Kept = {}
    BY <1>1, NetFacts, IdFacts DEF FlagsInv
  <2> QED BY <2>1, <2>2, <2>3
<1>3. /\ Graph' = Graph /\ Live' = Live /\ Kept' = Kept /\ Wanted' = Wanted
  BY <1>1 DEF Graph, Live, Alive, Kept, Wanted, Maintained!Removed, Maintained!Added
<1>4. mates \subseteq Live /\ Live \subseteq Ids
  BY <1>1, <1>2, MateFacts DEF Live
<1>5. \A y : /\ Raisings(y) \in Nat
             /\ y \in mates <=> Raisings(y) # 0
  <2>1. ASSUME NEW y PROVE Raisings(y) \in Nat /\ (y \in mates <=> Raisings(y) # 0)
    <3> DEFINE R == {x \in newIds : y \in MatesOf(x)}
    <3>1. R \subseteq Ids
      BY <1>2, <1>4
    <3>2. y \in mates <=> R # {}
      OBVIOUS
    <3>3. Raisings(y) = Cardinality(R)
      BY DEF Raisings
    <3> HIDE DEF R, mates
    <3>4. IsFiniteSet(R)
      BY <3>1, LiveFinite
    <3>5. Cardinality(R) \in Nat /\ (Cardinality(R) = 0 <=> R = {})
      BY <3>4, FS_CardinalityType, FS_EmptySet
    <3> QED BY <3>2, <3>3, <3>5
  <2> QED BY <2>1
<1>6. seeds' = newIds \cup mates
  <2>1. \A y \in mates : dcount'[y] = Raisings(y) /\ Raisings(y) > 0
    BY <1>1, <1>4, <1>5
  <2> QED BY <1>1, <2>1
<1> HIDE DEF mates
<1>7. ASSUME NEW e \in Graph, idOf[e] \notin seeds'
      PROVE  /\ e \in Kept /\ TrianglesAt(Graph, e) = TrianglesAt(Kept, e)
             /\ sup'[idOf[e]] = Sup(Kept, e)
  <2> DEFINE y == idOf[e]
  <2>1. y \in Live /\ ends[y] = e /\ y \notin newIds /\ y \notin mates
    BY <1>1, <1>6, <1>7, IdFacts
  <2>2. e \notin Wanted
    <3>1. \A x \in newIds : idOf[ends[x]] = x
      BY <1>1, <1>2, IdFacts
    <3> QED BY <1>2, <2>1, <3>1 DEF EdgesOf
  <2>3. ASSUME NEW t \in TrianglesAt(Graph, e) PROVE t \in TrianglesAt(Kept, e)
    <3>1. SUFFICES ASSUME NEW f \in t, f \in Wanted PROVE FALSE
      BY <1>2 DEF TrianglesAt
    <3>2. PICK x \in newIds : f = ends[x]
      BY <1>2, <3>1 DEF EdgesOf
    <3>3. y # x /\ t \in TrianglesAt(Graph, ends[x]) /\ ends[y] \in t /\ x \in Live
      <4>1. t \in TrianglesAt(Graph, f) /\ e \in t
        BY <1>1, <3>1, TriangleFacts
      <4> QED BY <1>2, <2>1, <3>2, <4>1
    <3>4. y \in MatesOf(x)
      BY <1>1, <2>1, <3>3, MateFacts
    <3> QED BY <2>1, <3>2, <3>4 DEF mates
  <2>4. TrianglesAt(Graph, e) = TrianglesAt(Kept, e)
    BY <1>2, <2>3 DEF TrianglesAt
  <2>5. sup'[y] = sup[y] + 0 /\ sup[y] \in Nat
    BY <1>1, <1>4, <1>5, <2>1 DEF TypeOK
  <2>6. sup[y] = Sup(Kept, e)
    BY <1>1, <1>2, <2>2 DEF SupInv
  <2> QED BY <1>2, <2>2, <2>4, <2>5, <2>6
<1>8. TypeOK'
  <2>1. ASSUME NEW y \in Ids PROVE own(y) \in Nat
    <3>1. CASE y \in newIds
      BY <1>2, <3>1, SupMonotone
    <3>2. CASE y \notin newIds
      BY <1>1, <3>2 DEF TypeOK
    <3> QED BY <3>1, <3>2
  <2>2. sup' \in [Ids -> Nat]
    <3> HIDE DEF own
    <3>1. \A y \in Ids : own(y) + Raisings(y) \in Nat
      BY <1>5, <2>1
    <3> QED BY <1>1, <3>1
  <2>3. dcount' \in [Ids -> Nat]
    BY <1>1, <1>5 DEF TypeOK
  <2>4. seeds' \subseteq Ids
    BY <1>2, <1>4, <1>6
  <2> QED BY <1>1, <2>2, <2>3, <2>4 DEF TypeOK, Phases
<1>9. NoExit' /\ IdsSound'
  BY <1>1, <1>3 DEF NoExit, IdsSound, Alive, IdsOf
<1>10. GraphProgress'
  <2>1. ~Deleting'
    BY <1>1 DEF Deleting, WithRegion
  <2>2. EdgesOf(dels)' = {}
    BY <1>1, <1>2 DEF EdgesOf
  <2>3. view' = view /\ batch' = batch /\ batch \in Batches
        /\ view.graph \subseteq Edge
        /\ view = [graph |-> view.graph, truss |-> Trussness[view.graph]]
    BY <1>1 DEF GraphProgress
  <2> QED BY <1>1, <1>2, <1>3, <2>1, <2>2, <2>3 DEF GraphProgress
<1>11. FlagsInv'
  BY <1>1, <1>2, <1>3 DEF FlagsInv
<1>12. Base' = Kept /\ Base = Kept
  BY <1>1, <1>3 DEF Base, Deleting, WithRegion
<1>13. SeedsCover'
  <2>1. \A e \in Graph : Touched(e)' => idOf'[e] \in seeds'
    BY <1>1, <1>3, <1>7, <1>12 DEF Touched, TrianglesAt
  <2> QED BY <1>1, <1>3, <2>1 DEF SeedsCover
<1>14. RegionGrows' /\ SweepBookkeeping' /\ SweepSandwich' /\ FrozenExact'
  BY <1>1 DEF RegionGrows, SweepBookkeeping, SweepSandwich, FrozenExact
<1>15. TauInv'
  BY <1>1, <1>3, <1>12, <1>14 DEF TauInv
<1>16. SupInv'
  <2>1. \A e \in Graph : idOf[e] \notin seeds' => sup'[idOf[e]] = Sup(Graph, e)
    BY <1>7 DEF Sup
  <2> QED BY <1>1, <1>3, <2>1 DEF SupInv, Sup, TrianglesAt
<1> QED BY <1>8, <1>9, <1>10, <1>11, <1>13, <1>14, <1>15, <1>16 DEF IInv

(* The region's closure *)

\* The steps on the region change neither the graph nor the batch.
LEMMA GraphStays ==
  ASSUME UNCHANGED <<graphVars, batchVars>>
  PROVE  /\ Graph' = Graph /\ Live' = Live /\ Kept' = Kept /\ Wanted' = Wanted
         /\ EdgesOf(dels)' = EdgesOf(dels) /\ EdgesOf(newIds)' = EdgesOf(newIds)
         /\ \A x : MatesOf(x)' = MatesOf(x)
         /\ \A x : PairsAt(x)' = PairsAt(x)
         /\ \A S, e : TrianglesAt(S, e)' = TrianglesAt(S, e) /\ Sup(S, e)' = Sup(S, e)
         /\ IdsSound => IdsSound'
<1>1. Graph' = Graph /\ Live' = Live
  BY DEF graphVars, Graph, Live, Alive
<1>2. Kept' = Kept /\ Wanted' = Wanted
  BY DEF batchVars, Kept, Wanted, Maintained!Removed, Maintained!Added
<1>3. EdgesOf(dels)' = EdgesOf(dels) /\ EdgesOf(newIds)' = EdgesOf(newIds)
  BY DEF graphVars, batchVars, EdgesOf
<1>4. \A S, e : TrianglesAt(S, e)' = TrianglesAt(S, e) /\ Sup(S, e)' = Sup(S, e)
  BY DEF TrianglesAt, Sup
<1>5. \A S : IdsOf(S)' = IdsOf(S)
  BY DEF graphVars, IdsOf
<1>6. \A x : MatesOf(x)' = MatesOf(x)
  BY <1>1, <1>5 DEF graphVars, MatesOf, Mates, TrianglesAt, IdsOf
<1>7. \A x : PairsAt(x)' = PairsAt(x)
  BY <1>1, <1>5 DEF graphVars, PairsAt, TrianglesAt, IdsOf
<1>8. IdsSound => IdsSound'
  BY <1>1 DEF graphVars, IdsSound, Alive, IdsOf
<1> QED BY <1>1, <1>2, <1>3, <1>4, <1>6, <1>7, <1>8

\* The parts of the invariant about graph and ids, for the steps on the region.
LEMMA RegionStepKeeps ==
  ASSUME IInv, UNCHANGED <<graphVars, batchVars>>,
         phase \in {"closure", "expand", "recount", "peel"},
         phase' \in {"closure", "expand", "recount", "peel"}
  PROVE  IdsSound' /\ GraphProgress' /\ NoExit' /\ Base' = Base
<1>1. /\ Graph' = Graph /\ Live' = Live /\ Kept' = Kept /\ Wanted' = Wanted
      /\ EdgesOf(dels)' = EdgesOf(dels) /\ EdgesOf(newIds)' = EdgesOf(newIds)
      /\ IdsSound'
  BY GraphStays DEF IInv
<1>2. /\ view' = view /\ batch' = batch /\ dels' = dels /\ ins' = ins /\ newIds' = newIds
      /\ inserting' = inserting
  BY DEF batchVars
<1>3. (Deleting' <=> Deleting) /\ (InsertionDone' <=> InsertionDone)
  BY <1>2 DEF Deleting, InsertionDone, WithRegion
<1>4. GraphProgress'
  <2>1. GraphProgress
    BY DEF IInv
  <2> QED BY <1>1, <1>2, <1>3, <2>1 DEF GraphProgress
<1>5. Base' = Base
  BY <1>1, <1>2, <1>3 DEF Base
<1> QED BY <1>1, <1>4, <1>5 DEF NoExit

\* The live seeds become the region and its first frontier.
LEMMA SeedRegionKeeps ==
  ASSUME IInv, SeedRegion
  PROVE  IInv'
<1> DEFINE fresh == {x \in seeds : Alive(x) /\ ~inReg[x]}
<1>1. /\ phase = "closure" /\ TypeOK /\ IdsSound /\ FlagsInv /\ SeedsCover /\ TauInv /\ SupInv
      /\ inReg' = Mark(inReg, fresh) /\ reg' = fresh /\ seeds' = fresh /\ phase' = "expand"
      /\ UNCHANGED <<graphVars, batchVars>>
      /\ UNCHANGED <<tau, sup, dcount, ubIn, deadMark, palive, psup, events, buckets, level, popped>>
  BY DEF IInv, SeedRegion, peelVars
<1>2. IdsSound' /\ GraphProgress' /\ NoExit' /\ Base' = Base
  BY <1>1, RegionStepKeeps
<1>3. /\ Graph' = Graph /\ Live' = Live /\ Kept' = Kept /\ idOf' = idOf /\ ends' = ends
      /\ inserting' = inserting
      /\ \A S, e : TrianglesAt(S, e)' = TrianglesAt(S, e) /\ Sup(S, e)' = Sup(S, e)
  BY <1>1, GraphStays DEF graphVars, batchVars
<1>4. reg = {} /\ \A x \in Ids : ~inReg[x] /\ ~ubIn[x] /\ ~deadMark[x] /\ ~palive[x]
  BY <1>1 DEF FlagsInv
<1>5. fresh = seeds \cap Live
  BY <1>1, <1>4 DEF TypeOK, Live
<1> HIDE DEF fresh
<1>6. TypeOK'
  <2>1. inReg' \in [Ids -> BOOLEAN] /\ reg' \subseteq Ids /\ seeds' \subseteq Ids
    BY <1>1, <1>5 DEF TypeOK, Mark
  <2>2. /\ UNCHANGED <<dels, ins, newIds, inserting, batches>>
        /\ UNCHANGED <<ends, idOf, freeIds, capEdges, slots, supcap>>
    BY <1>1 DEF graphVars, batchVars
  <2> QED BY <1>1, <2>1, <2>2 DEF TypeOK, Phases
<1>7. FlagsInv'
  <2>1. \A x \in Ids : inReg'[x] <=> x \in reg'
    BY <1>1, <1>4 DEF Mark
  <2> QED BY <1>1, <1>3, <1>4, <1>5, <2>1 DEF FlagsInv
<1>8. SeedsCover'
  <2>1. ASSUME NEW e \in Graph, Touched(e) PROVE idOf[e] \in fresh
    BY <1>1, <1>4, <1>5, <2>1, IdFacts DEF SeedsCover
  <2> QED BY <1>1, <1>2, <1>3, <2>1 DEF SeedsCover, Touched
<1>9. RegionGrows' /\ SweepBookkeeping' /\ SweepSandwich' /\ FrozenExact'
  BY <1>1 DEF RegionGrows, SweepBookkeeping, SweepSandwich, FrozenExact
<1>10. TauInv'
  BY <1>1, <1>2, <1>3, <1>9 DEF TauInv
<1>11. SupInv'
  <2>1. ASSUME NEW e \in Graph, idOf[e] \notin fresh PROVE sup[idOf[e]] = Sup(Graph, e)
    BY <1>1, <1>4, <1>5, <2>1, IdFacts DEF SupInv
  <2> QED BY <1>1, <1>3, <2>1 DEF SupInv, ExactSupports
<1> QED BY <1>2, <1>6, <1>7, <1>8, <1>9, <1>10, <1>11 DEF IInv

\* After a round the mates of the old frontier are in the region.
LEMMA CloseRoundKeeps ==
  ASSUME IInv, CloseRound
  PROVE  IInv'
<1> DEFINE found == Unflagged(seeds)
           fresh == {y \in found : ~inReg[y]}
<1>1. /\ phase = "expand" /\ TypeOK /\ IdsSound /\ FlagsInv /\ SeedsCover /\ RegionGrows
      /\ TauInv /\ SupInv
      /\ ubIn' = Mark(ubIn, found) /\ inReg' = Mark(inReg, fresh)
      /\ reg' = reg \cup fresh /\ seeds' = fresh /\ phase' = "expand"
      /\ UNCHANGED <<graphVars, batchVars>>
      /\ UNCHANGED <<tau, sup, dcount, deadMark, palive, psup, events, buckets, level, popped>>
  BY DEF IInv, CloseRound, peelVars
<1>2. IdsSound' /\ GraphProgress' /\ NoExit' /\ Base' = Base
  BY <1>1, RegionStepKeeps
<1>3. /\ Graph' = Graph /\ Live' = Live /\ Kept' = Kept /\ idOf' = idOf /\ ends' = ends
      /\ inserting' = inserting /\ \A x : MatesOf(x)' = MatesOf(x)
      /\ \A S, e : TrianglesAt(S, e)' = TrianglesAt(S, e) /\ Sup(S, e)' = Sup(S, e)
  BY <1>1, GraphStays DEF graphVars, batchVars
<1>4. /\ seeds \subseteq reg /\ reg \subseteq Live /\ Live \subseteq Ids
      /\ \A x \in reg \ seeds : MatesOf(x) \subseteq reg
  BY <1>1 DEF RegionGrows, FlagsInv, Live
<1>5. /\ found \subseteq Live
      /\ \A x \in seeds : \A y \in MatesOf(x) : y \in found \/ ubIn[y]
  <2>1. \A x \in seeds : x \in Live
    BY <1>4
  <2> QED BY <1>1, <2>1, MateFacts DEF Unflagged
<1> HIDE DEF found
<1>6. /\ fresh \subseteq Live /\ reg \cup fresh = reg \cup found
      /\ \A x \in Ids : inReg[x] <=> x \in reg
      /\ \A x \in Ids : ubIn[x] => x \in reg
  BY <1>1, <1>4, <1>5 DEF FlagsInv
<1> HIDE DEF fresh
<1>7. TypeOK'
  <2>1. /\ inReg' \in [Ids -> BOOLEAN] /\ ubIn' \in [Ids -> BOOLEAN]
        /\ reg' \subseteq Ids /\ seeds' \subseteq Ids
    BY <1>1, <1>4, <1>6 DEF TypeOK, Mark
  <2>2. /\ UNCHANGED <<dels, ins, newIds, inserting, batches>>
        /\ UNCHANGED <<ends, idOf, freeIds, capEdges, slots, supcap>>
    BY <1>1 DEF graphVars, batchVars
  <2> QED BY <1>1, <2>1, <2>2 DEF TypeOK, Phases
<1>8. FlagsInv'
  <2>1. \A x \in Ids : inReg'[x] <=> x \in reg'
    BY <1>1, <1>6 DEF Mark
  <2>2. \A x \in Ids : ubIn'[x] => x \in reg'
    BY <1>1, <1>6 DEF Mark
  <2>3. reg' \subseteq Live'
    BY <1>1, <1>3, <1>4, <1>6
  <2> QED BY <1>1, <2>1, <2>2, <2>3 DEF FlagsInv
<1>9. SeedsCover'
  <2>1. \A e \in Graph : Touched(e) => idOf[e] \in seeds' \cup reg'
    BY <1>1, <1>4 DEF SeedsCover
  <2> QED BY <1>1, <1>2, <1>3, <2>1 DEF SeedsCover, Touched
<1>10. RegionGrows'
  <2>1. ASSUME NEW x \in reg' \ seeds', NEW y \in MatesOf(x) PROVE y \in reg'
    <3>1. CASE x \in seeds
      <4>1. y \in Ids /\ (y \in found \/ ubIn[y])
        BY <1>4, <1>5, <3>1, MateFacts, <1>1
      <4> QED BY <1>1, <1>6, <4>1
    <3>2. CASE x \notin seeds
      BY <1>1, <1>4, <2>1, <3>2
    <3> QED BY <3>1, <3>2
  <2> QED BY <1>1, <1>3, <2>1 DEF RegionGrows
<1>11. SweepBookkeeping' /\ SweepSandwich' /\ FrozenExact'
  BY <1>1 DEF SweepBookkeeping, SweepSandwich, FrozenExact
<1>12. TauInv'
  BY <1>1, <1>2, <1>3, <1>11 DEF TauInv
<1>13. SupInv'
  <2>1. ASSUME NEW e \in Graph, idOf[e] \notin seeds' \cup reg' PROVE sup[idOf[e]] = Sup(Graph, e)
    BY <1>1, <1>4, <2>1 DEF SupInv
  <2> QED BY <1>1, <1>3, <2>1 DEF SupInv, ExactSupports
<1> QED BY <1>2, <1>7, <1>8, <1>9, <1>10, <1>11, <1>12, <1>13 DEF IInv

\* A closed region and the rest of the graph have no triangle in common.
LEMMA ClosedFacts ==
  ASSUME TypeOK, IdsSound, reg \subseteq Live, \A x \in reg : MatesOf(x) \subseteq reg
  PROVE  /\ \A e \in Graph : \A t \in TrianglesAt(Graph, e) : \A f \in t :
              idOf[e] \in reg => f \in Graph /\ idOf[f] \in reg
         /\ \A e \in Graph : e \in EdgesOf(reg) <=> idOf[e] \in reg
         /\ EdgesOf(reg) \subseteq Graph
         /\ \A e \in EdgesOf(reg) : TrianglesAt(Graph, e) = TrianglesAt(EdgesOf(reg), e)
         /\ \A e \in Graph \ EdgesOf(reg) :
              TrianglesAt(Graph, e) = TrianglesAt(Graph \ EdgesOf(reg), e)
<1>1. ASSUME NEW e \in Graph, NEW t \in TrianglesAt(Graph, e), NEW f \in t, idOf[e] \in reg
      PROVE  f \in Graph /\ idOf[f] \in reg
  <2> DEFINE x == idOf[e]
             y == idOf[f]
  <2>1. /\ x \in Live /\ ends[x] = e /\ f \in Graph /\ y \in Live /\ ends[y] = f
    BY <1>1, IdFacts, TriangleFacts
  <2>2. CASE y = x
    BY <1>1, <2>1, <2>2
  <2>3. CASE y # x
    <3>1. y \in MatesOf(x)
      BY <1>1, <2>1, <2>3, MateFacts
    <3> QED BY <1>1, <2>1, <3>1
  <2> QED BY <2>2, <2>3
<1>2. ASSUME NEW e \in Graph PROVE e \in EdgesOf(reg) <=> idOf[e] \in reg
  <2>1. idOf[e] \in Live /\ ends[idOf[e]] = e
    BY IdFacts
  <2>2. \A x \in reg : idOf[ends[x]] = x
    BY IdFacts
  <2> QED BY <2>1, <2>2 DEF EdgesOf
<1>3. EdgesOf(reg) \subseteq Graph
  BY IdFacts DEF EdgesOf
<1>4. ASSUME NEW e \in EdgesOf(reg)
      PROVE  TrianglesAt(Graph, e) = TrianglesAt(EdgesOf(reg), e)
  <2>1. \A t \in TrianglesAt(Graph, e) : t \subseteq EdgesOf(reg)
    BY <1>1, <1>2, <1>3
  <2> QED BY <1>3, <2>1 DEF TrianglesAt
<1>5. ASSUME NEW e \in Graph \ EdgesOf(reg)
      PROVE  TrianglesAt(Graph, e) = TrianglesAt(Graph \ EdgesOf(reg), e)
  <2>1. ASSUME NEW t \in TrianglesAt(Graph, e), NEW f \in t PROVE f \notin EdgesOf(reg)
    <3>1. f \in Graph /\ t \in TrianglesAt(Graph, f) /\ e \in t
      BY TriangleFacts
    <3> QED BY <1>1, <1>2, <3>1
  <2> QED BY <2>1 DEF TrianglesAt
<1> QED BY <1>1, <1>2, <1>3, <1>4, <1>5

\* Outside a closed region that has met every touched edge, nothing has changed.
LEMMA ClosedRegionExact ==
  ASSUME IInv, phase = "expand", seeds = {}, NEW e \in Graph, idOf[e] \notin reg
  PROVE  tau[idOf[e]] = Trussness[Graph][e]
<1> DEFINE F == Graph \ EdgesOf(reg)
<1>1. /\ TypeOK /\ IdsSound /\ reg \subseteq Live /\ \A x \in reg : MatesOf(x) \subseteq reg
      /\ Graph \in SUBSET Edge /\ GraphProgress
  BY IdFacts DEF IInv, FlagsInv, RegionGrows
<1>2. \A f \in F : f \in Graph /\ idOf[f] \notin reg /\ TrianglesAt(Graph, f) = TrianglesAt(F, f)
  BY <1>1, ClosedFacts
<1>3. \A f \in F : f \in Base /\ TrianglesAt(Base, f) = TrianglesAt(F, f)
  BY <1>2 DEF IInv, SeedsCover, Touched
<1>4. e \in F
  BY <1>1, ClosedFacts
<1>5. Base \in SUBSET Edge /\ e \in Kept
  <2>1. Kept \subseteq Edge /\ view.graph \subseteq Edge
    BY <1>1, NetFacts DEF GraphProgress
  <2>2. dels = {} /\ EdgesOf({}) = {} /\ Graph = Kept \cup EdgesOf(dels) \cup (Wanted \ ins)
    BY <1>1 DEF GraphProgress, EdgesOf
  <2>3. CASE Deleting
    <3>1. ins = Wanted
      BY <1>1, <2>3 DEF GraphProgress
    <3> QED BY <1>4, <2>1, <2>2, <3>1 DEF Base
  <2>4. CASE ~Deleting
    BY <1>3, <1>4, <2>1, <2>4 DEF Base
  <2> QED BY <2>3, <2>4
<1>6. F \in SUBSET Graph /\ F \in SUBSET Base
  BY <1>2, <1>3
<1> HIDE DEF F
<1>7. Trussness[Graph][e] = Trussness[F][e]
  BY <1>1, <1>2, <1>4, <1>6, ComponentTrussness
<1>8. Trussness[Base][e] = Trussness[F][e]
  BY <1>3, <1>4, <1>5, <1>6, ComponentTrussness
<1>9. tau[idOf[e]] = Trussness[Base][e]
  BY <1>5 DEF IInv, TauInv
<1> QED BY <1>7, <1>8, <1>9

\* With an empty frontier the region is closed, and what lies outside is exact.
LEMMA RegionClosedKeeps ==
  ASSUME IInv, RegionClosed
  PROVE  IInv'
<1>1. /\ phase = "expand" /\ seeds = {} /\ TypeOK /\ IdsSound /\ FlagsInv /\ SeedsCover
      /\ RegionGrows /\ SupInv
      /\ ubIn' = Clear(ubIn, reg) /\ phase' = "recount"
      /\ UNCHANGED <<graphVars, batchVars>>
      /\ UNCHANGED <<tau, sup, dcount, inReg, deadMark, palive, psup, events, buckets, level,
                     popped, seeds, reg>>
  BY DEF IInv, RegionClosed, peelVars
<1>2. IdsSound' /\ GraphProgress' /\ NoExit' /\ Base' = Base
  BY <1>1, RegionStepKeeps
<1>3. /\ Graph' = Graph /\ Live' = Live /\ Kept' = Kept /\ idOf' = idOf /\ ends' = ends
      /\ inserting' = inserting /\ \A x : MatesOf(x)' = MatesOf(x)
      /\ \A S, e : TrianglesAt(S, e)' = TrianglesAt(S, e) /\ Sup(S, e)' = Sup(S, e)
  BY <1>1, GraphStays DEF graphVars, batchVars
<1>4. TypeOK'
  <2>1. ubIn' \in [Ids -> BOOLEAN]
    BY <1>1 DEF TypeOK, Clear
  <2>2. /\ UNCHANGED <<dels, ins, newIds, inserting, batches>>
        /\ UNCHANGED <<ends, idOf, freeIds, capEdges, slots, supcap>>
    BY <1>1 DEF graphVars, batchVars
  <2> QED BY <1>1, <2>1, <2>2 DEF TypeOK, Phases
<1>5. FlagsInv'
  <2>1. \A x \in Ids : ~ubIn'[x]
    BY <1>1 DEF FlagsInv, Clear
  <2> QED BY <1>1, <1>3, <2>1 DEF FlagsInv
<1>6. SeedsCover'
  BY <1>1, <1>2, <1>3 DEF SeedsCover, Touched
<1>7. RegionGrows'
  BY <1>1, <1>3 DEF RegionGrows
<1>8. SweepBookkeeping' /\ SweepSandwich'
  BY <1>1 DEF SweepBookkeeping, SweepSandwich
<1>9. FrozenExact' /\ TauInv'
  <2>1. \A e \in Graph : idOf[e] \notin reg => tau[idOf[e]] = Trussness[Graph][e]
    BY <1>1, ClosedRegionExact
  <2> QED BY <1>1, <1>3, <2>1 DEF FrozenExact, TauInv
<1>10. SupInv'
  BY <1>1, <1>3 DEF SupInv
<1> QED BY <1>2, <1>4, <1>5, <1>6, <1>7, <1>8, <1>9, <1>10 DEF IInv

(* region_peel *)

\* No frozen edge is due: entering a level changes nothing.
LEMMA NothingDue ==
  ASSUME NEW w, NEW s
  PROVE  EnterLevel(w, {}, s) = w
<1> DEFINE due == {x \in {} : EventLevel(x) = s}
           Step(f) == [S \in SUBSET due |-> IF S = {} THEN w ELSE Detach(f[S \ {Max(S)}], Max(S), s)]
           after == CHOOSE f : f = Step(f)
<1>1. due = {}
  OBVIOUS
<1>2. \E f : f = Step(f)
  <2>1. \A S \in SUBSET due : S = {}
    OBVIOUS
  <2>2. [S \in SUBSET due |-> w] = Step([S \in SUBSET due |-> w])
    BY <2>1
  <2> QED BY <2>2
<1>3. after = Step(after)
  <2> HIDE DEF Step
  <2> QED BY <1>2
<1>4. after[due] = w
  <2> HIDE DEF after, due
  <2> QED BY <1>1, <1>3
<1> QED BY <1>4 DEF EnterLevel

\* The buckets reach up to the largest support of the region.
LEMMA BucketRange ==
  ASSUME TypeOK, IdsSound, reg \subseteq Live
  PROVE  LET counts == {0} \cup {Sup(Graph, ends[x]) : x \in reg}
             maxsup == CHOOSE m \in counts : \A x \in reg : Sup(Graph, ends[x]) <= m
         IN maxsup \in 0 .. TauModulus /\ \A x \in reg : Sup(Graph, ends[x]) <= maxsup
<1> DEFINE counts == {0} \cup {Sup(Graph, ends[x]) : x \in reg}
           maxsup == CHOOSE m \in counts : \A x \in reg : Sup(Graph, ends[x]) <= m
<1>1. TauModulus \in Nat
  BY BatchAssumption
<1>2. \A x \in reg : Sup(Graph, ends[x]) \in Nat /\ Sup(Graph, ends[x]) <= TauModulus
  <2>1. ASSUME NEW x \in reg PROVE Sup(Graph, ends[x]) \in Nat /\ Sup(Graph, ends[x]) <= TauModulus
    <3>1. ends[x] \in Edge /\ Graph \in SUBSET Edge /\ Edge \in SUBSET Edge
      BY IdFacts
    <3>2. /\ Sup(Graph, ends[x]) \in Nat /\ Sup(Edge, ends[x]) \in Nat
          /\ Sup(Graph, ends[x]) <= Sup(Edge, ends[x])
      BY <3>1, SupMonotone
    <3>3. Sup(Edge, ends[x]) + 2 < TauModulus
      BY <3>1, BatchAssumption
    <3> QED BY <1>1, <3>2, <3>3
  <2> QED BY <2>1
<1>3. counts \in SUBSET Nat /\ counts # {} /\ \A k \in counts : k <= TauModulus
  BY <1>1, <1>2
<1> HIDE DEF counts
<1>4. PICK m \in counts : \A k \in counts : k <= m
  BY <1>1, <1>3, GreatestNumber
<1>5. \E k \in counts : \A x \in reg : Sup(Graph, ends[x]) <= k
  <2>1. \A x \in reg : Sup(Graph, ends[x]) \in counts
    BY DEF counts
  <2> QED BY <1>4, <2>1
<1>6. maxsup \in counts /\ \A x \in reg : Sup(Graph, ends[x]) <= maxsup
  BY <1>5
<1>7. maxsup \in 0 .. TauModulus
  <2> HIDE DEF maxsup
  <2> QED BY <1>1, <1>3, <1>6
<1> QED BY <1>6, <1>7 DEF counts

\* No mate lies outside the region: no event is scheduled, all stored supports are exact,
\* and every edge of the region is in the bucket of its support.
LEMMA StartPeelKeeps ==
  ASSUME IInv, StartPeel
  PROVE  IInv'
<1> DEFINE count == [x \in Ids |-> IF x \in reg THEN Sup(Graph, ends[x]) ELSE psup[x]]
           outside == {y \in UNION {MatesOf(x) : x \in reg} : ~inReg[y] /\ ~deadMark[y]}
           maxsup == CHOOSE m \in {0} \cup {count[x] : x \in reg} : \A x \in reg : count[x] <= m
           w == [alive |-> Mark(palive, reg \cup outside),
                 flagged |-> Mark(ubIn, outside),
                 running |-> count,
                 buckets |-> [k \in 0 .. maxsup |-> {x \in reg : count[x] = k}]]
<1>1. /\ phase = "recount" /\ TypeOK /\ IdsSound /\ FlagsInv /\ SeedsCover /\ RegionGrows
      /\ SupInv /\ FrozenExact
      /\ sup' = Stored(count) /\ events' = outside /\ deadMark' = Mark(deadMark, outside)
      /\ SweepIs(EnterLevel(w, outside, 0))
      /\ level' = 0 /\ popped' = 0 /\ phase' = "peel"
      /\ UNCHANGED <<graphVars, batchVars>>
      /\ UNCHANGED <<tau, dcount, inReg, seeds, reg>>
  BY DEF IInv, TauInv, StartPeel
<1>2. IdsSound' /\ GraphProgress' /\ NoExit'
  BY <1>1, RegionStepKeeps
<1>3. /\ Graph' = Graph /\ Live' = Live /\ idOf' = idOf /\ ends' = ends
      /\ \A x : MatesOf(x)' = MatesOf(x)
      /\ \A S, e : TrianglesAt(S, e)' = TrianglesAt(S, e) /\ Sup(S, e)' = Sup(S, e)
  BY <1>1, GraphStays DEF graphVars
<1>4. /\ reg \subseteq Live /\ Live \subseteq Ids /\ \A x \in reg : MatesOf(x) \subseteq reg
      /\ seeds = {} /\ Graph \in SUBSET Edge
      /\ \A x \in Ids : (inReg[x] <=> x \in reg) /\ ~ubIn[x] /\ ~deadMark[x] /\ ~palive[x]
  BY <1>1, IdFacts DEF RegionGrows, FlagsInv, Live
<1>5. outside = {}
  BY <1>4
<1>6. /\ palive' = Mark(palive, reg) /\ ubIn' = Mark(ubIn, {}) /\ psup' = count
      /\ buckets' = [k \in 0 .. maxsup |-> {x \in reg : count[x] = k}]
      /\ events' = {} /\ deadMark' = Mark(deadMark, {})
  <2>1. EnterLevel(w, outside, 0) = w
    <3> HIDE DEF w, outside
    <3> QED BY <1>5, NothingDue
  <2>2. SweepIs(w) /\ reg \cup outside = reg
    BY <1>1, <1>5, <2>1
  <2> HIDE DEF count, maxsup, outside
  <2>3. /\ palive' = Mark(palive, reg \cup outside) /\ ubIn' = Mark(ubIn, outside)
        /\ psup' = count /\ buckets' = [k \in 0 .. maxsup |-> {x \in reg : count[x] = k}]
    BY <2>2 DEF SweepIs
  <2> QED BY <1>1, <1>5, <2>2, <2>3
<1>7. /\ \A x \in reg : count[x] = Sup(Graph, ends[x]) /\ count[x] \in Nat
      /\ \A x \in Ids : count[x] \in Nat
  <2>1. \A x \in reg : ends[x] \in Edge /\ x \in Ids
    BY <1>1, <1>4, IdFacts
  <2>2. \A x \in reg : count[x] = Sup(Graph, ends[x]) /\ count[x] \in Nat
    BY <1>4, <2>1, SupMonotone
  <2>3. \A x \in Ids \ reg : count[x] \in Nat
    BY <1>1 DEF TypeOK
  <2> QED BY <2>1, <2>2, <2>3
<1>8. maxsup \in 0 .. TauModulus /\ \A x \in reg : count[x] <= maxsup
  <2>1. {count[x] : x \in reg} = {Sup(Graph, ends[x]) : x \in reg}
    BY <1>7
  <2>2. maxsup = CHOOSE m \in {0} \cup {Sup(Graph, ends[x]) : x \in reg} :
                    \A x \in reg : Sup(Graph, ends[x]) <= m
    BY <1>7, <2>1
  <2> HIDE DEF maxsup, count
  <2> QED BY <1>1, <1>4, <1>7, <2>2, BucketRange
<1>9. sup' = [x \in Ids |-> IF x \in reg THEN count[x] ELSE sup[x]]
  BY <1>1 DEF Stored
<1> HIDE DEF outside, w, maxsup
<1>10. TypeOK'
  <2>1. /\ palive' \in [Ids -> BOOLEAN] /\ ubIn' \in [Ids -> BOOLEAN]
        /\ deadMark' \in [Ids -> BOOLEAN]
    BY <1>1, <1>6 DEF TypeOK, Mark
  <2>2. psup' \in [Ids -> Nat] /\ sup' \in [Ids -> Nat]
    <3> HIDE DEF count
    <3>1. psup' = count /\ count = [x \in Ids |-> count[x]]
      BY <1>6 DEF count
    <3> QED BY <1>1, <1>7, <1>9, <3>1 DEF TypeOK
  <2>3. \A k \in DOMAIN buckets' : buckets'[k] \subseteq Ids
    <3> HIDE DEF count
    <3> QED BY <1>4, <1>6
  <2>4. /\ UNCHANGED <<dels, ins, newIds, inserting, batches>>
        /\ UNCHANGED <<ends, idOf, freeIds, capEdges, slots, supcap>>
    BY <1>1 DEF graphVars, batchVars
  <2>5. {level, popped}' \subseteq Nat /\ events' = {} /\ phase' \in Phases
    BY <1>1, <1>6 DEF Phases
  <2> HIDE DEF count
  <2> QED BY <1>1, <2>1, <2>2, <2>3, <2>4, <2>5 DEF TypeOK
<1> HIDE DEF count
<1>11. FlagsInv'
  <2>1. \A x \in Ids : ~ubIn'[x] /\ ~deadMark'[x] /\ (palive'[x] <=> x \in reg)
    BY <1>4, <1>6 DEF Mark
  <2> QED BY <1>1, <1>3, <1>4, <1>6, <2>1 DEF FlagsInv
<1>12. SeedsCover' /\ RegionGrows'
  BY <1>1, <1>3, <1>4 DEF SeedsCover, RegionGrows
<1>13. FrozenExact' /\ TauInv'
  BY <1>1, <1>3 DEF FrozenExact, TauInv
<1>14. SupInv'
  <2>1. ASSUME NEW e \in Graph PROVE sup'[idOf[e]] = Sup(Graph, e)
    <3>1. idOf[e] \in Ids /\ ends[idOf[e]] = e
      BY <1>1, <1>4, IdFacts
    <3>2. CASE idOf[e] \in reg
      BY <1>7, <1>9, <3>1, <3>2
    <3>3. CASE idOf[e] \notin reg
      BY <1>1, <1>4, <1>9, <3>1, <3>3 DEF SupInv
    <3> QED BY <3>2, <3>3
  <2> QED BY <1>1, <1>3, <2>1 DEF SupInv, ExactSupports
<1>15. Left' = EdgesOf(reg) /\ {x \in reg : ~palive'[x]} = {}
  <2>1. \A x \in reg : palive'[x]
    BY <1>4, <1>6 DEF Mark
  <2>2. {x \in reg : palive'[x]} = reg
    BY <2>1
  <2>3. Left' = {ends[x] : x \in {y \in reg : palive'[y]}}
    BY <1>1, <1>3 DEF Left, EdgesOf
  <2> QED BY <2>1, <2>2, <2>3 DEF EdgesOf
<1>16. SweepBookkeeping'
  <2>1. \E m \in 0 .. TauModulus : DOMAIN buckets' = 0 .. m
    BY <1>6, <1>8
  <2>2. \A k \in DOMAIN buckets' : buckets'[k] \subseteq reg
    BY <1>6
  <2>3. popped' = Cardinality({x \in reg : ~palive'[x]})
    BY <1>1, <1>15, FS_EmptySet
  <2>4. ASSUME NEW x \in reg
        PROVE  /\ psup'[x] = Sup(Graph, ends[x]) /\ psup'[x] \in Nat
               /\ psup'[x] \in DOMAIN buckets' /\ x \in buckets'[psup'[x]]
               /\ psup'[x] = Sup(Left', ends[x])
    <3>1. psup'[x] = Sup(Graph, ends[x]) /\ psup'[x] = count[x] /\ count[x] \in 0 .. maxsup
      BY <1>6, <1>7, <1>8
    <3>2. ends[x] \in EdgesOf(reg)
      BY DEF EdgesOf
    <3>3. Sup(EdgesOf(reg), ends[x]) = Sup(Graph, ends[x])
      BY <1>1, <1>4, <3>2, ClosedFacts DEF Sup
    <3>4. psup'[x] \in DOMAIN buckets' /\ x \in buckets'[psup'[x]]
      BY <1>6, <3>1
    <3>5. psup'[x] \in Nat
      BY <1>7, <3>1
    <3> QED BY <1>15, <3>1, <3>3, <3>4, <3>5
  <2>5. SweepBookkeeping'
              <=> (phase' = "peel" =>
                    /\ \E m \in 0 .. TauModulus : DOMAIN buckets' = 0 .. m
                    /\ \A k \in DOMAIN buckets' : buckets'[k] \subseteq reg'
                    /\ popped' = Cardinality({x \in reg' : ~palive'[x]})
                    /\ \A x \in reg' :
                         /\ psup'[x] <= Sup(Graph', ends'[x])
                         /\ palive'[x] => /\ psup'[x] >= level' /\ psup'[x] \in DOMAIN buckets'
                                          /\ x \in buckets'[psup'[x]]
                                          /\ psup'[x] >= Sup(Left', ends'[x])
                                          /\ psup'[x] > level' => psup'[x] = Sup(Left', ends'[x]))
    BY DEF SweepBookkeeping, Sup, TrianglesAt
  <2> QED BY <1>1, <1>3, <2>1, <2>2, <2>3, <2>4, <2>5
<1>17. SweepSandwich'
  <2>1. \A x \in reg : palive'[x]
    BY <1>4, <1>6 DEF Mark
  <2>2. \A x \in reg : Trussness[Graph][ends[x]] >= 2
    <3>1. \A e \in Graph : Sup(Graph, e) \in Nat
      BY <1>4, SupMonotone
    <3>2. \A x \in reg : ends[x] \in Graph
      BY <1>1, <1>4, IdFacts
    <3> QED BY <1>4, <3>1, <3>2, TrussnessDefined
  <2> QED BY <1>1, <1>3, <2>1, <2>2 DEF SweepSandwich
<1> QED BY <1>2, <1>10, <1>11, <1>12, <1>13, <1>14, <1>16, <1>17 DEF IInv

\* What the sweep's steps start from.
LEMMA SweepFacts ==
  ASSUME IInv, phase = "peel"
  PROVE  /\ TypeOK /\ IdsSound /\ Graph \in SUBSET Edge
         /\ events = {} /\ reg \subseteq Live /\ Live \subseteq Ids
         /\ \A x \in reg : MatesOf(x) \subseteq reg
         /\ \A x \in reg : x \in Ids /\ ends[x] \in Graph /\ psup[x] \in Nat /\ psup[x] \in Int
                           /\ palive[x] \in BOOLEAN /\ inReg[x]
         /\ level \in Nat /\ popped \in Nat
         /\ Left \in SUBSET Graph /\ Left \subseteq EdgesOf(reg)
         /\ \A x \in reg : ends[x] \in Left <=> palive[x]
         /\ \A e \in Graph : idOf[e] \in reg /\ palive[idOf[e]] => e \in Left
<1>1. /\ TypeOK /\ IdsSound /\ Graph \in SUBSET Edge /\ events = {} /\ reg \subseteq Live
      /\ \A x \in Ids : inReg[x] <=> x \in reg
  BY IdFacts DEF IInv, FlagsInv
<1>2. Live \subseteq Ids /\ \A x \in reg : MatesOf(x) \subseteq reg
  BY DEF IInv, RegionGrows, Live
<1>3. \A x \in reg : x \in Ids /\ ends[x] \in Graph /\ idOf[ends[x]] = x /\ inReg[x]
  BY <1>1, IdFacts
<1>4. \A x \in reg : psup[x] \in Nat /\ psup[x] \in Int /\ palive[x] \in BOOLEAN
  BY <1>1, <1>3 DEF TypeOK
<1>5. level \in Nat /\ popped \in Nat
  BY <1>1 DEF TypeOK
<1>6. Left \in SUBSET Graph /\ Left \subseteq EdgesOf(reg)
  BY <1>3 DEF Left, EdgesOf
<1>7. ASSUME NEW x \in reg PROVE ends[x] \in Left <=> palive[x]
  <2>1. ASSUME ends[x] \in Left PROVE palive[x]
    <3>1. PICK y \in reg : palive[y] /\ ends[x] = ends[y]
      BY <2>1 DEF Left, EdgesOf
    <3> QED BY <1>3, <3>1
  <2> QED BY <2>1 DEF Left, EdgesOf
<1>8. \A e \in Graph : idOf[e] \in reg /\ palive[idOf[e]] => e \in Left
  BY <1>1, <1>7, IdFacts
<1> QED BY <1>1, <1>2, <1>3, <1>4, <1>5, <1>6, <1>7, <1>8

\* The sweep's part of the invariant, spelled out.
LEMMA BookkeepingFacts ==
  ASSUME IInv, phase = "peel"
  PROVE  /\ \E m \in 0 .. TauModulus : DOMAIN buckets = 0 .. m
         /\ \A k \in DOMAIN buckets : buckets[k] \subseteq reg
         /\ popped = Cardinality({x \in reg : ~palive[x]})
         /\ \A x \in reg :
              /\ psup[x] <= Sup(Graph, ends[x])
              /\ palive[x] => /\ psup[x] >= level /\ psup[x] \in DOMAIN buckets
                              /\ x \in buckets[psup[x]]
                              /\ psup[x] >= Sup(Left, ends[x])
                              /\ psup[x] > level => psup[x] = Sup(Left, ends[x])
         /\ \A x \in reg : IF palive[x] THEN Trussness[Graph][ends[x]] >= level + 2
                           ELSE /\ Trussness[Graph][ends[x]] <= level + 2
                                /\ tau[x] = Trussness[Graph][ends[x]]
  BY DEF IInv, SweepBookkeeping, SweepSandwich

\* The trussness of an edge is a number.
LEMMA TrussnessNat ==
  ASSUME NEW G \in SUBSET Edge, NEW e \in G
  PROVE  Trussness[G][e] \in Nat /\ Trussness[G][e] \in Int
<1>1. Sup(G, e) \in Nat
  BY SupMonotone
<1> QED BY <1>1, TrussnessDefined

\* An edge whose running support has come down to the level is in no higher truss:
\* its partners there would all be left, and there are too few of them.
LEMMA PeeledExact ==
  ASSUME IInv, phase = "peel", NEW x \in reg, palive[x], psup[x] = level
  PROVE  Trussness[Graph][ends[x]] = level + 2
<1> DEFINE e == ends[x]
           k == level + 3
           T == KTruss(Graph, k)
<1>1. /\ TypeOK /\ IdsSound /\ Graph \in SUBSET Edge /\ e \in Graph /\ level \in Nat /\ k \in Nat
      /\ reg \subseteq Live /\ (\A y \in reg : MatesOf(y) \subseteq reg) /\ Left \in SUBSET Graph
  BY SweepFacts
<1>2. Trussness[Graph][e] >= level + 2 /\ Sup(Left, e) <= level
  BY BookkeepingFacts
<1> HIDE DEF k
<1>3. e \notin T
  <2>1. SUFFICES ASSUME e \in T PROVE FALSE
    OBVIOUS
  <2>2. T \in SUBSET Graph /\ Sup(T, e) + 2 >= k
    BY <1>1, <2>1, KTrussFacts DEF Dense
  <2>3. ASSUME NEW t \in TrianglesAt(T, e), NEW f \in t PROVE f \in Left
    <3>1. t \in TrianglesAt(Graph, e) /\ f \in T /\ f \in Graph
      BY <2>2 DEF TrianglesAt
    <3>2. idOf[f] \in reg /\ ends[idOf[f]] = f
      <4>1. idOf[e] \in reg
        BY <1>1, IdFacts
      <4> QED BY <1>1, <3>1, <4>1, ClosedFacts, IdFacts
    <3>3. Trussness[Graph][f] >= level + 3 /\ Trussness[Graph][f] \in Nat
      BY <1>1, <3>1, TrussLevels, TrussnessNat DEF k
    <3>4. palive[idOf[f]]
      BY <1>1, <3>2, <3>3, BookkeepingFacts
    <3> QED BY <3>1, <3>2, <3>4, SweepFacts
  <2>4. TrianglesAt(T, e) \in SUBSET TrianglesAt(Left, e)
    BY <2>3 DEF TrianglesAt
  <2>5. IsFiniteSet(TrianglesAt(Left, e)) /\ Sup(Left, e) \in Nat /\ Sup(T, e) \in Nat
    <3>1. Left \in SUBSET Edge /\ T \in SUBSET Edge /\ Left \in SUBSET Left /\ T \in SUBSET T
      BY <1>1, <2>2
    <3> HIDE DEF T, e
    <3> QED BY <3>1, SupMonotone
  <2>6. Sup(T, e) <= Sup(Left, e)
    BY <2>4, <2>5, FS_Subset DEF Sup
  <2> QED BY <1>1, <1>2, <2>2, <2>5, <2>6 DEF k
<1>4. ~(k <= Trussness[Graph][e]) /\ Trussness[Graph][e] \in Nat
  BY <1>1, <1>3, TrussLevels, TrussnessNat
<1> QED BY <1>1, <1>2, <1>4 DEF k

\* When a level is worked off, what is left is in the next truss.
LEMMA NextLevelExact ==
  ASSUME IInv, phase = "peel", \A y \in reg : palive[y] => psup[y] > level,
         NEW x \in reg, palive[x]
  PROVE  Trussness[Graph][ends[x]] >= level + 3
<1>1. /\ Graph \in SUBSET Edge /\ level \in Nat /\ Left \in SUBSET Graph /\ ends[x] \in Left
  BY SweepFacts
<1>2. ASSUME NEW e \in Left PROVE Sup(Left, e) + 2 >= level + 3
  <2>1. PICK y \in reg : palive[y] /\ e = ends[y]
    BY DEF Left, EdgesOf
  <2>2. psup[y] > level /\ psup[y] = Sup(Left, e) /\ psup[y] \in Nat
    BY <2>1, BookkeepingFacts, SweepFacts
  <2> QED BY <1>1, <2>2
<1>3. Dense(Left, level + 3) /\ level + 3 \in Nat
  BY <1>1, <1>2 DEF Dense
<1>4. level + 3 <= Trussness[Graph][ends[x]]
  BY <1>1, <1>3, DenseBound
<1> QED BY <1>1, <1>4, TrussnessNat

\* The edges x counts down are its mates among those left, above the level.
LEMMA LoweredFacts ==
  ASSUME IInv, phase = "peel", NEW x \in reg, palive[x], NEW w,
         w.alive = palive, w.running = psup
  PROVE  Lowered(w, x, level) =
           {y \in reg : psup[y] > level /\ ends[y] \in Mates(Left, ends[x])}
<1>1. /\ TypeOK /\ IdsSound /\ reg \subseteq Live /\ Left \in SUBSET Graph
      /\ \A z \in reg : MatesOf(z) \subseteq reg
      /\ \A z \in reg : inReg[z] /\ (ends[z] \in Left <=> palive[z])
  BY SweepFacts
<1> DEFINE Others(t) == {y \in Live : y # x /\ ends[y] \in t}
           Held == {q \in PairsAt(x) : \A y \in q : ~Gone(w, y, level)}
<1>2. PairsAt(x) = {Others(t) : t \in TrianglesAt(Graph, ends[x])}
  BY <1>1, MateFacts
<1>3. \A t \in TrianglesAt(Graph, ends[x]) : Others(t) \subseteq reg
  BY <1>1, MateFacts
<1>4. \A y \in reg : Gone(w, y, level) <=> ~palive[y]
  BY <1>1 DEF Gone
<1>5. ASSUME NEW t \in TrianglesAt(Graph, ends[x])
      PROVE  (\A y \in Others(t) : ~Gone(w, y, level)) <=> t \subseteq Left
  <2>1. \A f \in t : idOf[f] \in Live /\ ends[idOf[f]] = f
    BY <1>1, IdFacts DEF TrianglesAt
  <2>2. ASSUME \A y \in Others(t) : ~Gone(w, y, level), NEW f \in t PROVE f \in Left
    <3>1. CASE idOf[f] = x
      BY <1>1, <2>1, <3>1
    <3>2. CASE idOf[f] # x
      <4>1. idOf[f] \in Others(t)
        BY <2>1, <3>2
      <4>2. idOf[f] \in reg /\ palive[idOf[f]]
        BY <1>3, <1>4, <2>2, <4>1
      <4> QED BY <1>1, <2>1, <4>2
    <3> QED BY <3>1, <3>2
  <2>3. ASSUME t \subseteq Left, NEW y \in Others(t) PROVE ~Gone(w, y, level)
    BY <1>1, <1>3, <1>4, <2>3
  <2> QED BY <2>2, <2>3
<1>6. Lowered(w, x, level) = UNION {{y \in p : inReg[y] /\ psup[y] > level} : p \in Held}
  BY DEF Lowered
<1>7. ASSUME NEW y \in Lowered(w, x, level)
      PROVE  y \in reg /\ psup[y] > level /\ ends[y] \in Mates(Left, ends[x])
  <2>1. PICK p \in Held : y \in p /\ psup[y] > level
    BY <1>6
  <2>2. PICK t \in TrianglesAt(Graph, ends[x]) : p = Others(t)
    BY <1>2
  <2>3. t \subseteq Left /\ y \in Others(t) /\ y \in reg
    BY <1>3, <1>5, <2>1, <2>2
  <2>4. ends[y] \in t /\ ends[y] # ends[x]
    BY <1>1, <2>3, IdFacts
  <2> QED BY <2>1, <2>3, <2>4 DEF Mates, TrianglesAt
<1>8. ASSUME NEW y \in reg, psup[y] > level, ends[y] \in Mates(Left, ends[x])
      PROVE  y \in Lowered(w, x, level)
  <2>1. PICK t \in TrianglesAt(Left, ends[x]) : ends[y] \in t /\ ends[y] # ends[x]
    BY <1>8 DEF Mates
  <2>2. t \in TrianglesAt(Graph, ends[x]) /\ t \subseteq Left
    BY <1>1 DEF TrianglesAt
  <2>3. Others(t) \in Held /\ y \in Others(t)
    BY <1>1, <1>2, <1>5, <2>1, <2>2
  <2> HIDE DEF Held, Others
  <2> QED BY <1>1, <1>6, <1>8, <2>3
<1> QED BY <1>7, <1>8

\* A level at which an edge is peeled fits the 16 bits of tau.
LEMMA PeelLevelFits ==
  ASSUME IInv, phase = "peel", NEW x \in reg, psup[x] = level
  PROVE  (level + 2) % TauModulus = level + 2
<1>1. level <= Sup(Graph, ends[x]) /\ level \in Nat /\ ends[x] \in Graph /\ Graph \in SUBSET Edge
  BY BookkeepingFacts, SweepFacts
<1>2. /\ Sup(Graph, ends[x]) \in Nat /\ Sup(Edge, ends[x]) \in Nat
      /\ Sup(Graph, ends[x]) <= Sup(Edge, ends[x])
  <2>1. Edge \in SUBSET Edge
    OBVIOUS
  <2> QED BY <1>1, <2>1, SupMonotone
<1>3. TauModulus \in Nat /\ Sup(Edge, ends[x]) + 2 < TauModulus
  BY <1>1, BatchAssumption
<1> QED BY <1>1, <1>2, <1>3

\* The popped edge has its trussness; every edge it closed a whole triangle with is counted
\* down once and has an entry at its new support.
LEMMA PeelEdgeKeeps ==
  ASSUME IInv, NEW x \in reg, PeelEdge(x)
  PROVE  IInv'
<1> DEFINE w == [Sweep EXCEPT !.buckets[level] = @ \ {x}]
           down == {y \in reg : psup[y] > level /\ ends[y] \in Mates(Left, ends[x])}
<1>1. /\ phase = "peel" /\ phase' = "peel" /\ level \in DOMAIN buckets
      /\ palive[x] /\ psup[x] = level /\ SweepIs(Detach(w, x, level))
      /\ tau' = [tau EXCEPT ![x] = (level + 2) % TauModulus] /\ popped' = popped + 1
      /\ UNCHANGED <<graphVars, batchVars>>
      /\ UNCHANGED <<sup, dcount, inReg, deadMark, events, level, seeds, reg>>
  BY DEF PeelEdge, InSweep
<1>2. IdsSound' /\ GraphProgress' /\ NoExit'
  BY <1>1, RegionStepKeeps
<1>3. /\ Graph' = Graph /\ Live' = Live /\ idOf' = idOf /\ ends' = ends
      /\ \A y : MatesOf(y)' = MatesOf(y)
      /\ \A S, e : TrianglesAt(S, e)' = TrianglesAt(S, e) /\ Sup(S, e)' = Sup(S, e)
  BY <1>1, GraphStays DEF graphVars
<1>4. /\ TypeOK /\ IdsSound /\ Graph \in SUBSET Edge
      /\ events = {} /\ reg \subseteq Live /\ Live \subseteq Ids
      /\ \A y \in reg : MatesOf(y) \subseteq reg
      /\ \A y \in reg : y \in Ids /\ ends[y] \in Graph /\ psup[y] \in Nat /\ psup[y] \in Int
                        /\ palive[y] \in BOOLEAN /\ inReg[y]
      /\ level \in Nat /\ popped \in Nat
      /\ Left \in SUBSET Graph
      /\ \A y \in reg : ends[y] \in Left <=> palive[y]
  BY <1>1, SweepFacts
<1>5. /\ w.alive = palive /\ w.flagged = ubIn /\ w.running = psup
      /\ w.buckets = [buckets EXCEPT ![level] = @ \ {x}]
  BY DEF Sweep
<1>6. Lowered(w, x, level) = down
  <2> HIDE DEF w
  <2> QED BY <1>1, <1>5, LoweredFacts
<1> HIDE DEF w, down
<1>7. /\ palive' = [palive EXCEPT ![x] = FALSE] /\ ubIn' = ubIn
      /\ psup' = [y \in Ids |-> IF y \in down THEN psup[y] - 1 ELSE psup[y]]
      /\ buckets' = [k \in DOMAIN buckets |->
                       (IF k = level THEN buckets[k] \ {x} ELSE buckets[k])
                         \cup {y \in down : psup'[y] = k}]
  <2> DEFINE running == [y \in Ids |-> IF y \in down THEN psup[y] - 1 ELSE psup[y]]
  <2>1. Detach(w, x, level) =
          [alive |-> [palive EXCEPT ![x] = FALSE], flagged |-> ubIn, running |-> running,
           buckets |-> [k \in DOMAIN w.buckets |->
                          w.buckets[k] \cup {y \in down : running[y] = k}]]
    BY <1>5, <1>6 DEF Detach
  <2> HIDE DEF running
  <2>2. /\ palive' = [palive EXCEPT ![x] = FALSE] /\ ubIn' = ubIn /\ psup' = running
        /\ buckets' = [k \in DOMAIN w.buckets |->
                          w.buckets[k] \cup {y \in down : running[y] = k}]
    BY <1>1, <2>1 DEF SweepIs
  <2>3. /\ DOMAIN w.buckets = DOMAIN buckets
        /\ \A k \in DOMAIN buckets :
             w.buckets[k] = IF k = level THEN buckets[k] \ {x} ELSE buckets[k]
    BY <1>5
  <2> QED BY <2>2, <2>3 DEF running
<1>8. down \subseteq reg /\ down \subseteq Ids
  BY <1>4 DEF down
<1>9. \A y \in reg : palive'[y] <=> palive[y] /\ y # x
  BY <1>4, <1>7 DEF TypeOK
<1>10. /\ \A y \in Ids : psup'[y] \in Nat
       /\ \A y \in reg : psup'[y] = IF y \in down THEN psup[y] - 1 ELSE psup[y]
       /\ \A y \in down : psup[y] > level
  <2>1. \A y \in Ids : psup[y] \in Nat
    BY <1>4 DEF TypeOK
  <2> QED BY <1>4, <1>7, <2>1 DEF down
<1>11. Left' = Left \ {ends[x]}
  <2>1. Left' = {ends[y] : y \in {z \in reg : palive'[z]}}
    BY <1>1, <1>3 DEF Left, EdgesOf
  <2>2. {z \in reg : palive'[z]} = {z \in reg : palive[z]} \ {x}
    BY <1>9
  <2>3. \A y \in {z \in reg : palive[z]} : y # x <=> ends[y] # ends[x]
    BY <1>4, IdFacts
  <2> QED BY <2>1, <2>2, <2>3 DEF Left, EdgesOf
<1>12. TypeOK'
  <2>1. tau' \in [Ids -> Nat]
    <3>1. (level + 2) % TauModulus \in Nat
      BY <1>1, <1>4, PeelLevelFits
    <3> QED BY <1>1, <1>4, <3>1 DEF TypeOK
  <2>2. palive' \in [Ids -> BOOLEAN]
    BY <1>4, <1>7 DEF TypeOK
  <2>3. psup' \in [Ids -> Nat]
    <3>1. psup' = [y \in Ids |-> psup'[y]]
      BY <1>7
    <3> QED BY <1>10, <3>1
  <2>4. \A k \in DOMAIN buckets' : buckets'[k] \subseteq Ids
    BY <1>4, <1>7, <1>8 DEF TypeOK
  <2>5. /\ UNCHANGED <<dels, ins, newIds, inserting, batches>>
        /\ UNCHANGED <<ends, idOf, freeIds, capEdges, slots, supcap>>
    BY <1>1 DEF graphVars, batchVars
  <2>6. /\ popped' \in Nat /\ ubIn' \in [Ids -> BOOLEAN] /\ sup' \in [Ids -> Nat]
        /\ dcount' \in [Ids -> Nat] /\ inReg' \in [Ids -> BOOLEAN]
        /\ deadMark' \in [Ids -> BOOLEAN] /\ phase' \in Phases
    BY <1>1, <1>4, <1>7 DEF TypeOK, Phases
  <2>7. /\ {capEdges, slots, supcap, level, batches}' \subseteq Nat
        /\ {dels, newIds, seeds, reg, events}' \subseteq SUBSET Ids
        /\ ends' \in [Ids -> Edge \cup {NoEdge}] /\ idOf' \in [Edge -> Ids \cup {NoId}]
        /\ freeIds' \in Seq(Ids) /\ ins' \subseteq Edge /\ inserting' \in BOOLEAN
    BY <1>1, <1>4, <2>5 DEF TypeOK
  <2> QED BY <2>1, <2>2, <2>3, <2>4, <2>6, <2>7 DEF TypeOK
<1>13. FlagsInv'
  <2>1. FlagsInv
    BY DEF IInv
  <2>2. \A y \in Ids : palive'[y] => palive[y]
    BY <1>7, <1>4 DEF TypeOK
  <2> QED BY <1>1, <1>3, <1>7, <2>1, <2>2 DEF FlagsInv
<1>14. SeedsCover' /\ RegionGrows'
  BY <1>1, <1>3, <1>4 DEF SeedsCover, RegionGrows
<1>15. \A y \in Ids : tau'[y] = IF y = x THEN level + 2 ELSE tau[y]
  <2>1. (level + 2) % TauModulus = level + 2
    BY <1>1, PeelLevelFits
  <2>2. x \in Ids /\ tau \in [Ids -> Nat]
    BY <1>4 DEF TypeOK
  <2> QED BY <1>1, <2>1, <2>2
<1>16. FrozenExact' /\ TauInv'
  <2>1. FrozenExact
    BY DEF IInv, TauInv
  <2>2. \A e \in Graph : idOf[e] \in Ids
    BY <1>4, IdFacts
  <2> QED BY <1>1, <1>3, <1>15, <2>1, <2>2 DEF FrozenExact, TauInv
<1>17. SupInv'
  <2>1. SupInv
    BY DEF IInv
  <2> QED BY <1>1, <1>3, <2>1 DEF SupInv, ExactSupports
<1>18. SweepBookkeeping'
  <2>1. \E m \in 0 .. TauModulus : DOMAIN buckets' = 0 .. m
    BY <1>1, <1>7, BookkeepingFacts
  <2>2. \A k \in DOMAIN buckets' : buckets'[k] \subseteq reg
    BY <1>1, <1>7, <1>8, BookkeepingFacts
  <2>3. popped' = Cardinality({y \in reg : ~palive'[y]})
    <3> DEFINE gone == {y \in reg : ~palive[y]}
    <3>1. {y \in reg : ~palive'[y]} = gone \cup {x} /\ x \notin gone
      BY <1>1, <1>9
    <3>2. gone \in SUBSET Ids /\ popped = Cardinality(gone)
      BY <1>1, <1>4, BookkeepingFacts
    <3> HIDE DEF gone
    <3>3. Cardinality(gone \cup {x}) = Cardinality(gone) + 1
      BY <3>1, <3>2, LiveFinite, FS_AddElement
    <3> QED BY <1>1, <3>1, <3>2, <3>3
  <2>4. ASSUME NEW y \in reg
        PROVE  /\ psup'[y] <= Sup(Graph, ends[y])
               /\ palive'[y] => /\ psup'[y] >= level /\ psup'[y] \in DOMAIN buckets'
                                /\ y \in buckets'[psup'[y]]
                                /\ psup'[y] >= Sup(Left', ends[y])
                                /\ psup'[y] > level => psup'[y] = Sup(Left', ends[y])
    <3>1. /\ y \in Ids /\ ends[y] \in Graph /\ psup[y] \in Nat /\ psup[y] <= Sup(Graph, ends[y])
          /\ psup'[y] = (IF y \in down THEN psup[y] - 1 ELSE psup[y])
          /\ (y \in down => psup[y] > level)
      BY <1>1, <1>4, <1>10, BookkeepingFacts
    <3>2. /\ Sup(Graph, ends[y]) \in Nat /\ Sup(Left, ends[y]) \in Nat
          /\ Sup(Left \ {ends[x]}, ends[y]) \in Nat
          /\ Sup(Left \ {ends[x]}, ends[y]) <= Sup(Left, ends[y])
      <4>1. Left \in SUBSET Edge /\ Left \in SUBSET Left /\ Left \ {ends[x]} \in SUBSET Left
        BY <1>4
      <4> QED BY <1>4, <4>1, SupMonotone
    <3>3. psup'[y] <= Sup(Graph, ends[y])
      BY <3>1, <3>2
    <3>4. ASSUME palive'[y]
          PROVE  /\ psup'[y] >= level /\ psup'[y] \in DOMAIN buckets'
                 /\ y \in buckets'[psup'[y]]
                 /\ psup'[y] >= Sup(Left', ends[y])
                 /\ psup'[y] > level => psup'[y] = Sup(Left', ends[y])
      <4>1. /\ palive[y] /\ y # x /\ psup[y] >= level /\ psup[y] \in DOMAIN buckets
            /\ y \in buckets[psup[y]] /\ psup[y] >= Sup(Left, ends[y])
            /\ (psup[y] > level => psup[y] = Sup(Left, ends[y]))
        BY <1>1, <1>9, <3>4, BookkeepingFacts
      <4>2. /\ ends[y] \in Left /\ ends[x] \in Left /\ ends[y] # ends[x]
        BY <1>1, <1>4, <4>1, IdFacts
      <4>3. Sup(Left', ends[y]) = IF ends[y] \in Mates(Left, ends[x])
                                  THEN Sup(Left, ends[y]) - 1 ELSE Sup(Left, ends[y])
        <5>1. Left \in SUBSET Edge
          BY <1>4
        <5> QED BY <1>11, <4>2, <5>1, SupWithout
      <4>4. psup'[y] \in DOMAIN buckets /\ DOMAIN buckets' = DOMAIN buckets
        <5>1. PICK m \in 0 .. TauModulus : DOMAIN buckets = 0 .. m
          BY <1>1, BookkeepingFacts
        <5>2. m \in Nat
          BY <5>1, BatchAssumption
        <5> QED BY <1>4, <1>7, <3>1, <4>1, <5>1, <5>2
      <4>5. CASE y \in down
        <5>1. psup'[y] = psup[y] - 1 /\ psup[y] > level /\ ends[y] \in Mates(Left, ends[x])
          BY <3>1, <4>5 DEF down
        <5>2. y \in buckets'[psup'[y]]
          BY <1>7, <4>4, <4>5
        <5> QED BY <1>4, <3>1, <3>2, <4>1, <4>3, <4>4, <5>1, <5>2
      <4>6. CASE y \notin down
        <5>1. psup'[y] = psup[y] /\ (psup[y] > level => ends[y] \notin Mates(Left, ends[x]))
          BY <3>1, <4>6 DEF down
        <5>2. y \in buckets'[psup'[y]]
          BY <1>7, <4>1, <4>4, <5>1
        <5> QED BY <1>4, <1>11, <3>1, <3>2, <4>1, <4>3, <4>4, <5>1, <5>2
      <4> QED BY <4>5, <4>6
    <3> QED BY <3>3, <3>4
  <2>5. SweepBookkeeping'
              <=> (phase' = "peel" =>
                    /\ \E m \in 0 .. TauModulus : DOMAIN buckets' = 0 .. m
                    /\ \A k \in DOMAIN buckets' : buckets'[k] \subseteq reg'
                    /\ popped' = Cardinality({y \in reg' : ~palive'[y]})
                    /\ \A y \in reg' :
                         /\ psup'[y] <= Sup(Graph', ends'[y])
                         /\ palive'[y] => /\ psup'[y] >= level' /\ psup'[y] \in DOMAIN buckets'
                                          /\ y \in buckets'[psup'[y]]
                                          /\ psup'[y] >= Sup(Left', ends'[y])
                                          /\ psup'[y] > level' => psup'[y] = Sup(Left', ends'[y]))
    BY DEF SweepBookkeeping, Sup, TrianglesAt
  <2> QED BY <1>1, <1>3, <2>1, <2>2, <2>3, <2>4, <2>5
<1>19. SweepSandwich'
  <2>1. ASSUME NEW y \in reg
        PROVE  IF palive'[y] THEN Trussness[Graph][ends[y]] >= level + 2
               ELSE Trussness[Graph][ends[y]] <= level + 2 /\ tau'[y] = Trussness[Graph][ends[y]]
    <3>1. CASE y = x
      <4>1. Trussness[Graph][ends[x]] = level + 2
        BY <1>1, PeeledExact
      <4> QED BY <1>4, <1>9, <1>15, <3>1, <4>1
    <3>2. CASE y # x
      BY <1>1, <1>4, <1>9, <1>15, <3>2, BookkeepingFacts
    <3> QED BY <3>1, <3>2
  <2> QED BY <1>1, <1>3, <2>1 DEF SweepSandwich
<1> QED BY <1>2, <1>12, <1>13, <1>14, <1>16, <1>17, <1>18, <1>19 DEF IInv

\* An entry that is skipped is not the one at its edge's running support.
LEMMA SkipKeeps ==
  ASSUME IInv, NEW x \in reg, SkipEntry(x)
  PROVE  IInv'
<1>1. /\ phase = "peel" /\ phase' = "peel" /\ level \in DOMAIN buckets
      /\ ~palive[x] \/ psup[x] # level
      /\ buckets' = [buckets EXCEPT ![level] = @ \ {x}]
      /\ UNCHANGED <<graphVars, batchVars>>
      /\ UNCHANGED <<tau, sup, dcount, inReg, ubIn, deadMark, palive, psup, events, level, popped,
                     seeds, reg>>
  BY DEF SkipEntry, InSweep, flagVars
<1>2. IdsSound' /\ GraphProgress' /\ NoExit'
  BY <1>1, RegionStepKeeps
<1>3. /\ Graph' = Graph /\ Live' = Live /\ idOf' = idOf /\ ends' = ends
      /\ \A y : MatesOf(y)' = MatesOf(y)
      /\ \A S, e : TrianglesAt(S, e)' = TrianglesAt(S, e) /\ Sup(S, e)' = Sup(S, e)
      /\ Left' = Left
  BY <1>1, GraphStays DEF graphVars, Left, EdgesOf
<1>4. TypeOK'
  <2>1. TypeOK
    BY DEF IInv
  <2>2. \A k \in DOMAIN buckets' : buckets'[k] \subseteq Ids
    BY <1>1, <2>1 DEF TypeOK
  <2>3. /\ UNCHANGED <<dels, ins, newIds, inserting, batches>>
        /\ UNCHANGED <<ends, idOf, freeIds, capEdges, slots, supcap>>
    BY <1>1 DEF graphVars, batchVars
  <2> QED BY <1>1, <2>1, <2>2, <2>3 DEF TypeOK, Phases
<1>5. FlagsInv' /\ SeedsCover' /\ RegionGrows'
  <2>1. FlagsInv /\ RegionGrows
    BY DEF IInv
  <2> QED BY <1>1, <1>3, <2>1 DEF FlagsInv, SeedsCover, RegionGrows
<1>6. FrozenExact' /\ TauInv' /\ SupInv'
  <2>1. FrozenExact /\ SupInv
    BY DEF IInv, TauInv
  <2> QED BY <1>1, <1>3, <2>1 DEF FrozenExact, TauInv, SupInv, ExactSupports
<1>7. SweepBookkeeping'
  <2>1. /\ DOMAIN buckets' = DOMAIN buckets
        /\ \A k \in DOMAIN buckets : buckets'[k] \subseteq buckets[k]
        /\ \A y \in reg : palive[y] /\ psup[y] \in DOMAIN buckets /\ y \in buckets[psup[y]]
                            => y \in buckets'[psup[y]]
    BY <1>1
  <2>2. SweepBookkeeping
    BY DEF IInv
  <2> QED BY <1>1, <1>3, <2>1, <2>2 DEF SweepBookkeeping
<1>8. SweepSandwich'
  <2>1. SweepSandwich
    BY DEF IInv
  <2> QED BY <1>1, <1>3, <2>1 DEF SweepSandwich
<1> QED BY <1>2, <1>4, <1>5, <1>6, <1>7, <1>8 DEF IInv

\* When the bucket is empty every edge left closes more than level triangles with the others.
LEMMA NextLevelKeeps ==
  ASSUME IInv, NextLevel
  PROVE  IInv'
<1>1. /\ phase = "peel" /\ phase' = "peel" /\ level \in DOMAIN buckets
      /\ buckets[level] = {} /\ level' = level + 1
      /\ SweepIs(IF level' \in DOMAIN buckets THEN EnterLevel(Sweep, events, level') ELSE Sweep)
      /\ UNCHANGED <<graphVars, batchVars>>
      /\ UNCHANGED <<tau, sup, dcount, inReg, deadMark, events, popped, seeds, reg>>
  BY DEF NextLevel, InSweep
<1>2. IdsSound' /\ GraphProgress' /\ NoExit'
  BY <1>1, RegionStepKeeps
<1>3. UNCHANGED <<palive, ubIn, psup, buckets>>
  <2>1. events = {}
    BY <1>1, SweepFacts
  <2>2. EnterLevel(Sweep, events, level') = Sweep
    BY <2>1, NothingDue
  <2>3. SweepIs(Sweep)
    BY <1>1, <2>2
  <2> QED BY <2>3 DEF SweepIs, Sweep
<1>4. /\ Graph' = Graph /\ Live' = Live /\ idOf' = idOf /\ ends' = ends
      /\ \A y : MatesOf(y)' = MatesOf(y)
      /\ \A S, e : TrianglesAt(S, e)' = TrianglesAt(S, e) /\ Sup(S, e)' = Sup(S, e)
      /\ Left' = Left
  BY <1>1, <1>3, GraphStays DEF graphVars, Left, EdgesOf
<1>5. level \in Nat /\ \A y \in reg : palive[y] => psup[y] > level
  <2>1. ASSUME NEW y \in reg, palive[y] PROVE psup[y] > level
    <3>1. psup[y] >= level /\ y \in buckets[psup[y]] /\ psup[y] \in Nat /\ level \in Nat
      BY <1>1, <2>1, BookkeepingFacts, SweepFacts
    <3> QED BY <1>1, <3>1
  <2> QED BY <1>1, <2>1, SweepFacts
<1>6. TypeOK'
  <2>1. TypeOK /\ level' \in Nat
    BY <1>1, <1>5 DEF IInv
  <2>2. /\ UNCHANGED <<dels, ins, newIds, inserting, batches>>
        /\ UNCHANGED <<ends, idOf, freeIds, capEdges, slots, supcap>>
    BY <1>1 DEF graphVars, batchVars
  <2> QED BY <1>1, <1>3, <2>1, <2>2 DEF TypeOK, Phases
<1>7. FlagsInv' /\ SeedsCover' /\ RegionGrows'
  <2>1. FlagsInv /\ RegionGrows
    BY DEF IInv
  <2> QED BY <1>1, <1>3, <1>4, <2>1 DEF FlagsInv, SeedsCover, RegionGrows
<1>8. FrozenExact' /\ TauInv' /\ SupInv'
  <2>1. FrozenExact /\ SupInv
    BY DEF IInv, TauInv
  <2> QED BY <1>1, <1>4, <2>1 DEF FrozenExact, TauInv, SupInv, ExactSupports
<1>9. SweepBookkeeping'
  <2>1. SweepBookkeeping
    BY DEF IInv
  <2>2. \A y \in reg : palive[y] => psup[y] >= level' /\ psup[y] > level
    <3>1. \A y \in reg : psup[y] \in Nat
      BY <1>1, SweepFacts
    <3> QED BY <1>1, <1>5, <3>1
  <2> QED BY <1>1, <1>3, <1>4, <2>1, <2>2 DEF SweepBookkeeping
<1>10. SweepSandwich'
  <2>1. ASSUME NEW y \in reg
        PROVE  IF palive[y] THEN Trussness[Graph][ends[y]] >= level' + 2
               ELSE Trussness[Graph][ends[y]] <= level' + 2 /\ tau[y] = Trussness[Graph][ends[y]]
    <3>1. Trussness[Graph][ends[y]] \in Nat
      BY <1>1, SweepFacts, TrussnessNat
    <3>2. CASE palive[y]
      <4>1. Trussness[Graph][ends[y]] >= level + 3
        BY <1>1, <1>5, <3>2, NextLevelExact
      <4> QED BY <1>1, <1>5, <3>1, <3>2, <4>1
    <3>3. CASE ~palive[y]
      <4>1. Trussness[Graph][ends[y]] <= level + 2 /\ tau[y] = Trussness[Graph][ends[y]]
        BY <1>1, <3>3, BookkeepingFacts
      <4> QED BY <1>1, <1>5, <3>1, <3>3, <4>1
    <3> QED BY <3>2, <3>3
  <2> QED BY <1>1, <1>3, <1>4, <2>1 DEF SweepSandwich
<1> QED BY <1>2, <1>6, <1>7, <1>8, <1>9, <1>10 DEF IInv

\* Past the last bucket no edge is left: the completeness check passes, and the whole graph
\* has its trussness.
LEMMA FinishKeeps ==
  ASSUME IInv, FinishRegion
  PROVE  IInv'
<1>1. /\ phase = "peel" /\ level \notin DOMAIN buckets
      /\ UNCHANGED <<graphVars, batchVars>>
      /\ UNCHANGED <<tau, sup, dcount, psup, seeds>>
  BY DEF FinishRegion, InSweep
<1>2. /\ TypeOK /\ IdsSound /\ Graph \in SUBSET Edge
      /\ events = {} /\ reg \subseteq Live /\ Live \subseteq Ids /\ level \in Nat
  BY <1>1, SweepFacts
<1>3. \A x \in reg : ~palive[x]
  <2>1. PICK m \in 0 .. TauModulus : DOMAIN buckets = 0 .. m
    BY <1>1, BookkeepingFacts
  <2>2. m \in Nat /\ level > m
    BY <1>1, <1>2, <2>1, BatchAssumption
  <2>3. ASSUME NEW x \in reg, palive[x] PROVE FALSE
    <3>1. psup[x] >= level /\ psup[x] \in 0 .. m
      BY <1>1, <2>1, <2>3, BookkeepingFacts
    <3> QED BY <1>2, <2>2, <3>1
  <2> QED BY <2>3
<1>4. popped = Cardinality(reg)
  <2>1. {x \in reg : ~palive[x]} = reg
    BY <1>3
  <2> QED BY <1>1, <2>1, BookkeepingFacts
<1>5. /\ phase' = (IF ins # {} THEN "insert" ELSE "return")
      /\ palive' = Clear(palive, reg) /\ ubIn' = Clear(ubIn, {})
      /\ deadMark' = Clear(deadMark, {}) /\ inReg' = Clear(inReg, reg)
      /\ reg' = {} /\ events' = {} /\ buckets' = <<>> /\ level' = 0 /\ popped' = 0
  <2>1. reg \cup events = reg
    BY <1>2
  <2> QED BY <1>2, <1>4, <2>1 DEF FinishRegion
<1>6. /\ Graph' = Graph /\ Live' = Live /\ idOf' = idOf /\ ends' = ends /\ Kept' = Kept
      /\ Wanted' = Wanted /\ EdgesOf(dels)' = EdgesOf(dels) /\ EdgesOf(newIds)' = EdgesOf(newIds)
      /\ \A S, e : TrianglesAt(S, e)' = TrianglesAt(S, e) /\ Sup(S, e)' = Sup(S, e)
      /\ IdsSound'
  BY <1>1, <1>2, GraphStays DEF graphVars
<1>7. /\ UNCHANGED <<dels, ins, newIds, inserting, batch, batches, view>>
      /\ UNCHANGED <<ends, idOf, freeIds, capEdges, slots, supcap>>
  BY <1>1 DEF graphVars, batchVars
<1>8. /\ dels = {} /\ newIds = {} /\ EdgesOf(newIds) = {} /\ EdgesOf(dels) = {}
      /\ ins # {} => ins = Wanted /\ Graph = Kept
      /\ Graph = Kept \cup (Wanted \ ins)
  <2>1. GraphProgress
    BY DEF IInv
  <2>2. dels = {} /\ newIds = {}
    BY <1>1, <2>1 DEF GraphProgress
  <2>3. EdgesOf({}) = {}
    BY DEF EdgesOf
  <2>4. Graph = Kept \cup EdgesOf(dels) \cup (Wanted \ ins)
    BY <1>1, <2>1 DEF GraphProgress
  <2>5. ins # {} => ins = Wanted
    BY <1>1, <2>1 DEF GraphProgress, Deleting, InsertionDone, WithRegion
  <2> QED BY <2>2, <2>3, <2>4, <2>5
<1>9. \A e \in Graph : tau[idOf[e]] = Trussness[Graph][e]
  <2>1. FrozenExact
    BY DEF IInv, TauInv
  <2>2. ASSUME NEW e \in Graph PROVE tau[idOf[e]] = Trussness[Graph][e]
    <3>1. ends[idOf[e]] = e
      BY <1>2, IdFacts
    <3>2. CASE idOf[e] \in reg
      BY <1>1, <1>3, <3>1, <3>2, BookkeepingFacts
    <3>3. CASE idOf[e] \notin reg
      BY <1>1, <2>1, <3>3 DEF FrozenExact
    <3> QED BY <3>2, <3>3
  <2> QED BY <2>2
<1>10. phase' \in {"insert", "return"} /\ (phase' = "return" => ins = {})
       /\ (phase' = "insert" => ins = Wanted /\ Graph = Kept)
  BY <1>5, <1>8
<1>11. TypeOK'
  <2>1. /\ palive' \in [Ids -> BOOLEAN] /\ ubIn' \in [Ids -> BOOLEAN]
        /\ deadMark' \in [Ids -> BOOLEAN] /\ inReg' \in [Ids -> BOOLEAN]
    BY <1>2, <1>5 DEF TypeOK, Clear
  <2>2. /\ {tau, sup, dcount, psup}' \subseteq [Ids -> Nat]
        /\ {capEdges, slots, supcap, level, popped, batches}' \subseteq Nat
        /\ {dels, newIds, seeds, reg, events}' \subseteq SUBSET Ids
        /\ ends' \in [Ids -> Edge \cup {NoEdge}] /\ idOf' \in [Edge -> Ids \cup {NoId}]
        /\ freeIds' \in Seq(Ids) /\ ins' \subseteq Edge /\ inserting' \in BOOLEAN
    BY <1>1, <1>2, <1>5, <1>7 DEF TypeOK
  <2>3. phase' \in Phases /\ \A k \in DOMAIN buckets' : buckets'[k] \subseteq Ids
    BY <1>5, <1>10 DEF Phases
  <2> QED BY <2>1, <2>2, <2>3 DEF TypeOK
<1>12. NoExit'
  BY <1>10 DEF NoExit
<1>13. GraphProgress'
  <2>1. /\ batch \in Batches /\ view.graph \subseteq Edge /\ ins \subseteq Wanted
        /\ view = [graph |-> view.graph, truss |-> Trussness[view.graph]]
    BY <1>1 DEF IInv, GraphProgress
  <2>2. ~Deleting' /\ (InsertionDone' => ins' = {})
    BY <1>7, <1>10 DEF Deleting, InsertionDone, WithRegion
  <2> QED BY <1>6, <1>7, <1>8, <1>10, <2>1, <2>2 DEF GraphProgress
<1>14. FlagsInv'
  <2>1. FlagsInv
    BY DEF IInv
  <2>2. \A x \in Ids : ~palive'[x] /\ ~inReg'[x] /\ ~ubIn'[x] /\ ~deadMark'[x]
    BY <1>1, <1>5, <2>1 DEF FlagsInv, Clear
  <2> QED BY <1>5, <1>6, <1>10, <2>2 DEF FlagsInv
<1>15. SeedsCover' /\ RegionGrows' /\ SweepBookkeeping' /\ SweepSandwich' /\ FrozenExact'
  BY <1>10 DEF SeedsCover, RegionGrows, SweepBookkeeping, SweepSandwich, FrozenExact
<1>16. TauInv'
  <2>1. phase' = "insert" => Base' = Kept
    BY <1>6 DEF Base, Deleting, WithRegion
  <2> QED BY <1>1, <1>6, <1>9, <1>10, <1>15, <2>1 DEF TauInv
<1>17. SupInv'
  <2>1. ExactSupports
    BY <1>1 DEF IInv, SupInv
  <2> QED BY <1>1, <1>6, <1>10, <2>1 DEF SupInv, ExactSupports
<1> QED BY <1>6, <1>11, <1>12, <1>13, <1>14, <1>15, <1>16, <1>17 DEF IInv

(* ReturnBatch *)

\* When the batch returns, the graph is the net one and tau its trussness.
LEMMA ReturnFacts ==
  ASSUME IInv, phase = "return"
  PROVE  /\ batch \in Batches /\ dels = {} /\ ins = {} /\ newIds = {} /\ reg = {}
         /\ Graph \in SUBSET Edge /\ Graph = Kept \cup Wanted
         /\ [e \in Graph |-> tau[idOf[e]]] = Trussness[Graph]
<1>1. GraphProgress /\ FlagsInv /\ TauInv /\ Graph \in SUBSET Edge
  BY IdFacts DEF IInv
<1>2. dels = {} /\ ins = {} /\ newIds = {} /\ reg = {} /\ batch \in Batches
  BY <1>1 DEF GraphProgress, InsertionDone, FlagsInv
<1>3. EdgesOf(dels) = {}
  BY <1>2 DEF EdgesOf
<1>4. Graph = Kept \cup EdgesOf(dels) \cup (Wanted \ ins)
  BY <1>1 DEF GraphProgress
<1>5. \A e \in Graph : tau[idOf[e]] = Trussness[Graph][e]
  BY <1>1 DEF TauInv
<1>6. [e \in Graph |-> tau[idOf[e]]] = [e \in Graph |-> Trussness[Graph][e]]
  BY <1>5
<1>7. Trussness[Graph] = [e \in Graph |-> Trussness[Graph][e]]
  BY <1>1, TrussnessIsFunction
<1>8. Graph = Kept \cup Wanted
  BY <1>2, <1>3, <1>4
<1> QED BY <1>1, <1>2, <1>6, <1>7, <1>8

\* The owner's view becomes the net graph.
LEMMA ReturnKeeps ==
  ASSUME IInv, ReturnBatch
  PROVE  IInv'
<1>1. /\ phase = "return" /\ phase' = "idle" /\ batch' = {}
      /\ view' = [graph |-> Graph, truss |-> [e \in Graph |-> tau[idOf[e]]]]
      /\ UNCHANGED <<ends, idOf, freeIds, capEdges, slots, supcap, tau, sup, dcount, psup,
                     inReg, ubIn, deadMark, palive, events, buckets, level, popped>>
      /\ UNCHANGED <<dels, ins, newIds, inserting, batches, seeds, reg>>
  BY DEF ReturnBatch, graphVars, flagVars, peelVars
<1>2. /\ dels = {} /\ ins = {} /\ newIds = {} /\ reg = {} /\ Graph \in SUBSET Edge
      /\ view' = [graph |-> Graph, truss |-> Trussness[Graph]]
  BY <1>1, ReturnFacts
<1>3. TypeOK /\ IdsSound /\ FlagsInv /\ TauInv /\ SupInv
  BY DEF IInv
<1>4. Graph' = Graph /\ Live' = Live /\ idOf' = idOf /\ ends' = ends
      /\ \A S, e : Sup(S, e)' = Sup(S, e)
  BY <1>1 DEF Graph, Live, Alive, Sup, TrianglesAt
<1>5. TypeOK'
  BY <1>1, <1>3 DEF TypeOK, Phases
<1>6. NoExit' /\ IdsSound'
  BY <1>1, <1>3, <1>4 DEF NoExit, IdsSound, Alive, IdsOf
<1>7. GraphProgress'
  <2>1. view'.graph = Graph /\ view' = [graph |-> view'.graph, truss |-> Trussness[view'.graph]]
    BY <1>2
  <2> QED BY <1>1, <1>2, <1>4, <2>1 DEF GraphProgress, Deleting, InsertionDone, WithRegion
<1>8. FlagsInv'
  BY <1>1, <1>2, <1>3, <1>4 DEF FlagsInv
<1>9. SeedsCover' /\ RegionGrows' /\ SweepBookkeeping' /\ SweepSandwich' /\ FrozenExact'
  BY <1>1 DEF SeedsCover, RegionGrows, SweepBookkeeping, SweepSandwich, FrozenExact
<1>10. TauInv'
  BY <1>1, <1>3, <1>4, <1>9 DEF TauInv
<1>11. SupInv'
  BY <1>1, <1>3, <1>4 DEF SupInv, ExactSupports
<1> QED BY <1>5, <1>6, <1>7, <1>8, <1>9, <1>10, <1>11 DEF IInv

(* The invariant *)

\* The constructor's arrays for file f, whose edges are G.
Loads(f, G) ==
  /\ G = {f[i] : i \in 1 .. Len(f)}
  /\ ends = [x \in Ids |-> IF x >= FirstId /\ x < FirstId + Len(f) THEN f[x - FirstId + 1]
                           ELSE NoEdge]
  /\ idOf = [e \in Edge |-> IF e \in G THEN FirstId - 1 + CHOOSE i \in 1 .. Len(f) : f[i] = e
                            ELSE NoId]

\* What the constructor finds in the arrays of the loaded graph.
LEMMA LoadedFacts ==
  ASSUME NEW f \in Files, NEW G, Loads(f, G)
  PROVE  /\ Len(f) \in Nat /\ FirstId + Len(f) + Reserve <= MaxIds
         /\ G \in SUBSET Edge /\ Graph = G
         /\ ends \in [Ids -> Edge \cup {NoEdge}] /\ idOf \in [Edge -> Ids \cup {NoId}]
         /\ Live = FirstId .. (FirstId + Len(f) - 1)
         /\ \A x \in Live : ends[x] \in G /\ idOf[ends[x]] = x
         /\ \A e \in G : idOf[e] \in Live /\ ends[idOf[e]] = e
<1>1. /\ f \in Seq(Edge) /\ IsInjective(f) /\ {FirstId, Reserve, MaxIds} \subseteq Nat
      /\ FirstId + Len(f) + Reserve <= MaxIds /\ NoEdge \notin Edge
  BY BatchAssumption
<1>2. /\ Len(f) \in Nat /\ \A i \in 1 .. Len(f) : f[i] \in Edge
      /\ \A i, j \in 1 .. Len(f) : f[i] = f[j] => i = j
  BY <1>1 DEF IsInjective
<1>3. G \in SUBSET Edge
  BY <1>2 DEF Loads
<1>4. ASSUME NEW e \in G
      PROVE  \E i \in 1 .. Len(f) : f[i] = e /\ idOf[e] = FirstId - 1 + i
  <2> DEFINE i == CHOOSE j \in 1 .. Len(f) : f[j] = e
  <2>1. i \in 1 .. Len(f) /\ f[i] = e
    BY DEF Loads
  <2>2. idOf[e] = FirstId - 1 + i
    BY <1>3 DEF Loads
  <2> HIDE DEF i
  <2> QED BY <2>1, <2>2
<1>5. ASSUME NEW e \in G
      PROVE  /\ idOf[e] \in Ids /\ idOf[e] # NoId /\ ends[idOf[e]] = e
             /\ idOf[e] >= FirstId /\ idOf[e] < FirstId + Len(f)
  <2>1. PICK i \in 1 .. Len(f) : f[i] = e /\ idOf[e] = FirstId - 1 + i
    BY <1>4
  <2>2. /\ idOf[e] \in Ids /\ idOf[e] # NoId /\ idOf[e] - FirstId + 1 = i
        /\ idOf[e] >= FirstId /\ idOf[e] < FirstId + Len(f)
    BY <1>1, <1>2, <2>1 DEF Ids, NoId
  <2>3. ends[idOf[e]] = f[idOf[e] - FirstId + 1]
    BY <2>2 DEF Loads
  <2> QED BY <2>1, <2>2, <2>3
<1>6. \A e \in Edge \ G : idOf[e] = NoId
  BY DEF Loads
<1>7. Graph = G
  BY <1>3, <1>5, <1>6 DEF Graph
<1>8. idOf \in [Edge -> Ids \cup {NoId}]
  <2>1. idOf = [e \in Edge |-> idOf[e]]
    BY DEF Loads
  <2>2. \A e \in Edge : idOf[e] \in Ids \cup {NoId}
    BY <1>5, <1>6
  <2> QED BY <2>1, <2>2
<1>9. \A x \in Ids : IF x >= FirstId /\ x < FirstId + Len(f)
                     THEN ends[x] = f[x - FirstId + 1] /\ x - FirstId + 1 \in 1 .. Len(f)
                     ELSE ends[x] = NoEdge
  BY <1>1, <1>2 DEF Ids, Loads
<1>10. ends \in [Ids -> Edge \cup {NoEdge}]
  <2>1. ends = [x \in Ids |-> ends[x]]
    BY DEF Loads
  <2>2. \A x \in Ids : ends[x] \in Edge \cup {NoEdge}
    BY <1>2, <1>9
  <2> QED BY <2>1, <2>2
<1>11. Live = FirstId .. (FirstId + Len(f) - 1)
  <2>1. \A x \in Ids : Alive(x) <=> x >= FirstId /\ x < FirstId + Len(f)
    BY <1>1, <1>2, <1>9 DEF Alive
  <2>2. \A x \in FirstId .. (FirstId + Len(f) - 1) : x \in Ids
    BY <1>1, <1>2 DEF Ids
  <2>3. \A x \in Ids : x >= FirstId /\ x < FirstId + Len(f)
                         <=> x \in FirstId .. (FirstId + Len(f) - 1)
    BY <1>1, <1>2 DEF Ids
  <2> QED BY <2>1, <2>2, <2>3 DEF Live
<1>12. ASSUME NEW x \in Live PROVE ends[x] \in G /\ idOf[ends[x]] = x
  <2>1. x \in Ids /\ x \in Int /\ x >= FirstId /\ x < FirstId + Len(f)
    BY <1>1, <1>2, <1>11 DEF Live, Ids
  <2>2. ends[x] = f[x - FirstId + 1] /\ x - FirstId + 1 \in 1 .. Len(f)
    BY <1>9, <2>1
  <2>3. ends[x] \in G
    BY <2>2 DEF Loads
  <2>4. PICK i \in 1 .. Len(f) : f[i] = ends[x] /\ idOf[ends[x]] = FirstId - 1 + i
    BY <1>4, <2>3
  <2>5. i = x - FirstId + 1
    BY <1>2, <2>2, <2>4
  <2> QED BY <1>1, <2>1, <2>3, <2>4, <2>5
<1>13. \A e \in G : idOf[e] \in Live /\ ends[idOf[e]] = e
  <2>1. ASSUME NEW e \in G PROVE idOf[e] \in Live /\ ends[idOf[e]] = e
    <3>1. idOf[e] \in Ids /\ ends[idOf[e]] = e /\ e \in Edge
      BY <1>3, <1>5
    <3>2. Alive(idOf[e])
      BY <1>1, <3>1, Zenon DEF Alive
    <3> QED BY <3>1, <3>2, Zenon DEF Live
  <2> QED BY <2>1, Zenon
<1>14. \A x \in Live : ends[x] \in G /\ idOf[ends[x]] = x
  BY <1>12
<1>15. Len(f) \in Nat /\ FirstId + Len(f) + Reserve <= MaxIds
  BY <1>1, <1>2
<1> QED BY <1>3, <1>7, <1>8, <1>10, <1>11, <1>13, <1>14, <1>15, Zenon

\* The constructor's state, for every file.
LEMMA InitInv == Init => IInv
<1> SUFFICES ASSUME Init PROVE IInv
  OBVIOUS
<1>1. PICK f \in Files :
        LET loaded == FirstId + Len(f)
            G == {f[i] : i \in 1 .. Len(f)}
            at == [x \in Ids |-> IF x >= FirstId /\ x < loaded THEN f[x - FirstId + 1] ELSE NoEdge]
        IN /\ ends = at
           /\ idOf = [e \in Edge |-> IF e \in G THEN FirstId - 1 + CHOOSE i \in 1 .. Len(f) : f[i] = e
                                     ELSE NoId]
           /\ freeIds = <<>>
           /\ capEdges = loaded + Reserve
           /\ supcap = loaded + Reserve
           /\ slots = IF Reserve = 0 THEN loaded + Spare ELSE loaded + Reserve
           /\ tau = [x \in Ids |-> IF at[x] = NoEdge THEN 0 ELSE Trussness[G][at[x]]]
           /\ sup = [x \in Ids |-> IF at[x] = NoEdge THEN 0 ELSE Sup(G, at[x])]
           /\ dcount = Zero /\ psup = Zero
           /\ inReg = None /\ ubIn = None /\ deadMark = None /\ palive = None
           /\ phase = "idle"
           /\ dels = {} /\ ins = {} /\ newIds = {} /\ seeds = {} /\ reg = {}
           /\ events = {} /\ buckets = <<>> /\ level = 0 /\ popped = 0
           /\ inserting = FALSE
           /\ batch = {} /\ batches = 0
           /\ view = [graph |-> G, truss |-> Trussness[G]]
  BY DEF Init
<1> DEFINE G == {f[i] : i \in 1 .. Len(f)}
<1>2. /\ Len(f) \in Nat /\ FirstId + Len(f) + Reserve <= MaxIds
      /\ G \in SUBSET Edge /\ Graph = G
      /\ ends \in [Ids -> Edge \cup {NoEdge}] /\ idOf \in [Edge -> Ids \cup {NoId}]
      /\ Live = FirstId .. (FirstId + Len(f) - 1)
      /\ \A x \in Live : ends[x] \in G /\ idOf[ends[x]] = x
      /\ \A e \in G : idOf[e] \in Live /\ ends[idOf[e]] = e
  <2>1. Loads(f, G)
    BY <1>1 DEF Loads
  <2> HIDE DEF G
  <2> QED BY <2>1, LoadedFacts
<1> HIDE DEF G
<1>3. /\ freeIds = <<>> /\ capEdges = FirstId + Len(f) + Reserve /\ supcap = capEdges
      /\ slots = IF Reserve = 0 THEN FirstId + Len(f) + Spare ELSE FirstId + Len(f) + Reserve
      /\ tau = [x \in Ids |-> IF ends[x] = NoEdge THEN 0 ELSE Trussness[G][ends[x]]]
      /\ sup = [x \in Ids |-> IF ends[x] = NoEdge THEN 0 ELSE Sup(G, ends[x])]
      /\ view = [graph |-> G, truss |-> Trussness[G]]
  BY <1>1 DEF G
<1>4. /\ dcount = Zero /\ psup = Zero
      /\ inReg = None /\ ubIn = None /\ deadMark = None /\ palive = None
      /\ phase = "idle"
      /\ dels = {} /\ ins = {} /\ newIds = {} /\ seeds = {} /\ reg = {}
      /\ events = {} /\ buckets = <<>> /\ level = 0 /\ popped = 0
      /\ inserting = FALSE
      /\ batch = {} /\ batches = 0
  BY <1>1
<1>5. {FirstId, Reserve, Spare} \subseteq Nat /\ NoEdge \notin Edge
  BY BatchAssumption
<1>6. \A x \in Live : tau[x] = Trussness[G][ends[x]] /\ sup[x] = Sup(G, ends[x]) /\ x \in Ids
  BY <1>2, <1>3, <1>5 DEF Live
<1>7. TypeOK
  <2>1. tau \in [Ids -> Nat] /\ sup \in [Ids -> Nat]
    <3>1. \A e \in G : Trussness[G][e] \in Nat /\ Sup(G, e) \in Nat
      BY <1>2, TrussnessNat, SupMonotone
    <3>2. \A x \in Ids : ends[x] # NoEdge => ends[x] \in G
      BY <1>2 DEF Live, Alive
    <3> QED BY <1>3, <3>1, <3>2
  <2>2. {dcount, psup} \subseteq [Ids -> Nat] /\ {inReg, ubIn, deadMark, palive} \subseteq [Ids -> BOOLEAN]
    BY <1>4 DEF Zero, None
  <2>3. {capEdges, slots, supcap, level, popped, batches} \subseteq Nat
    BY <1>2, <1>3, <1>4, <1>5
  <2>4. freeIds \in Seq(Ids)
    BY <1>3
  <2>5. \A k \in DOMAIN buckets : buckets[k] \subseteq Ids
    BY <1>4
  <2> QED BY <1>2, <1>4, <2>1, <2>2, <2>3, <2>4, <2>5 DEF TypeOK, Phases
<1>8. IdsSound
  <2>1. Live = IdsOf(Graph) /\ \A e \in Graph : ends[idOf[e]] = e
    BY <1>2 DEF IdsOf
  <2>2. ToSet(freeIds) = {} /\ IsInjective(freeIds) /\ Len(freeIds) = 0
    BY <1>3 DEF ToSet, IsInjective
  <2>3. Cardinality(Live) = Len(f)
    <3>1. FirstId \in Int /\ FirstId + Len(f) - 1 \in Int
      BY <1>2, <1>5
    <3>2. Cardinality(FirstId .. (FirstId + Len(f) - 1))
            = IF FirstId > FirstId + Len(f) - 1 THEN 0 ELSE (FirstId + Len(f) - 1) - FirstId + 1
      BY <3>1, FS_Interval
    <3> QED BY <1>2, <1>5, <3>2
  <2>4. Cardinality(Live) + Len(freeIds) = capEdges - FirstId - Reserve
    BY <1>2, <1>3, <1>5, <2>2, <2>3
  <2>5. \A x \in Live : x < capEdges /\ x < supcap /\ x < slots
    BY <1>2, <1>3, <1>5
  <2> QED BY <2>1, <2>2, <2>4, <2>5 DEF IdsSound, Live
<1>9. NoExit /\ SeedsCover /\ RegionGrows /\ SweepBookkeeping /\ SweepSandwich /\ FrozenExact
  BY <1>4 DEF NoExit, SeedsCover, RegionGrows, SweepBookkeeping, SweepSandwich, FrozenExact
<1>10. GraphProgress
  BY <1>2, <1>3, <1>4 DEF GraphProgress, Deleting, InsertionDone, WithRegion
<1>11. FlagsInv
  BY <1>4 DEF FlagsInv, None
<1>12. TauInv
  BY <1>2, <1>4, <1>6, <1>9 DEF TauInv
<1>13. SupInv
  BY <1>2, <1>4, <1>6 DEF SupInv, ExactSupports
<1> QED BY <1>7, <1>8, <1>9, <1>10, <1>11, <1>12, <1>13 DEF IInv

\* A step that changes nothing changes no part of the invariant.
LEMMA StutterKeeps ==
  ASSUME IInv, UNCHANGED vars
  PROVE  IInv'
<1>1. /\ UNCHANGED <<ends, idOf, freeIds, capEdges, slots, supcap, tau, sup, dcount, psup,
                     inReg, ubIn, deadMark, palive, events, buckets, level, popped>>
      /\ UNCHANGED <<phase, dels, ins, newIds, inserting, batch, batches, view, seeds, reg>>
      /\ UNCHANGED <<graphVars, batchVars>>
  BY DEF vars, graphVars, flagVars, peelVars, batchVars
<1>2. /\ Graph' = Graph /\ Live' = Live /\ Kept' = Kept /\ Wanted' = Wanted
      /\ EdgesOf(dels)' = EdgesOf(dels) /\ EdgesOf(newIds)' = EdgesOf(newIds)
      /\ \A x : MatesOf(x)' = MatesOf(x)
      /\ \A S, e : TrianglesAt(S, e)' = TrianglesAt(S, e) /\ Sup(S, e)' = Sup(S, e)
      /\ IdsSound'
  BY <1>1, GraphStays DEF IInv
<1>3. /\ (Deleting' <=> Deleting) /\ (InsertionDone' <=> InsertionDone)
      /\ Base' = Base /\ Left' = Left
  BY <1>1, <1>2 DEF Deleting, InsertionDone, WithRegion, Base, Left, EdgesOf
<1>4. TypeOK' /\ NoExit'
  BY <1>1 DEF IInv, TypeOK, NoExit
<1>5. GraphProgress' /\ FlagsInv'
  BY <1>1, <1>2, <1>3 DEF IInv, GraphProgress, FlagsInv
<1>6. \A e : Touched(e)' <=> Touched(e)
  BY <1>2, <1>3 DEF Touched
<1>7. SeedsCover' /\ RegionGrows'
  BY <1>1, <1>2, <1>3, <1>6 DEF IInv, SeedsCover, RegionGrows
<1>8. FrozenExact' /\ TauInv' /\ SupInv'
  BY <1>1, <1>2, <1>3 DEF IInv, FrozenExact, TauInv, SupInv, ExactSupports
<1>9. SweepBookkeeping' /\ SweepSandwich'
  BY <1>1, <1>2, <1>3 DEF IInv, SweepBookkeeping, SweepSandwich
<1> QED BY <1>2, <1>4, <1>5, <1>7, <1>8, <1>9 DEF IInv

\* Every step of the engine keeps the invariant.
LEMMA StepInv == IInv /\ [Next]_vars => IInv'
<1> SUFFICES ASSUME IInv, [Next]_vars PROVE IInv'
  OBVIOUS
<1>1. CASE ApplyBatch \/ ReturnBatch
  BY <1>1, ApplyKeeps, ReturnKeeps
<1>2. CASE DeletionWitness \/ InsertionWitness
  BY <1>2, DeletionWitnessKeeps, InsertionWitnessKeeps
<1>3. ASSUME NEW x \in dels, RemoveEdge(x) PROVE IInv'
  BY <1>3, RemoveKeeps
<1>4. ASSUME NEW e \in ins, InsertEdge(e) PROVE IInv'
  BY <1>4, InsertKeeps
<1>5. CASE SeedRegion \/ CloseRound \/ RegionClosed
  BY <1>5, SeedRegionKeeps, CloseRoundKeeps, RegionClosedKeeps
<1>6. CASE StartPeel \/ NextLevel \/ FinishRegion
  BY <1>6, StartPeelKeeps, NextLevelKeeps, FinishKeeps
<1>7. ASSUME NEW x \in reg, PeelEdge(x) \/ SkipEntry(x) PROVE IInv'
  BY <1>7, PeelEdgeKeeps, SkipKeeps
<1>8. CASE StreamEnds \/ UNCHANGED vars
  BY <1>8, StutterKeeps DEF StreamEnds
<1> QED BY <1>1, <1>2, <1>3, <1>4, <1>5, <1>6, <1>7, <1>8 DEF Next, BatchStep

\* No order of removals, insertions and pops breaks the invariant, for any number of
\* batches on any input graph.
THEOREM BatchEngineInvariant == Safety => []IInv
  BY InitInv, StepInv, PTL DEF Safety

\* Neither defensive exit is ever taken: no support falls below zero and every
\* sweep pops its whole region.
THEOREM BatchNeverExits == Safety => []NoExit
<1>1. IInv => NoExit
  BY DEF IInv
<1> QED BY <1>1, BatchEngineInvariant, PTL

\* Ids are recycled without loss, and every id in use has a slot in the arrays.
THEOREM BatchIdsSound == Safety => []IdsSound
<1>1. IInv => IdsSound
  BY DEF IInv
<1> QED BY <1>1, BatchEngineInvariant, PTL

\* Between batches no scratch flag of any id is set.
THEOREM BatchScratchClean == Safety => []ScratchClean
<1>1. IInv => ScratchClean
  BY DEF IInv, FlagsInv, ScratchClean
<1> QED BY <1>1, BatchEngineInvariant, PTL

\* The deletions' jobs lower every support by exactly the destroyed triangles, also
\* of triangles that lose several edges at once.
THEOREM BatchDeletionWitness == Safety => []DeletionWitnessExact
<1>1. IInv => DeletionWitnessExact
  BY DEF IInv, SupInv, DeletionWitnessExact
<1> QED BY <1>1, BatchEngineInvariant, PTL

\* Between batches the stored supports are those of the graph.
THEOREM BatchSupports == Safety => []SupportsExact
<1>1. IInv => SupportsExact
  BY DEF IInv, SupInv, SupportsExact
<1> QED BY <1>1, BatchEngineInvariant, PTL

\* When the closure is complete, the trussness of every edge outside the region is
\* right for the changed graph.
THEOREM BatchFrozen == Safety => []FrozenExact
<1>1. IInv => FrozenExact
  BY DEF IInv, TauInv
<1> QED BY <1>1, BatchEngineInvariant, PTL

\* No triangle joins the region to the rest of the graph, and the sweep schedules
\* no event.
THEOREM BatchNoEvents == Safety => []NoBoundaryEvents
<1>1. IInv => NoBoundaryEvents
  BY DEF IInv, FlagsInv, RegionGrows, NoBoundaryEvents
<1> QED BY <1>1, BatchEngineInvariant, PTL

\* What the owner sees between batches is the net graph with its exact trussness.
THEOREM BatchImplementsMaintained == Safety => MaintainedSafety
<1>1. Init => Maintained!Init
  <2>1. ASSUME NEW f \in Files, view.graph = {f[i] : i \in 1 .. Len(f)}
        PROVE  view.graph \in {ToSet(g) : g \in Files}
    <3>1. f \in Seq(Edge)
      BY BatchAssumption
    <3>2. ToSet(f) = {f[i] : i \in 1 .. Len(f)}
      BY <3>1 DEF ToSet
    <3> QED BY <2>1, <3>2
  <2> SUFFICES ASSUME Init PROVE Maintained!Init
    OBVIOUS
  <2>2. PICK f \in Files : /\ view = [graph |-> {f[i] : i \in 1 .. Len(f)},
                                      truss |-> Trussness[{f[i] : i \in 1 .. Len(f)}]]
                           /\ batch = {}
    BY DEF Init
  <2> QED BY <2>1, <2>2 DEF Maintained!Init
<1>2. IInv /\ [Next]_vars => [Maintained!Next]_Maintained!maintainedVars
  <2> SUFFICES ASSUME IInv, [Next]_vars
               PROVE  Maintained!Next \/ UNCHANGED Maintained!maintainedVars
    OBVIOUS
  <2> USE DEF Maintained!maintainedVars
  <2>1. CASE ApplyBatch
    <3>1. batch = {} /\ batch' \in Batches /\ view' = view
      BY <2>1 DEF ApplyBatch, IInv, GraphProgress
    <3> QED BY <3>1 DEF Maintained!Next, Maintained!Begin
  <2>2. CASE ReturnBatch
    <3>1. phase = "return" /\ batch' = {}
          /\ view' = [graph |-> Graph, truss |-> [e \in Graph |-> tau[idOf[e]]]]
      BY <2>2 DEF ReturnBatch
    <3>2. batch # {} /\ Graph = Kept \cup Wanted
          /\ view' = [graph |-> Graph, truss |-> Trussness[Graph]]
      <4>1. batch \in Batches
        BY <3>1, ReturnFacts
      <4> QED BY <3>1, <4>1, ReturnFacts, BatchAssumption
    <3>3. Graph = Maintained!Net(view.graph, batch)
      BY <3>2 DEF Kept, Wanted, Maintained!Net
    <3> QED BY <3>1, <3>2, <3>3 DEF Maintained!Next, Maintained!End
  <2>3. ASSUME \/ DeletionWitness \/ InsertionWitness
               \/ \E x \in dels : RemoveEdge(x)
               \/ \E e \in ins : InsertEdge(e)
        PROVE  UNCHANGED <<view, batch>>
    BY <2>3 DEF DeletionWitness, InsertionWitness, RemoveEdge, InsertEdge, batchVars
  <2>4. ASSUME \/ SeedRegion \/ CloseRound \/ RegionClosed
               \/ StartPeel \/ NextLevel \/ FinishRegion
               \/ \E x \in reg : PeelEdge(x) \/ SkipEntry(x)
        PROVE  UNCHANGED <<view, batch>>
    BY <2>4 DEF SeedRegion, CloseRound, RegionClosed, StartPeel, NextLevel, FinishRegion,
                PeelEdge, SkipEntry, batchVars
  <2>5. ASSUME StreamEnds \/ UNCHANGED vars
        PROVE  UNCHANGED <<view, batch>>
    BY <2>5 DEF StreamEnds, vars, batchVars
  <2>6. UNCHANGED <<view, batch>> => UNCHANGED Maintained!maintainedVars
    OBVIOUS
  <2> QED BY <2>1, <2>2, <2>3, <2>4, <2>5, <2>6 DEF Next, BatchStep
<1> QED BY <1>1, <1>2, BatchEngineInvariant, PTL DEF Safety, MaintainedSafety, Maintained!Safety
-----------------------------------------------------------------------------
(* The closure's rounds are those of ClosureRounds. *)

\* A round grows the region's edges by those of its mates' ids.
LEMMA GrownFacts ==
  ASSUME TypeOK, IdsSound, NEW S \in SUBSET Live
  PROVE  Rounds!Grown(EdgesOf(S)) = EdgesOf(S \cup UNION {MatesOf(x) : x \in S})
<1>1. \A e : Rounds!Mates(Graph, e) = Mates(Graph, e)
  BY DEF Rounds!Mates, Mates, Rounds!TrianglesAt, TrianglesAt
<1>2. ASSUME NEW x \in S PROVE EdgesOf(MatesOf(x)) = Mates(Graph, ends[x])
  <2>1. Mates(Graph, ends[x]) \in SUBSET Graph
    BY DEF Mates, TrianglesAt
  <2>2. MatesOf(x) = {y \in Live : ends[y] \in Mates(Graph, ends[x])}
    BY <2>1, IdsOfFacts DEF MatesOf
  <2>3. \A f \in Mates(Graph, ends[x]) : idOf[f] \in MatesOf(x) /\ ends[idOf[f]] = f
    BY <2>1, <2>2, IdFacts
  <2> QED BY <2>2, <2>3 DEF EdgesOf
<1>3. EdgesOf(S \cup UNION {MatesOf(x) : x \in S})
        = EdgesOf(S) \cup UNION {EdgesOf(MatesOf(x)) : x \in S}
  BY DEF EdgesOf
<1>4. UNION {EdgesOf(MatesOf(x)) : x \in S} = UNION {Mates(Graph, ends[x]) : x \in S}
  BY <1>2
<1>5. UNION {Mates(Graph, ends[x]) : x \in S} = UNION {Mates(Graph, e) : e \in EdgesOf(S)}
  BY DEF EdgesOf
<1>6. Rounds!Grown(EdgesOf(S)) = EdgesOf(S) \cup UNION {Mates(Graph, e) : e \in EdgesOf(S)}
  BY <1>1 DEF Rounds!Grown
<1> QED BY <1>3, <1>4, <1>5, <1>6

\* The live seeds are the region the rounds start from.
LEMMA SeedRegionIsSeed ==
  ASSUME IInv, SeedRegion
  PROVE  Rounds!Seed
<1>1. /\ phase = "closure" /\ phase' = "expand" /\ TypeOK /\ IdsSound /\ FlagsInv
      /\ reg' = {x \in seeds : Alive(x) /\ ~inReg[x]}
      /\ UNCHANGED graphVars
  BY DEF IInv, SeedRegion
<1>2. reg' = {x \in seeds : x \in Live}
  BY <1>1 DEF FlagsInv, TypeOK, Live
<1>3. Graph' = Graph /\ ends' = ends
  BY <1>1 DEF graphVars, Graph
<1>4. EdgesOf(reg)' = (EdgesOf(seeds) \cap Edge) \cap Graph
  <2>1. EdgesOf(reg)' = {ends[x] : x \in reg'}
    BY <1>3 DEF EdgesOf
  <2>2. ASSUME NEW x \in seeds, ends[x] \in Graph PROVE x \in Live
    BY <1>1, <2>2, BatchAssumption DEF Live, Alive, Graph, TypeOK
  <2>3. \A x \in Live : ends[x] \in Graph /\ ends[x] \in Edge
    BY <1>1, IdFacts
  <2> QED BY <1>2, <2>1, <2>2, <2>3 DEF EdgesOf
<1> QED BY <1>1, <1>3, <1>4 DEF Rounds!Seed

\* A mate of the frontier whose flag is up is in the region already, and so are the
\* mates of what has left the frontier.
LEMMA CloseRoundIsRound ==
  ASSUME IInv, CloseRound
  PROVE  Rounds!Round
<1> DEFINE found == Unflagged(seeds)
           all == reg \cup UNION {MatesOf(x) : x \in reg}
<1>1. /\ phase = "expand" /\ phase' = phase /\ TypeOK /\ IdsSound /\ FlagsInv /\ RegionGrows
      /\ reg' = reg \cup {y \in found : ~inReg[y]}
      /\ UNCHANGED graphVars
  BY DEF IInv, CloseRound
<1>2. /\ seeds \subseteq reg /\ reg \in SUBSET Live /\ Live \subseteq Ids
      /\ \A x \in reg \ seeds : MatesOf(x) \subseteq reg
      /\ \A x \in Ids : /\ inReg[x] <=> x \in reg
                        /\ ubIn[x] => x \in reg
  BY <1>1 DEF RegionGrows, FlagsInv, Live
<1>3. \A x \in reg : MatesOf(x) \subseteq Ids
  BY <1>1, <1>2, MateFacts
<1>4. /\ found = {y \in UNION {MatesOf(x) : x \in seeds} : ~ubIn[y]}
      /\ found \subseteq all /\ found \subseteq Ids
  BY <1>2, <1>3 DEF Unflagged
<1>5. ASSUME NEW x \in reg, NEW y \in MatesOf(x) PROVE y \in reg \cup found
  <2>1. y \in Ids
    BY <1>3, <1>5
  <2>2. CASE x \in seeds
    BY <1>2, <1>4, <2>1, <2>2
  <2>3. CASE x \notin seeds
    BY <1>2, <2>3
  <2> QED BY <2>2, <2>3
<1> HIDE DEF found
<1>6. reg' = reg \cup found
  BY <1>1, <1>2, <1>4
<1>7. reg' = all
  BY <1>4, <1>5, <1>6
<1>8. Graph' = Graph /\ ends' = ends
  BY <1>1 DEF graphVars, Graph
<1>9. EdgesOf(reg)' = EdgesOf(all)
  BY <1>7, <1>8 DEF EdgesOf
<1>10. EdgesOf(all) = Rounds!Grown(EdgesOf(reg))
  BY <1>1, <1>2, GrownFacts
<1> HIDE DEF all
<1> QED BY <1>1, <1>8, <1>9, <1>10 DEF Rounds!Round

\* With an empty frontier no mate is missing.
LEMMA RegionClosedIsHandOver ==
  ASSUME IInv, RegionClosed
  PROVE  Rounds!HandOver
<1>1. /\ phase = "expand" /\ phase' = "recount" /\ seeds = {}
      /\ TypeOK /\ IdsSound /\ FlagsInv /\ RegionGrows
      /\ UNCHANGED <<graphVars, reg>>
  BY DEF IInv, RegionClosed
<1>2. reg \in SUBSET Live /\ \A x \in reg : MatesOf(x) \subseteq reg
  BY <1>1 DEF RegionGrows, FlagsInv
<1>3. reg \cup UNION {MatesOf(x) : x \in reg} = reg
  BY <1>2
<1>4. Rounds!Grown(EdgesOf(reg)) = EdgesOf(reg)
  BY <1>1, <1>2, <1>3, GrownFacts
<1>5. Graph' = Graph /\ EdgesOf(reg)' = EdgesOf(reg)
  BY <1>1 DEF graphVars, Graph, EdgesOf
<1> QED BY <1>1, <1>4, <1>5 DEF Rounds!HandOver

\* Outside the call the region is empty whenever the graph may change.
LEMMA OutsideIsOwner ==
  ASSUME IInv', phase \notin {"closure", "expand"}, phase' \notin {"expand", "recount", "peel"}
  PROVE  Rounds!Owner
<1>1. reg' = {}
  BY DEF IInv, FlagsInv
<1>2. EdgesOf(reg)' = {} /\ Graph' \subseteq Edge
  BY <1>1 DEF EdgesOf, Graph
<1> QED BY <1>2 DEF Rounds!Owner

\* The sweep leaves graph and region alone.
LEMMA SweepStutters ==
  ASSUME UNCHANGED <<graphVars, reg>>,
         \/ phase \in {"recount", "peel"} /\ phase' = "peel"
         \/ UNCHANGED <<phase, seeds>>
  PROVE  UNCHANGED Rounds!roundsVars
<1>1. Graph' = Graph /\ EdgesOf(reg)' = EdgesOf(reg) /\ ends' = ends
  BY DEF graphVars, Graph, EdgesOf
<1>2. EdgesOf(seeds)' = {ends[x] : x \in seeds'}
  BY <1>1 DEF EdgesOf
<1> QED BY <1>1, <1>2 DEF Rounds!roundsVars, EdgesOf

LEMMA RoundsInit == Init => Rounds!Init
<1> SUFFICES ASSUME Init PROVE Rounds!Init
  OBVIOUS
<1>1. phase = "idle" /\ reg = {}
  BY DEF Init
<1>2. EdgesOf(reg) = {} /\ Graph \subseteq Edge
  BY <1>1 DEF EdgesOf, Graph
<1> QED BY <1>1, <1>2 DEF Rounds!Init

LEMMA RoundsStep == IInv /\ [Next]_vars => [Rounds!Next]_(Rounds!roundsVars)
<1> SUFFICES ASSUME IInv, [Next]_vars
             PROVE  Rounds!Next \/ UNCHANGED Rounds!roundsVars
  OBVIOUS
<1>1. IInv'
  BY StepInv
<1>2. CASE SeedRegion \/ CloseRound \/ RegionClosed
  BY <1>2, SeedRegionIsSeed, CloseRoundIsRound, RegionClosedIsHandOver DEF Rounds!Next
<1>3. ASSUME StartPeel \/ NextLevel \/ \E x \in reg : PeelEdge(x) \/ SkipEntry(x)
      PROVE  UNCHANGED Rounds!roundsVars
  <2>1. /\ phase \in {"recount", "peel"} /\ phase' = "peel"
        /\ UNCHANGED <<graphVars, reg>>
    BY <1>3 DEF StartPeel, NextLevel, PeelEdge, SkipEntry, InSweep
  <2> QED BY <2>1, SweepStutters
<1>4. ASSUME \/ ApplyBatch \/ ReturnBatch \/ DeletionWitness \/ InsertionWitness \/ FinishRegion
             \/ \E x \in dels : RemoveEdge(x)
             \/ \E e \in ins : InsertEdge(e)
      PROVE  Rounds!Next
  <2>1. /\ phase \notin {"closure", "expand"}
        /\ phase' \notin {"expand", "recount", "peel"}
    BY <1>4 DEF ApplyBatch, ReturnBatch, DeletionWitness, InsertionWitness, FinishRegion,
                RemoveEdge, InsertEdge
  <2> QED BY <1>1, <2>1, OutsideIsOwner DEF Rounds!Next
<1>5. ASSUME StreamEnds \/ UNCHANGED vars PROVE UNCHANGED Rounds!roundsVars
  <2>1. UNCHANGED <<graphVars, reg, phase, seeds>>
    BY <1>5 DEF StreamEnds, vars
  <2> QED BY <2>1, SweepStutters
<1> QED BY <1>2, <1>3, <1>4, <1>5 DEF Next, BatchStep

\* BatchMaintainer implements ClosureRounds: its region grows by whole rounds of mates and
\* is handed to the sweep closed, so that region_closure may be read as one step a round,
\* as RegionClosure shows of the threads.
THEOREM BatchImplementsRounds == Safety => RoundsSafety
<1>1. Init /\ [][Next]_vars /\ []IInv => Rounds!Init /\ [][Rounds!Next]_(Rounds!roundsVars)
  BY RoundsInit, RoundsStep, PTL
<1> QED BY <1>1, BatchEngineInvariant, PTL DEF Safety, RoundsSafety, Rounds!Safety
=============================================================================
