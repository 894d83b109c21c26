------------------------------- MODULE DynGraph -------------------------------
(***************************************************************************)
(* DynGraph (graph.h).  Every edge stands in the lists of both its         *)
(* vertices and knows its two positions, so that it is removed in constant *)
(* time: the last entry of each list moves into the gap, and the slot of   *)
(* the edge that moved is patched.  Its id goes to the free list and is    *)
(* reused.  A hash table (module EdgeHash, whose variables are declared    *)
(* here too) leads from the pair of its ends to the id.                    *)
(***************************************************************************)
EXTENDS Integers, FiniteSets, Sequences, SequencesExt

CONSTANTS
  n,               \* number of vertices
  Pairs,           \* the pairs u < v that edges may join
  FirstId,         \* cap_edges before the first edge is added
  InitialSlots,    \* eu.size() then
  Increment,       \* what a growing array gains beyond doubling (1024)
  MaxIds,          \* bound: ids the model's arrays are defined for
  Home,            \* [keys -> Nat]: hash_key
  InitialSize,     \* slots of the hash table after init_hash
  MaxSize          \* bound: slots the model's hash table may grow to

Vertices == 0 .. (n - 1)

Ids == 0 .. (MaxIds - 1)
NoVertex == -1

\* ekey(u, v): a number that tells the pair from every other.
EKey(p) == p[1] * n + p[2]
Keys == {EKey(p) : p \in Pairs}

ASSUME GraphAssumption ==
  /\ {n, FirstId, InitialSlots, Increment, MaxIds, MaxSize} \subseteq Nat
  /\ Pairs \subseteq {p \in Vertices \X Vertices : p[1] < p[2]}
  /\ Home \in [Keys -> Nat]
  /\ InitialSize \in Nat \ {0}
  /\ FirstId <= InitialSlots /\ Increment > 0

VARIABLES
  adj,             \* [Vertices -> Seq([nbr, eid])]
  eu, ev,          \* [Ids -> vertex]: the smaller and the larger end
  slot0, slot1,    \* [Ids -> Nat]: the edge's positions in adj of eu and of ev
  freeIds, capEdges, slots,
  size, hkey, hval, hused, hcount   \* the hash table

adjVars == <<adj, eu, ev, slot0, slot1, freeIds, capEdges, slots>>
hashVars == <<size, hkey, hval, hused, hcount>>
vars == <<adjVars, hashVars>>

Hash == INSTANCE EdgeHash WITH Key <- Keys, Value <- Ids

\* find, and has.
Find(p) == Hash!Find(EKey(p))
Has(p) == Find(p) >= 0

Alive(e) == eu[e] # NoVertex

Init ==
  /\ adj = [v \in Vertices |-> <<>>]
  /\ eu = [e \in Ids |-> NoVertex] /\ ev = [e \in Ids |-> NoVertex]
  /\ slot0 = [e \in Ids |-> 0] /\ slot1 = [e \in Ids |-> 0]
  /\ freeIds = <<>>
  /\ capEdges = FirstId /\ slots = InitialSlots
  /\ Hash!Init

\* add_edge(u, v) with u < v (it swaps them otherwise) of an edge that every
\* caller has found absent; the ids of removed edges are used first, the last one first.
AddEdge(u, v) ==
  /\ ~Has(<<u, v>>)
  /\ LET fresh == freeIds = <<>>
         e == IF fresh THEN capEdges ELSE Last(freeIds)
     IN /\ e \in Ids
        /\ freeIds' = IF fresh THEN freeIds ELSE Front(freeIds)
        /\ capEdges' = IF fresh THEN capEdges + 1 ELSE capEdges
        /\ slots' = IF fresh /\ capEdges' > slots THEN 2 * slots + Increment ELSE slots
        /\ eu' = [eu EXCEPT ![e] = u]
        /\ ev' = [ev EXCEPT ![e] = v]
        /\ slot0' = [slot0 EXCEPT ![e] = Len(adj[u])]
        /\ slot1' = [slot1 EXCEPT ![e] = Len(adj[v])]
        /\ adj' = [adj EXCEPT ![u] = Append(@, [nbr |-> v, eid |-> e]),
                              ![v] = Append(@, [nbr |-> u, eid |-> e])]
        /\ Hash!HashInsert(EKey(<<u, v>>), e)

\* Mutants: the entry that moves is not told; it is told without asking which
\* end of its edge the list belongs to.
UnlinkSilently(s, v, p) ==
  [s EXCEPT !.adj[v] = Front([@ EXCEPT ![p + 1] = Last(s.adj[v])])]
UnlinkFirstEnd(s, v, p) ==
  LET moved == Last(s.adj[v])
      t == [s EXCEPT !.adj[v] = Front([@ EXCEPT ![p + 1] = moved])]
  IN [t EXCEPT !.slot0[moved.eid] = p]

\* Take position p out of the list of v: the last entry moves there, and the
\* edge it belongs to is told, at the end that v is.
Unlink(s, v, p) ==
  LET moved == Last(s.adj[v])
      t == [s EXCEPT !.adj[v] = Front([@ EXCEPT ![p + 1] = moved])]
  IN IF eu[moved.eid] = v
     THEN [t EXCEPT !.slot0[moved.eid] = p]
     ELSE [t EXCEPT !.slot1[moved.eid] = p]

\* remove_edge: both positions are read before either list changes.
RemoveEdge(e) ==
  /\ Alive(e)
  /\ LET linked == [adj |-> adj, slot0 |-> slot0, slot1 |-> slot1]
         half == Unlink(linked, eu[e], slot0[e])
         done == Unlink(half, ev[e], slot1[e])
     IN /\ adj' = done.adj
        /\ slot0' = done.slot0 /\ slot1' = done.slot1
  /\ Hash!HashDelete(EKey(<<eu[e], ev[e]>>))
  /\ eu' = [eu EXCEPT ![e] = NoVertex]
  /\ ev' = [ev EXCEPT ![e] = NoVertex]
  /\ freeIds' = Append(freeIds, e)
  /\ UNCHANGED <<capEdges, slots>>

\* The hash table has grown to the model's bound, and no edge is left to remove.
AtBound == Hash!AtBound /\ \A e \in Ids : ~Alive(e)

Next ==
  \/ \E p \in Pairs : AddEdge(p[1], p[2])
  \/ \E e \in Ids : RemoveEdge(e)
  \/ AtBound /\ UNCHANGED vars

Spec == Init /\ [][Next]_vars

-----------------------------------------------------------------------------
(* common_neighbors *)

\* The stamps after the list of u has been marked: neighbour to edge id.
Marked(u) ==
  [w \in {r.nbr : r \in ToSet(adj[u])} |->
     (CHOOSE r \in ToSet(adj[u]) : r.nbr = w).eid]

\* The callbacks, by the position in the list of v they are made for: common
\* neighbour, edge at u, edge at v.
CommonNeighbors(u, v) ==
  LET marked == Marked(u)
      common == {i \in DOMAIN adj[v] : adj[v][i].nbr \in DOMAIN marked}
  IN [i \in common |-> <<adj[v][i].nbr, marked[adj[v][i].nbr], adj[v][i].eid>>]

-----------------------------------------------------------------------------
(* Properties *)

\* Types of the structure.
TypeOK ==
  /\ adj \in [Vertices -> Seq([nbr : Vertices, eid : Ids])]
  /\ {eu, ev} \subseteq [Ids -> Vertices \cup {NoVertex}]
  /\ {slot0, slot1} \subseteq [Ids -> Nat]
  /\ freeIds \in Seq(Ids)
  /\ capEdges \in Nat /\ slots \in Nat
  /\ Hash!TypeOK

\* The ends of a live edge are a pair; an id that is not live has none.
EndsSound ==
  \A e \in Ids : IF Alive(e) THEN <<eu[e], ev[e]>> \in Pairs ELSE ev[e] = NoVertex

\* Every edge knows where it stands in both lists, whatever removals have moved
\* it; a removal through a wrong position would take out another edge.
SlotsPoint ==
  \A e \in Ids : Alive(e) =>
    /\ slot0[e] < Len(adj[eu[e]]) /\ adj[eu[e]][slot0[e] + 1] = [nbr |-> ev[e], eid |-> e]
    /\ slot1[e] < Len(adj[ev[e]]) /\ adj[ev[e]][slot1[e] + 1] = [nbr |-> eu[e], eid |-> e]

\* The lists hold the live edges and nothing else: as many entries as edges, at
\* both ends, and the hash table names the same edges.
ListsExact ==
  /\ \A v \in Vertices :
       /\ IsInjective(adj[v])
       /\ ToSet(adj[v]) =
            {[nbr |-> ev[e], eid |-> e] : e \in {x \in Ids : eu[x] = v}}
              \cup {[nbr |-> eu[e], eid |-> e] : e \in {x \in Ids : ev[x] = v}}
  /\ \A p \in Pairs : \A e \in Ids : Find(p) = e <=> (eu[e] = p[1] /\ ev[e] = p[2])

\* Ids are live, free or not handed out yet, and each that has been handed out
\* has a slot in the arrays.
IdsSound ==
  LET live == {e \in Ids : Alive(e)}
      free == ToSet(freeIds)
  IN /\ IsInjective(freeIds) /\ live \cap free = {}
     /\ live \cup free = FirstId .. (capEdges - 1)
     /\ FirstId <= capEdges /\ capEdges <= slots

\* Lists, slots and ids are consistent with each other under every sequence of
\* insertions and removals (graph.h:114-169).
IInv == TypeOK /\ EndsSound /\ SlotsPoint /\ ListsExact /\ IdsSound

\* The id of the edge between two vertices, or -1.
IdOf(a, b) ==
  LET q == IF a < b THEN <<a, b>> ELSE <<b, a>>
  IN IF q \in Pairs THEN Find(q) ELSE -1

\* common_neighbors meets every triangle on an edge once, with the ids of the
\* two other edges.
TrianglesFound ==
  \A p \in {q \in Pairs : Has(q)} :
    LET found == CommonNeighbors(p[1], p[2])
        third == {w \in Vertices \ {p[1], p[2]} : IdOf(p[1], w) >= 0 /\ IdOf(p[2], w) >= 0}
    IN /\ IsInjective(found)
       /\ ToSet(found) = {<<w, IdOf(p[1], w), IdOf(p[2], w)>> : w \in third}

\* Every search in the hash table ends, although removals free no slot and are not
\* accounted for; and no key stands in it twice.
TableSound == Hash!TableSound

\* The table is a map: an insertion, with or without rehash, and a deletion
\* change what find returns for their own key and for no other.
Map == INSTANCE EdgeMap WITH Key <- Keys, Value <- Ids, map <- Hash!Contents

MapSpec == Map!Spec
=============================================================================
