--------------------------- MODULE StaticTrussProofs ---------------------------
(***************************************************************************)
(* static_truss, for every graph: the parallel count of the supports with  *)
(* its stamp sets (Supports), the bucket sweep (BucketPeel), and that the  *)
(* sweep starts from what the count has left.                              *)
(*                                                                         *)
(* The count: every edge is written once and keeps its support, and the    *)
(* count implements the parallel loop over the vertices.  The sweep gives  *)
(* every edge its trussness; the argument is a sandwich: while the sweep   *)
(* is at level s, the edges that are left contain the (s+3)-truss and are  *)
(* contained in the (s+2)-truss.                                           *)
(***************************************************************************)
EXTENDS Supports, BucketPeel, TrussProofs

(* A StampSet answers exactly what was marked since it was last emptied,   *)
(* however often the epoch, of any width, has wrapped.                     *)

\* A fresh set is sound: its stamps are 0 and its epoch is not.
LEMMA FreshSound == StampsBehind(Fresh) /\ Holds(Fresh, {})
  BY StampAssumption DEF StampsBehind, Holds, Test, Fresh, Unmarked

\* next_epoch empties the set: no stamp is ahead of the old epoch, so none is the
\* new one; when the epoch wraps to 1, the refilled stamps are behind it.
THEOREM NextEpochEmpties ==
  ASSUME NEW set, StampsBehind(set)
  PROVE  StampsBehind(NextEpoch(set)) /\ Holds(NextEpoch(set), {})
<1>1. CASE (set.e + 1) % Modulus = 0
  BY <1>1, FreshSound DEF NextEpoch
<1>2. CASE (set.e + 1) % Modulus # 0
  <2>1. NextEpoch(set) = [s |-> set.s, e |-> set.e + 1]
    BY <1>2 DEF NextEpoch
  <2>2. set.e + 1 # Modulus
    <3>1. SUFFICES ASSUME set.e + 1 = Modulus PROVE FALSE
      OBVIOUS
    <3>2. Modulus % Modulus = 0
      BY StampAssumption, SMT
    <3> QED BY <3>1, <3>2, <1>2
  <2>3. NextEpoch(set).e \in 1 .. (Modulus - 1)
    BY <2>1, <2>2, StampAssumption DEF StampsBehind
  <2>4. \A v \in Vertices : set.s[v] \in 0 .. set.e /\ set.s[v] # set.e + 1
    BY DEF StampsBehind
  <2>5. NextEpoch(set).s \in [Vertices -> 0 .. NextEpoch(set).e]
    BY <2>1 DEF StampsBehind
  <2> QED BY <2>1, <2>3, <2>4, <2>5 DEF StampsBehind, Holds, Test
<1> QED BY <1>1, <1>2

\* mark adds what is marked, and nothing else.
LEMMA MarkAllAdds ==
  ASSUME NEW set, StampsBehind(set), NEW W, Holds(set, W), NEW V \in SUBSET Vertices
  PROVE  StampsBehind(MarkAll(set, V)) /\ Holds(MarkAll(set, V), W \cup V)
  BY DEF MarkAll, StampsBehind, Holds, Test

\* What a triangle listing does first: afterwards the set is exactly what it marked.
THEOREM MarkedExactly ==
  ASSUME NEW set, StampsBehind(set), NEW V \in SUBSET Vertices
  PROVE  /\ StampsBehind(MarkAll(NextEpoch(set), V))
         /\ Holds(MarkAll(NextEpoch(set), V), V)
<1>1. StampsBehind(NextEpoch(set)) /\ Holds(NextEpoch(set), {})
  BY NextEpochEmpties
<1>2. {} \cup V = V
  OBVIOUS
<1> QED BY <1>1, <1>2, MarkAllAdds

(* Facts about the data *)

LEMMA CallerIsThread == Caller \in Threads
  BY SupportsAssumption, StampAssumption DEF Caller, Threads

\* A graph is a set of pairs of vertices; common neighbours can be counted.
LEMMA GraphFacts ==
  ASSUME TypeOK
  PROVE  /\ \A e \in graph : e[1] \in Vertices /\ e[2] \in Vertices
         /\ \A S \in SUBSET Vertices : Cardinality(S) \in Nat
<1>1. graph \subseteq Vertices \X Vertices
  BY SupportsAssumption, StampAssumption DEF TypeOK, Edges
<1>2. IsFiniteSet(Vertices)
  BY SupportsAssumption, StampAssumption, FS_Interval DEF Vertices
<1>3. \A S \in SUBSET Vertices : Cardinality(S) \in Nat
  BY <1>2, FS_Subset, FS_CardinalityType
<1> QED BY <1>1, <1>3

LEMMA InitInv == Init => IInv
<1> SUFFICES ASSUME Init PROVE IInv
  OBVIOUS
<1>1. TypeOK
  BY SupportsAssumption, StampAssumption, FreshSound, CallerIsThread
  DEF Init, TypeOK, Labels, Vertices
<1>2. IdleInv /\ CountInv /\ DrawnInv /\ LeftInv /\ RanInv /\ SupportsExact
  BY CallerIsThread
  DEF Init, IdleInv, CountInv, DrawnInv, LeftInv, RanInv, SupportsExact, Owned
<1> QED BY <1>1, <1>2 DEF IInv

(* The steps *)

LEMMA CallKeeps ==
  ASSUME IInv, NEW G \in Graphs, Call(G)
  PROVE  IInv'
<1> USE DEF IInv
<1>1. /\ \A t \in Threads : pc[t] = "idle" /\ todo[t] = {}
      /\ \A t \in Threads : pc'[t] = IF t = Caller THEN "spawn" ELSE "idle"
  BY CallerIsThread DEF Call, IdleInv, CountInv, TypeOK
<1>2. TypeOK'
  <2>1. graph' \in {{}} \cup Graphs /\ calls' \in Nat /\ job' \in Nat
    BY DEF Call, TypeOK
  <2>2. pc' \in [Threads -> Labels]
    BY DEF Call, TypeOK, Labels
  <2>3. todo' \in [Threads -> SUBSET graph']
    <3>1. todo' = [t \in Threads |-> {}]
      BY <1>1 DEF Call, TypeOK
    <3> QED BY <3>1
  <2>4. sup' \in [graph' -> Nat] /\ ran' \in [DOMAIN ran' -> Nat]
    BY DEF Call
  <2>5. UNCHANGED <<st, u>>
    BY DEF Call
  <2> QED BY <2>1, <2>2, <2>3, <2>4, <2>5 DEF TypeOK
<1>3. IdleInv' /\ LeftInv' /\ SupportsExact'
  BY <1>1, CallerIsThread DEF IdleInv, LeftInv, SupportsExact
<1>4. CountInv'
  BY <1>1 DEF Call, CountInv
<1>5. DrawnInv'
  <2>1. \A e \in G : e[1] \in Vertices
    BY SupportsAssumption, StampAssumption DEF Edges
  <2>2. graph' = G /\ job' = 0
    BY DEF Call
  <2> QED BY <2>1, <2>2 DEF DrawnInv, Vertices
<1>6. RanInv'
  BY <1>1, CallerIsThread DEF Call, RanInv, TypeOK, Vertices
<1> QED BY <1>2, <1>3, <1>4, <1>5, <1>6

\* The caller's own steps move labels only.
LEMMA CallerKeeps ==
  ASSUME IInv, CallerStep
  PROVE  IInv'
<1> USE DEF IInv
<1>1. CASE \E t \in Threads : Spawn(t)
  <2>1. PICK t \in Threads : Spawn(t)
    BY <1>1
  <2>2. t # Caller
    BY <2>1 DEF Spawn
  <2>3. pc' = [pc EXCEPT ![t] = "draw"] /\ pc[t] = "idle" /\ pc'[Caller] = "spawn"
    BY <2>1, <2>2, CallerIsThread DEF Spawn, TypeOK
  <2>4. UNCHANGED <<graph, calls, job, st, u, todo, sup, ran>>
    BY <2>1 DEF Spawn
  <2>5. TypeOK' /\ IdleInv' /\ SupportsExact'
    BY <2>3, <2>4 DEF TypeOK, IdleInv, SupportsExact, Labels
  <2>6. CountInv' /\ LeftInv'
    BY <2>3, <2>4 DEF TypeOK, CountInv, LeftInv
  <2>7. DrawnInv'
    BY <2>4 DEF DrawnInv, Support
  <2>8. RanInv'
    <3>1. \A s \in Threads : pc'[s] = "count" <=> pc[s] = "count"
      BY <2>3 DEF TypeOK
    <3>2. pc[Caller] # "idle"
      BY <2>1 DEF Spawn
    <3> QED BY <2>3, <2>4, <3>1, <3>2 DEF RanInv
  <2> QED BY <2>5, <2>6, <2>7, <2>8
<1>2. CASE StartsWork
  <2>1. pc' = [pc EXCEPT ![Caller] = "draw"] /\ pc[Caller] = "spawn" /\ pc'[Caller] = "draw"
    BY <1>2, CallerIsThread DEF StartsWork, TypeOK
  <2>2. UNCHANGED <<graph, calls, job, st, u, todo, sup, ran>>
    BY <1>2 DEF StartsWork
  <2>3. TypeOK' /\ IdleInv' /\ SupportsExact'
    BY <2>1, <2>2 DEF TypeOK, IdleInv, SupportsExact, Labels
  <2>4. CountInv' /\ LeftInv'
    BY <2>1, <2>2 DEF TypeOK, CountInv, LeftInv
  <2>5. DrawnInv'
    BY <2>2 DEF DrawnInv, Support
  <2>6. RanInv'
    <3>1. \A s \in Threads : pc'[s] = "count" <=> pc[s] = "count"
      BY <2>1 DEF TypeOK
    <3> QED BY <2>1, <2>2, <3>1 DEF RanInv
  <2> QED BY <2>3, <2>4, <2>5, <2>6
<1>3. CASE Join
  <2>1. /\ \A t \in Threads : pc[t] = "left" /\ pc'[t] = "idle"
        /\ UNCHANGED <<graph, calls, job, st, u, todo, sup, ran>>
    BY <1>3 DEF Join
  <2>2. TypeOK'
    BY <1>3, <2>1 DEF Join, TypeOK, Labels
  <2>3. IdleInv' /\ LeftInv'
    BY <2>1 DEF IdleInv, LeftInv
  <2>4. CountInv'
    BY <2>1 DEF CountInv
  <2>5. DrawnInv'
    BY <2>1 DEF DrawnInv, Support
  <2>6. SupportsExact'
    <3>1. job >= n /\ \A t \in Threads : todo[t] = {}
      BY <2>1, CallerIsThread DEF LeftInv, CountInv
    <3>2. \A e \in graph : e[1] < job
      BY <3>1, GraphFacts, SupportsAssumption, StampAssumption DEF Vertices, TypeOK
    <3>3. \A e \in graph : sup[e] = Support(e)
      BY <3>1, <3>2 DEF DrawnInv
    <3> QED BY <2>1, <3>3 DEF SupportsExact, Support
  <2>7. RanInv'
    BY <2>1, CallerIsThread DEF RanInv
  <2> QED BY <2>2, <2>3, <2>4, <2>5, <2>6, <2>7
<1> QED BY <1>1, <1>2, <1>3 DEF CallerStep

\* A thread that works is inside a call.
LEMMA Working ==
  ASSUME IInv, NEW t \in Threads, pc[t] # "idle"
  PROVE  pc[Caller] # "idle" /\ calls # 0
  BY DEF IInv, IdleInv, RanInv

LEMMA LeaveKeeps ==
  ASSUME IInv, NEW t \in Threads, Leave(t)
  PROVE  IInv'
<1> USE DEF IInv
<1>1. /\ pc' = [pc EXCEPT ![t] = "left"] /\ pc[t] = "draw"
      /\ job >= n /\ job' = job + 1
      /\ UNCHANGED <<graph, calls, st, u, todo, sup, ran>>
  BY DEF Leave
<1>2. pc[Caller] # "idle" /\ pc'[Caller] # "idle"
  BY <1>1, Working DEF TypeOK
<1>3. \A s \in Threads : pc'[s] = "count" <=> pc[s] = "count"
  BY <1>1 DEF TypeOK
<1>4. job \in Nat /\ n \in Nat
  BY SupportsAssumption, StampAssumption DEF TypeOK
<1>5. TypeOK' /\ IdleInv' /\ SupportsExact'
  BY <1>1, <1>2, <1>4 DEF TypeOK, IdleInv, SupportsExact, Labels
<1>6. CountInv'
  BY <1>1, <1>3, <1>4 DEF TypeOK, CountInv, Vertices
<1>7. LeftInv'
  BY <1>1, <1>4 DEF TypeOK, LeftInv
<1>8. DrawnInv'
  <2>1. \A e \in graph : e[1] < job
    BY <1>1, <1>4, GraphFacts DEF Vertices
  <2> QED BY <1>1, <2>1 DEF DrawnInv, Support
<1>9. RanInv'
  <2>1. \A i \in Vertices : i < job /\ i < job'
    BY <1>1, <1>4 DEF Vertices
  <2> QED BY <1>1, <1>2, <1>3, <2>1, Working DEF RanInv
<1> QED BY <1>5, <1>6, <1>7, <1>8, <1>9

LEMMA DrawIsolatedKeeps ==
  ASSUME IInv, NEW t \in Threads, DrawIsolated(t)
  PROVE  IInv'
<1> USE DEF IInv
<1>1. /\ pc[t] = "draw" /\ job < n /\ Neighbours(graph, job) = {}
      /\ job' = job + 1 /\ ran' = [ran EXCEPT ![job] = @ + 1]
      /\ UNCHANGED <<graph, calls, pc, st, u, todo, sup>>
  BY DEF DrawIsolated
<1>2. pc[Caller] # "idle" /\ calls # 0
  BY <1>1, Working
<1>3. job \in Vertices /\ job \in Nat /\ n \in Nat
  BY <1>1, SupportsAssumption, StampAssumption DEF TypeOK, Vertices
<1>4. ran \in [Vertices -> Nat] /\ ran[job] = 0
  BY <1>2, <1>3 DEF RanInv
<1>5. TypeOK' /\ IdleInv' /\ SupportsExact'
  BY <1>1, <1>2, <1>3, <1>4 DEF TypeOK, IdleInv, SupportsExact
<1>6. CountInv'
  BY <1>1, <1>3 DEF TypeOK, CountInv, Vertices
<1>7. LeftInv'
  BY <1>1, <1>3 DEF TypeOK, LeftInv
<1>8. DrawnInv'
  <2>1. ASSUME NEW e \in graph, e[1] < job' PROVE e[1] < job
    <3>1. e[1] # job
      <4>1. e = <<e[1], e[2]>> /\ e[2] \in Vertices
        BY SupportsAssumption, StampAssumption DEF TypeOK, Edges
      <4> QED BY <1>1, <4>1 DEF Neighbours
    <3> QED BY <1>1, <1>3, <2>1, <3>1, GraphFacts DEF Vertices
  <2> QED BY <1>1, <2>1 DEF DrawnInv, Support
<1>9. RanInv'
  <2>1. ASSUME NEW i \in Vertices
        PROVE  ran'[i] = IF i < job' /\ (\A s \in Threads : pc'[s] = "count" => u'[s] # i)
                         THEN 1 ELSE 0
    <3>1. CASE i = job
      <4>1. \A s \in Threads : pc[s] = "count" => u[s] # i
        BY <3>1, <1>3 DEF CountInv, TypeOK, Vertices
      <4> QED BY <1>1, <1>3, <1>4, <3>1, <4>1
    <3>2. CASE i # job
      <4>1. ran'[i] = ran[i] /\ (i < job' <=> i < job)
        BY <1>1, <1>3, <1>4, <3>2 DEF Vertices
      <4> QED BY <1>1, <1>2, <4>1 DEF RanInv
    <3> QED BY <3>1, <3>2
  <2>2. ran' \in [Vertices -> Nat]
    BY <1>1, <1>3, <1>4
  <2> QED BY <1>1, <1>2, <2>1, <2>2 DEF RanInv
<1> QED BY <1>5, <1>6, <1>7, <1>8, <1>9

LEMMA DrawKeeps ==
  ASSUME IInv, NEW t \in Threads, Draw(t)
  PROVE  IInv'
<1> USE DEF IInv
<1>1. /\ pc[t] = "draw" /\ job < n
      /\ job' = job + 1 /\ pc' = [pc EXCEPT ![t] = "count"]
      /\ u' = [u EXCEPT ![t] = job]
      /\ st' = [st EXCEPT ![t] = MarkAll(NextEpoch(@), Neighbours(graph, job))]
      /\ todo' = [todo EXCEPT ![t] = Owned(graph, job)]
      /\ UNCHANGED <<graph, calls, sup, ran>>
  BY DEF Draw
<1>2. pc[Caller] # "idle" /\ calls # 0 /\ pc'[Caller] # "idle"
  BY <1>1, Working DEF TypeOK
<1>3. job \in Vertices /\ job \in Nat /\ n \in Nat
  BY <1>1, SupportsAssumption, StampAssumption DEF TypeOK, Vertices
<1>4. /\ pc'[t] = "count" /\ u'[t] = job
      /\ st'[t] = MarkAll(NextEpoch(st[t]), Neighbours(graph, job))
      /\ todo'[t] = Owned(graph, job)
      /\ \A s \in Threads \ {t} : /\ pc'[s] = pc[s] /\ u'[s] = u[s]
                                  /\ st'[s] = st[s] /\ todo'[s] = todo[s]
  BY <1>1 DEF TypeOK
<1>5. \A s \in Threads : pc[s] = "count" => u[s] < job /\ u[s] # job
  BY <1>3 DEF CountInv, TypeOK, Vertices
<1>st. StampsBehind(st'[t]) /\ Holds(st'[t], Neighbours(graph, job))
  <2>1. Neighbours(graph, job) \in SUBSET Vertices
    BY DEF Neighbours
  <2> QED BY <1>4, <2>1, MarkedExactly DEF TypeOK
<1>6. TypeOK'
  <2>1. st' = [s \in Threads |-> st'[s]] /\ \A s \in Threads : StampsBehind(st'[s])
    BY <1>1, <1>4, <1>st DEF TypeOK
  <2> QED BY <1>1, <1>3, <2>1 DEF TypeOK, Labels, Owned
<1>7. IdleInv' /\ SupportsExact'
  BY <1>2 DEF IdleInv, SupportsExact
<1>8. CountInv'
  <2>1. \A s \in Threads : pc'[s] = "count" => u'[s] < job'
    BY <1>1, <1>3, <1>4, <1>5 DEF TypeOK, Vertices
  <2>2. \A s \in Threads : pc'[s] = "count" => Holds(st'[s], Neighbours(graph', u'[s]))
    BY <1>1, <1>4, <1>st DEF CountInv
  <2>3. \A s \in Threads : /\ pc'[s] # "count" => todo'[s] = {}
                           /\ todo'[s] \subseteq Owned(graph', u'[s])
    BY <1>1, <1>4 DEF CountInv
  <2>4. \A r, s \in Threads : r # s /\ pc'[r] = "count" /\ pc'[s] = "count" => u'[r] # u'[s]
    BY <1>4, <1>5 DEF CountInv
  <2> QED BY <2>1, <2>2, <2>3, <2>4 DEF CountInv
<1>9. LeftInv'
  BY <1>1, <1>3, <1>4 DEF LeftInv
<1>10. DrawnInv'
  <2>1. ASSUME NEW e \in graph, e[1] < job'
        PROVE  sup[e] = Support(e) \/ \E s \in Threads : e \in todo'[s]
    <3>1. CASE e[1] = job
      BY <1>4, <3>1 DEF Owned
    <3>2. CASE e[1] # job
      <4>1. e[1] < job
        BY <1>1, <1>3, <2>1, <3>2, GraphFacts DEF Vertices
      <4>2. \A s \in Threads : e \in todo[s] => s # t
        BY <1>1 DEF CountInv
      <4> QED BY <1>4, <4>1, <4>2 DEF DrawnInv
    <3> QED BY <3>1, <3>2
  <2> QED BY <1>1, <2>1 DEF DrawnInv, Support
<1>11. RanInv'
  <2>1. ASSUME NEW i \in Vertices
        PROVE  ran[i] = IF i < job' /\ (\A s \in Threads : pc'[s] = "count" => u'[s] # i)
                        THEN 1 ELSE 0
    <3>1. CASE i = job
      BY <1>2, <1>3, <1>4, <3>1 DEF RanInv
    <3>2. CASE i # job
      <4>1. i < job' <=> i < job
        BY <1>1, <1>3, <3>2 DEF Vertices
      <4>2. (\A s \in Threads : pc'[s] = "count" => u'[s] # i)
              <=> (\A s \in Threads : pc[s] = "count" => u[s] # i)
        BY <1>1, <1>4, <3>2
      <4> QED BY <1>2, <4>1, <4>2 DEF RanInv
    <3> QED BY <3>1, <3>2
  <2> QED BY <1>1, <1>2, <2>1 DEF RanInv
<1> QED BY <1>6, <1>7, <1>8, <1>9, <1>10, <1>11

\* The thread writes the support: its marks are the neighbours of the smaller
\* end, whose edges are the only ones on its list.
LEMMA CountKeeps ==
  ASSUME IInv, NEW t \in Threads, Count(t)
  PROVE  IInv'
<1> USE DEF IInv
<1>1. PICK e \in todo[t] :
        /\ sup' = [sup EXCEPT ![e] = Cardinality({x \in Neighbours(graph, e[2]) : Test(st[t], x)})]
        /\ todo' = [todo EXCEPT ![t] = @ \ {e}]
  BY DEF Count
<1>2. pc[t] = "count" /\ UNCHANGED <<graph, calls, pc, job, st, u, ran>>
  BY DEF Count
<1>3. pc[Caller] # "idle"
  BY <1>2, Working
<1>4. e \in graph /\ e[1] = u[t] /\ Holds(st[t], Neighbours(graph, e[1]))
  BY <1>1, <1>2 DEF CountInv, Owned, TypeOK
<1>5. sup'[e] = Support(e)
  <2>1. {x \in Neighbours(graph, e[2]) : Test(st[t], x)}
          = Neighbours(graph, e[1]) \cap Neighbours(graph, e[2])
    BY <1>4 DEF Holds, Neighbours
  <2> QED BY <1>1, <1>4, <2>1 DEF Support, TypeOK
<1>6. /\ \A f \in graph \ {e} : sup'[f] = sup[f]
      /\ \A s \in Threads \ {t} : todo'[s] = todo[s]
      /\ todo'[t] = todo[t] \ {e}
  BY <1>1 DEF TypeOK
<1>7. TypeOK'
  <2>1. Cardinality({x \in Neighbours(graph, e[2]) : Test(st[t], x)}) \in Nat
    BY GraphFacts DEF Neighbours
  <2> QED BY <1>1, <1>2, <2>1 DEF TypeOK
<1>8. IdleInv' /\ SupportsExact' /\ LeftInv' /\ RanInv'
  BY <1>2, <1>3 DEF IdleInv, SupportsExact, LeftInv, RanInv
<1>9. CountInv'
  BY <1>2, <1>6 DEF CountInv
<1>10. DrawnInv'
  <2>1. ASSUME NEW f \in graph, f[1] < job
        PROVE  sup'[f] = Support(f) \/ \E s \in Threads : f \in todo'[s]
    BY <1>5, <1>6, <2>1 DEF DrawnInv
  <2> QED BY <1>2, <2>1 DEF DrawnInv, Support
<1> QED BY <1>7, <1>8, <1>9, <1>10

LEMMA VertexDoneKeeps ==
  ASSUME IInv, NEW t \in Threads, VertexDone(t)
  PROVE  IInv' /\ u[t] \in Vertices /\ ran[u[t]] = 0 /\ ran \in [Vertices -> Nat]
<1> USE DEF IInv
<1>1. /\ pc[t] = "count" /\ todo[t] = {}
      /\ pc' = [pc EXCEPT ![t] = "draw"]
      /\ ran' = [ran EXCEPT ![u[t]] = @ + 1]
      /\ UNCHANGED <<graph, calls, job, st, u, todo, sup>>
  BY DEF VertexDone
<1>2. pc[Caller] # "idle" /\ calls # 0 /\ pc'[Caller] # "idle"
  BY <1>1, Working DEF TypeOK
<1>3. u[t] \in Vertices /\ u[t] < job
  BY <1>1 DEF TypeOK, CountInv
<1>4. ran \in [Vertices -> Nat] /\ ran[u[t]] = 0
  BY <1>1, <1>2, <1>3 DEF RanInv
<1>5. \A s \in Threads : pc'[s] = "count" <=> s # t /\ pc[s] = "count"
  BY <1>1 DEF TypeOK
<1>6. TypeOK' /\ IdleInv' /\ SupportsExact'
  BY <1>1, <1>2, <1>3, <1>4 DEF TypeOK, IdleInv, SupportsExact, Labels
<1>7. CountInv'
  BY <1>1, <1>5 DEF CountInv
<1>8. LeftInv'
  BY <1>1 DEF TypeOK, LeftInv
<1>9. DrawnInv'
  BY <1>1 DEF DrawnInv, Support
<1>10. RanInv'
  <2>1. ASSUME NEW i \in Vertices
        PROVE  ran'[i] = IF i < job /\ (\A s \in Threads : pc'[s] = "count" => u[s] # i)
                         THEN 1 ELSE 0
    <3>1. CASE i = u[t]
      <4>1. \A s \in Threads : pc'[s] = "count" => u[s] # i
        BY <1>1, <1>5, <3>1 DEF CountInv
      <4> QED BY <1>1, <1>3, <1>4, <3>1, <4>1
    <3>2. CASE i # u[t]
      <4>1. ran'[i] = ran[i]
        BY <1>1, <1>4, <3>2
      <4>2. (\A s \in Threads : pc'[s] = "count" => u[s] # i)
              <=> (\A s \in Threads : pc[s] = "count" => u[s] # i)
        BY <1>5, <3>2
      <4> QED BY <1>2, <4>1, <4>2 DEF RanInv
    <3> QED BY <3>1, <3>2
  <2>2. ran' \in [Vertices -> Nat]
    BY <1>1, <1>3, <1>4
  <2> QED BY <1>1, <1>2, <2>1, <2>2 DEF RanInv
<1> QED BY <1>3, <1>4, <1>6, <1>7, <1>8, <1>9, <1>10

LEMMA StepInv == IInv /\ [Next]_vars => IInv'
<1> SUFFICES ASSUME IInv, [Next]_vars PROVE IInv'
  OBVIOUS
<1>1. CASE \E G \in Graphs : Call(G)
  BY <1>1, CallKeeps
<1>2. CASE CallerStep
  BY <1>2, CallerKeeps
<1>3. ASSUME NEW t \in Threads, Work(t) PROVE IInv'
  BY <1>3, LeaveKeeps, DrawIsolatedKeeps, DrawKeeps, CountKeeps, VertexDoneKeeps DEF Work
<1>4. CASE Terminated \/ UNCHANGED vars
  <2>1. UNCHANGED <<graph, calls, pc, job, st, u, todo, sup, ran>>
    BY <1>4 DEF Terminated, vars
  <2>2. TypeOK' /\ IdleInv' /\ LeftInv'
    BY <2>1 DEF IInv, TypeOK, IdleInv, LeftInv
  <2>3. CountInv'
    BY <2>1 DEF IInv, CountInv
  <2>4. DrawnInv' /\ SupportsExact'
    BY <2>1 DEF IInv, DrawnInv, SupportsExact, Support
  <2>5. RanInv'
    BY <2>1 DEF IInv, RanInv
  <2> QED BY <2>2, <2>3, <2>4, <2>5 DEF IInv
<1> QED BY <1>1, <1>2, <1>3, <1>4 DEF Next

\* Stamps, lists and drawn vertices agree in every state, however the threads are scheduled.
THEOREM Invariance == Safety => []IInv
  BY InitInv, StepInv, PTL DEF Safety

\* Every call leaves in every edge the number of triangles that edge closes.
THEOREM SupportsCorrect == Safety => []SupportsExact
<1>1. IInv => SupportsExact
  BY DEF IInv
<1> QED BY <1>1, Invariance, PTL

\* No edge is ever due to be written by two threads.
THEOREM SingleWriter == Safety => []OneWriter
<1>1. IInv => OneWriter
  <2> SUFFICES ASSUME IInv PROVE OneWriter
    OBVIOUS
  <2>1. ASSUME NEW s \in Threads, NEW t \in Threads, s # t, NEW e \in todo[s], e \in todo[t]
        PROVE  FALSE
    <3>1. pc[s] = "count" /\ pc[t] = "count"
      BY <2>1 DEF IInv, CountInv
    <3>2. e[1] = u[s] /\ e[1] = u[t]
      BY <2>1 DEF IInv, CountInv, Owned
    <3> QED BY <2>1, <3>1, <3>2 DEF IInv, CountInv
  <2>2. \A t \in Threads : pc[t] = "count" => u[t] < job
    BY DEF IInv, CountInv
  <2> QED BY <2>1, <2>2 DEF OneWriter
<1> QED BY <1>1, Invariance, PTL

(* The parallel loop over the vertices *)

LEMMA StepImplements == IInv /\ [Next]_vars => [Loop!Next]_(Loop!loopVars)
<1> SUFFICES ASSUME IInv, [Next]_vars PROVE [Loop!Next]_(Loop!loopVars)
  OBVIOUS
<1> USE DEF Loop!loopVars
<1>a. TypeOK /\ RanInv
  BY DEF IInv
<1>1. ASSUME NEW G \in Graphs, Call(G) PROVE [Loop!Next]_(Loop!loopVars)
  <2>1. pc[Caller] = "idle" /\ pc'[Caller] # "idle" /\ calls' # 0
    BY <1>1, <1>a, CallerIsThread DEF Call, TypeOK
  <2>2. ran' = [i \in Vertices |-> 0]
    BY <1>1 DEF Call
  <2>3. Loop!Call(n)
    BY <2>1, <2>2 DEF Loop!Call, Loop!Tasks, Vertices
  <2> QED BY <2>3 DEF Loop!Next
<1>2. ASSUME CallerStep PROVE [Loop!Next]_(Loop!loopVars)
  <2>1. ASSUME \E t \in Threads : Spawn(t) PROVE UNCHANGED Loop!loopVars
    BY <2>1, <1>a, CallerIsThread DEF Spawn, TypeOK
  <2>2. ASSUME StartsWork PROVE UNCHANGED Loop!loopVars
    BY <2>2, <1>a, CallerIsThread DEF StartsWork, TypeOK
  <2>3. ASSUME Join PROVE Loop!Return
    <3>1. /\ pc[Caller] # "idle" /\ pc'[Caller] = "idle"
          /\ UNCHANGED <<calls, ran>>
      BY <2>3, CallerIsThread DEF Join
    <3>2. job >= n /\ \A t \in Threads : pc[t] # "count"
      BY <2>3, CallerIsThread DEF Join, IInv, LeftInv
    <3>3. \A i \in Vertices : i < job
      BY <3>2, <1>a, SupportsAssumption, StampAssumption DEF Vertices, TypeOK
    <3>4. \A i \in Vertices : ran[i] = 1
      BY <3>1, <3>2, <3>3, <1>a DEF RanInv
    <3>5. calls # 0
      BY <3>1, <1>a DEF RanInv
    <3> QED BY <3>1, <3>4, <3>5 DEF Loop!Return, Loop!Tasks, Vertices
  <2> QED BY <1>2, <2>1, <2>2, <2>3 DEF CallerStep, Loop!Next
<1>3. ASSUME NEW t \in Threads, Work(t) PROVE [Loop!Next]_(Loop!loopVars)
  <2>1. /\ pc[t] # "idle" /\ (pc'[Caller] = "idle" <=> pc[Caller] = "idle")
        /\ calls' = calls
    BY <1>3, <1>a, CallerIsThread
    DEF Work, Leave, DrawIsolated, Draw, Count, VertexDone, TypeOK
  <2>2. pc[Caller] # "idle" /\ calls # 0
    BY <2>1, Working
  <2>3. ASSUME NEW i \in Vertices, ran[i] = 0, ran \in [Vertices -> Nat],
               ran' = [ran EXCEPT ![i] = @ + 1]
        PROVE  Loop!Next
    <3>1. Loop!Execute(i)
      BY <2>1, <2>2, <2>3 DEF Loop!Execute
    <3>2. i \in Loop!Tasks(n)
      BY DEF Loop!Tasks, Vertices
    <3> QED BY <2>2, <3>1, <3>2 DEF Loop!Next
  <2>4. CASE Leave(t) \/ Draw(t) \/ Count(t)
    BY <2>1, <2>4 DEF Leave, Draw, Count
  <2>5. CASE DrawIsolated(t)
    <3>1. job \in Vertices /\ ran \in [Vertices -> Nat] /\ ran[job] = 0
      BY <2>2, <2>5, <1>a, SupportsAssumption, StampAssumption DEF DrawIsolated, RanInv, TypeOK, Vertices
    <3>2. ran' = [ran EXCEPT ![job] = @ + 1]
      BY <2>5 DEF DrawIsolated
    <3> QED BY <2>3, <3>1, <3>2
  <2>6. CASE VertexDone(t)
    <3>1. ran' = [ran EXCEPT ![u[t]] = @ + 1]
      BY <2>6 DEF VertexDone
    <3> QED BY <2>3, <2>6, <3>1, VertexDoneKeeps
  <2> QED BY <1>3, <2>4, <2>5, <2>6 DEF Work
<1>4. ASSUME Terminated \/ UNCHANGED vars PROVE [Loop!Next]_(Loop!loopVars)
  BY <1>4 DEF Terminated, vars
<1> QED BY <1>1, <1>2, <1>3, <1>4 DEF Next

\* compute_supports implements the parallel loop: every vertex is dealt with
\* exactly once before the call returns, on any number of threads.
THEOREM SupportsImplementsLoop == Safety => LoopSafety
<1>1. Init => Loop!Init
  BY CallerIsThread DEF Init, Loop!Init, Loop!Tasks
<1> QED BY <1>1, Invariance, StepImplements, PTL DEF Safety, LoopSafety, Loop!Safety

-----------------------------------------------------------------------------
(* The bucket sweep *)

(* Facts about the data *)

LEMMA GraphIsSetOfEdges == PeelTypeOK => input \in SUBSET Edge
  BY PeelAssumption DEF PeelTypeOK

\* The levels are the numbers up to the largest support.
LEMMA LevelFacts ==
  ASSUME PeelTypeOK
  PROVE  /\ Levels = SupportLevels(input) /\ Levels \subseteq Nat
         /\ \A s \in Levels : \A r \in Nat : r <= s => r \in Levels
         /\ \A e \in input : Sup(input, e) \in Levels
<1>1. Levels = SupportLevels(input)
  BY DEF PeelTypeOK, Levels
<1>2. \A e \in input : Sup(input, e) \in Nat
  BY GraphIsSetOfEdges, SupMonotone
<1>3. \A s : s \in Levels <=> s = 0 \/ \E e \in input : s \in 0 .. Sup(input, e)
  BY <1>1 DEF SupportLevels
<1> QED BY <1>1, <1>2, <1>3

\* The edges lowered by a peel are left, and are other edges than the peeled one.
LEMMA LoweredFacts ==
  ASSUME PeelTypeOK, NEW e \in alive
  PROVE  /\ Lowered(e) \subseteq alive \ {e}
         /\ \A f \in Lowered(e) : f \in Mates(alive, e) /\ running[f] > level
  BY DEF Lowered, Mates, TrianglesAt

LEMMA PeelInitInv == PeelInit => PeelInv
<1> SUFFICES ASSUME PeelInit PROVE PeelInv
  OBVIOUS
<1>1. input \in SUBSET Edge /\ input \in Inputs /\ alive = input /\ level = 0
  BY PeelAssumption DEF PeelInit
<1>2. \A e \in input : Sup(input, e) \in Nat
  BY <1>1, SupMonotone
<1>3. /\ running = [e \in input |-> Sup(input, e)] /\ tau = [e \in input |-> 0]
      /\ buckets = [s \in SupportLevels(input) |-> {e \in input : Sup(input, e) = s}]
  BY DEF PeelInit
<1>4. PeelTypeOK
  BY <1>1, <1>2, <1>3 DEF PeelTypeOK
<1>5. Pending
  <2>1. ASSUME NEW e \in alive
        PROVE  running[e] >= level /\ running[e] \in Levels /\ e \in buckets[running[e]]
    <3>1. running[e] = Sup(input, e) /\ running[e] \in Levels
      BY <1>1, <1>3, <1>4, LevelFacts
    <3>2. running[e] \in SupportLevels(input)
      BY <3>1, <1>4, LevelFacts
    <3> QED BY <1>1, <1>2, <1>3, <3>1, <3>2
  <2> QED BY <2>1 DEF Pending
<1>6. RunningSupport /\ SupBound /\ PeeledExact
  BY <1>1, <1>2, <1>3 DEF RunningSupport, SupBound, PeeledExact
<1>7. Sandwich
  <2>1. KTruss(input, 3) \subseteq input
    BY <1>1, KTrussFacts
  <2>2. Dense(input, 2)
    BY <1>2 DEF Dense
  <2>3. input \subseteq KTruss(input, 2)
    BY <1>1, <2>2, KTrussFacts
  <2> QED BY <1>1, <2>1, <2>3 DEF Sandwich
<1> QED BY <1>4, <1>5, <1>6, <1>7 DEF PeelInv

(* The steps *)

\* An edge whose running support is the level is outside the next truss: the
\* next truss is left, and within it the edge would close too few triangles.
LEMMA PeeledOutside ==
  ASSUME PeelInv, NEW e \in alive, running[e] = level
  PROVE  e \notin KTruss(input, level + 3)
<1>1. SUFFICES ASSUME e \in KTruss(input, level + 3) PROVE FALSE
  OBVIOUS
<1>2. level \in Nat /\ input \in SUBSET Edge /\ alive \in SUBSET Edge
  BY GraphIsSetOfEdges DEF PeelInv, PeelTypeOK
<1>3. KTruss(input, level + 3) \in SUBSET alive
  BY DEF PeelInv, Sandwich
<1>4. Sup(KTruss(input, level + 3), e) + 2 >= level + 3
  BY <1>1, <1>2, KTrussFacts DEF Dense
<1>5. /\ Sup(KTruss(input, level + 3), e) \in Nat /\ Sup(alive, e) \in Nat
      /\ Sup(KTruss(input, level + 3), e) <= Sup(alive, e)
  BY <1>2, <1>3, SupMonotone
<1>6. Sup(alive, e) <= level
  BY <1>5, <1>2 DEF PeelInv, RunningSupport, PeelTypeOK
<1> QED BY <1>2, <1>4, <1>5, <1>6

LEMMA PeelKeeps ==
  ASSUME PeelInv, NEW e \in input, Peel(e)
  PROVE  PeelInv'
<1> USE DEF PeelInv
<1>1. /\ level \in Levels /\ e \in buckets[level] /\ e \in alive /\ running[e] = level
      /\ tau' = [tau EXCEPT ![e] = (level + 2) % TauModulus]
      /\ alive' = alive \ {e}
      /\ running' = [f \in input |-> IF f \in Lowered(e) THEN running[f] - 1 ELSE running[f]]
      /\ buckets' = [s \in Levels |->
                       (buckets[s] \ (IF s = level THEN {e} ELSE {}))
                         \cup {f \in Lowered(e) : running[f] - 1 = s}]
      /\ input' = input /\ level' = level
  BY DEF Peel
<1>2. /\ level \in Nat /\ input \in SUBSET Edge /\ alive \in SUBSET Edge
      /\ input \in Inputs /\ \A f \in input : running[f] \in Nat
  BY GraphIsSetOfEdges DEF PeelTypeOK
<1>3. Lowered(e) \subseteq alive \ {e} /\ \A f \in Lowered(e) : running[f] > level
  BY <1>1, LoweredFacts
<1>4. \A f \in input : /\ running'[f] = IF f \in Lowered(e) THEN running[f] - 1 ELSE running[f]
                       /\ running'[f] \in Nat /\ running'[f] <= running[f]
  BY <1>1, <1>2, <1>3
<1>5. PeelTypeOK'
  <2>1. alive' \subseteq input' /\ input' \in Inputs /\ level' \in Nat
    BY <1>1, <1>2 DEF PeelTypeOK
  <2>2. running' \in [input' -> Nat]
    BY <1>1, <1>4
  <2>3. tau' \in [input' -> Nat]
    <3>1. (level + 2) % TauModulus \in Nat
      <4>1. TauModulus \in Nat /\ TauModulus > 0
        BY <1>2, PeelAssumption, SupMonotone
      <4> QED BY <4>1, <1>2
    <3> QED BY <1>1, <3>1 DEF PeelTypeOK
  <2>4. buckets' \in [SupportLevels(input') -> SUBSET input']
    <3>1. Levels = SupportLevels(input')
      BY <1>1, LevelFacts
    <3>2. \A s \in Levels : buckets[s] \subseteq input
      BY LevelFacts DEF PeelTypeOK
    <3>3. Lowered(e) \subseteq input
      BY <1>3 DEF PeelTypeOK
    <3> QED BY <1>1, <3>1, <3>2, <3>3
  <2> QED BY <2>1, <2>2, <2>3, <2>4 DEF PeelTypeOK
<1>6. Levels' = Levels
  BY <1>1, <1>5, LevelFacts DEF Levels
<1>7. Pending'
  <2>1. ASSUME NEW f \in alive, f # e
        PROVE  running'[f] >= level /\ running'[f] \in Levels /\ f \in buckets'[running'[f]]
    <3>1. f \in input /\ running[f] >= level /\ running[f] \in Levels /\ f \in buckets[running[f]]
      BY DEF Pending, PeelTypeOK
    <3>2. running'[f] >= level
      BY <1>2, <1>3, <1>4, <3>1
    <3>3. running'[f] \in Levels
      BY <1>4, <3>1, LevelFacts
    <3>4. CASE f \in Lowered(e)
      BY <1>1, <1>4, <3>1, <3>2, <3>3, <3>4
    <3>5. CASE f \notin Lowered(e)
      BY <1>1, <1>4, <2>1, <3>1, <3>2, <3>3, <3>5
    <3> QED BY <3>2, <3>3, <3>4, <3>5
  <2> QED BY <1>1, <1>6, <2>1 DEF Pending
<1>8. RunningSupport'
  <2>1. ASSUME NEW f \in alive, f # e
        PROVE  /\ running'[f] >= Sup(alive \ {e}, f)
               /\ running'[f] > level => running'[f] = Sup(alive \ {e}, f)
    <3>1. Sup(alive \ {e}, f) = IF f \in Mates(alive, e) THEN Sup(alive, f) - 1 ELSE Sup(alive, f)
      BY <1>1, <1>2, <2>1, SupWithout
    <3>2. f \in Lowered(e) <=> f \in Mates(alive, e) /\ running[f] > level
      BY DEF Lowered
    <3>3. f \in input /\ Sup(alive, f) \in Nat
      BY <1>2, SupMonotone DEF PeelTypeOK
    <3>4. running[f] >= Sup(alive, f) /\ (running[f] > level => running[f] = Sup(alive, f))
      BY DEF RunningSupport
    <3> QED BY <1>2, <1>4, <3>1, <3>2, <3>3, <3>4
  <2> QED BY <1>1, <2>1 DEF RunningSupport
<1>9. SupBound'
  <2>1. \A f \in input : Sup(input, f) \in Nat
    BY <1>2, SupMonotone
  <2> QED BY <1>1, <1>2, <1>4, <2>1 DEF SupBound
<1>10. Sandwich'
  BY <1>1, PeeledOutside DEF Sandwich
<1>11. PeeledExact'
  <2>1. Sup(input, e) \in Nat /\ level <= Sup(input, e)
    BY <1>1, <1>2, SupMonotone DEF SupBound
  <2>2. IsTrussness(input, e, level + 2)
    <3>1. e \in KTruss(input, level + 2)
      BY <1>1 DEF Sandwich
    <3>2. (level + 2) + 1 = level + 3
      BY <1>2
    <3> QED BY <1>1, <3>1, <3>2, PeeledOutside DEF IsTrussness
  <2>3. Trussness[input][e] = level + 2
    <3>1. level + 2 \in 2 .. Sup(input, e) + 2
      BY <1>2, <2>1
    <3> QED BY <1>2, <2>2, <3>1, TrussnessUnique
  <2>4. tau'[e] = level + 2
    <3>1. TauModulus \in Nat /\ level + 2 < TauModulus
      BY <1>2, <2>1, PeelAssumption
    <3>2. (level + 2) % TauModulus = level + 2
      BY <1>2, <3>1
    <3> QED BY <1>1, <3>2 DEF PeelTypeOK
  <2>5. \A f \in input \ {e} : tau'[f] = tau[f]
    BY <1>1 DEF PeelTypeOK
  <2> QED BY <1>1, <2>3, <2>4, <2>5 DEF PeeledExact
<1> QED BY <1>5, <1>7, <1>8, <1>9, <1>10, <1>11

\* A stale entry is no edge's pending entry.
LEMMA SkipKeeps ==
  ASSUME PeelInv, NEW e \in input, Skip(e)
  PROVE  PeelInv'
<1> USE DEF PeelInv
<1>1. /\ level \in Levels /\ (e \notin alive \/ running[e] # level)
      /\ buckets' = [buckets EXCEPT ![level] = @ \ {e}]
      /\ UNCHANGED <<input, alive, running, tau, level>>
  BY DEF Skip
<1>2. PeelTypeOK' /\ Levels' = Levels
  BY <1>1 DEF PeelTypeOK, Levels
<1>3. Pending'
  <2>1. ASSUME NEW f \in alive PROVE f \in buckets'[running[f]]
    <3>1. f \in buckets[running[f]] /\ running[f] \in Levels
      BY DEF Pending
    <3>2. CASE f = e
      BY <1>1, <3>1, <3>2 DEF Levels
    <3>3. CASE f # e
      BY <1>1, <3>1, <3>3 DEF Levels
    <3> QED BY <3>2, <3>3
  <2> QED BY <1>1, <1>2, <2>1 DEF Pending
<1>4. RunningSupport' /\ SupBound' /\ Sandwich' /\ PeeledExact'
  BY <1>1 DEF RunningSupport, SupBound, Sandwich, PeeledExact
<1> QED BY <1>2, <1>3, <1>4

\* When a bucket is empty, what is left is dense enough for the next truss.
LEMMA NextLevelKeeps ==
  ASSUME PeelInv, NextLevel
  PROVE  PeelInv'
<1> USE DEF PeelInv
<1>1. /\ level \in Levels /\ buckets[level] = {} /\ level' = level + 1
      /\ UNCHANGED <<input, alive, running, tau, buckets>>
  BY DEF NextLevel
<1>2. /\ level \in Nat /\ input \in SUBSET Edge /\ alive \in SUBSET input
      /\ \A e \in alive : running[e] \in Nat
  BY GraphIsSetOfEdges DEF PeelTypeOK
<1>3. \A e \in alive : running[e] > level /\ running[e] = Sup(alive, e)
  <2>1. ASSUME NEW e \in alive PROVE running[e] > level
    <3>1. running[e] >= level /\ running[e] # level
      BY <1>1 DEF Pending
    <3> QED BY <1>2, <3>1
  <2> QED BY <2>1 DEF RunningSupport
<1>4. PeelTypeOK' /\ Levels' = Levels
  BY <1>1, <1>2 DEF PeelTypeOK, Levels
<1>5. Pending'
  BY <1>1, <1>2, <1>3, <1>4 DEF Pending
<1>6. RunningSupport'
  BY <1>1, <1>2, <1>3 DEF RunningSupport
<1>7. SupBound' /\ PeeledExact'
  BY <1>1 DEF SupBound, PeeledExact
<1>8. Sandwich'
  <2>1. KTruss(input, level + 4) \subseteq KTruss(input, level + 3)
    BY <1>2, KTrussNested
  <2>2. Dense(alive, level + 3)
    BY <1>2, <1>3 DEF Dense
  <2>3. alive \subseteq KTruss(input, level + 3)
    BY <1>2, <2>2, KTrussFacts
  <2>4. (level + 1) + 3 = level + 4 /\ (level + 1) + 2 = level + 3
    BY <1>2
  <2> QED BY <1>1, <2>1, <2>3, <2>4 DEF Sandwich
<1> QED BY <1>4, <1>5, <1>6, <1>7, <1>8

LEMMA PeelStepInv == PeelInv /\ [PeelNext]_peelVars => PeelInv'
<1> SUFFICES ASSUME PeelInv, [PeelNext]_peelVars PROVE PeelInv'
  OBVIOUS
<1>1. ASSUME NEW e \in input, Peel(e) \/ Skip(e) PROVE PeelInv'
  BY <1>1, PeelKeeps, SkipKeeps
<1>2. CASE NextLevel
  BY <1>2, NextLevelKeeps
<1>3. CASE PeelTerminated \/ UNCHANGED peelVars
  BY <1>3 DEF PeelTerminated, peelVars, PeelInv, PeelTypeOK, Pending, RunningSupport, SupBound, Sandwich,
              PeeledExact, Levels
<1> QED BY <1>1, <1>2, <1>3 DEF PeelNext, PeelStep

\* The sandwich and the bookkeeping of the sweep hold in every state, for every graph.
THEOREM PeelInvariance == PeelSafety => []PeelInv
  BY PeelInitInv, PeelStepInv, PTL DEF PeelSafety

\* The state of the sweep keeps its types: no level and no 16-bit value overflows.
THEOREM PeelTypes == PeelSafety => []PeelTypeOK
<1>1. PeelInv => PeelTypeOK
  BY DEF PeelInv
<1> QED BY <1>1, PeelInvariance, PTL

\* No edge is lost among stale entries, and its running support is what it closes.
THEOREM PeelBookkeeping == PeelSafety => [](Pending /\ RunningSupport)
<1>1. PeelInv => Pending /\ RunningSupport
  BY DEF PeelInv
<1> QED BY <1>1, PeelInvariance, PTL

\* What is peeled has its trussness from that moment on.
THEOREM PeelExact == PeelSafety => []PeeledExact
<1>1. PeelInv => PeeledExact
  BY DEF PeelInv
<1> QED BY <1>1, PeelInvariance, PTL

\* When the sweep of static_truss returns, every edge of every graph has its
\* trussness.
THEOREM StaticTrussCorrect == PeelSafety => []ResultExact
<1>1. PeelInv => ResultExact
  <2> SUFFICES ASSUME PeelInv, Returned PROVE alive = {} /\ tau = Trussness[input]
    BY DEF ResultExact
  <2>1. PeelTypeOK /\ Pending /\ PeeledExact
    BY DEF PeelInv
  <2>2. alive = {}
    <3> SUFFICES ASSUME NEW e \in alive PROVE FALSE
      OBVIOUS
    <3>1. running[e] \in Levels /\ level <= running[e] /\ level \in Nat
      BY <2>1, LevelFacts DEF Pending, PeelTypeOK
    <3> QED BY <2>1, <3>1, LevelFacts DEF Returned
  <2>3. \A e \in input : tau[e] = Trussness[input][e]
    BY <2>1, <2>2 DEF PeeledExact
  <2>4. Trussness[input] = [e \in input |-> Trussness[input][e]]
    BY <2>1, GraphIsSetOfEdges, TrussnessIsFunction
  <2>5. tau = [e \in input |-> tau[e]]
    BY <2>1 DEF PeelTypeOK
  <2> QED BY <2>2, <2>3, <2>4, <2>5
<1> QED BY <1>1, PeelInvariance, PTL

-----------------------------------------------------------------------------
(* From the count to the sweep: the edges of Supports are pairs of vertices,  *)
(* those of Truss any set whose triangles are known.  With the triangles of   *)
(* three vertices the two notions of support are the same number.             *)

PairOf(a, b) == IF a < b THEN <<a, b>> ELSE <<b, a>>

TriangleOf(a, b, c) == {PairOf(a, b), PairOf(a, c), PairOf(b, c)}

VertexTriangles ==
  {t \in SUBSET Edges :
     \E a, b, c \in Vertices : a # b /\ a # c /\ b # c /\ t = TriangleOf(a, b, c)}

\* x and y are neighbours when the pair of them, either way round, is an edge.
LEMMA NeighboursPair ==
  ASSUME NEW G \in SUBSET Edges, NEW x \in Vertices, NEW y \in Vertices
  PROVE  y \in Neighbours(G, x) <=> x # y /\ PairOf(x, y) \in G
<1>1. x \in Nat /\ y \in Nat
  BY StampAssumption, SupportsAssumption DEF Vertices
<1>2. \A e \in G : e[1] < e[2]
  BY DEF Edges
<1>3. <<x, y>> \in G => x < y
  <2>1. <<x, y>>[1] = x /\ <<x, y>>[2] = y
    OBVIOUS
  <2> QED BY <1>2, <2>1
<1>4. <<y, x>> \in G => y < x
  <2>1. <<y, x>>[1] = y /\ <<y, x>>[2] = x
    OBVIOUS
  <2> QED BY <1>2, <2>1
<1> QED BY <1>1, <1>3, <1>4 DEF Neighbours, PairOf

\* A pair is an edge, and determines its ends up to their order.
LEMMA PairFacts ==
  ASSUME NEW a \in Vertices, NEW b \in Vertices, a # b
  PROVE  /\ PairOf(a, b) \in Edges /\ PairOf(a, b) = PairOf(b, a)
         /\ \A c, d \in Vertices : PairOf(a, b) = PairOf(c, d)
              <=> (a = c /\ b = d) \/ (a = d /\ b = c)
<1>1. \A v \in Vertices : v \in Nat
  BY StampAssumption, SupportsAssumption DEF Vertices
<1> QED BY <1>1 DEF PairOf, Edges

\* The triangles an edge of the graph closes are those over the common neighbours
\* of its ends.
LEMMA TrianglesOfCommon ==
  ASSUME Triangle = VertexTriangles, NEW G \in SUBSET Edges,
         NEW p \in Vertices, NEW q \in Vertices, p # q, PairOf(p, q) \in G,
         NEW t
  PROVE  t \in TrianglesAt(G, PairOf(p, q))
           <=> \E x \in Neighbours(G, p) \cap Neighbours(G, q) : t = TriangleOf(p, q, x)
<1>1. ASSUME NEW x \in Neighbours(G, p) \cap Neighbours(G, q)
      PROVE  TriangleOf(p, q, x) \in TrianglesAt(G, PairOf(p, q))
  <2>1. x \in Vertices
    BY DEF Neighbours
  <2>2. x # p /\ x # q /\ PairOf(p, x) \in G /\ PairOf(q, x) \in G
    BY <2>1, NeighboursPair
  <2>3. TriangleOf(p, q, x) \subseteq G /\ PairOf(p, q) \in TriangleOf(p, q, x)
    BY <2>2 DEF TriangleOf
  <2>4. TriangleOf(p, q, x) \in Triangle
    BY <2>1, <2>2, <2>3 DEF VertexTriangles
  <2> QED BY <2>3, <2>4 DEF TrianglesAt
<1>2. ASSUME t \in TrianglesAt(G, PairOf(p, q))
      PROVE  \E x \in Neighbours(G, p) \cap Neighbours(G, q) : t = TriangleOf(p, q, x)
  <2>1. t \subseteq G /\ PairOf(p, q) \in t /\ t \in VertexTriangles
    BY <1>2 DEF TrianglesAt
  <2>2. PICK a, b, c \in Vertices : a # b /\ a # c /\ b # c /\ t = TriangleOf(a, b, c)
    BY <2>1 DEF VertexTriangles
  <2>3. \E x \in Vertices : x # p /\ x # q /\ t = {PairOf(p, q), PairOf(p, x), PairOf(q, x)}
    <3>1. \/ PairOf(p, q) = PairOf(a, b)
          \/ PairOf(p, q) = PairOf(a, c)
          \/ PairOf(p, q) = PairOf(b, c)
      BY <2>1, <2>2 DEF TriangleOf
    <3>2. /\ PairOf(a, b) = PairOf(b, a) /\ PairOf(a, c) = PairOf(c, a)
          /\ PairOf(b, c) = PairOf(c, b) /\ PairOf(p, q) = PairOf(q, p)
      BY <2>2, PairFacts
    <3>3. t = {PairOf(a, b), PairOf(a, c), PairOf(b, c)}
      BY <2>2 DEF TriangleOf
    <3>4. CASE PairOf(p, q) = PairOf(a, b)
      <4>1. (p = a /\ q = b) \/ (p = b /\ q = a)
        BY <3>4, <2>2, PairFacts
      <4> QED BY <4>1, <2>2, <3>2, <3>3
    <3>5. CASE PairOf(p, q) = PairOf(a, c)
      <4>1. (p = a /\ q = c) \/ (p = c /\ q = a)
        BY <3>5, <2>2, PairFacts
      <4> QED BY <4>1, <2>2, <3>2, <3>3
    <3>6. CASE PairOf(p, q) = PairOf(b, c)
      <4>1. (p = b /\ q = c) \/ (p = c /\ q = b)
        BY <3>6, <2>2, PairFacts
      <4> QED BY <4>1, <2>2, <3>2, <3>3
    <3> QED BY <3>1, <3>4, <3>5, <3>6
  <2>4. PICK x \in Vertices : x # p /\ x # q /\ t = {PairOf(p, q), PairOf(p, x), PairOf(q, x)}
    BY <2>3
  <2>5. x \in Neighbours(G, p) /\ x \in Neighbours(G, q)
    BY <2>1, <2>4, NeighboursPair
  <2> QED BY <2>4, <2>5 DEF TriangleOf
<1> QED BY <1>1, <1>2

\* Different vertices make different triangles over an edge.
LEMMA ThirdVertex ==
  ASSUME NEW p \in Vertices, NEW q \in Vertices, p # q,
         NEW x \in Vertices \ {p, q}, NEW y \in Vertices \ {p, q},
         TriangleOf(p, q, x) = TriangleOf(p, q, y)
  PROVE  x = y
<1>1. \/ PairOf(p, x) = PairOf(p, q) \/ PairOf(p, x) = PairOf(p, y)
      \/ PairOf(p, x) = PairOf(q, y)
  BY DEF TriangleOf
<1> QED BY <1>1, PairFacts

\* What compute_supports counts of an edge is the support the sweep is about: the
\* triangles over an edge correspond one to one to the common neighbours.
THEOREM SupportIsSup ==
  ASSUME Edge = Edges, Triangle = VertexTriangles, TypeOK, NEW e \in graph
  PROVE  Support(e) = Sup(graph, e)
<1> DEFINE p == e[1]
           q == e[2]
           Common == Neighbours(graph, p) \cap Neighbours(graph, q)
           f == [x \in Common |-> TriangleOf(p, q, x)]
<1>1. graph \in SUBSET Edges
  BY SupportsAssumption DEF TypeOK
<1>2. p \in Vertices /\ q \in Vertices /\ p # q /\ e = PairOf(p, q)
  <2>1. e \in Vertices \X Vertices /\ p < q /\ e = <<p, q>>
    BY <1>1 DEF Edges
  <2>2. p \in Nat /\ q \in Nat
    BY <2>1, StampAssumption, SupportsAssumption DEF Vertices
  <2> QED BY <2>1, <2>2 DEF PairOf
<1> HIDE DEF p, q
<1>3. \A t : t \in TrianglesAt(graph, e) <=> \E x \in Common : t = TriangleOf(p, q, x)
  BY <1>1, <1>2, TrianglesOfCommon
<1>4. \A x \in Common : x \in Vertices \ {p, q}
  <2>1. \A x \in Common : x \in Vertices
    BY DEF Neighbours
  <2> QED BY <1>1, <1>2, <2>1, NeighboursPair
<1>5. f \in Bijection(Common, TrianglesAt(graph, e))
  <2>1. f \in [Common -> TrianglesAt(graph, e)]
    BY <1>3
  <2>2. \A x, y \in Common : f[x] = f[y] => x = y
    BY <1>2, <1>4, ThirdVertex
  <2>3. \A t \in TrianglesAt(graph, e) : \E x \in Common : f[x] = t
    BY <1>3
  <2> QED BY <2>1, <2>2, <2>3 DEF Bijection, Injection, Surjection, IsInjective
<1>6. IsFiniteSet(Common)
  <2>1. IsFiniteSet(Vertices)
    BY SupportsAssumption, StampAssumption, FS_Interval DEF Vertices
  <2>2. Common \subseteq Vertices
    BY <1>4
  <2> HIDE DEF Common
  <2> QED BY <2>1, <2>2, FS_Subset
<1>7. Cardinality(Common) = Cardinality(TrianglesAt(graph, e))
  <2>1. ExistsBijection(Common, TrianglesAt(graph, e))
    BY <1>5 DEF ExistsBijection
  <2> HIDE DEF Common
  <2> QED BY <1>6, <2>1, FS_Bijection
<1> QED BY <1>7 DEF Support, Sup, p, q

\* The sweep's assumption about its input is what the count provides: whenever
\* no call runs, and however its threads interleaved, sup is the function the
\* sweep starts from.
THEOREM CountFeedsSweep ==
  ASSUME Edge = Edges, Triangle = VertexTriangles
  PROVE  Safety => [](pc[Caller] = "idle" => sup = [e \in graph |-> Sup(graph, e)])
<1>1. IInv => (pc[Caller] = "idle" => sup = [e \in graph |-> Sup(graph, e)])
  <2> SUFFICES ASSUME IInv, pc[Caller] = "idle"
               PROVE  sup = [e \in graph |-> Sup(graph, e)]
    OBVIOUS
  <2>1. TypeOK /\ \A e \in graph : sup[e] = Support(e)
    BY DEF IInv, SupportsExact
  <2>2. \A e \in graph : sup[e] = Sup(graph, e)
    BY <2>1, SupportIsSup
  <2> QED BY <2>1, <2>2 DEF TypeOK
<1> QED BY <1>1, Invariance, PTL
=============================================================================
