-------------------------- MODULE RegionClosureProofs --------------------------
(***************************************************************************)
(* The region closure is exact, for every set of edges, every number of    *)
(* threads and every choice of what they see of each other's flags.        *)
(***************************************************************************)
EXTENDS RegionClosure, TLAPS

\* The mates of an edge are live and, as edges, members of Edge.
LEMMA MatesLive == ASSUME NEW G, NEW e PROVE Mates(G, e) \subseteq G
  BY DEF Mates, TrianglesAt

LEMMA InitHolds == Init => IInv
<1> SUFFICES ASSUME Init PROVE IInv
  OBVIOUS
<1> PICK c \in Cases :
         /\ graph = c.graph /\ origin = c.seeds /\ seeds = c.seeds
         /\ todo = [t \in Threads |-> {}]
         /\ inReg = {}
         /\ entries = [e \in Edge |-> 0]
         /\ settled = {}
         /\ next = [t \in Threads |-> {}]
         /\ pc = "seed"
  BY DEF Init
<1>1. TypeOK
  BY CaseAssumption DEF TypeOK
<1>2. ListedOnce
  BY DEF ListedOnce
<1>3. InHand = {}
  BY DEF InHand
<1>4. MetInv /\ FrontierInv /\ RoundInv /\ HeldInv
  BY <1>3 DEF MetInv, FrontierInv, RoundInv, HeldInv
<1> QED BY <1>1, <1>2, <1>4 DEF IInv

-----------------------------------------------------------------------------
(* One lemma for each action. *)

\* What Enter does to the list, for edges that are not in the region.
LEMMA EnterListed ==
  ASSUME TypeOK, ListedOnce, NEW E \in SUBSET Edge, E \cap inReg = {}, Enter(E)
  PROVE  /\ inReg' = inReg \cup E /\ inReg' \in SUBSET Edge
         /\ entries' \in [Edge -> Nat]
         /\ ListedOnce'
  BY DEF TypeOK, ListedOnce, Enter

LEMMA SeedKeeps == IInv /\ SeedRegion => IInv'
<1> SUFFICES ASSUME IInv, SeedRegion PROVE IInv'
  OBVIOUS
<1> DEFINE live == (seeds \cap graph) \ inReg
<1> USE DEF IInv
<1>1. pc = "seed" /\ Enter(live) /\ seeds' = live
      /\ UNCHANGED <<graph, origin, todo, settled, next>>
  BY DEF SeedRegion
<1>2. pc' \in {"clear", "round"} /\ (pc' = "clear" => live = {})
  BY DEF SeedRegion
<1>3. seeds = origin /\ inReg = {} /\ live = origin \cap graph
  BY <1>1 DEF RoundInv
<1>4. \A t \in Threads : todo[t] = {} /\ next[t] = {}
  BY <1>1 DEF RoundInv
<1>5. live \in SUBSET Edge
  BY DEF TypeOK
<1>6. inReg' = live /\ ListedOnce' /\ inReg' \in SUBSET Edge /\ entries' \in [Edge -> Nat]
  BY <1>1, <1>3, <1>5, EnterListed
<1>7. TypeOK'
  BY <1>1, <1>2, <1>5, <1>6 DEF TypeOK
<1>8. InHand' = {}
  BY <1>1, <1>4 DEF InHand
<1>9. MetInv'
  BY <1>1, <1>3, <1>6, <1>8 DEF MetInv, Closed
<1>10. FrontierInv'
  BY <1>1, <1>3, <1>6, <1>8 DEF FrontierInv
<1>11. RoundInv'
  BY <1>1, <1>2, <1>3, <1>4, <1>6 DEF RoundInv
<1>12. HeldInv'
  BY <1>8 DEF HeldInv
<1> QED BY <1>6, <1>7, <1>9, <1>10, <1>11, <1>12

LEMMA TakeKeeps ==
  ASSUME NEW t \in Threads, NEW e \in seeds, IInv, TakeJob(t, e) PROVE IInv'
<1> USE DEF IInv
<1>1. /\ pc = "round" /\ todo[t] = {} /\ seeds' = seeds \ {e}
      /\ todo' = [todo EXCEPT ![t] = Mates(graph, e)]
      /\ UNCHANGED <<graph, origin, inReg, entries, settled, next, pc>>
  BY DEF TakeJob
<1>2. Mates(graph, e) \in SUBSET Edge
  BY MatesLive DEF TypeOK
<1>3. TypeOK'
  BY <1>1, <1>2 DEF TypeOK
<1>4. ListedOnce'
  BY <1>1 DEF ListedOnce
<1>5. InHand' = InHand \cup Mates(graph, e)
  <2>1. todo'[t] = Mates(graph, e) /\ \A s \in Threads \ {t} : todo'[s] = todo[s]
    BY <1>1 DEF TypeOK
  <2>2. next' = next
    BY <1>1
  <2> QED BY <1>1, <2>1, <2>2 DEF InHand
<1>6. e \in inReg
  BY <1>1 DEF FrontierInv
<1>7. MetInv'
  <2> SUFFICES ASSUME NEW E \in SUBSET graph, Closed(E) PROVE inReg \cup InHand' \subseteq E
    BY <1>1 DEF MetInv, Closed
  <2>1. inReg \cup InHand \subseteq E
    BY DEF MetInv
  <2>2. Mates(graph, e) \subseteq E
    BY <2>1, <1>6 DEF Closed
  <2> QED BY <1>5, <2>1, <2>2
<1>8. FrontierInv'
  <2> SUFFICES ASSUME NEW f \in inReg \ seeds' PROVE Mates(graph, f) \subseteq inReg \cup InHand'
    BY <1>1 DEF FrontierInv
  <2> QED BY <1>1, <1>5 DEF FrontierInv
<1>9. RoundInv'
  BY <1>1 DEF RoundInv
<1>10. HeldInv'
  BY <1>1, <1>5, <1>6 DEF HeldInv
<1> QED BY <1>3, <1>4, <1>7, <1>8, <1>9, <1>10

LEMMA FlagKeeps ==
  ASSUME NEW t \in Threads, NEW f \in todo[t], IInv, FlagMate(t, f) PROVE IInv'
<1> USE DEF IInv
<1>1. /\ next' = [next EXCEPT ![t] = @ \cup {f}]
      /\ todo' = [todo EXCEPT ![t] = @ \ {f}]
      /\ UNCHANGED <<graph, origin, seeds, inReg, entries, settled, pc>>
  BY DEF FlagMate
<1>2. f \in Edge /\ pc = "round"
  BY DEF TypeOK, RoundInv
<1>3. TypeOK'
  BY <1>1, <1>2 DEF TypeOK
<1>4. ListedOnce'
  BY <1>1 DEF ListedOnce
<1>5. InHand' = InHand
  <2>1. todo'[t] = todo[t] \ {f} /\ next'[t] = next[t] \cup {f}
    BY <1>1 DEF TypeOK
  <2>2. \A s \in Threads \ {t} : todo'[s] = todo[s] /\ next'[s] = next[s]
    BY <1>1 DEF TypeOK
  <2>3. \A s \in Threads : todo'[s] \cup next'[s] = todo[s] \cup next[s]
    BY <2>1, <2>2
  <2> QED BY <2>3 DEF InHand
<1>6. MetInv'
  BY <1>1, <1>5 DEF MetInv, Closed
<1>7. FrontierInv'
  BY <1>1, <1>5 DEF FrontierInv
<1>8. RoundInv'
  BY <1>1, <1>2 DEF RoundInv
<1>9. HeldInv'
  BY <1>1, <1>5 DEF HeldInv
<1> QED BY <1>3, <1>4, <1>6, <1>7, <1>8, <1>9

LEMMA PassKeeps ==
  ASSUME NEW t \in Threads, NEW f \in todo[t], IInv, PassMate(t, f) PROVE IInv'
<1> USE DEF IInv
<1>1. /\ f \in Flagged
      /\ todo' = [todo EXCEPT ![t] = @ \ {f}]
      /\ UNCHANGED <<graph, origin, seeds, inReg, entries, settled, next, pc>>
  BY DEF PassMate
<1>2. pc = "round"
  BY DEF RoundInv
<1>3. TypeOK'
  BY <1>1 DEF TypeOK
<1>4. ListedOnce'
  BY <1>1 DEF ListedOnce
<1>5. InHand' \subseteq InHand /\ InHand \subseteq InHand' \cup inReg
  <2>1. todo'[t] = todo[t] \ {f} /\ \A s \in Threads \ {t} : todo'[s] = todo[s]
    BY <1>1 DEF TypeOK
  <2>2. f \in inReg \cup UNION {next[s] : s \in Threads}
    BY <1>1 DEF Flagged, RoundInv
  <2>3. next' = next
    BY <1>1
  <2> QED BY <2>1, <2>2, <2>3 DEF InHand
<1>6. MetInv'
  BY <1>1, <1>5 DEF MetInv, Closed
<1>7. FrontierInv'
  BY <1>1, <1>5 DEF FrontierInv
<1>8. RoundInv'
  BY <1>1, <1>2 DEF RoundInv
<1>9. HeldInv'
  BY <1>1, <1>5 DEF HeldInv
<1> QED BY <1>3, <1>4, <1>6, <1>7, <1>8, <1>9

LEMMA MergeKeeps == IInv /\ Merge => IInv'
<1> SUFFICES ASSUME IInv, Merge PROVE IInv'
  OBVIOUS
<1> USE DEF IInv
<1>1. /\ pc = "round" /\ seeds = {} /\ \A t \in Threads : todo[t] = {}
      /\ Enter(New) /\ seeds' = New /\ settled' = Flagged
      /\ next' = [t \in Threads |-> {}]
      /\ UNCHANGED <<graph, origin, todo>>
  BY DEF Merge
<1>2. pc' \in {"clear", "round"} /\ (pc' = "clear" => New = {})
  BY DEF Merge
<1>3. InHand = UNION {next[t] : t \in Threads}
  BY <1>1 DEF InHand
<1>4. New = InHand \ inReg /\ New \in SUBSET Edge
  BY <1>3 DEF New, TypeOK
<1>5. inReg' = inReg \cup InHand /\ ListedOnce' /\ inReg' \in SUBSET Edge /\ entries' \in [Edge -> Nat]
  BY <1>1, <1>4, EnterListed
<1>6. Flagged \subseteq inReg' /\ Flagged \in SUBSET Edge
  BY <1>3, <1>5 DEF Flagged, RoundInv
<1>7. \A t \in Threads : todo'[t] = {} /\ next'[t] = {}
  BY <1>1
<1>8. TypeOK'
  BY <1>1, <1>2, <1>4, <1>5, <1>6 DEF TypeOK
<1>9. InHand' = {}
  BY <1>7 DEF InHand
<1>10. MetInv'
  BY <1>1, <1>5, <1>9 DEF MetInv, Closed
<1>11. FrontierInv'
  BY <1>1, <1>4, <1>5, <1>9 DEF FrontierInv
<1>12. RoundInv'
  BY <1>1, <1>2, <1>6, <1>7 DEF RoundInv
<1>13. HeldInv'
  BY <1>9 DEF HeldInv
<1> QED BY <1>5, <1>8, <1>10, <1>11, <1>12, <1>13

LEMMA ClearKeeps == IInv /\ ClearFlags => IInv'
<1> SUFFICES ASSUME IInv, ClearFlags PROVE IInv'
  OBVIOUS
<1> USE DEF IInv
<1>1. /\ pc = "clear" /\ settled' = settled \ inReg /\ pc' = "done"
      /\ UNCHANGED <<graph, origin, seeds, todo, inReg, entries, next>>
  BY DEF ClearFlags
<1>2. settled' = {}
  BY <1>1 DEF RoundInv
<1>3. TypeOK' /\ ListedOnce'
  BY <1>1, <1>2 DEF TypeOK, ListedOnce
<1>4. MetInv' /\ FrontierInv'
  BY <1>1 DEF MetInv, Closed, InHand, FrontierInv
<1>5. RoundInv'
  BY <1>1, <1>2 DEF RoundInv
<1>6. HeldInv'
  BY <1>1 DEF InHand, HeldInv
<1> QED BY <1>3, <1>4, <1>5, <1>6

LEMMA StutterKeeps == IInv /\ UNCHANGED vars => IInv'
  BY DEF IInv, vars, TypeOK, ListedOnce, MetInv, Closed, InHand, FrontierInv, RoundInv,
     HeldInv

-----------------------------------------------------------------------------

\* IInv is an inductive invariant of region_closure.
THEOREM Invariance == Safety => []IInv
<1>1. IInv /\ [Next]_vars => IInv'
  <2> SUFFICES ASSUME IInv, [Next]_vars PROVE IInv'
    OBVIOUS
  <2>1. CASE CallerStep
    BY <2>1, SeedKeeps, MergeKeeps, ClearKeeps DEF CallerStep
  <2>2. ASSUME NEW t \in Threads, ThreadStep(t) PROVE IInv'
    BY <2>2, TakeKeeps, FlagKeeps, PassKeeps DEF ThreadStep
  <2>3. CASE UNCHANGED vars \/ Terminated
    BY <2>3, StutterKeeps DEF Terminated
  <2> QED BY <2>1, <2>2, <2>3 DEF Next
<1> QED BY <1>1, InitHolds, PTL DEF Safety

\* The region is the triangle closure of the live seeds, whatever the threads
\* see of each other's flags.
THEOREM ClosureExact == Safety => []RegionIsClosure
<1>1. IInv => RegionIsClosure
  <2> SUFFICES ASSUME IInv, pc \in {"clear", "done"} PROVE inReg = Closure
    BY DEF RegionIsClosure
  <2>1. InHand = {} /\ seeds = {}
    BY DEF IInv, RoundInv, InHand
  <2>2. inReg \subseteq graph
    <3>1. Closed(graph)
      BY MatesLive DEF Closed
    <3> QED BY <3>1 DEF IInv, MetInv
  <2>3. Closed(inReg)
    BY <2>1, <2>2 DEF IInv, FrontierInv, Closed
  <2>4. Closure \subseteq inReg
    BY <2>2, <2>3 DEF Closure
  <2>5. inReg \subseteq Closure
    BY <2>2 DEF IInv, MetInv, Closure
  <2> QED BY <2>4, <2>5
<1> QED BY <1>1, Invariance, PTL

\* The closure leaves no flag behind.
THEOREM NoFlagLeft == Safety => []FlagsCleared
<1>1. IInv => FlagsCleared
  BY DEF IInv, RoundInv, FlagsCleared
<1> QED BY <1>1, Invariance, PTL

-----------------------------------------------------------------------------
(* The threads implement the rounds of ClosureRounds. *)

LEMMA RoundsMates == \A e : Rounds!Mates(graph, e) = Mates(graph, e)
  BY DEF Rounds!Mates, Mates, Rounds!TrianglesAt, TrianglesAt

\* What the merge hands to the region is what a round grows it by.
LEMMA MergeGrows == IInv /\ Merge => inReg' = Rounds!Grown(inReg)
<1> SUFFICES ASSUME IInv, Merge PROVE inReg' = Rounds!Grown(inReg)
  OBVIOUS
<1>1. /\ pc = "round" /\ seeds = {} /\ \A t \in Threads : todo[t] = {}
      /\ inReg' = inReg \cup New
  BY DEF Merge, Enter
<1>2. inReg' = inReg \cup InHand
  BY <1>1 DEF New, InHand
<1>3. \A e \in inReg : Mates(graph, e) \subseteq inReg \cup InHand
  BY <1>1 DEF IInv, FrontierInv
<1>4. InHand \subseteq UNION {Mates(graph, e) : e \in inReg}
  BY DEF IInv, HeldInv
<1>5. Rounds!Grown(inReg) = inReg \cup UNION {Mates(graph, e) : e \in inReg}
  BY RoundsMates DEF Rounds!Grown
<1> QED BY <1>2, <1>3, <1>4, <1>5

LEMMA RoundsInit == Init => Rounds!Init
<1> SUFFICES ASSUME Init PROVE Rounds!Init
  OBVIOUS
<1>1. graph \subseteq Edge /\ origin \subseteq Edge /\ inReg = {} /\ pc = "seed"
  BY CaseAssumption DEF Init
<1> QED BY <1>1 DEF Rounds!Init

\* The call seeds the region; a step of a thread is none of ClosureRounds; a
\* merge is a round, or, when it finds nothing, the end of the call.
LEMMA RoundsStep == IInv /\ [Next]_vars => [Rounds!Next]_(Rounds!roundsVars)
<1> SUFFICES ASSUME IInv, [Next]_vars PROVE [Rounds!Next]_(Rounds!roundsVars)
  OBVIOUS
<1>1. CASE SeedRegion
  <2>1. pc = "seed" /\ pc' \in {"clear", "round"} /\ UNCHANGED <<graph, origin>>
    BY <1>1 DEF SeedRegion
  <2>2. seeds = origin /\ inReg = {}
    BY <2>1 DEF IInv, RoundInv
  <2>3. inReg' = origin \cap graph /\ (pc' = "clear" => inReg' = {})
    BY <1>1, <2>2 DEF SeedRegion, Enter
  <2>4. Rounds!Seed
    BY <2>1, <2>3 DEF Rounds!Seed
  <2> QED BY <2>4 DEF Rounds!Next
<1>2. CASE Merge
  <2>1. /\ pc = "round" /\ UNCHANGED <<graph, origin>>
        /\ inReg' = inReg \cup New
        /\ pc' = IF New = {} THEN "clear" ELSE "round"
    BY <1>2 DEF Merge, Enter
  <2>2. inReg' = Rounds!Grown(inReg)
    BY <1>2, MergeGrows
  <2>3. CASE New = {}
    <3>1. Rounds!HandOver
      BY <2>1, <2>2, <2>3 DEF Rounds!HandOver
    <3> QED BY <3>1 DEF Rounds!Next
  <2>4. CASE New # {}
    <3>1. Rounds!Round
      BY <2>1, <2>2, <2>4 DEF Rounds!Round
    <3> QED BY <3>1 DEF Rounds!Next
  <2> QED BY <2>3, <2>4
<1>3. CASE ClearFlags
  BY <1>3 DEF ClearFlags, Rounds!roundsVars
<1>4. ASSUME NEW t \in Threads, ThreadStep(t) PROVE [Rounds!Next]_(Rounds!roundsVars)
  BY <1>4 DEF ThreadStep, TakeJob, FlagMate, PassMate, Rounds!roundsVars
<1>5. CASE UNCHANGED vars \/ Terminated
  BY <1>5 DEF Terminated, vars, Rounds!roundsVars
<1> QED BY <1>1, <1>2, <1>3, <1>4, <1>5 DEF Next, CallerStep

\* RegionClosure implements ClosureRounds: seen from the merge of one round to
\* the merge of the next, the racing threads have added exactly the mates of
\* the region, whichever of them raised which flag.
THEOREM ClosureImplementsRounds == Safety => RoundsSafety
<1>1. Init /\ [][Next]_vars /\ []IInv => Rounds!Init /\ [][Rounds!Next]_(Rounds!roundsVars)
  BY RoundsInit, RoundsStep, PTL
<1> QED BY <1>1, Invariance, PTL DEF Safety, RoundsSafety, Rounds!Safety
=============================================================================
