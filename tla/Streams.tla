------------------------------- MODULE Streams -------------------------------
(***************************************************************************)
(* How a workload comes about and is replayed (stream.h, main.cpp): gen    *)
(* draws a stream of operations from a graph, or snap splits a log of      *)
(* timed edges into a graph and a stream; both leave their result in files *)
(* from which batch and peredge read it, one process after the other.      *)
(* What an engine does with a batch is NetBatch, which the engines'        *)
(* modules show that they implement.                                       *)
(***************************************************************************)
EXTENDS NetBatch, EdgeList

CONSTANTS
  GraphFiles,      \* graphs for gen: non-empty sequences of rows
  Logs,            \* logs for snap: sequences of <<time, x, y>>
  BatchSize,       \* --batch-size
  NumBatches       \* --batches of gen; with 0 it would draw nothing

ASSUME StreamsAssumption ==
  /\ GraphFiles \subseteq Seq(Nat \X Nat) \ {<<>>}
  /\ Logs \subseteq Seq(Nat \X Nat \X Nat)
  /\ BatchSize \in Nat \ {0} /\ NumBatches \in Nat \ {0}

VARIABLES
  stage,           \* "gen", "draw"; "initial", "tail" (snap); "ready", "replay", "end", "wild"
  source,          \* who made the files: "gen", "append" or "rewind"
  graphFile, streamFile, outFile,
  g,               \* the graph in memory
  rows, cut,       \* snap: the sorted rows in snap's ids, and rows.size() * frac
  at,              \* the loop counter: operations drawn, rows passed
  seen,            \* snap: seen
  cur, batches,    \* the batch being put together and those completed; the stream replayed
  mode,            \* "batch", "nomerge" or "peredge"
  start            \* the edges snap puts in the graph, or a replay starts from

files == <<source, graphFile, streamFile>>
snapVars == <<rows, cut, seen>>
vars == <<stage, files, outFile, g, snapVars, at, cur, batches, mode, start>>

Op2(del, e) == [del |-> del, edge |-> e]
NoGraph == [n |-> 0, names |-> <<>>, edges |-> {}]

\* The stable sort by time, by how many rows come before one; then vertices are
\* numbered over all rows.
Renumbered(log) ==
  LET Earlier(i) == {j \in DOMAIN log :
                       log[j][1] < log[i][1] \/ (log[j][1] = log[i][1] /\ j < i)}
      order == [k \in DOMAIN log |-> CHOOSE i \in DOMAIN log : Cardinality(Earlier(i)) = k - 1]
      pairs == [k \in DOMAIN order |-> <<log[order[k]][2], log[order[k]][3]>>]
      names == FirstSeen(pairs)
  IN [k \in DOMAIN pairs |-> <<IdIn(names, pairs[k][1]), IdIn(names, pairs[k][2])>>]

Init ==
  /\ \/ /\ stage = "gen" /\ source = "gen"
        /\ graphFile \in GraphFiles
        /\ rows = <<>> /\ cut = 0
     \/ /\ stage = "initial" /\ source \in {"append", "rewind"}
        /\ graphFile = <<>>
        /\ \E log \in Logs : rows = Renumbered(log)
        /\ cut \in 0 .. Len(rows)
  /\ streamFile = <<>> /\ outFile = <<>>
  /\ g = NoGraph /\ at = 0 /\ seen = {} /\ cur = <<>> /\ batches = <<>>
  /\ mode = "none" /\ start = {}

-----------------------------------------------------------------------------
(* gen: gen_random_stream *)

GenLoad ==
  /\ stage = "gen"
  /\ g' = Loaded(graphFile)
  /\ stage' = "draw"
  /\ UNCHANGED <<files, outFile, snapVars, at, cur, batches, mode, start>>

\* Mutants: a vertex is drawn from one too many; a pair that is an edge is
\* accepted.
DrawableBeyond == {{u, v} : u, v \in 0 .. g.n} \ g.edges
DrawableAny == {{u, v} : u, v \in 0 .. g.n - 1}

\* The pairs an insertion may draw.  The graph drawn from is the loaded one
\* throughout: no operation of the stream changes it.
Drawable == {{u, v} : u, v \in 0 .. g.n - 1} \ g.edges
Pairs(S) == {e \in S : Cardinality(e) = 2}

\* One iteration: an insertion of an absent pair, a deletion of an edge, or
\* nothing when 1000 draws have failed.
Draw ==
  /\ stage = "draw"
  /\ at < BatchSize
  /\ at' = at + 1
  /\ \/ \E e \in Pairs(Drawable) : cur' = Append(cur, Op2(FALSE, e))
     \/ \E e \in g.edges : cur' = Append(cur, Op2(TRUE, e))
     \/ cur' = cur
  /\ UNCHANGED <<stage, files, outFile, g, snapVars, batches, mode, start>>

\* The batch is complete, also when it is empty; the last one is saved.
EndBatch ==
  /\ stage = "draw"
  /\ at = BatchSize
  /\ at' = 0
  /\ cur' = <<>>
  /\ batches' = Append(batches, cur)
  /\ IF Len(batches') = NumBatches
     THEN stage' = "ready" /\ streamFile' = StreamText(batches')
     ELSE UNCHANGED <<stage, streamFile>>
  /\ UNCHANGED <<source, graphFile, outFile, g, snapVars, mode, start>>

-----------------------------------------------------------------------------
(* snap: cmd_snap *)

\* The first loop takes the rows before the cut, for rewind all rows.
InitialEnd == IF source = "rewind" THEN Len(rows) ELSE cut

InitialRow ==
  /\ stage = "initial"
  /\ at < InitialEnd
  /\ at' = at + 1
  /\ LET r == rows[at + 1] e == {r[1], r[2]}
     IN IF r[1] # r[2] /\ e \notin seen
        THEN seen' = seen \cup {e} /\ start' = start \cup {e}
        ELSE UNCHANGED <<seen, start>>
  /\ UNCHANGED <<stage, files, outFile, g, rows, cut, cur, batches, mode>>

InitialDone ==
  /\ stage = "initial"
  /\ at = InitialEnd
  /\ stage' = "tail"
  /\ UNCHANGED <<files, outFile, g, snapVars, at, cur, batches, mode, start>>

TailLeft == IF source = "rewind" THEN at > cut ELSE at < Len(rows)

\* Mutant: a pair that has occurred before enters the stream again.
FreshAlways(e) == TRUE

\* Whether a row of the tail makes an operation: forwards the first row of a
\* pair does, backwards the last.
Fresh(e) == IF source = "rewind" THEN e \in seen ELSE e \notin seen

\* One iteration of the second loop: forwards from the cut to the end, or
\* backwards from the end to the cut.
TailRow ==
  /\ stage = "tail"
  /\ TailLeft
  /\ at' = IF source = "rewind" THEN at - 1 ELSE at + 1
  /\ LET r == rows[IF source = "rewind" THEN at ELSE at + 1]
         e == {r[1], r[2]}
         grown == Append(cur, Op2(source = "rewind", e))
     IN IF r[1] # r[2] /\ Fresh(e)
        THEN /\ seen' = IF source = "rewind" THEN seen \ {e} ELSE seen \cup {e}
             /\ IF Len(grown) >= BatchSize
                THEN batches' = Append(batches, grown) /\ cur' = <<>>
                ELSE cur' = grown /\ UNCHANGED batches
        ELSE UNCHANGED <<seen, cur, batches>>
  /\ UNCHANGED <<stage, files, outFile, g, rows, cut, mode, start>>

\* The rest makes the last batch; both files are written.
SaveSnap ==
  /\ stage = "tail"
  /\ ~TailLeft
  /\ batches' = Flushed([done |-> batches, cur |-> cur])
  /\ cur' = <<>>
  /\ graphFile' \in Listings(start)
  /\ streamFile' = StreamText(batches')
  /\ stage' = "ready"
  /\ UNCHANGED <<source, outFile, g, snapVars, at, mode, start>>

-----------------------------------------------------------------------------
(* batch and peredge: one run over the two files *)

Open(m) ==
  /\ stage = "ready"
  /\ stage' = "replay"
  /\ mode' = m
  /\ g' = Loaded(graphFile)
  /\ batches' = Parsed(streamFile)
  /\ start' = IF source = "gen" THEN g'.edges ELSE start
  /\ UNCHANGED <<files, outFile, snapVars, at, cur>>

\* apply_batch on a whole batch; apply_batch_nomerge and the per-edge engine
\* take the same operations one by one.  Inserting an edge of a vertex the
\* graph does not have indexes the adjacency out of range: what follows is
\* undefined.  A deletion of such an edge finds nothing.
Apply ==
  /\ stage = "replay"
  /\ batches # <<>>
  /\ LET whole == mode = "batch"
         b == IF whole THEN ToSet(Head(batches)) ELSE {Head(Head(batches))}
         rest == Tail(Head(batches))
     IN /\ IF \E e \in Added(g.edges, b) : \E v \in e : v >= g.n
           THEN stage' = "wild" /\ UNCHANGED g
           ELSE stage' = stage /\ g' = [g EXCEPT !.edges = Net(@, b)]
        /\ batches' = IF whole \/ rest = <<>> THEN Tail(batches)
                      ELSE <<rest>> \o Tail(batches)
  /\ UNCHANGED <<files, outFile, snapVars, at, cur, mode, start>>

\* The run is over; --graph-out saves its graph.
Close ==
  /\ stage = "replay"
  /\ batches = <<>>
  /\ outFile' \in Listings(g.edges)
  /\ stage' = "end"
  /\ UNCHANGED <<files, g, snapVars, at, cur, batches, mode, start>>

Exited == stage \in {"end", "wild"} /\ UNCHANGED vars

Next ==
  \/ GenLoad \/ Draw \/ EndBatch
  \/ InitialRow \/ InitialDone \/ TailRow \/ SaveSnap
  \/ \E m \in {"batch", "nomerge", "peredge"} : Open(m)
  \/ Apply \/ Close
  \/ Exited

Spec == Init /\ [][Next]_vars

-----------------------------------------------------------------------------
(* Properties *)

\* The operations of a stream file that delete, or insert.
StreamEdges(del) == {l.edge : l \in {k \in ToSet(streamFile) : k # Header /\ k.del = del}}

\* gen and batch are different processes that number the vertices of the same
\* file, so a generated stream never names a vertex the loaded graph lacks and
\* the replay never leaves the adjacency (stream.h:65, batch.h:474).
GeneratedInRange == source = "gen" => stage # "wild"

\* All modes and engines end a generated stream on the same graph, so that
\* their times measure the same work: the generator judges every operation
\* against the loaded graph only, hence no batch, and no stream, deletes and
\* inserts the same edge (stream.h:66, batch.h:384), although
\* paper/sections/experiments.tex:26 speaks of edges inserted again.
ModesAgree ==
  source = "gen" /\ stage = "end" =>
    g.edges = (start \ StreamEdges(TRUE)) \cup StreamEdges(FALSE)

\* What snap makes of a log, in its own numbering: every operation of the
\* stream has an effect, and the stream leads from the edges before the cut to
\* those of the whole log, or back from these to the edges without a row after
\* the cut; all batches but the last are full (main.cpp:169-208).
SnapExact ==
  stage = "ready" /\ source # "gen" =>
    LET ops == FlattenSeq(batches)
        before == EdgesOf(SubSeq(rows, 1, cut))
        after == EdgesOf(SubSeq(rows, cut + 1, Len(rows)))
    IN /\ start = IF source = "rewind" THEN before \cup after ELSE before
       /\ {op.edge : op \in ToSet(ops)} = IF source = "rewind" THEN after ELSE after \ before
       /\ IsInjective([i \in DOMAIN ops |-> ops[i].edge])
       /\ \A i \in DOMAIN batches :
            Len(batches[i]) \in (IF i < Len(batches) THEN BatchSize ELSE 1) .. BatchSize

\* The graph a run saves and the static baseline loads is the run's, up to the
\* numbering and without the vertices that have no edge (stream.h:38,
\* graph.h:186).
SavedGraphReloads ==
  stage = "end" =>
    LET h == Loaded(outFile)
    IN /\ h.n = Cardinality(UNION g.edges)
       /\ {{h.names[v + 1] : v \in e} : e \in h.edges} = g.edges

-----------------------------------------------------------------------------

\* README.md:55 gives snap's two output files to the commands that replay a
\* stream: a replay that comes to its end has led, up to the numbering of the
\* vertices, to the graph of the whole log, or back to that of the log without
\* the edges of the rows after the cut.
SnapReplays ==
  source # "gen" /\ stage = "end" =>
    LET after == EdgesOf(SubSeq(rows, cut + 1, Len(rows)))
        target == IF source = "rewind" THEN EdgesOf(rows) \ after ELSE EdgesOf(rows)
    IN \E p \in Bijection(UNION g.edges, UNION target) :
         {{p[v] : v \in e} : e \in g.edges} = target
=============================================================================
