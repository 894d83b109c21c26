------------------------------ MODULE EdgeList ------------------------------
(***************************************************************************)
(* The two file formats that carry graphs and streams from one command to  *)
(* the next, by what their writers and readers do with them: a graph file  *)
(* is a sequence of rows, each naming two vertices (DynGraph::load,        *)
(* save_graph_edgelist), a stream file a sequence of lines, each a batch   *)
(* header or an operation (load_stream, save_stream).                      *)
(***************************************************************************)
EXTENDS Naturals, Sequences, SequencesExt

\* The names with x behind them, unless it is one of them.
See(names, x) == IF x \in ToSet(names) THEN names ELSE Append(names, x)

\* Mutant: only the first name of a row enters the map, and a name that is not
\* in it reads as id 0.
FirstSeenLeft(rows) ==
  LET names[i \in 0 .. Len(rows)] == IF i = 0 THEN <<>> ELSE See(names[i - 1], rows[i][1])
  IN names[Len(rows)]

\* The vertex names of a sequence of rows, in the order of their first
\* appearance: a vertex's id is its place, counted from 0.
FirstSeen(rows) ==
  LET names[i \in 0 .. Len(rows)] ==
        IF i = 0 THEN <<>> ELSE See(See(names[i - 1], rows[i][1]), rows[i][2])
  IN names[Len(rows)]

\* The id of a name; idmap's operator[] gives one that is not there 0.
IdIn(names, x) ==
  IF x \in ToSet(names) THEN (CHOOSE i \in DOMAIN names : names[i] = x) - 1 ELSE 0

\* The edges of a sequence of rows: a row that names one vertex twice is none,
\* and rows may repeat each other.
EdgesOf(rows) == {{r[1], r[2]} : r \in {q \in ToSet(rows) : q[1] # q[2]}}

\* DynGraph::load: vertices are renumbered by first appearance.  names, the
\* inverse of the map, is not kept by the code.
Loaded(rows) ==
  LET names == FirstSeen(rows)
      renamed == [i \in DOMAIN rows |-> <<IdIn(names, rows[i][1]), IdIn(names, rows[i][2])>>]
  IN [n |-> Len(names), names |-> names, edges |-> EdgesOf(renamed)]

\* save_graph_edgelist: every edge in one row, the smaller end first, the rows
\* by that end and for one end in the order of its adjacency list, which is
\* any order.
Listings(E) ==
  LET rows == {r \in (UNION E) \X (UNION E) : r[1] < r[2] /\ {r[1], r[2]} \in E}
  IN {s \in SetToSeqs(rows) : \A i, j \in DOMAIN s : i < j => s[i][1] <= s[j][1]}

Header == [header |-> TRUE]

\* save_stream: a header before every batch.
StreamText(batches) == FlattenSeq([i \in DOMAIN batches |-> <<Header>> \o batches[i]])

\* A batch under way joins those that are complete, unless it is empty.
Flushed(acc) == IF acc.cur = <<>> THEN acc.done ELSE Append(acc.done, acc.cur)

\* load_stream: a header ends the batch before it, unless that is empty, and so
\* does the end of the file.
Parsed(lines) ==
  LET read[i \in 0 .. Len(lines)] ==
        IF i = 0 THEN [done |-> <<>>, cur |-> <<>>]
        ELSE IF lines[i] = Header THEN [done |-> Flushed(read[i - 1]), cur |-> <<>>]
        ELSE [read[i - 1] EXCEPT !.cur = Append(@, lines[i])]
  IN Flushed(read[Len(lines)])
=============================================================================
