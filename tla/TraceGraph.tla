----------------------------- MODULE TraceGraph -----------------------------
(***************************************************************************)
(* The rows of the P popup of strace-src: the processes and threads that   *)
(* TraceProcesses finds in the trace, each process under its parent.       *)
(***************************************************************************)
EXTENDS TraceProcesses, SequencesExt

Sorted(S) == SetToSortSeq(S, <)

Under(p, seen) == { q \in Processes \ seen : ParentOf(q) = p }

Row(p, t, depth) == [pid |-> p, tid |-> t, depth |-> depth]

\* append_graph_process: a process, its threads and the processes below it, once each.
\* shown is what has been shown, with the marks.
RECURSIVE AppendProcess(_, _, _)
AppendProcess(shown, p, depth) ==
    LET seen == { row.pid : row \in ToSet(shown) }
        tids == Sorted(TidsOf(p))
        own == <<Row(p, p, depth)>> \o [i \in DOMAIN tids |-> Row(p, tids[i], depth + 1)]
    IN  IF p \in seen THEN shown
        ELSE FoldLeft(LAMBDA s, q : AppendProcess(s, q, depth + 1),
                      shown \o own, Sorted(Under(p, seen \cup {p})))

\* Mutant: only the roots and what is below them.
RootedGraph ==
    FoldLeft(LAMBDA s, p : AppendProcess(s, p, 0), <<>>,
             Sorted({ p \in Processes : ParentOf(p) \notin Processes }))

\* draw_process_graph_popup: the roots first, then whatever has not been shown yet.
Graph ==
    LET roots == { p \in Processes : ParentOf(p) \notin Processes }
    IN  FoldLeft(LAMBDA s, p : AppendProcess(s, p, 0), <<>>,
                 Sorted(roots) \o Sorted(Processes \ roots))

----------------------------------------------------------------------------
\* The graph shows every process and every thread of the trace, once, even if the numbers have
\* been used again and a process is among its own ancestors.
GraphShowsAll ==
    LET graph == Graph
        all == UNION { {p} \X ({p} \cup TidsOf(p)) : p \in Processes }
    IN  Len(graph) = Cardinality(all) /\ { <<row.pid, row.tid>> : row \in ToSet(graph) } = all
=============================================================================
