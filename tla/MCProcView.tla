----------------------------- MODULE MCProcView -----------------------------
EXTENDS ProcView

Process(p, n, t) == [parent |-> p, name |-> n, born |-> 0, ticks |-> t]

\* A child with a lower id than its parent.
MCWorlds == {<<Process(0, 1, 0), Process(1, 2, 0), Process(4, 2, 0), Process(1, 1, 0)>>}
=============================================================================
