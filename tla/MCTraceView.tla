---------------------------- MODULE MCTraceView ----------------------------
EXTENDS TraceView, TLC

CONSTANTS n1, n2, t1, t2

\* A call, and the end of another one in another thread.
MCKinds ==
    { [name |-> n1, thread |-> t1, resumed |-> FALSE],
      [name |-> n2, thread |-> t2, resumed |-> TRUE] }
============================================================================
