-------------------------- MODULE MCTraceProcesses --------------------------
EXTENDS TraceGraph
=============================================================================
