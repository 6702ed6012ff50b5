--------------------------- MODULE MCTraceSession ---------------------------
EXTENDS TraceSession, TLC

MCKinds == {"call", "src", "lib", "note"}

\* All that three lines can be, and longer ones: events with and without source, notes
\* between frames, more frames than a file may have.
MCScripts ==
    [1..3 -> MCKinds] \cup
    { <<"src", "call", "lib", "src">>, <<"call", "note", "src", "call">>,
      <<"call", "lib", "lib", "src", "call">>, <<"note", "call", "src">>, <<"call", "call", "src", "src", "lib">> }

\* What was there before: nothing that can be read.
MCOldFile == [count |-> 1, events |-> <<>>]
=============================================================================
