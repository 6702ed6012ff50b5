------------------------------ MODULE TraceLog ------------------------------
(***************************************************************************)
(* What the trace log of strace-src promises.  strace prints lines; the    *)
(* log is always what the first `taken' of them say: one event for every   *)
(* call, with the frames printed below it.  The log only grows by the next *)
(* lines.  If strace is killed in the middle of a line, what there is of   *)
(* it may be taken for a last line.                                        *)
(*                                                                         *)
(* A line is known by its number and its kind: a call, a frame of a stack  *)
(* whose source is known ("src") or not ("lib"), or a note (a signal, an   *)
(* exit), which is not an event.                                           *)
(***************************************************************************)
EXTENDS Naturals, Sequences, SequencesExt

CONSTANT Scripts    \* what strace may print: sequences of kinds of lines

Frames == {"src", "lib"}
LineKinds == Frames \cup {"call", "note"}

VARIABLES script, taken, torn, events

logVars == <<script, taken, torn, events>>

\* A line cut off: its text may still be whole, or no longer be what it was.
TornKinds(kind) == IF kind \in Frames THEN {kind, "blank"} ELSE {"call", "blank"}

Lines(s, n, t) == [i \in 1..n |-> s[i]] \o (IF t = "blank" THEN <<>> ELSE <<t>>)

Calls(lines) == { i \in DOMAIN lines : lines[i] = "call" }

\* The frames printed below a call, whatever else was printed in between.
FramesBelow(lines, c) ==
    { i \in DOMAIN lines : i > c /\ lines[i] \in Frames /\ \A d \in c + 1..i : lines[d] # "call" }

Ascends(q) == \A i, j \in DOMAIN q : i < j => q[i] < q[j]

\* One event for every call, and nothing else, in the order in which they were printed.
IsLogOf(log, lines) ==
    /\ log \in Seq([line : Nat, frames : Seq(Nat)])
    /\ Ascends([k \in DOMAIN log |-> log[k].line])
    /\ { log[k].line : k \in DOMAIN log } = Calls(lines)
    /\ \A k \in DOMAIN log :
          Ascends(log[k].frames) /\ ToSet(log[k].frames) = FramesBelow(lines, log[k].line)

LogInit ==
    /\ script \in Scripts
    /\ taken = 0 /\ torn = "blank"
    /\ events = <<>>

Take ==
    /\ torn = "blank"
    /\ taken' \in taken..Len(script)
    /\ torn' \in IF taken' < Len(script) THEN TornKinds(script[taken' + 1]) ELSE {"blank"}
    /\ IsLogOf(events', Lines(script, taken', torn'))
    /\ UNCHANGED script

LogSpec == LogInit /\ [][Take]_logVars
=============================================================================
