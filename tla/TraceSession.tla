---------------------------- MODULE TraceSession ----------------------------
(***************************************************************************)
(* A session of strace-src (main.c, parser.c): strace prints the trace     *)
(* into a pipe, the loop of main reads it without waiting, shows it and    *)
(* takes a key.  q asks strace to end, kills it after a second, reads what *)
(* is left and saves the trace.                                            *)
(*                                                                         *)
(* A line of the trace is two units, the second of which has its newline,  *)
(* so that writes and reads end in the middle of a line.  fd 3, the end of *)
(* the pipe that strace opens anew, is inherited by the traced programs:   *)
(* those that outlive strace keep the pipe open.                           *)
(***************************************************************************)
EXTENDS TraceFile

CONSTANTS
    Scripts,    \* what strace may print
    PipeSize,   \* units the pipe holds
    MaxLines    \* bound on the lines of a script

ASSUME PipeAssumption == MaxLines \in Nat /\ PipeSize \in Nat \ {0}

VARIABLES
    out,        \* units strace has written
    got,        \* units read
    fed,        \* units that have been parsed; the rest of got is pending
    torn,       \* what a last line without its newline was taken for
    done,       \* trace_done
    strace,     \* strace runs, has ended ("zombie") or has been reaped ("gone")
    cut,        \* strace was killed
    child,      \* strace_pid is set
    heirs,      \* traced programs have the pipe open
    termed,     \* strace was asked to end
    pc

pipe == <<out, got, fed, torn, done>>
child_ == <<strace, cut, child, heirs, termed>>
vars == <<fileVars, pipe, child_, pc>>

\* The lines parsed, and the log without what the events resolve to.
Plain(log) == [i \in DOMAIN log |-> [line |-> log[i].line, frames |-> log[i].frames]]

Log == INSTANCE TraceLog WITH taken <- fed \div 2, events <- Plain(events)

ASSUME ScriptsAssumption == Scripts \subseteq Seq(Log!LineKinds)

----------------------------------------------------------------------------
(* parser.c *)

NewEvent(i) == [line |-> i, frames |-> <<>>, resolved |-> 0, source |-> 0]

\* Mutant: what the event resolved to before is kept.
KeepingAddFrame(e, i) == [e EXCEPT !.frames = Append(@, i)]

\* append_frame: what the event resolved to is forgotten.
AddFrame(e, i) == [e EXCEPT !.frames = Append(@, i), !.resolved = 0, !.source = 0]

\* trace_model_feed_line.
FeedLine(log, i, kind) ==
    CASE kind = "call" -> Append(log, NewEvent(i))
      [] kind \in Log!Frames /\ log # <<>> -> [log EXCEPT ![Len(log)] = AddFrame(@, i)]
      [] OTHER -> log

FeedLines(log, first, last) ==
    LET upTo[n \in first - 1..last] ==
            IF n < first THEN log ELSE FeedLine(upTo[n - 1], n, script[n])
    IN  upTo[last]

----------------------------------------------------------------------------
(* read_trace *)

Writers == strace = "runs" \/ heirs
Reading == pc \in {"read", "drain"} /\ ~done

\* Mutant: a read that ends in the middle of a line takes the half for a line.
GreedyReadSome ==
    /\ Reading /\ got < out
    /\ got' \in got + 1 .. out
    /\ fed' = 2 * ((got' + 1) \div 2)
    /\ events' = FeedLines(events, fed \div 2 + 1, fed' \div 2)
    /\ UNCHANGED <<script, file, stable, temp, synced, step, saved, replayed, out, torn, done, child_, pc>>

\* Only complete lines are parsed, the rest waits for the next read.
ReadSome ==
    /\ Reading /\ got < out
    /\ got' \in got + 1 .. out
    /\ fed' = 2 * (got' \div 2)
    /\ events' = FeedLines(events, fed \div 2 + 1, fed' \div 2)
    /\ UNCHANGED <<script, file, stable, temp, synced, step, saved, replayed, out, torn, done, child_, pc>>

Onwards == pc' = IF pc = "read" THEN "show" ELSE "save"

\* The end of the pipe: a last line without its newline is parsed as it is.
ReadEnd ==
    /\ Reading /\ got = out /\ ~Writers
    /\ done' = TRUE /\ fed' = got
    /\ IF fed = got THEN UNCHANGED <<torn, events>>
       ELSE /\ torn' \in Log!TornKinds(script[fed \div 2 + 1])
            /\ events' = FeedLine(events, fed \div 2 + 1, torn')
    /\ Onwards
    /\ UNCHANGED <<script, file, stable, temp, synced, step, saved, replayed, out, got, child_>>

\* Mutant: a pause of strace is taken for its end.
LastReadNothing ==
    /\ Reading /\ got = out /\ Writers
    /\ Onwards /\ done' = TRUE
    /\ UNCHANGED <<fileVars, out, got, fed, torn, child_>>

\* drain_trace tries a hundred times.
ReadNothing ==
    /\ Reading /\ got = out /\ Writers
    /\ Onwards
    /\ UNCHANGED <<fileVars, pipe, child_>>

ReadAfterEnd ==
    /\ pc \in {"read", "drain"} /\ done
    /\ Onwards
    /\ UNCHANGED <<fileVars, pipe, child_>>

ReadTrace == ReadSome \/ ReadEnd \/ ReadNothing \/ ReadAfterEnd

----------------------------------------------------------------------------
(* The rest of the loop, and the end *)

Reap == strace = "zombie" /\ strace' = "gone" /\ child' = FALSE /\ UNCHANGED <<cut, heirs, termed>>

\* Drawing resolves the events on the screen, in the list and in the stack.
Show ==
    /\ pc = "show" /\ pc' = "key"
    /\ IF child /\ strace = "zombie" THEN Reap ELSE UNCHANGED child_
    /\ \E shown \in SUBSET DOMAIN events :
          events' = [i \in DOMAIN events |-> IF i \in shown THEN Resolve(events[i]) ELSE events[i]]
    /\ UNCHANGED <<script, file, stable, temp, synced, step, saved, replayed, pipe>>

\* getch waits for a tenth of a second at most.
AnyKey ==
    /\ pc = "key" /\ pc' = "read"
    /\ UNCHANGED <<fileVars, pipe, child_>>

KeyQ ==
    /\ pc = "key" /\ pc' = "stop"
    /\ UNCHANGED <<fileVars, pipe, child_>>

\* stop_strace.
Stop ==
    /\ pc = "stop"
    /\ CASE ~child -> pc' = "drain" /\ UNCHANGED child_
         [] child /\ strace # "runs" -> pc' = "drain" /\ Reap
         [] OTHER -> pc' = "grace" /\ termed' = TRUE /\ UNCHANGED <<strace, cut, child, heirs>>
    /\ UNCHANGED <<fileVars, pipe>>

\* Mutant: nothing is drained when strace ends in time.
HastyStraceObeyed ==
    /\ pc = "grace" /\ pc' = "save"
    /\ Reap
    /\ UNCHANGED <<fileVars, pipe>>

StraceObeyed ==
    /\ pc = "grace" /\ pc' = "drain"
    /\ Reap
    /\ UNCHANGED <<fileVars, pipe>>

GraceOver ==
    /\ pc = "grace" /\ pc' = "drain"
    /\ strace' = "gone" /\ child' = FALSE
    /\ cut' = (cut \/ strace = "runs")
    /\ UNCHANGED <<fileVars, pipe, heirs, termed>>

\* With -o the trace is saved.
Finish ==
    /\ pc = "save" /\ pc' = "done"
    /\ step' \in {"idle", "create"}
    /\ UNCHANGED <<script, events, file, stable, temp, synced, saved, replayed, pipe, child_>>

Leave == Stop \/ StraceObeyed \/ GraceOver \/ Finish

----------------------------------------------------------------------------
(* strace and the traced programs *)

Prints ==
    /\ strace = "runs"
    /\ out < 2 * Len(script) /\ out - got < PipeSize
    /\ out' = out + 1
    /\ UNCHANGED <<fileVars, got, fed, torn, done, child_, pc>>

\* All programs have ended, so has strace.
StraceEnds ==
    /\ strace = "runs" /\ out = 2 * Len(script)
    /\ strace' = "zombie" /\ heirs' = FALSE
    /\ UNCHANGED <<fileVars, pipe, cut, child, termed, pc>>

\* By the signal of stop_strace or of somebody else, in the middle of a line perhaps.
StraceKilled ==
    /\ strace = "runs"
    /\ strace' = "zombie" /\ cut' = TRUE
    /\ UNCHANGED <<fileVars, pipe, child, heirs, termed, pc>>

HeirsEnd ==
    /\ strace # "runs" /\ heirs
    /\ heirs' = FALSE
    /\ UNCHANGED <<fileVars, pipe, strace, cut, child, termed, pc>>

Strace == Prints \/ StraceEnds \/ StraceKilled \/ HeirsEnd

----------------------------------------------------------------------------
Save == pc = "done" /\ SaveStep /\ UNCHANGED <<pipe, child_, pc>>
Disk == pc = "done" /\ (DiskStep \/ Open) /\ UNCHANGED <<pipe, child_, pc>>

\* start_strace; programs attached to have not inherited the pipe.
Init ==
    /\ FileInit
    /\ script \in Scripts
    /\ out = 0 /\ got = 0 /\ fed = 0 /\ torn = "blank" /\ done = FALSE
    /\ strace = "runs" /\ cut = FALSE /\ child = TRUE /\ heirs \in BOOLEAN /\ termed = FALSE
    /\ pc = "read"

Session == ReadTrace \/ Show \/ AnyKey \/ Leave \/ Save
Next == Session \/ KeyQ \/ Strace \/ Disk

\* strace-src is scheduled and the second after q passes; strace may block for ever.
Spec == Init /\ [][Next]_vars /\ WF_vars(Session)

----------------------------------------------------------------------------
(* Properties *)

TypeOK ==
    /\ script \in Scripts /\ events \in Seq(Events) /\ saved \in Seq(Events)
    /\ {file, stable, temp} \subseteq Files \cup {NoFile, OldFile} /\ synced \in BOOLEAN /\ step \in Steps
    /\ fed \in 0..got /\ got \in 0..out /\ out \in 0..2 * Len(script)
    /\ out - got <= PipeSize
    /\ torn \in Log!LineKinds \cup {"blank"}
    /\ strace \in {"runs", "zombie", "gone"}
    /\ {done, cut, child, heirs, termed} \subseteq BOOLEAN
    /\ pc \in {"read", "show", "key", "stop", "grace", "drain", "save", "done"}

\* The session implements TraceLog: wherever reads cut the lines, and whatever is drawn and
\* resolved between them, the log is always what the first lines say (feed_line, read_trace).
\* And it touches files only as FileSpec says: nothing is captured once a save has begun.
LogIsParse == Log!LogSpec /\ FileSpec

\* A half of a line is taken for a line only if strace was killed in the middle of it.
TornOnlyIfCut == (torn # "blank" \/ fed % 2 = 1) => cut /\ done

\* The process strace_pid names is strace, running or not yet reaped: no signal goes to another.
PidIsStrace == child <=> strace # "gone"

\* What a save saved is everything strace had written by its end: "every captured event is
\* included when saving", what it wrote in the second it was given to end too.
SavedAll ==
    step = "saved" => Log!IsLogOf(Plain(saved), Log!Lines(script, out \div 2, torn))

\* Nothing that was captured is lost to a save, no half of a line is taken for a whole one,
\* and no signal meant for strace goes elsewhere.
NothingLost == TypeOK /\ TornOnlyIfCut /\ PidIsStrace /\ SavedAll

\* What an event or a saved event is said to resolve to is what its frames resolve to.
Fresh(e) ==
    e.resolved # 0 => e.source = SourceFrame(e) /\ (e.resolved = 1 <=> Sourced(e) # {})
SourcesFresh ==
    /\ \A e \in ToSet(events) \cup ToSet(saved) : Fresh(e)
    /\ \A e \in ToSet(saved) : e.resolved # 0

\* Every line strace has printed is in the log in the end, whether or not strace ends.
\* After q the program ends, whether or not strace does.
EveryLineShown ==
    /\ \A n \in 1..MaxLines : out >= 2 * n ~> fed >= 2 * n
    /\ pc = "stop" ~> (pc = "done" /\ step \notin Running)
=============================================================================
