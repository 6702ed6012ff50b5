----------------------------- MODULE TraceFile -----------------------------
(***************************************************************************)
(* The trace files of strace-src (trace_file.c, resolve.c).  A trace is    *)
(* saved by writing it to a new file beside the old one, syncing that and  *)
(* renaming it; any step may fail, the program may be killed between any   *)
(* two of them, and the power may fail.  The kernel keeps what was written *)
(* and not synced for a while, and so the renaming itself.                 *)
(*                                                                         *)
(* A file is what can be read from it: how many events its header          *)
(* announces and the events that are there.                                *)
(***************************************************************************)
EXTENDS Naturals, Sequences, SequencesExt

CONSTANTS
    NoFile,
    OldFile,        \* what is at the path before: NoFile or a file
    FileEvents,     \* MAX_EVENTS
    FileFrames      \* MAX_FRAMES

ASSUME LimitsAssumption == FileEvents \in Nat /\ FileFrames \in Nat

\* What a trace and a file consist of.
Events == [line : Nat, frames : Seq(Nat), resolved : 0..2, source : Nat]
Files == [count : Nat, events : Seq(Events)]

ASSUME NoFileAssumption == NoFile \notin Files

VARIABLES
    script,     \* the lines of the trace, by kind
    events,     \* the model: the events of the trace
    file,       \* what is at the path
    stable,     \* what will be there after a loss of power
    temp,       \* the new file
    synced,     \* it is on the disk
    step,       \* of the saving
    saved,      \* the trace that a successful save saved
    replayed    \* the model of the program that opens the file again

fileVars == <<script, events, file, stable, temp, synced, step, saved, replayed>>

Running == {"create", "write", "close", "rename"}
Steps == Running \cup {"idle", "saved", "failed", "dead", "opened", "refused"}

----------------------------------------------------------------------------
(* What an event resolves to: computed once, then cached *)

Sourced(e) == { i \in DOMAIN e.frames : script[e.frames[i]] = "src" }

SourceFrame(e) ==
    IF Sourced(e) = {} THEN 0 ELSE CHOOSE i \in Sourced(e) : \A j \in Sourced(e) : i <= j

\* trace_event_resolve: 1 is found, 2 unavailable.
Resolve(e) ==
    IF e.resolved # 0 THEN e
    ELSE [e EXCEPT !.resolved = IF Sourced(e) = {} THEN 2 ELSE 1, !.source = SourceFrame(e)]

----------------------------------------------------------------------------
(* trace_model_save *)

Header == [count |-> Len(events), events |-> <<>>]

Create ==
    /\ step = "create" /\ step' = "write"
    /\ temp' = Header /\ synced' = FALSE
    /\ UNCHANGED <<script, events, file, stable, saved, replayed>>

\* write_event resolves the event first.
WriteEvent ==
    /\ step = "write" /\ Len(temp.events) < temp.count
    /\ LET i == Len(temp.events) + 1 IN
          /\ events' = [events EXCEPT ![i] = Resolve(@)]
          /\ temp' = [temp EXCEPT !.events = Append(@, events'[i])]
    /\ UNCHANGED <<script, file, stable, synced, step, saved, replayed>>

\* Mutant: without fsync.
LazySync ==
    /\ step = "write" /\ Len(temp.events) = temp.count
    /\ step' = "close"
    /\ UNCHANGED <<script, events, file, stable, temp, synced, saved, replayed>>

Sync ==
    /\ step = "write" /\ Len(temp.events) = temp.count
    /\ step' = "close" /\ synced' = TRUE
    /\ UNCHANGED <<script, events, file, stable, temp, saved, replayed>>

CloseFile ==
    /\ step = "close" /\ step' = "rename"
    /\ UNCHANGED <<script, events, file, stable, temp, synced, saved, replayed>>

Rename ==
    /\ step = "rename" /\ step' = "saved"
    /\ file' = temp /\ temp' = NoFile
    /\ saved' = events
    /\ UNCHANGED <<script, events, stable, synced, replayed>>

\* Any of these may fail: the new file is removed.
SaveFails ==
    /\ step \in Running /\ step' = "failed"
    /\ temp' = NoFile
    /\ UNCHANGED <<script, events, file, stable, synced, saved, replayed>>

SaveStep == Create \/ WriteEvent \/ Sync \/ CloseFile \/ Rename \/ SaveFails

----------------------------------------------------------------------------
(* The disk *)

\* What may be left of a file: no more than a part of what was not synced.
Remains(f) ==
    IF synced THEN {f} ELSE { [f EXCEPT !.events = SubSeq(@, 1, n)] : n \in 0..Len(f.events) }

\* The kernel writes back what is at the path, when it gets to it.
WriteBack ==
    /\ step # "dead" /\ stable # file
    /\ IF file = OldFile THEN stable' = file ELSE stable' \in Remains(file)
    /\ UNCHANGED <<script, events, file, temp, synced, step, saved, replayed>>

\* The program is killed: what it wrote stays.
SaverKilled ==
    /\ step \in Running /\ step' = "dead"
    /\ UNCHANGED <<script, events, file, stable, temp, synced, saved, replayed>>

PowerFails ==
    /\ step \in Running \cup {"saved", "failed"} /\ step' = "dead"
    /\ file' = stable
    /\ UNCHANGED <<script, events, stable, temp, synced, saved, replayed>>

DiskStep == WriteBack \/ SaverKilled \/ PowerFails

----------------------------------------------------------------------------
(* trace_model_load *)

Loads(f) ==
    /\ f # NoFile
    /\ f.count <= FileEvents /\ f.count = Len(f.events)
    /\ \A e \in ToSet(f.events) : Len(e.frames) <= FileFrames

\* strace-src FILE, once the session that may have saved it has ended.
Open ==
    /\ step \in {"saved", "failed", "dead"}
    /\ IF Loads(file) THEN step' = "opened" /\ replayed' = file.events
                      ELSE step' = "refused" /\ replayed' = <<>>
    /\ UNCHANGED <<script, events, file, stable, temp, synced, saved>>

FileInit ==
    /\ events = <<>>
    /\ file = OldFile /\ stable = OldFile
    /\ temp = NoFile /\ synced = FALSE
    /\ step = "idle"
    /\ saved = <<>> /\ replayed = <<>>

\* Before a save events arrive and are resolved; then it begins, or is not asked for.
Capture ==
    /\ step = "idle" /\ step' \in {"idle", "create"}
    /\ events' \in Seq(Events)
    /\ UNCHANGED <<script, file, stable, temp, synced, saved, replayed>>

FileNext == SaveStep \/ DiskStep \/ Open

\* What is done to files, whatever is captured.
FileSpec == FileInit /\ [][Capture \/ FileNext]_fileVars

----------------------------------------------------------------------------
(* Properties *)

\* Whatever fails, and whenever the power does: what is at the path is the old file or all of
\* the new one.
OldOrNew ==
    \A f \in {file, stable} : f = OldFile \/ (f.count = Len(f.events) /\ f.events = saved)

\* A save that has ended leaves no file of its own behind.
TempRemoved == step \in {"saved", "failed"} => temp = NoFile

\* A saved trace opens again as it was, unless there are more events or frames than are ever
\* read.
Reopens ==
    step \in {"opened", "refused"} /\ file # OldFile =>
        /\ replayed = IF step = "opened" THEN saved ELSE <<>>
        /\ step = "opened" <=>
              Len(saved) <= FileEvents /\ \A e \in ToSet(saved) : Len(e.frames) <= FileFrames

\* Whatever step of a save fails or is cut short, the path holds a trace that opens.
SaveIsAtomic == OldOrNew /\ TempRemoved /\ Reopens
=============================================================================
