----------------------------- MODULE GdbSession -----------------------------
(***************************************************************************)
(* gd and the GDB it drives: the synchronous requests of gdb.c (request,   *)
(* wait_result), its asynchronous records (handle_async, gdb_poll), the    *)
(* refresh of the panes at a stop (gdb_refresh), and the loop of main.c    *)
(* that polls once and then handles at most one key.                       *)
(*                                                                         *)
(* GDB is external: it answers commands in order, and it reads none while  *)
(* the program runs (mi-async is off).  Both directions are pipes.  The    *)
(* stops of the program are numbered; whatever is shown of a stop (source  *)
(* line, variables, registers, stack) is represented by its number, and 0  *)
(* by nothing.  The text of records and answers is left out.               *)
(***************************************************************************)
EXTENDS Naturals, Sequences, FiniteSetsExt

CONSTANTS
    Behaviours, \* sets of what users and GDB may be seen to do
    MaxStops,   \* bound on the stops of the program
    MaxKeys     \* bound on the keys that make a request

\* "asking"    keys that make a request are pressed while the program runs;
\* "slow"      GDB takes more than the 5 s of wait_result over a query;
\* "slowstart" GDB takes more than 5 s to run or resume the program;
\* "signals"   the program is killed by a signal;
\* "death"     GDB dies.
AllBehaviours == {"asking", "slow", "slowstart", "signals", "death"}

ASSUME BehavioursAssumption == Behaviours \subseteq SUBSET AllBehaviours
ASSUME BoundsAssumption == MaxStops \in Nat /\ MaxKeys \in Nat

VARIABLES
    seen,       \* what is seen in this session, of AllBehaviours
    (* GDB and the program *)
    alive,      \* GDB is there
    target,     \* the program: none, running or stopped
    stops,      \* the stops of the program so far
    inbox,      \* to_gdb: commands GDB has not read
    outbox,     \* from_gdb: records gd has not read
    (* gd *)
    state,      \* GdbState
    where,      \* fullname, line and pc: the stop they are of
    panes,      \* variables, frames, registers, disassembly: the stop they are of
    view,       \* the code view and its cursor: the stop they were moved to
    readbuf,    \* records read and not yet handled
    token,      \* the last token
    asked,      \* the request gd waits for
    before,     \* state and place at the top of the loop
    pc,         \* where gd stands
    keys        \* keys pressed

gdbVars == <<alive, target, stops, inbox, outbox>>
shownVars == <<where, panes, view>>
vars == <<seen, gdbVars, state, shownVars, readbuf, token, asked, before, pc, keys>>

GdbStates == {"not_started", "running", "stopped", "exited", "failed"}
Execs == {"run", "resume"}
Kinds == Execs \cup {"ask", "select", "frame", "rest", "quit"}
Records == [kind : {"running", "stopped", "exited"}, stop : Nat]
           \cup [kind : {"result"}, token : Nat, ok : BOOLEAN, stop : Nat]

Async(kind, stop) == [kind |-> kind, stop |-> stop]
Answer(command, ok, stop) ==
    [kind |-> "result", token |-> command.token, ok |-> ok, stop |-> stop]

----------------------------------------------------------------------------
(* handle_async, on all the lines of a buffer *)

\* Places in buf of the lines it understands, and of those that give a location.
Told(buf) == { i \in 1..Len(buf) : buf[i].kind # "result" }
StopsIn(buf) == { i \in 1..Len(buf) : buf[i].kind = "stopped" }

\* An answer that nobody waits for is taken for output of the program.
StateAfter(buf) == IF Told(buf) = {} THEN state ELSE buf[Max(Told(buf))].kind
WhereAfter(buf) == IF StopsIn(buf) = {} THEN where ELSE buf[Max(StopsIn(buf))].stop

\* read: gd gets at least one record ...
Chunk(n) == outbox' = SubSeq(outbox, n + 1, Len(outbox))

\* ... which follows what it has.
Buffer(n) == readbuf \o SubSeq(outbox, 1, n)

----------------------------------------------------------------------------
(* request *)

\* send_cmd.  Writing to a pipe nobody reads raises SIGPIPE, which is not handled.
Send(kind, then) ==
    IF alive
    THEN /\ token' = token + 1
         /\ inbox' = Append(inbox, [token |-> token + 1, kind |-> kind])
         /\ asked' = [token |-> token + 1, kind |-> kind, then |-> then]
         /\ pc' = "wait"
    ELSE /\ pc' = "killed"
         /\ UNCHANGED <<token, inbox, asked>>

IsAnswer(record) == record.kind = "result" /\ record.token = asked.token

AnswersIn(buf) == { i \in 1..Len(buf) : IsAnswer(buf[i]) }

\* Place of the first answer in buf.
At(buf) == CHOOSE i \in AnswersIn(buf) : \A j \in AnswersIn(buf) : i <= j

\* Mutant: the lines after the answer are handled before the caller goes on.
GreedySplit(buf) == [handled |-> buf, left |-> <<>>]

\* wait_result handles the lines before its answer and leaves the rest in readbuf.
Split(buf) ==
    [handled |-> SubSeq(buf, 1, At(buf) - 1), left |-> SubSeq(buf, At(buf) + 1, Len(buf))]

----------------------------------------------------------------------------
(* The loop of main.c *)

\* Where the loop is at its top.
Here == [state |-> state, where |-> where]

\* gdb_poll is done: the view follows if the program has stopped since the top.
ToKey(top, now, place) ==
    /\ pc' = "key"
    /\ view' = IF now = "stopped" /\ (top.state # "stopped" \/ top.where # place)
               THEN place ELSE view

\* The lines of buf are handled; if they tell of a stop, gdb_refresh begins.  g.changed
\* has been cleared just before, so only the lines handled here count.
Handle(buf) ==
    /\ before' = Here
    /\ state' = StateAfter(buf)
    /\ IF Told(buf) # {} /\ StateAfter(buf) = "stopped"
       THEN /\ Send("frame", "key")
            /\ where' = 0
            /\ UNCHANGED <<panes, view>>
       ELSE /\ where' = WhereAfter(buf)
            /\ ToKey(Here, StateAfter(buf), WhereAfter(buf))
            /\ UNCHANGED <<inbox, token, asked, panes>>

\* Mutant: what a request has left in readbuf is handled, but leads to no refresh.
SilentPollBuffered ==
    /\ pc = "poll" /\ readbuf # <<>>
    /\ before' = Here
    /\ state' = StateAfter(readbuf) /\ where' = WhereAfter(readbuf)
    /\ ToKey(Here, StateAfter(readbuf), WhereAfter(readbuf))
    /\ readbuf' = <<>>
    /\ UNCHANGED <<gdbVars, panes, token, asked, keys>>

\* Mutant: gdb_poll waits for more before it looks at what a request has left.
BlindPollBuffered ==
    /\ pc = "poll" /\ readbuf # <<>>
    /\ before' = Here /\ pc' = "key"
    /\ UNCHANGED <<gdbVars, state, shownVars, readbuf, token, asked, keys>>

\* What an earlier request has left in readbuf comes first.
PollBuffered ==
    /\ pc = "poll" /\ readbuf # <<>>
    /\ Handle(readbuf)
    /\ readbuf' = <<>>
    /\ UNCHANGED <<alive, target, stops, outbox, keys>>

PollReads ==
    /\ pc = "poll" /\ readbuf = <<>> /\ outbox # <<>>
    /\ \E n \in 1..Len(outbox) :
          /\ Chunk(n)
          /\ Handle(Buffer(n))
    /\ UNCHANGED <<alive, target, stops, readbuf, keys>>

PollNothing ==
    /\ pc = "poll" /\ readbuf = <<>> /\ outbox = <<>>
    /\ before' = Here
    /\ state' = IF alive THEN state ELSE "failed"
    /\ pc' = "key"
    /\ UNCHANGED <<gdbVars, shownVars, readbuf, token, asked, keys>>

\* wait_result reads lines, none of which is the answer.
WaitReads ==
    /\ pc = "wait"
    /\ \E n \in 1..Len(outbox) :
          /\ Chunk(n) /\ AnswersIn(Buffer(n)) = {}
          /\ state' = StateAfter(Buffer(n))
          /\ where' = WhereAfter(Buffer(n))
          /\ readbuf' = <<>>
    /\ UNCHANGED <<alive, target, stops, inbox, panes, view, token, asked, before, pc, keys>>

----------------------------------------------------------------------------
(* What follows an answer: ok and stop are its class and content; now and  *)
(* place are the state and the location as the lines before it left them.  *)

\* exec_simple.
ExecDone(ok, now, place) ==
    /\ asked.kind \in Execs
    /\ state' = IF ok THEN "running" ELSE now
    /\ where' = place
    /\ pc' = "poll"
    /\ UNCHANGED <<inbox, token, asked, panes, view>>

\* Breakpoints, expressions, lists.
AskDone(now, place) ==
    /\ asked.kind = "ask"
    /\ state' = now /\ where' = place
    /\ pc' = "poll"
    /\ UNCHANGED <<inbox, token, asked, panes, view>>

\* gdb_select_frame, gdb_force_return: the panes are refreshed if GDB agrees.
SelectDone(ok, now, place) ==
    /\ asked.kind = "select"
    /\ state' = now
    /\ IF ok THEN where' = 0 /\ Send("frame", "poll")
       ELSE where' = place /\ pc' = "poll" /\ UNCHANGED <<inbox, token, asked>>
    /\ UNCHANGED <<panes, view>>

\* gdb_refresh: -stack-info-frame ...
FrameDone(ok, stop, now, place) ==
    /\ asked.kind = "frame"
    /\ state' = now
    /\ where' = IF ok THEN stop ELSE place
    /\ Send("rest", asked.then)
    /\ UNCHANGED <<panes, view>>

\* ... and the others, taken as one.
RestDone(ok, stop, now, place) ==
    /\ asked.kind = "rest"
    /\ state' = now /\ where' = place
    /\ panes' = IF ok THEN stop ELSE 0
    /\ IF asked.then = "key" THEN ToKey(before, now, place)
       ELSE pc' = "poll" /\ view' = place
    /\ UNCHANGED <<inbox, token, asked>>

\* gdb_shutdown, after -gdb-exit.
QuitDone(now, place) ==
    /\ asked.kind = "quit"
    /\ state' = now /\ where' = place
    /\ pc' = "reap"
    /\ UNCHANGED <<inbox, token, asked, panes, view>>

Done(ok, stop, now, place) ==
    \/ ExecDone(ok, now, place) \/ AskDone(now, place) \/ SelectDone(ok, now, place)
    \/ FrameDone(ok, stop, now, place) \/ RestDone(ok, stop, now, place)
    \/ QuitDone(now, place)

\* wait_result finds its answer.
Answered ==
    /\ pc = "wait"
    /\ \E n \in 1..Len(outbox) :
          LET buf == Buffer(n)
              answer == buf[At(buf)]
              parts == Split(buf)
          IN  /\ AnswersIn(buf) # {}
              /\ Chunk(n)
              /\ readbuf' = parts.left
              /\ Done(answer.ok, answer.stop, StateAfter(parts.handled), WhereAfter(parts.handled))
    /\ UNCHANGED <<alive, target, stops, before, keys>>

\* GDB has not answered within 5 s: it is slow, or waits for the program to stop.
Late ==
    \/ target = "running"
    \/ "slow" \in seen /\ asked.kind \notin Execs
    \/ "slowstart" \in seen /\ asked.kind \in Execs

\* wait_result gives up; what it asked for may still be answered.
GivesUp ==
    /\ pc = "wait" /\ outbox = <<>> /\ (~alive \/ Late)
    /\ Done(FALSE, 0, state, where)
    /\ UNCHANGED <<alive, target, stops, outbox, readbuf, before, keys>>

\* SIGTERM, if it is needed, and waitpid.
Reap ==
    /\ pc = "reap" /\ pc' = "done"
    /\ alive' = FALSE /\ target' = "none"
    /\ UNCHANGED <<stops, inbox, outbox, state, shownVars, readbuf, token, asked, before, keys>>

----------------------------------------------------------------------------
(* Keys *)

\* A key that asks nothing of GDB, or none within 80 ms.
OtherKey ==
    /\ pc = "key" /\ pc' = "poll"
    /\ UNCHANGED <<gdbVars, state, shownVars, readbuf, token, asked, before, keys>>

Press(kind) ==
    /\ pc = "key" /\ keys < MaxKeys /\ keys' = keys + 1
    /\ Send(kind, "poll")
    /\ UNCHANGED <<alive, target, stops, outbox, state, shownVars, readbuf, before>>

\* Mutant: r starts the program over.
AlwaysRun == state # "failed" /\ Press("run")

\* r; refused while the program runs or is stopped, and when GDB is gone.
Run == state \notin {"running", "stopped", "failed"} /\ Press("run")

\* c, n, s, f, i, I.
Resume == state = "stopped" /\ Press("resume")

\* b, B, S, ...: not all of them require that the program has stopped.
Ask == (state # "running" \/ "asking" \in seen) /\ Press("ask")

\* Enter on a frame, a forced return.
Select == state = "stopped" /\ Press("select")

\* q: gdb_shutdown writes to the pipe of a dead GDB, too.
Quit ==
    /\ pc = "key" /\ UNCHANGED keys
    /\ Send("quit", "poll")
    /\ UNCHANGED <<alive, target, stops, outbox, state, shownVars, readbuf, before>>

Key == OtherKey \/ Run \/ Resume \/ Ask \/ Select \/ Quit
Poll == PollBuffered \/ PollReads \/ PollNothing
Wait == WaitReads \/ Answered \/ GivesUp

Gd == Poll \/ Wait \/ Key \/ Reap

----------------------------------------------------------------------------
(* GDB *)

gdVars == <<state, shownVars, readbuf, token, asked, before, pc, keys>>

CanResume(kind) == kind = "run" \/ (kind = "resume" /\ target = "stopped")

GdbReads ==
    /\ alive /\ target # "running" /\ inbox # <<>>
    /\ inbox' = Tail(inbox)
    /\ LET command == Head(inbox) IN
       IF CanResume(command.kind)
       THEN /\ target' = "running"
            /\ outbox' = outbox \o <<Answer(command, TRUE, 0), Async("running", 0)>>
            /\ UNCHANGED alive
       ELSE /\ outbox' = Append(outbox, Answer(command,
                             command.kind \in {"ask", "quit"} \/ target = "stopped", stops))
            /\ IF command.kind = "quit" THEN alive' = FALSE /\ target' = "none"
               ELSE UNCHANGED <<alive, target>>
    /\ UNCHANGED <<stops, gdVars>>

TargetStops ==
    /\ target = "running" /\ stops < MaxStops
    /\ target' = "stopped" /\ stops' = stops + 1
    /\ outbox' = Append(outbox, Async("stopped", stops'))
    /\ UNCHANGED <<alive, inbox, gdVars>>

TargetExits ==
    /\ target = "running" /\ target' = "none"
    /\ outbox' = Append(outbox, Async("exited", 0))
    /\ UNCHANGED <<alive, stops, inbox, gdVars>>

\* Its reason is "exited-signalled", which handle_async takes for a stop.
TargetKilled ==
    /\ "signals" \in seen
    /\ target = "running" /\ target' = "none"
    /\ outbox' = Append(outbox, Async("stopped", 0))
    /\ UNCHANGED <<alive, stops, inbox, gdVars>>

GdbDies ==
    /\ "death" \in seen
    /\ alive /\ alive' = FALSE /\ target' = "none" /\ inbox' = <<>>
    /\ UNCHANGED <<stops, outbox, gdVars>>

Init ==
    /\ seen \in Behaviours
    /\ alive = TRUE /\ target = "none" /\ stops = 0
    /\ inbox = <<>> /\ outbox = <<>> /\ readbuf = <<>>
    /\ state = "not_started" /\ where = 0 /\ panes = 0 /\ view = 0
    /\ token = 0 /\ asked = [token |-> 0, kind |-> "ask", then |-> "poll"]
    /\ before = [state |-> "not_started", where |-> 0]
    /\ pc = "poll" /\ keys = 0

Gdb == GdbReads \/ TargetStops \/ TargetExits \/ TargetKilled \/ GdbDies

Next == (Gd \/ Gdb) /\ UNCHANGED seen

\* The loop of gd runs on and GDB reads its commands; the program does what it likes.
Fairness ==
    /\ WF_vars(Poll /\ UNCHANGED seen) /\ WF_vars(Wait /\ UNCHANGED seen)
    /\ WF_vars(Key /\ UNCHANGED seen) /\ WF_vars(GdbReads /\ UNCHANGED seen)

Spec == Init /\ [][Next]_vars /\ Fairness

----------------------------------------------------------------------------
(* Properties *)

Commands == [token : Nat, kind : Kinds]

\* Type invariant of gd, GDB and the pipes between them.
TypeOK ==
    /\ seen \in Behaviours
    /\ alive \in BOOLEAN /\ target \in {"none", "running", "stopped"}
    /\ stops \in 0..MaxStops
    /\ inbox \in Seq(Commands)
    /\ outbox \in Seq(Records) /\ readbuf \in Seq(Records)
    /\ state \in GdbStates
    /\ where \in 0..MaxStops /\ panes \in 0..MaxStops /\ view \in 0..MaxStops
    /\ token \in Nat
    /\ asked \in [token : Nat, kind : Kinds, then : {"key", "poll"}]
    /\ before \in [state : GdbStates, where : 0..MaxStops]
    /\ pc \in {"poll", "wait", "key", "reap", "done", "killed"}
    /\ keys \in 0..MaxKeys

Without(behaviours) == seen \cap behaviours = {}

\* gd waits for a key and has heard all that GDB has to say.
Quiet == pc = "key" /\ alive /\ inbox = <<>> /\ outbox = <<>> /\ readbuf = <<>>

\* The state gd goes by, which decides what the keys do, is the program's.
RightState ==
    Quiet => /\ state = "running" <=> target = "running"
             /\ state = "stopped" <=> target = "stopped"

\* Neither answers that come too late nor requests made while the program runs lead
\* gd away from the state of the program.
StateAgrees == TypeOK /\ (Without({"signals"}) => RightState)

\* At a stop the panes and the code view are those of that stop: README.md:114-115.
RightPanes == Quiet /\ target = "stopped" => panes = stops /\ view = stops

\* Wherever read cuts the stream of records, every stop is followed by a refresh; and
\* however late GDB answers, what an earlier stop was asked for is not shown for a later
\* one: a pane that could not be refreshed is empty.
PanesFresh ==
    /\ Without({"asking", "slow", "slowstart"}) => RightPanes
    /\ Without({"asking", "slowstart"}) /\ Quiet /\ target = "stopped" =>
           panes \in {0, stops} /\ view \in {0, stops}

\* r is not sent while the program is stopped: README.md:112.
NoRestart == alive /\ target = "stopped" /\ inbox # <<>> => Head(inbox).kind # "run"

\* r never starts the program over, if GDB was in time when it was run.
NeverRestarted == Without({"slowstart"}) => NoRestart

\* Every stop is shown, without a key being pressed, unless the user moves on first.
StopsShown ==
    \A n \in 1..MaxStops :
        (Without({"asking", "slow", "slowstart"}) /\ target = "stopped" /\ stops = n) ~>
            (target # "stopped" \/ stops # n \/ pc = "done" \/ (pc = "key" /\ panes = n))
============================================================================
