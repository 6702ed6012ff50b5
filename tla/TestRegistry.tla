---------------------------- MODULE TestRegistry ----------------------------
(***************************************************************************)
(* Where autotest-builder keeps its tests (autotest_builder.c): in memory, *)
(* as one script per test, and as a line per test of the registry, which   *)
(* is all that the next start reads.  A handler first writes the script    *)
(* and then rewrites the registry; neither write is checked after fopen,   *)
(* and the program may be killed anywhere in both.  Other files come into  *)
(* the same directories at any time, and scripts are removed by hand.      *)
(*                                                                         *)
(* A text stands for what the user typed, 0 for what a new test begins     *)
(* with.  Left out: which tests are selected, the settings that follow     *)
(* from the text (checks, kind, cleanup), .result files, filters that hit  *)
(* more than the title, a save refused for its syntax, and the screens no  *)
(* key leads to (form, match, cleanup, reboot, preview).                   *)
(***************************************************************************)
EXTENDS Integers, Sequences, SequencesExt, FiniteSets

CONSTANTS
    Titles,
    Name,           \* the file name a title is normalised to
    Hits,           \* for every filter, the titles it is found in
    NoFilter,
    Dirs,           \* where the program is started
    MaxCases,       \* MAX_CASES
    MaxTexts,       \* bound on the texts typed
    MaxFaults,      \* bound on crashes, failed writes and removed scripts
    MaxForeign      \* bound on the files of others

ASSUME NamesAssumption ==
    /\ DOMAIN Name = Titles
    /\ NoFilter \in DOMAIN Hits /\ Hits[NoFilter] = Titles
    /\ \A f \in DOMAIN Hits : Hits[f] \subseteq Titles
ASSUME BoundsAssumption ==
    /\ {MaxCases, MaxTexts} \subseteq Nat \ {0} /\ {MaxFaults, MaxForeign} \subseteq Nat

Texts == 0..MaxTexts
Paths == Dirs \X {Name[t] : t \in Titles}
NoScript == <<>>            \* script_path of a test never saved

\* What a file holds: nothing (no file), part of a script, another's data, or a script.
None == <<>>
Cut == <<"cut">>
Foreign == <<"foreign">>
Body(t) == <<"script", t.title, t.command, t.about>>

VARIABLES
    tests,      \* project.cases
    sel,        \* selected_case, from 1
    filter,     \* case_filter
    cwd,
    at,         \* "list", "editor", "saving" the registry, "writing" several scripts, "off"
    back        \* where "saving" or "writing" returns to

VARIABLES
    target,     \* what the editor edits, "none" when it is closed
    text,       \* what it shows
    dirty,      \* editor_dirty
    fresh,      \* editor_new_case
    pending     \* the tests that are still to be written, in their order

VARIABLES
    scripts,    \* the file at every path
    registry    \* the lines of the registry

VARIABLES
    typed, faults, foreign,     \* what has been typed, gone wrong, and put there by others
    truncated,                  \* files that came between the look at a path and its opening
    hidden,                     \* a test was added that the filter does not show
    givenUp                     \* the texts the user typed over, deleted or discarded

app == <<tests, sel, filter, cwd, at, back>>
editor == <<target, text, dirty, fresh>>
disk == <<scripts, registry, truncated>>
ghosts == <<typed, foreign, hidden, givenUp>>
vars == <<app, editor, pending, disk, ghosts, faults>>

----------------------------------------------------------------------------
(* Tests and files *)

\* make_test_path: beside the old script, or in the current directory.
PathOf(t) == <<IF t.script = NoScript THEN cwd ELSE t.script[1], Name[t.title]>>

\* title_path_conflicts, and the check of write_single_test_script.
Taken(t) == PathOf(t) # t.script /\ scripts[PathOf(t)] # None

Matches(t) == t.title \in Hits[filter]
Visible == \E t \in Range(tests) : Matches(t)

FirstMatch(ts, f) ==
    LET hits == {i \in DOMAIN ts : ts[i].title \in Hits[f]}
    IN  CHOOSE i \in hits : \A j \in hits : i <= j

\* clamp_selected, which handle_key ends with on every screen but the editor's.
Clamp(ts, i, f) ==
    LET j == IF i > Len(ts) THEN IF ts = <<>> THEN 1 ELSE Len(ts) ELSE i
    IN  IF j \in DOMAIN ts /\ ts[j].title \notin Hits[f] /\ \E t \in Range(ts) : t.title \in Hits[f]
        THEN FirstMatch(ts, f) ELSE j

\* What save_test_registry lists: the tests that have a script.
Listed(lines, t) == IF t.script = NoScript THEN lines ELSE Append(lines, t)
Lines(ts) ==
    LET upto[n \in 0..Len(ts)] == IF n = 0 THEN <<>> ELSE Listed(upto[n - 1], ts[n])
    IN  upto[Len(ts)]

\* What is left of the registry when the rewriting of it stops half way: the first lines,
\* the last of them without its end.
Torn(ts) ==
    LET all == Lines(ts)
        cuts(t) == {[t EXCEPT !.command = c, !.about = 0] : c \in {0, t.command}}
    IN  {SubSeq(all, 1, k) : k \in 0..Len(all)}
        \union UNION {{Append(SubSeq(all, 1, k - 1), t) : t \in cuts(all[k])} : k \in DOMAIN all}

\* load_test_registry
Loaded == SubSeq(registry, 1, IF Len(registry) < MaxCases THEN Len(registry) ELSE MaxCases)

----------------------------------------------------------------------------
(* The ways things go wrong *)

Fault == faults < MaxFaults /\ faults' = faults + 1

\* The program is gone, and its memory with it.
Gone ==
    /\ tests' = <<>> /\ sel' = 1 /\ filter' = NoFilter /\ cwd' = cwd
    /\ at' = "off" /\ back' = "off"
    /\ target' = "none" /\ text' = 0 /\ dirty' = FALSE /\ fresh' = FALSE
    /\ pending' = {}

----------------------------------------------------------------------------
(* write_single_test_script *)

\* Mutant: a script whose name stays is taken for unchanged.
OnlyNewWritten(t, body) ==
    [p \in Paths |-> CASE p = PathOf(t) -> IF p = t.script THEN scripts[p] ELSE body
                       [] p # PathOf(t) /\ p = t.script -> None
                       [] OTHER -> scripts[p]]

\* The scripts after it: the new script, and no old one under another name.
Written(t, body) ==
    [p \in Paths |-> CASE p = PathOf(t) -> body
                       [] p # PathOf(t) /\ p = t.script -> None
                       [] OTHER -> scripts[p]]

\* Those a kill leaves once the new script is open: cut, or whole beside the old one.
Partway(t) == {[scripts EXCEPT ![PathOf(t)] = body] : body \in {Cut, Body(t)}}

Others == Cardinality(foreign) + truncated

\* The path is opened after access has looked there, not exclusively: a file of someone
\* else that comes in between is truncated.
Opens(t) ==
    \/ UNCHANGED truncated
    \/ PathOf(t) # t.script /\ Others < MaxForeign /\ truncated' = truncated + 1

\* Mutant: without the second look at the directory.
UncheckedWrite(t) ==
    /\ Opens(t)
    /\ \/ scripts' = Written(t, Body(t)) /\ UNCHANGED faults
       \/ scripts' = Written(t, Cut) /\ Fault

\* The write as the program sees it end well, which it does on a full disk too.
Write(t) ==
    /\ ~Taken(t) /\ Opens(t)
    /\ \/ scripts' = Written(t, Body(t)) /\ UNCHANGED faults
       \/ scripts' = Written(t, Cut) /\ Fault

\* It returns -2 or, when the file cannot be opened, -1.
WriteFails(t) ==
    /\ UNCHANGED <<scripts, truncated>>
    /\ \/ Taken(t) /\ UNCHANGED faults
       \/ ~Taken(t) /\ Fault

WriteKilled(t) ==
    /\ ~Taken(t) /\ Fault /\ Gone
    /\ \/ UNCHANGED <<scripts, truncated>>
       \/ Opens(t) /\ scripts' \in Partway(t) \union {Written(t, Body(t))}
    /\ UNCHANGED <<registry, ghosts>>

Saved(t) == [t EXCEPT !.script = PathOf(t)]

----------------------------------------------------------------------------
(* The texts *)

TextsIn(ts) == (UNION {{t.command, t.about} : t \in Range(ts)}) \ {0}
InScript(p) == IF Len(scripts[p]) = 4 THEN {scripts[p][3], scripts[p][4]} \ {0} ELSE {}
OnDisk == TextsIn(registry) \union UNION {InScript(p) : p \in Paths}

\* The user does not want the texts that this step takes out of the tests.
GivesUp == givenUp' = (givenUp \union (TextsIn(tests) \ TextsIn(tests'))) \intersect OnDisk

----------------------------------------------------------------------------
(* save_test_registry, the last thing a handler does *)

SaveRegistryThen(next) == at' = "saving" /\ back' = next

SaveRegistry ==
    /\ at = "saving"
    /\ \/ registry' = Lines(tests) /\ UNCHANGED faults
       \/ registry' \in Torn(tests) \union {registry} /\ Fault
    /\ IF back = "off"
       THEN Gone
       ELSE /\ at' = back
            /\ UNCHANGED <<tests, sel, filter, cwd, back, editor, pending>>
    /\ UNCHANGED <<scripts, truncated, ghosts>>

SaveKilled ==
    /\ at = "saving" /\ Fault /\ Gone
    /\ registry' \in Torn(tests) \union {registry}
    /\ UNCHANGED <<scripts, truncated, ghosts>>

----------------------------------------------------------------------------
(* The list of tests *)

OnTest == at = "list" /\ Visible

\* add_case: the title is asked for and the editor opens on the new test, which is
\* written when the editor saves.
Add(title) ==
    LET t == [title |-> title, script |-> NoScript, command |-> 0, about |-> 0]
        ts == Append(tests, t)
    IN  /\ at = "list" /\ Len(tests) < MaxCases /\ ~Taken(t)
        /\ tests' = ts /\ sel' = Clamp(ts, Len(ts), filter)
        /\ at' = "editor" /\ target' = "command" /\ text' = 0 /\ dirty' = FALSE /\ fresh' = TRUE
        /\ hidden' = (hidden \/ sel' # Len(ts))
        /\ UNCHANGED <<filter, cwd, back, pending, disk, typed, foreign, givenUp, faults>>

\* open_text_editor
Open(what) ==
    /\ OnTest
    /\ at' = "editor" /\ target' = what /\ dirty' = FALSE
    /\ fresh' = (fresh /\ what # "command")
    /\ sel' = Clamp(tests, sel, filter)
    /\ text' = IF what = "command" THEN tests[sel].command ELSE tests[sel].about
    /\ UNCHANGED <<tests, filter, cwd, back, pending, disk, ghosts, faults>>

\* rename_case
Rename(title) ==
    LET t == [tests[sel] EXCEPT !.title = title]
        ts == [tests EXCEPT ![sel] = Saved(t)]
    IN  /\ OnTest /\ ~Taken(t)
        /\ \/ /\ Write(t) /\ tests' = ts /\ sel' = Clamp(ts, sel, filter)
              /\ SaveRegistryThen("list")
              /\ UNCHANGED <<filter, cwd, editor, pending, registry, ghosts>>
           \/ /\ WriteFails(t) /\ sel' = Clamp(tests, sel, filter)
              /\ UNCHANGED <<tests, filter, cwd, at, back, editor, pending, registry, ghosts>>
           \/ WriteKilled(t)

\* copy_case
Copy(title) ==
    LET t == [tests[sel] EXCEPT !.title = title, !.script = NoScript]
        ts == Append(tests, Saved(t))
    IN  /\ OnTest /\ Len(tests) < MaxCases /\ ~Taken(t)
        /\ \/ /\ Write(t) /\ tests' = ts /\ sel' = Clamp(ts, Len(ts), filter)
              /\ SaveRegistryThen("list")
              /\ UNCHANGED <<filter, cwd, editor, pending, registry, ghosts>>
           \/ /\ WriteFails(t) /\ sel' = Clamp(tests, sel, filter)
              /\ UNCHANGED <<tests, filter, cwd, at, back, editor, pending, registry, ghosts>>
           \/ WriteKilled(t)

\* Mutant: the registry is left to the next save.
UnlistedDelete ==
    LET i == Clamp(tests, sel, filter)
        ts == RemoveAt(tests, i)
        p == tests[i].script
    IN  /\ OnTest
        /\ scripts' = [q \in Paths |-> IF q = p THEN None ELSE scripts[q]]
        /\ tests' = ts /\ sel' = Clamp(ts, i, filter) /\ GivesUp
        /\ UNCHANGED <<filter, cwd, at, back, editor, pending, registry, truncated>>
        /\ UNCHANGED <<typed, foreign, hidden, faults>>

\* delete_case, confirmed on a screen of its own.
Delete ==
    LET i == Clamp(tests, sel, filter)
        ts == RemoveAt(tests, i)
        p == tests[i].script
        rest == [q \in Paths |-> IF q = p THEN None ELSE scripts[q]]
    IN  /\ OnTest
        /\ \/ /\ scripts' = rest /\ tests' = ts /\ sel' = Clamp(ts, i, filter)
              /\ SaveRegistryThen("list") /\ GivesUp
              /\ UNCHANGED <<filter, cwd, editor, pending, faults>>
           \/ Fault /\ Gone /\ scripts' = rest /\ UNCHANGED givenUp
        /\ UNCHANGED <<registry, truncated, typed, foreign, hidden>>

\* "Select test"
Toggle ==
    /\ OnTest
    /\ sel' = Clamp(tests, sel, filter) /\ SaveRegistryThen("list")
    /\ UNCHANGED <<tests, filter, cwd, editor, pending, disk, ghosts, faults>>

\* edit_case_filter
Filter(f) ==
    /\ at = "list" /\ filter' = f
    /\ LET i == Clamp(tests, sel, f)
           hits == {j \in DOMAIN tests : tests[j].title \in Hits[f]}
       IN  sel' = IF f # NoFilter /\ hits # {} THEN FirstMatch(tests, f) ELSE i
    /\ UNCHANGED <<tests, cwd, at, back, editor, pending, disk, ghosts, faults>>

\* move_filtered_case, one way or the other: the next one shown, and round the end.
Move(direction) ==
    LET n == Len(tests)
        step(k) == ((sel - 1 + direction * k + n * n) % n) + 1
        shown == {k \in 1..n : Matches(tests[step(k)])}
    IN  /\ OnTest
        /\ sel' = IF Matches(tests[sel])
                  THEN step(CHOOSE k \in shown : \A l \in shown : k <= l)
                  ELSE FirstMatch(tests, filter)
        /\ UNCHANGED <<tests, filter, cwd, at, back, editor, pending, disk, ghosts, faults>>

----------------------------------------------------------------------------
(* The editor *)

Type ==
    /\ at = "editor" /\ typed < MaxTexts
    /\ typed' = typed + 1 /\ text' = typed' /\ dirty' = TRUE
    /\ UNCHANGED <<app, target, fresh, pending, disk, foreign, hidden, givenUp, faults>>

Closed(exit) ==
    /\ target' = IF exit THEN "none" ELSE target
    /\ text' = IF exit THEN 0 ELSE text
    /\ dirty' = FALSE

\* save_current_editor on the command: ":w", or ":wq" to exit.
SaveCommand(exit) ==
    LET t == [tests[sel] EXCEPT !.command = text]
    IN  /\ at = "editor" /\ target = "command"
        /\ \/ /\ Write(t) /\ tests' = [tests EXCEPT ![sel] = Saved(t)]
              /\ SaveRegistryThen(IF exit THEN "list" ELSE "editor")
              /\ Closed(exit) /\ fresh' = FALSE /\ GivesUp
              /\ UNCHANGED <<sel, filter, cwd, pending, registry, typed, foreign, hidden>>
           \/ /\ WriteFails(t) /\ tests' = [tests EXCEPT ![sel] = t] /\ GivesUp
              /\ UNCHANGED <<sel, filter, cwd, at, back, editor, pending, registry>>
              /\ UNCHANGED <<typed, foreign, hidden>>
           \/ WriteKilled(t)

\* And on the description, where it does not ask how the write ended.
SaveAbout(exit) ==
    LET t == [tests[sel] EXCEPT !.about = text]
        stays == t.script = NoScript
    IN  /\ at = "editor" /\ target = "about"
        /\ \/ /\ tests' = [tests EXCEPT ![sel] = IF stays \/ Taken(t) THEN t ELSE Saved(t)]
              /\ IF stays THEN UNCHANGED <<scripts, truncated, faults>> ELSE Write(t)
           \/ ~stays /\ WriteFails(t) /\ tests' = [tests EXCEPT ![sel] = t]
        /\ SaveRegistryThen(IF exit THEN "list" ELSE "editor")
        /\ Closed(exit) /\ GivesUp
        /\ UNCHANGED <<sel, filter, cwd, fresh, pending, registry, typed, foreign, hidden>>

SaveAboutKilled ==
    LET t == [tests[sel] EXCEPT !.about = text]
    IN  at = "editor" /\ target = "about" /\ t.script # NoScript /\ WriteKilled(t)

\* ":q" and Ctrl-Q, refused while there is something to lose.
QuitEditor ==
    /\ at = "editor" /\ ~dirty /\ ~(fresh /\ target = "command")
    /\ at' = "list" /\ Closed(TRUE)
    /\ UNCHANGED <<tests, sel, filter, cwd, back, fresh, pending, disk, ghosts, faults>>

\* ":q!", which takes a test that was just added out again: discard_current_case_if_new.
Discard ==
    LET drops == target = "command" /\ fresh
        ts == IF drops THEN RemoveAt(tests, sel) ELSE tests
    IN  /\ at = "editor" /\ at' = "list" /\ Closed(TRUE)
        /\ tests' = ts /\ sel' = IF drops THEN Clamp(ts, sel, filter) ELSE sel
        /\ fresh' = (fresh /\ ~drops) /\ GivesUp
        /\ UNCHANGED <<filter, cwd, back, pending, disk, typed, foreign, hidden, faults>>

----------------------------------------------------------------------------
(* Several scripts at once *)

\* start_selected_test_scripts: the tests without a script are written before they are
\* run.  When one of them reboots the machine, write_resume_automation writes them all
\* first, and the registry.
Start ==
    /\ at = "list" /\ tests # <<>>
    /\ at' = "writing" /\ back' \in {"running", "resuming"}
    /\ \E selected \in (SUBSET DOMAIN tests) \ {{}} :
           pending' = {i \in selected : tests[i].script = NoScript}
    /\ UNCHANGED <<tests, sel, filter, cwd, editor, disk, ghosts, faults>>

\* --regen-scripts, which make runs: every script is written again from its line.
Regenerate ==
    /\ at = "off" /\ Loaded # <<>>
    /\ tests' = Loaded /\ at' = "writing" /\ back' = "off"
    /\ pending' = DOMAIN Loaded
    /\ UNCHANGED <<sel, filter, cwd, editor, disk, ghosts, faults>>

WriteNext ==
    LET i == CHOOSE i \in pending : \A j \in pending : i <= j
        t == tests[i]
    IN  /\ at = "writing" /\ pending # {}
        /\ \/ /\ Write(t) /\ tests' = [tests EXCEPT ![i] = Saved(t)] /\ pending' = pending \ {i}
              /\ UNCHANGED <<sel, filter, cwd, at, back, editor, registry, ghosts>>
           \/ /\ back = "running" /\ WriteFails(t)
              /\ pending' \in {pending \ {i}, {}}      \* with "Stop on NG" it goes no further
              /\ UNCHANGED <<tests, sel, filter, cwd, at, back, editor, registry, ghosts>>
           \/ /\ back = "resuming" /\ WriteFails(t)
              /\ at' = "list" /\ pending' = {}
              /\ UNCHANGED <<tests, sel, filter, cwd, back, editor, registry, ghosts>>
           \/ /\ back \in {"off", "failing"} /\ WriteFails(t)
              /\ back' = "failing" /\ pending' = pending \ {i}
              /\ UNCHANGED <<tests, sel, filter, cwd, at, editor, registry, ghosts>>
           \/ WriteKilled(t)

\* The registry is not rewritten before tests are merely run, nor after a regeneration
\* one of whose writes failed.
AllWritten ==
    /\ at = "writing" /\ pending = {}
    /\ IF back = "failing"
       THEN Gone
       ELSE /\ CASE back = "running" -> at' = "list" /\ UNCHANGED back
                  [] back = "resuming" -> SaveRegistryThen("list")
                  [] back = "off" -> SaveRegistryThen("off")
            /\ UNCHANGED <<tests, sel, filter, cwd, editor, pending>>
    /\ UNCHANGED <<disk, ghosts, faults>>

----------------------------------------------------------------------------
(* The program and its directories *)

\* init_app
Begin(dir) ==
    /\ at = "off"
    /\ tests' = Loaded /\ at' = "list" /\ cwd' = dir
    /\ UNCHANGED <<sel, filter, back, editor, pending, disk, ghosts, faults>>

Exit ==
    /\ at = "list" /\ Gone
    /\ UNCHANGED <<disk, ghosts, faults>>

Kill ==
    /\ at \in {"list", "editor"} /\ Fault /\ Gone
    /\ UNCHANGED <<disk, ghosts>>

Idle == at \in {"list", "editor", "off"}
Named == {t.script : t \in Range(tests) \union Range(registry)}

\* A file of someone else comes where no test has its script, also between two writes of
\* a handler; within a write, Opens.
PutFile(p) ==
    /\ scripts[p] = None /\ p \notin Named /\ Others < MaxForeign
    /\ scripts' = [scripts EXCEPT ![p] = Foreign] /\ foreign' = foreign \union {p}
    /\ UNCHANGED <<app, editor, pending, registry, truncated, typed, hidden, givenUp, faults>>

\* A script is removed by hand: between two handlers, as one that goes in the middle of a
\* handler might have gone before it or after it.
RemoveFile(p) ==
    /\ Idle /\ scripts[p] \notin {None, Foreign} /\ Fault
    /\ scripts' = [scripts EXCEPT ![p] = None]
    /\ UNCHANGED <<app, editor, pending, registry, truncated, ghosts>>

Init ==
    /\ tests = <<>> /\ sel = 1 /\ filter = NoFilter /\ cwd \in Dirs
    /\ at = "off" /\ back = "off"
    /\ target = "none" /\ text = 0 /\ dirty = FALSE /\ fresh = FALSE /\ pending = {}
    /\ scripts = [p \in Paths |-> None] /\ registry = <<>>
    /\ typed = 0 /\ faults = 0 /\ foreign = {} /\ truncated = 0
    /\ hidden = FALSE /\ givenUp = {}

Next ==
    \/ \E title \in Titles : Add(title) \/ Rename(title) \/ Copy(title)
    \/ \E what \in {"command", "about"} : Open(what)
    \/ Delete \/ Toggle \/ \E f \in DOMAIN Hits : Filter(f)
    \/ \E direction \in {-1, 1} : Move(direction)
    \/ Type \/ \E exit \in BOOLEAN : SaveCommand(exit) \/ SaveAbout(exit)
    \/ SaveAboutKilled \/ QuitEditor \/ Discard
    \/ Start \/ Regenerate \/ WriteNext \/ AllWritten
    \/ SaveRegistry \/ SaveKilled
    \/ \E dir \in Dirs : Begin(dir)
    \/ Exit \/ Kill
    \/ \E p \in Paths : PutFile(p) \/ RemoveFile(p)

Spec == Init /\ [][Next]_vars

----------------------------------------------------------------------------
(* Properties *)

\* Between two keys memory, registry and scripts hold the same tests, and no two tests
\* have one script: unless a write failed, the program was killed, or a test was added
\* that the filter hides.
InStep ==
    at \in {"list", "editor"} /\ faults = 0 /\ ~hidden =>
        /\ registry = Lines(tests)
        /\ \A t \in Range(Lines(tests)) : scripts[t.script] = Body(t)
        /\ \A i, j \in DOMAIN tests :
               tests[i].script = tests[j].script /\ tests[i].script # NoScript => i = j
        /\ \A i \in DOMAIN tests : tests[i].script = NoScript => fresh /\ i = sel

\* The tests that are in memory, before a step that ends the program or after any other.
Current == IF at' = "off" THEN tests ELSE tests'

\* A script holds x in other words than the program has them, as it was started from a
\* torn line of the registry or from one older than the script.
Unread(x) == \E t \in Range(tests) :
    t.script # NoScript /\ scripts[t.script] # Body(t) /\ x \in InScript(t.script)

\* With one kill, full disk, file that cannot be opened or script removed by hand, anywhere
\* in a save, a text leaves the disk only after the user has given it up, and never while
\* a test has it: it is in the script while the registry is rewritten, and in the registry
\* while the script is.  The exception: a program that was started from a torn or an old
\* line writes over what only the script has.
TextKept ==
    [][faults' <= 1 /\ ~hidden =>
        \A x \in OnDisk \ OnDisk' : x \notin TextsIn(Current) /\ (x \in givenUp' \/ Unread(x))]_vars

\* A file that is not a test's and is there when the program looks is neither overwritten
\* nor removed, also when it came after the title was asked for: README.md:173.  One that
\* comes between the look and the opening is not safe: truncated.
ForeignSafe == \A p \in foreign : scripts[p] = Foreign

\* What the editor shows after "Create test" is saved to the test that was created:
\* README.md:280, SCREEN_UI.md:54.
CreatesItsTest == at = "editor" /\ fresh => sel = Len(tests)
============================================================================
