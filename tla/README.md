# linux_tui in TLA+

A verification development for the six terminal tools of this repository. It models their
state machines in TLA+, model-checks them with TLC on small instances, and proves the main
safety properties of the core modules for every value of the constants with TLAPS.

Contents: [inventory](#inventory) · [modules](#modules) · [runs](#runs) · [bounds](#bounds) ·
[fairness](#fairness) · [proofs](#proofs) · [divergences found](#divergences-found) ·
[not modelled](#not-modelled) · [plan](#plan)

## Inventory

| Component | State | Operations | What is hard | What makes it correct |
|---|---|---|---|---|
| **strace-src: fd analysis** (`fd_tracker.c`) | per process: descriptor table of (object, creator, cloexec); objects with their origin; per event: refs, primary, jump, creator, open | one pass over the trace; a branch per system call; `collect_parents` beforehand | numbers are reused; fork results are printed after the child's first events; calls are split into `<unfinished ...>` and `<... resumed>`; threads | what it believes is what the kernel had; every link leads back to the origin |
| **strace-src: parser** (`parser.c`) | events with their frames | `trace_model_feed_line` | stack lines belong to the last event | the log is what the lines say |
| **strace-src: session** (`main.c`) | pipe, pending bytes, `strace_pid`, `trace_done` | read, reap, stop, drain, save | lines cut by reads; strace killed in the middle of one; programs that outlive it and keep the pipe open | nothing strace wrote is lost or doubled; q ends the program |
| **strace-src: view** (`main.c`, `filters.c`) | filters, visible list, selection, forced event, override, popups | keys, `rebuild_visible` | selection against a list that is rebuilt while events arrive | the selection is visible, a popup keeps its event |
| **strace-src: trace file** (`trace_file.c`) | a file, a temporary | save by rename, load | failure, kill, loss of power at each step | old file or new file, never neither |
| **strace-src: process graph** (`main.c`) | identities of threads, parents | `process_tgid`, `build_process_graph` | the thread may be gone when `/proc` is asked; the clone line comes late or in halves; numbers are used again | every process once, under its parent |
| strace-src: resolution (`resolve.c`) | cached answer per event | run `addr2line` | a frame that comes after the answer was cached | the answer is that of the frames |
| **gd: session** (`gdb.c`, loop of `main.c`) | MI token, state, location, panes, `readbuf`, two pipes, a child | `request`/`wait_result`, `handle_async`, `gdb_poll`, `gdb_refresh`, keys | answers and asynchronous records share one stream; timeouts; GDB reads nothing while the program runs | state and panes are the program's |
| gd: panes, navigation, parsing | cursors, history, dialogs | keys | – | – |
| **autotest: script of a reboot test** (generated by `write_case`) | state directory, unit, result file, scratch files | first half, arm, reboot, second half, report, sweep, EXIT trap | it goes on in another process after a boot | runs once, leaves nothing behind |
| **autotest: runner** (generated by `write_resume_automation`) | INDEX, FAIL, WAIT files, a unit, a summary | prepare, wait, loop, stop, finish | reboots in the middle; power failures between any two statements; two services at once | order, one at a time, each counted once, an honest summary, an end |
| **autotest: registry** (`write_single_test_script`, `save_test_registry`, …) | tests in memory, a script per test, the registry | add, edit, rename, copy, delete, filter, start, regenerate, load | two files are rewritten in place, one after the other; titles share file names; the filter moves the selection | the three stores agree; no text is lost to one fault |
| autotest: generation, classifier, editor, syntax | text, editor buffer | UI operations | two classifiers of "reboot" | they agree |
| **testforge: scenarios** (`*_child`) | the file system, memory, children, ports, signals | each scenario's system calls | scenarios meet each other's files and their own of an earlier run | exit code 0 means done; ends; leaves nothing it should not |
| **testforge: catalog and jobs** (`handle_key`, `run_step`, `refresh_jobs`) | view, search, draft, job table, children | keys, prompts, run, collect | indices into filtered lists; memory that changes; pids used again; a full table | what is lit opens; what runs fits; each result is its own child's |
| **procview** | snapshot, list, tree, cursors, filter, prompts | scan, draw, keys, kill | processes come and go between scan, prompt and answer | the action hits what was shown; cursors stay |
| **ltree** | stack of directories, array of last marks, size cache | walk, print, total | files change; one array for all levels; hard links; other file systems | branches, totals and entries are those of the tree |

Components in bold are modelled, with the exceptions listed under [not modelled](#not-modelled).
How they interact: each tool is a process of its own and none calls another. strace-src reads a
pipe from strace; gd owns a pair of pipes to GDB; autotest generates shell scripts and systemd
units, and it is those that interact, through files and through the machine's shutdown and boot;
testforge talks to its children by exit codes only; procview and ltree read what others change.

`PROJECT.json` lists every component with its status, and every hazard at its line.

## Modules

| Module | Models | Uses |
|---|---|---|
| `FdTracker` | the loop of `fd_analysis_build` on an arbitrary trace | – |
| `FdTracing` | that loop beside the kernel and strace that made the trace | extends `FdTracker` |
| `FdTracingProofs` | proofs about `FdTracker` and `FdTracing` | extends both |
| `TraceView` | strace-src's list of events, filters, selection and popups beside arriving events | – |
| `TraceViewProofs` | proofs about `TraceView` | extends `TraceView` |
| `TraceLog` | abstract: the log that a sequence of lines stands for | – |
| `TraceFile` | saving and opening a trace, and the disk | – |
| `TraceSession` | reading from strace, parsing, showing, ending, saving | extends `TraceFile`, implements `TraceLog` |
| `TraceSessionProofs` | proofs about `TraceFile` and `TraceSession` | extends both |
| `TraceProcesses` | the processes of threads: what lines, memory and `/proc` say | – |
| `TraceProcessesProofs` | proofs about `TraceProcesses` | extends `TraceProcesses` |
| `TraceGraph` | the rows of the process graph | extends `TraceProcesses` |
| `GdbSession` | gd's session with GDB and its main loop | – |
| `GdbSessionProofs` | proofs about `GdbSession` | extends `GdbSession` |
| `RebootCase` | the generated script of a reboot test, and the machine | – |
| `SelectedRunner` | the generated runner of selected tests, with reboots and faults | extends `RebootCase` |
| `SelectedRunnerProofs` | proofs about `SelectedRunner` and its scripts | extends `SelectedRunner` |
| `TestRegistry` | autotest-builder's tests, scripts and registry | – |
| `TestRegistryProofs` | proofs about `TestRegistry` | extends `TestRegistry` |
| `TestforgeScenarios` | the children of testforge on one file system | – |
| `TestforgeApp` | testforge's screen and job table | – |
| `TestforgeAppProofs` | proofs about `TestforgeApp` | extends `TestforgeApp` |
| `ProcView` | procview beside the processes of the system | – |
| `LTree` | ltree beside files that change | – |
| `MC…` | what TLC needs: symmetry, instances, and one `.cfg` for each run | the module of that name |

### FdTracker and FdTracing

`FdTracker` has one action for each branch of the loop, in the branch order of the code: `Open`,
`Accept`, `Pipe`, `Dup`, `FcntlDup`, `FcntlSetFd`, `FcntlOther`, `Use`, `Close`, `Execve`,
`Clone`, `Other`. Each appends the event's `FdEventInfo` and stores the process's table.
`GetTable` is `get_table` with its side effect deferred to the `Store` at the end of the action;
`SetBinding` and `RemoveBinding` are the functions of those names. `parents` is what
`collect_parents` found in the whole trace before the loop starts: it is chosen initially, and a
`Clone` may be met only where the map says so. Events and objects are numbered from 1, and 0 is
the `-1` of the code. `TrackerSpec` lets any branch happen at any time with any arguments, so it
covers traces no kernel produces.

`FdTracing` restricts them to the traces that exist. Each action conjoins a step of the kernel
(external: what the system call promises) with the analysis of the line it prints. `born` names
the open file by the event that created it. `SysFork` is a clone on one line. `ForkBegins` is one
whose child is printed before it returns: strace then ends the parent's line with
`<unfinished ...>` before it prints another process, which gives the parent its table, so that no
process is printed before its parent has been; `ForkReturns` is its result. The trace may lack it,
and then nobody knows the parent. `seen`, chosen initially from `Behaviours`, switches on habits of traced programs and
of strace: `split` lines, `selfdup`, `strangers` (dup2 of a descriptor the trace does not explain)
and `threads`. A property that fails with one of them says so in its antecedent.

### TraceView

`pc` is the place in the loop of `main`: while it is `read`, lines arrive (`NewEvent`, `NewFrame`:
`feed_line`), until `Draw` rebuilds the list; then one key is handled, or the timeout of `getch`,
`NoKey`, which calls `navigate` like a key does. There is an action for each key that changes
state; what a guard of the code turns away is `IdleKey`. `SelectEvent` is `select_event`,
`Rebuilt` and `SelectedIn` are `rebuild_visible`. The popups and the text input exclude each
other and are one variable, `mode`. Two filters, by syscall and by thread, are one function from
the two menus; the text searched for is the set of syscalls whose lines contain it. `JumpFdOrigin`
jumps to any earlier event, which is all that `FdTracker` promises of a jump. Leaving the loop by
q belongs to `TraceSession`.

### TraceLog, TraceFile and TraceSession

`TraceLog` is the specification: after `taken` lines the log is that of those lines (`IsLogOf`), one
event for every call with the frames printed below it (`FramesBelow`, whatever notes are in between), in the
order of printing, and it changes only by taking the next lines. It says what a log is and not how
one is computed: `FeedLines`, the loop of the parser, is in `TraceSession`.
`TraceSession` is the program. A line is two units, the second of which has its newline, so that a
write of strace, a read and a kill can fall in the middle of one. `out` is what strace wrote, `got`
what was read, `fed` what was parsed; the difference of the last two is `pending`. `pc` goes
through `read`, `show`, `key` and, after q, `stop`, `grace`, `drain`, `save`. `ReadSome`, `ReadEnd`
and `ReadNothing` are the three ways `read_trace` meets the pipe; `StraceObeyed` and `GraceOver`
are the two ends of the second that `stop_strace` waits. `heirs` are traced programs that outlive
strace and keep the pipe open. That `TraceSession` implements `TraceLog` under the mapping
`taken <- fed \div 2, events <- Plain(events)` is `LogIsParse`, which also says that its files are
those of `FileSpec`, the specification of `TraceFile` by itself.

`TraceFile` is the save, a step per system call, with `SaveFails` at each, and the disk: the
kernel writes back what is at the path when it gets to it, and of a file that was not synced any
part may be there (`Remains`). `stable` is what a loss of power would leave. An event is resolved
when it is shown or written (`Resolve`), and the answer is cached in it.

### TraceProcesses and TraceGraph

The kernel has threads with a process and a parent, whose numbers are used again; strace prints a
line for each call, and the clone line of a parent when the call returns, in two halves if the
child's lines came before. `Feed` is `feed_line` with `process_tgid` (`ProcessOf`: `/proc`, what
has been remembered, or the number itself) and `remember_identity`. `Processes`, `ParentOf`
and `TidsOf` are what `build_process_graph` takes from the events. `Graph`, in `TraceGraph`, is the
list of rows that `append_graph_process` makes of it, recursively as in the code.

### GdbSession

The program's stops are numbered, and whatever gd shows of a stop is represented by its number:
`where` for `fullname`/`line`/`pc`, `panes` for variables, frames, registers and disassembly,
`view` for the code view. `outbox` and `readbuf` are sequences of whole records. `Chunk` lets
`read` return any non-empty prefix of what is on the pipe. `PollBuffered`, `PollReads` and
`PollNothing` are `gdb_poll`; `WaitReads`, `Answered` and `GivesUp` are `wait_result`; what the
caller does with the answer (`ExecDone`, `AskDone`, `SelectDone`, `FrameDone`, `RestDone`,
`QuitDone`) is part of the same step, because nothing can come between. `before` is
`state_before` and the location at the top of the loop of `main`, from which it computes
`stopped_now`. The pane requests of `gdb_refresh` after `-stack-info-frame` are taken as one
(`rest`): they are sent one after the other and answered in order with nothing in between but
records that gd handles in the same way.

GDB is external: it answers in order, and reads no command while the program runs, since
`gdb_start` leaves mi-async off. `seen`, chosen initially from `Behaviours`, switches on `asking`
(keys b, B and S while the program runs), `slow` and `slowstart` (more than 5 s over a query, or
over run and resume), `signals` and `death`.

### RebootCase and SelectedRunner

One action per statement of the generated scripts that another process, or a loss of power, can
tell apart. `job[t]` and `pc` are the program counters of the scripts and of the runner. The
files are variables of their own (`index`, `fails`, `waitSafe`, `waitResult`, `stateDir`, `unit`,
`caseUnit`) that survive `Reboot` and `PowerLoss`, while `idx`, `failures`, `verdict` and the
program counters do not. `Boot` starts the enabled units, both at once. Whether a test is a reboot
test and whether "Stop on NG" is on are chosen initially. `faults`, chosen initially from
`Faults`, switches on power failures, scripts that are killed before the runner during a shutdown,
and second halves slower than the 600 s that the runner waits. `began`, `reboots` and `outcome`
are history variables that only properties read.

### TestRegistry

A test is its title, its script's path and two texts, the command and the description; a text
stands for what the user typed, 0 for what a new test begins with. `scripts` says what the file at
each path holds (nothing, a part, another's data, or a script with its title and texts) and
`registry` the lines of `~/.config/autotest-assist/tests.tsv`. Each menu entry and editor command that
changes one of them is an action: it computes the test as the handler does, writes the script
(`Write`, `WriteFails`, `WriteKilled`: `write_single_test_script`), and sets `at` to `saving`, from
where `SaveRegistry` is the only way on. Both writes may fail unnoticed after `fopen` (a full
disk leaves a part: `Cut`, `Torn`) and the program may be killed in the middle of either. Files of
others come at any time (`PutFile`). A write looks at its path with `access` and opens it without
`O_EXCL`; the file that comes in between is truncated, which is `Opens`: nobody else sees that file
before it is gone, so its coming and the opening are one step, and `truncated` counts such files.
Scripts are removed by hand between two handlers (`RemoveFile`). `givenUp` is a history variable:
the texts on disk that the user typed over, deleted or discarded. `Name`
normalises titles to file names, so that different titles meet at one path; `Hits` gives the titles
a filter finds. `Clamp` is `clamp_selected`, with which `handle_key` ends outside the editor.
`Regenerate` is `--regen-scripts`, `Start` the writing of scripts before selected tests run.

### TestforgeScenarios and TestforgeApp

In `TestforgeScenarios` the `*_child` functions are programs (`Program`) of operations such as
create, unlink, link, lock, fork, wait and sleep on one file system; an operation that fails ends
the child with the code that the function returns. Links are followed (`Follow`), opening a FIFO
waits for its other end, and jobs may be signalled by each other. In `TestforgeApp` a child only
runs and ends with a code; the module has the loop of `main` (memory read, jobs collected, screen
drawn, a key), the catalog with its search, the draft of a step with its parameters, and the table.
`Allocated` is what the child of a memory action comes to: `memory_pressure_child`,
`memory_leak_child` and `oom_pressure_child` each do something else with a number that is not
positive (`BoundedPositive`).

### ProcView

`StartScan`, `ReadProcess` and `FinishScan` are `snapshot_processes`, with processes that fork and
exit between two of them; then `Draw` and a key. `RowsOf` and `TreeOf` are `build_rows` and
`build_tree_rows`. A prompt (`AskFilter`, `AskKill`) stops the loop while the system goes on.
`build_tree_rows` first takes the pid under the tree's cursor from the new list with the old tree's
row (`Wanted`). When the list has shrunk that row may lie past its end (`ReadsBeyond`): the pid is
then any, or the program is `faulted`. `crashed` is a recursion without end.

### LTree

`stack` is the recursion of `walk_directory`, a frame per directory with the entries that were
read (`ReadEntries`) and the position in them; `lastAt` is the array of last marks that all levels
share; `cache` is the size cache. `sums` is the recursion of `directory_total`, which stores a
directory's own size first (`Enter`), adds an entry at a time (`AddChild`) and stores the sum
(`EndTotal`); a directory that may not be read keeps its own size. `NextLine` is the entry or
operand that has been looked at and is not printed yet, and `answer` what its total came to. `World`
removes files, lets them grow, makes directories and moves files between any two of these steps;
`made` has the paths something came to. The entries of a directory are listed in one step, except
that some may vanish between `readdir` and `lstat`; a directory that may be listed but whose entries
may not be looked at (r without x) is left out.

## Runs

| Run | Instance | States | Properties |
|---|---|---|---|
| `fd_tracing` | 2 processes, 2 descriptors, 4 events (3 with unusual behaviours) | 132 000 | `TablesAgree`, `NothingForgotten`, `OpenMeansOpen`, `ChainReachesOrigin` |
| `trace_view` | 2 events with up to 2 frames, 2 syscalls in 2 threads, 4 keys | 1 793 000 | `SelectionShown`, `OverrideOfSelected`, `PopupKeepsEvent` |
| `trace_session` | all traces of 3 lines and five longer ones, a pipe of 3 units | 171 000 | `LogIsParse`, `NothingLost`, `SourcesFresh`, `SaveIsAtomic`, `EveryLineShown` |
| `trace_processes` | 3 thread numbers, 3 lines, 2 ends | 863 000 | `ProcessesRight`, `GraphShowsAll` |
| `gdb_session` | 2 stops, 4 keys, four combinations of behaviours | 281 000 | `StateAgrees`, `PanesFresh`, `NeverRestarted`, `StopsShown` |
| `selected_runner` | 2 tests, 2 power failures, four combinations of faults | 701 000 | `OneAtATime`, `StopSkipsRest`, `EndsRight`, `RebootAtMostOnce`, `RunCompletes` |
| `test_registry` | 2 tests, 3 titles of which two have one file name, 2 texts, 1 fault, 1 foreign file, no hidden test | 512 000 | `InStep`, `TextKept`, `ForeignSafe` |
| `testforge_scenarios` | 3 jobs out of 25 configured scenarios, 2 paths | 128 000 | `DoneMeansThere`, `Repeatable`, `EveryJobEnds` |
| `testforge_app` | 2 categories, 3 actions (a leak, an `oom`, one without memory), 2 pids, a table of 2, 3 runs | 391 000 | `StateRight`, `OpensWhatIsLit`, `WithinMemory`, `Collected` |
| `procview` | 4 pids, two panels, 2 changes | 308 000 | `KillsWhatIsShown`, `ScreenRight`, `TreeCursorStays`, `Appears` |
| `ltree` | two trees of up to 7 paths, nine sets of options, 3 changes | 1 278 000 | `PrefixRight`, `TotalsRight`, `Complete` |

Each takes under four minutes. What the properties say, and what each needs, which is part of it:

| Property | Says | Holds unless |
|---|---|---|
| `TablesAgree` | objects, descriptors and close-on-exec marks of every table are the kernel's | any behaviour is seen: each of the four breaks it |
| `NothingForgotten` | a descriptor created by a known call is known in every process that has it | lines are split, threads are seen, or a parent is unknown |
| `OpenMeansOpen` | the FD popup says OPEN only of an open descriptor | any behaviour is seen |
| `ChainReachesOrigin` | jumps and creators lead back to the origin | – |
| `SelectionShown` | a key acts on an event of the list | – |
| `OverrideOfSelected` | a source line chosen in the stack popup is a frame of the selected event | – |
| `PopupKeepsEvent` | neither arrivals nor keys exchange the event under a popup | – |
| `LogIsParse` | `TraceSession` implements `TraceLog`, and with its files `FileSpec` | – |
| `NothingLost` | what is saved is all that strace wrote by its end; half a line is taken for a line only if strace was killed in it; `strace_pid` is strace | – |
| `SourcesFresh` | cached answers are those of the frames, in memory and in the file | – |
| `SaveIsAtomic` | the path has the old file or all of the new one, no temporary stays, and what was saved opens again | there are more than `MAX_EVENTS` events or `MAX_FRAMES` frames, which a load refuses |
| `EveryLineShown` | every complete line gets into the log, and q ends the program | – |
| `ProcessesRight` | a line is shown under the process that printed it (`PidRight`); the parents and threads that the graph gives a process are the kernel's (`GraphTells`) | numbers are used again, or the line that made the thread comes later or in halves; (the second part) any line is shown under another process |
| `GraphShowsAll` | the graph has every process and thread once, circles of parents included | – |
| `StateAgrees` | gd's state is the program's | the program is killed by a signal |
| `PanesFresh` | panes and view are of the last stop; what an earlier one was asked for is not shown for it | requests are made during the run, or GDB takes more than 5 s |
| `NeverRestarted` | r does not start the program over | GDB takes more than 5 s to run the program |
| `StopsShown` | every stop is shown without a key | as `PanesFresh` |
| `OneAtATime` | no two tests overlap | scripts are slower than 600 s, or killed before the runner |
| `StopSkipsRest` | with "Stop on NG" nothing begins after a failure | – |
| `EndsRight` | the summary counts right, OK means that all passed, nothing is left behind | (stated for runs without faults) |
| `RebootAtMostOnce`, `RunCompletes` | no test reboots twice; the run comes to its summary | – |
| `InStep` | between two keys memory, scripts and registry hold the same tests, one script each | a write failed, the program was killed, or a test was added that the filter hides |
| `TextKept` | no step takes from the disk a text that a test has, or one that the user has not typed over, deleted or discarded | two things go wrong, a hidden test was added, or (the second part) only a script has the text, and its test was loaded from a torn or an old line |
| `ForeignSafe` | files of others are neither overwritten nor removed | they come to a path that a test has, or between the look at a path and its opening |
| `DoneMeansThere` | a job that exits with 0 has made what it was to make; locks exclude; leaks stop at their maximum; children are reaped | other jobs changed the files meanwhile |
| `Repeatable` | what ended with 0 ends with 0 again on the files as it left them | permission patterns without root, devices |
| `EveryJobEnds` | a job ends, or waits for the other end of a FIFO | – |
| `StateRight` | view, draft and search agree; each result is of the job's own child | – |
| `OpensWhatIsLit` | Enter opens the row drawn as selected | – |
| `WithinMemory` | what a memory action comes to is no more than was available | `MemAvailable` cannot be read, or it is a leak whose maximum is not positive, as typed or after wrapping |
| `Collected` | an ended child with a place in the table is collected | a prompt stays open, or the user quits |
| `KillsWhatIsShown` | the kill is of the process the panels show, never of procview | its pid was used again between snapshot and kill |
| `ScreenRight` | list and tree are of the last snapshot, and the selection is on the screen; building the tree ends | reading past the end of the list ends the program; (building the tree ends) a pid is used again during a snapshot |
| `TreeCursorStays` | the cursor of the tree stays on its process | the snapshot finds other processes |
| `Appears` | a process that lives on is listed at last | the program ends, or a prompt is left open for ever |
| `PrefixRight` | branches are those of the tree; `-x` stays on its file system | – |
| `TotalsRight` | the total of a directory is that of all below it that may be read (`SumsRight`); the directories listed in it do not add up to more (`SumsAdd`) | with `-x`; (the first) files change; (the second) for directories that were made or moved there during the walk |
| `Complete` | what is there throughout is listed, at every level that was asked for, whatever vanishes, comes or cannot be read beside it; nothing is listed twice under an operand | what is moved, or comes during the walk, may be missed |

`test_registry_create` checks `CreatesItsTest` and is violated, see [below](#divergences-found).

Deadlock is checked in `trace_view` and `test_registry`, whose loops go on for ever. In the other
modules a trace ends, a run of tests comes to its end, jobs end, or the program quits. That the
systems do not stop too early is what the liveness properties are for.

For every property of a passing run `PROJECT.json` names a mutant: a definition with a plausible
bug (`\* Mutant:` in the modules), with which TLC finds the property violated.

## Bounds

* `FdTracing`: four events suffice for open, fork, use or exec in the child, and close or reuse in
  either process in each order, which is what the properties of the tables relate. With all
  behaviours three events reach every action. Two descriptors are needed for `dup2` and `pipe`.
  Three processes (with one descriptor) and five events pass too, in a run too long to keep. The
  proofs have no such bounds, and show that the bound once hid something: see the divergence about
  `dup2` below, which takes five events.
* `TraceView`: two events are needed for a selection that is not the latest, two frames for a
  choice of the stack popup that differs from the resolved one, and four keys for a filter, a
  jump or a popup, what is done there, and one key after it. The proofs have no such bounds.
* `TraceSession`: three lines give every sequence of a call, a frame and a note; the longer traces
  have two events with frames and more frames than a file may have. A line in two units is cut in
  every way that matters; a pipe of three makes strace wait. The proofs have no such bounds.
* `TraceProcesses`: three numbers give a child and a grandchild, a thread and a child of it, and,
  with two ends, a number that is used again. The proof has none of these bounds.
* `GdbSession`: two stops and four keys allow run, resume, a request, and a run after the exit,
  in every order. The proofs of the three invariants have no such bounds.
* `SelectedRunner`: two tests, ordinary or rebooting, in each order, and two power failures: one
  during the recovery from the first. (With three tests and no fault the run passes too, and
  takes longer than all others together.) The proofs of `RebootAtMostOnce`, `OneAtATime` and
  `StopSkipsRest` have no such bound; that of `EndsRight` has none on the tests.
* `TestRegistry`: two tests and three titles make a conflict of names and a filter that hides one
  test; one fault is what `TextKept` speaks of. The two titles with one file name are symmetric: nothing
  else tells them apart, and no liveness is checked. One start directory: with two, which the module
  allows and which make two scripts of one name, the state space is too large for the run. So is
  what follows once a test was added that the filter does not show, of which `InStep` and `TextKept`
  say nothing: the constraint `NothingHidden` leaves it to `test_registry_create`. The proofs of all
  three properties have no such bounds, and that of `ForeignSafe` covers hidden tests.
* `TestforgeScenarios`: the third job looks at what two others did, side by side or one after the
  other. `TestforgeApp`: a table of two is full at the third run, and with two pids a number is
  used again. The number typed wraps around to a negative one (`IntRange`), which is what the three
  kinds of child treat differently. The proofs are for every catalog, table, number of pids, number
  typed and width of `int`.
* `ProcView`: four pids, three with parents, are a tree of depth three, where a child has a lower
  number than its parent; two changes are an end and a start between two steps of a snapshot. Of the
  five panels there are the list and the tree's: the others only pass the focus on. `Body` and `TreeBody` of three make lists scroll.
* `LTree`: a directory in a directory, an empty one, a hard link, a hidden file and a mounted file
  system whose root has the inode number of another directory, a directory that may not be read,
  and a place that a directory can be made at or a file moved to. Three changes: one may come before
  a total is asked for, one within it, and one between it and the reading.

## Fairness

* `FdTracker`, `FdTracing`, `TraceView`, `TraceProcesses`, `TestRegistry`, `LTree`: none, since
  only safety is checked.
* `TraceSession`: weak fairness of what strace-src does by itself (`Session`): read, show, the
  timeout of `getch`, the second of `stop_strace`, saving. Nothing is promised of strace, which may
  block for ever, of the traced programs, or of the user, who need not press q.
* `GdbSession`: weak fairness of `Poll`, `Wait` and `Key`, which are the phases of gd's loop: it
  polls, waits at most 5 s, and `getch` returns after 80 ms. Weak fairness of `GdbReads`: GDB
  reads commands while the program is not running. Nothing is promised of the program, of the
  user, or of GDB's death. That `Key` is fair is not so while a prompt or the question before
  quitting is open: these wait for the user without a limit, and the model has no step for their
  being open. `StopsShown` is about a gd that is not asking.
* `SelectedRunner`: weak fairness of the runner's step and of each script's step (processes are
  scheduled and their commands end), and of `Reboot` (a machine that has been told to reboot
  does so). A power failure, a kill and a timeout are never promised.
* `TestforgeScenarios`: weak fairness of some process that can go on (`AnyStep`); a job that waits
  at a FIFO cannot. `TestforgeApp`: weak fairness of the loop and of its keys, for `getch` does not
  wait; prompts need not be answered.
* `ProcView`: the loop stays neither in a snapshot, nor at the top, nor at a key for ever
  (`WF_at(Leave(a))`: a snapshot reads finitely many pids, `getch` returns), and one of its rounds
  finds that a second has passed (`SF_vars(Refresh)`). Prompts need not be answered: `prompt_char` and
  `edit_filter` wait without a limit, so `Appears` excepts a prompt that is left open for ever.

## Proofs

All proofs are checked by TLAPS with no assumption beyond the named `ASSUME`s of the modules
(model values such as `NoPid`, `Unbound` or `NoFile` are not members of the sets they extend;
bounds are natural numbers; testforge's catalog is not empty, and has
natural numbers for the defaults of its memory parameters).

| Theorem | States | Run that checks it |
|---|---|---|
| `TypeCorrect` | `TrackerSpec => []TypeOK` | |
| `ChainAlwaysReachesOrigin` | `TrackerSpec => []ChainReachesOrigin` | `fd_tracing` |
| `BeliefsAreRight` | `Spec => []TablesAgree` of `FdTracing` | `fd_tracing` |
| `InheritanceIsComplete` | `Spec => []NothingForgotten` | `fd_tracing` |
| `OpenIsTrue` | `Spec => []OpenMeansOpen` | `fd_tracing` |
| `TracedChainsEnd` | `Spec => []ChainReachesOrigin` of `FdTracing` | `fd_tracing` |
| `RunnerTypeCorrect` | `Spec => []TypeOK` of the runner and its scripts | |
| `RebootsAtMostOnce` | `Spec => []RebootAtMostOnce` | `selected_runner` |
| `TestsRunOneAtATime` | `Spec => []OneAtATime` | `selected_runner` |
| `StopOnFailureSkipsRest` | `Spec => []StopSkipsRest` | `selected_runner` |
| `RunsEndRight` | `Spec => []EndsRight` | `selected_runner` |
| `OthersFilesAreSafe` | `Spec => []ForeignSafe` of `TestRegistry` | `test_registry` |
| `FilesFollowTests` | `Spec => []InStep` of `TestRegistry` | `test_registry` |
| `NoTextIsLost` | `Spec => TextKept` of `TestRegistry` | `test_registry` |
| `GoesByTheProgram` | `Spec => []StateAgrees` | `gdb_session` |
| `NeverStartsOver` | `Spec => []NeverRestarted` | `gdb_session` |
| `ShowsTheStop` | `Spec => []PanesFresh` | `gdb_session` |
| `ViewTypeCorrect`, `ListIsCurrent`, `FollowingIsLatest` | types of the view; the list is what the filters let through; following is the latest | |
| `SelectionOnScreen` | `[]SelectionShown` | `trace_view` |
| `OverrideFollows` | `[]OverrideOfSelected` | `trace_view` |
| `PopupKeepsItsEvent` | `PopupKeepsEvent`, an action property | `trace_view` |
| `SavesAreAtomic` | `FileSpec => []SaveIsAtomic` | `trace_session` |
| `SessionImplementsLog` | `Spec => LogIsParse` of `TraceSession`: it implements `TraceLog` and `FileSpec` | `trace_session` |
| `SessionSavesAtomically` | `Spec => []SaveIsAtomic` of `TraceSession` | `trace_session` |
| `NothingIsLost` | `Spec => []NothingLost` | `trace_session` |
| `SourcesAreFresh` | `Spec => []SourcesFresh` | `trace_session` |
| `ProcessesAreRight` | `Spec => []ProcessesRight` of `TraceProcesses` | `trace_processes` |
| `AppIsConsistent` | `Spec => []StateRight` of `TestforgeApp` | `testforge_app` |
| `WhatIsLitOpens` | `OpensWhatIsLit`, an action property | `testforge_app` |
| `NeverMoreThanThereIs` | `WithinMemory`, an action property | `testforge_app` |

* `ChainReachesOrigin` speaks of past events, but the next event copies its link from a binding,
  so the inductive invariant adds `BindingsCreated`: every binding in every table names a creator
  that created a descriptor of the binding's object. Lemmas (`…Kept`) show that appending an event
  or an object preserves what was said of the earlier ones. Each action is then a matter of the
  one event it appends and the one table it stores. `TrackerSpec` allows any trace; that every step
  of `FdTracing` is a step of the loop (`WholeCallIsEvent`, `LongCallIsEvent`) carries it over.
* `TablesAgree` and `NothingForgotten` compare tables with the kernel, but a process that has not
  been printed yet has no table: what counts is the table it will be given at its first event.
  `TracingInv` therefore says of `GetTable(p)`, for every process that lives, that what it says is so
  (`Agrees`) and that it has what a known call made (`Covers`). That a process keeps this while
  others move needs `Handed`: one that was not printed yet has the descriptors of its parent, and
  the parent is still inside the clone. `Covers` adds that a mark in the table is a mark in the
  kernel, without which an exec would forget a descriptor that stays; it is one way only, because
  `dup2(fd, fd)` clears the mark in the table. Every call on one line is shown to be a `WholeStep`,
  which touches one process and keeps `Agrees` and `Covers` of it; that is all the invariant needs.
* `RebootAtMostOnce` is not inductive: a second `RebootIssued` must be excluded by where the runner
  is. The invariant adds `Place` (what the program counter says about `idx` and `index`), `Passed`
  (a test that has begun its first half, or has rebooted, has been passed by on disk and is not
  launched again) and `Judged` (what `outcome` and `verdict` can be).
* `OneAtATime` says nothing about where the runner is, and two bodies overlap only if it goes on
  while a script, or the unit that will resume it after the reboot, is there: `Alone` says that only
  the test the runner waits for (`waitSafe`) is at work or has a unit, and only where the runner
  waits or is dead. `Armed` says which units those are, and `Frontier` that no test beyond the place
  on disk (`index`) has been launched, so that the next one starts alone.
* `StopSkipsRest` must survive every loss of power between a failure and the count on disk. `Heeded`
  says where the failure is at each moment: an unsettled test (one that came to NG, or may yet) is
  in `fails`, or is the one that the runner has yet to look at, or the run is over; and while
  `fails > 0` the runner is on a way that passes the check. `Reported` says that whoever looks, finds
  it: in the exit status and in the result of the script.
* `EndsRight` compares the summary with all that the tests came to, over all boots. The invariant
  says where the run stands at every statement: which tests have ended and which are untouched
  (`Standing`), and what the counters hold, in memory and on disk (`Counts`): the number of failed
  tests, or of all but the one the runner waits for, which may have failed without having been
  counted (`CountedIn`). `GoesDown` says that a reboot comes only under a test that has its unit.
* `ForeignSafe` depends on two looks at the directory, at the title and at the write. A file that is
  not a test's is never where a test has its script: `Apart` says so of memory and of the registry,
  half written or not (`TornFacts`), since the next start takes its paths from there. A new path is
  empty when it is looked at (`WritesApart`), and files may come between any two steps since. The
  rest of `RegInv` are the types, and that the selection is on a test (`ClampSelects`).
* `InStep` speaks of the moment between two keys. `StepInv` says, as long as nothing has failed, that
  each test with a script has it to itself, under the test's own name and with what the test says
  (`Whole`); that the one test without a script is the last, under the editor (`Unsaved`); and that
  the registry has the tests unless it is about to be rewritten. The name is what makes the next
  write go to the same file (`NotTaken`); without it a save of an old test might be refused.
* `TextKept` says two things of a text that leaves the disk. The first is that the user has given it
  up, or only a script had it that the program had not read. What a step takes from the registry is
  then in memory or was given up before (`Remembered`, `LeavesRegistry`); what it takes from a script
  is that of a test in memory (`ScriptChanges`), whose texts the script has or, after a fault, has not
  (`LeavesScripts`). A script removed by hand is in the registry too, for before the first fault each
  script belongs to a test (`Owned`).
* The second is that no test has the text any more, in the states after one fault too, each of which
  may leave a part of a file.
  `KeepInv` says where the texts are as long as there was at most one (`Safe`): what is on disk of a
  test is in the registry, or else in its script, which is whole (`Somewhere`). Before the first
  fault both hold, by `StepInv`, but while the registry is rewritten, and then the scripts are
  whole; so a fault in one file finds the other. After it nothing more fails: a handler writes its
  script whole (`WriteKept`) and leaves the others as they are (`OthersKept`). Several scripts are
  written in a row only of tests that came from the registry (`Rewrites`); the editor shows a text
  of a test or one that is nowhere yet (`Shown`), since no text on disk was typed later than the
  last (`Numbered`).
* What `Lines` yields is proved of the first place where it would not hold (`Least`, from
  the library's well-founded minimum), for the induction theorems themselves cannot be cited:
  `LinesSolved`, `LinesFromTests`, `LinesOfSaved`. For that `Lines` is a recursive function, like the
  loop of `save_test_registry`.
* `StateAgrees` speaks of a moment when everything is heard. The invariant says it at every moment of
  the state that gd *will* come to, `Heard`: gd's state after the records that GDB has sent and gd
  has not handled, wherever the stream is cut (`AfterSplit`). `Tokens` says that the request gd waits
  for is the last one, which tells its answer from the late answers to those it gave up. For
  `NeverRestarted`, `Prompt` says that when gd takes the program to stand still it does, and nothing
  is on its way that says otherwise (`Latest`); for `PanesFresh`, `Shown` says what each place of a
  refresh has already shown.
* The properties of `TraceView` speak of the moment when a key is awaited; the invariant says what
  holds in between: a list that is not out of date is what the filters let through (`Steady`), it is
  not out of date when a key is awaited (`Clean`), and a popup's event is one that the filters let
  through and the selection does not follow (`Held`). That arrivals preserve `Held` needs
  `ShownStays`: a frame that is added cannot change the source line an event has been resolved to,
  because the first frame that resolves wins.
* `SaveIsAtomic` is about what is at the path, which comes from the temporary, which is written
  event by event from a trace that the writing itself changes, for it resolves what was not
  resolved. The invariant says that the temporary is a prefix of the trace as it now is
  (`Written`), that it is complete and synced before it is renamed (`Ready`), that the path is
  untouched until then (`Untouched`), and that what is there afterwards will not be cut off, since
  it is synced (`Placed`). `FileSpec` lets any events be captured before the save begins.
* `LogIsParse`, `NothingLost` and `SourcesFresh` share the invariant `SessionInv`. `FileInv` and
  `Counts` are the types and the order of what is written, read and parsed; `Reads` says what is
  pending: at most half a line until the end of the pipe was seen, and nothing after it, when nobody
  writes any more. `Ends` says how far the program has come with strace: the pipe is drained when
  strace has been reaped, and the save begins when it has been read empty. `LogRight` is the mapping:
  the log is that of the lines parsed. That a read of many lines keeps it is shown line by line:
  `FeedLineParses` says what one line does to a log, `FramesBelowNext` and `CallsNext` what it does
  to what the log must be, and `FeedLinesParse` goes from line to line by the first that would be
  wrong (`Least`). `Cached` says that the answers cached are those of the frames, which holds
  across a frame that is added because `AddFrame` forgets the answer; `SavedResolved` and
  `SavedParsed` say of the saved events what was so when they were saved. Each step of the session
  is then a step of `TraceLog` or leaves its variables, and one of `FileSpec` or leaves its own
  (`SessionStep`), from which `SaveIsAtomic` follows again, of the session itself.
* `PidRight` speaks of the past, which the next line can change only through what is remembered.
  While no number was used again, what was printed is still what the kernel has (`History`), each
  thread was made by one call, which is printed once (`MadeOnce`), and what is remembered of a
  thread is its process if the line that made it was read under the right one (`KnownRight`).
  `EventsRight` is the property itself. Without `MadeOnce` a second clone line could put the
  thread elsewhere, and with numbers used again it does. `Leaders` (a process has its first thread
  as long as it has any) makes what `/proc` says of a live thread right. `GraphTells` follows from
  `History`: the last fork of a process is the only one.
* In `TestforgeApp`, `StateRight` has two halves that do not touch each other's variables.
  `ScreenInv` says where the selections may be, that a draft is of the open category and has a
  value of the right type for each parameter (`Drafted`), and that the row drawn is the one selected
  until a key is handled (`LitRight`), from which `OpensWhatIsLit` follows. `WithinMemory` follows from
  `Drafted`, the clamp at the run, and what each kind of child does with a number (`BoundedBelow`,
  `RunAllocatesLittle`): a positive one is not raised, and one that is not positive becomes nothing or
  1, which is available, but for a leak. `JobsInv` says that two children that nobody has waited for
  have different pids (`PidsUnique`), and that a job that runs has one child, its own, with the
  job's pid (`JobsHaveChildren`): without both, `waitpid` of a number used again could give a job
  the result of another.

Only model-checked, and why:

* `EveryLineShown`, `StopsShown`, `RunCompletes`, `EveryJobEnds`, `Collected`, `Appears`: liveness
  under fairness, out of TLAPS's reach.
* `GraphShowsAll`, `PrefixRight`, `TotalsRight`, `Complete` and the properties of `ProcView` (`KillsWhatIsShown`,
  `ScreenRight`, `TreeCursorStays`): `TraceGraph`, `LTree` and `ProcView` use
  `RECURSIVE` operators, as the code uses recursive functions, and tlapm has no SMT backend for
  such modules; what a recursion computes for every tree would need induction over data.
* `DoneMeansThere` and `Repeatable` of `TestforgeScenarios` depend on what each of the configured
  programs does, step by step; the run goes through all of them.
* `CreatesItsTest` is violated.

## Divergences found

The run `test_registry_create` checks `CreatesItsTest` (README.md:280 of autotest-assist-tui, "opens
the editor and makes the test"), and TLC finds it violated: `add_case` selects the new test and
opens the editor on it, but `handle_key` ends with `clamp_selected` (`autotest_builder.c:6577`),
which moves the selection to the first test that the filter shows when the new title does not match
it. The editor writes to the selected test, so what is typed goes over the command and the script of
another one.

The others are described here. Each is a behaviour of the models, excluded by the antecedent of a
property where one is about it.

*strace-src*
* An `open` printed in two halves loses `O_CLOEXEC`; a split `close` is missed, so that a reused
  number keeps the old object.
* The FD popup says CLOSED after `fcntl(F_GETFL)` of an open descriptor. `dup2` of an unknown
  descriptor leaves the target's old binding, mark included; after an exec that closes the new file
  the popup says OPEN, since the analysis still has the old one. `dup2(fd, fd)` clears the
  close-on-exec mark.
* The table of a thread's child is copied at the result of the clone, not at the clone.
* The timeout of `getch` hides the event that o jumped to. A `<... read resumed>` line is listed in
  the menu of syscalls as `read`, but the filter for `read` hides it.
* The frames below a signal's note are taken for frames of the call before it. The traced programs
  inherit descriptor 3. A trace with an event of more than `MAX_FRAMES` frames, or of more than
  `MAX_EVENTS` events, is saved but refused on load.
* A split clone line of a thread makes the thread a process of its own in the graph (README.md:86).

*autotest-assist-tui: generated scripts*
* The EXIT trap removes the first half's files under `/tmp` before the reboot. The runner starts
  the next test beside the EXIT trap of the one before.
* A power failure while INDEX_FILE is written leaves it empty: the loop's comparison fails and the
  run ends as OK with tests not run.
* A power failure between marking a reboot test and its first statement leaves the `.result` file
  of an earlier run by hand, which is then counted: the test passes without having begun.
* A test killed by the shutdown it asked for counts as failed, and stops the run under "Stop on
  NG". After 600 s two tests overlap.

*autotest-assist-tui: registry*
* Registry and scripts are rewritten in place, and no write after `fopen` is checked: two faults
  lose a text. One fault can, with a start and a write of the user's after it: after a kill between
  script and registry, a reload with `--regen-scripts`, or any save of that test, replaces the newer
  script by the older line; and a torn line loads with its command lost, and overwrites with the next
  write the script that still had it. `TextKept` excepts both (`Unread`).
* A file that somebody else creates between `access` (`autotest_builder.c:2365`) and
  `fopen(path, "w")` (2369) is truncated and becomes the test's script, against README.md:171-173
  (an existing file "is not overwritten").
* A kill within a rename leaves the registry naming a path that is no longer there and that another
  test may take. A file of somebody else at a path that a test has is taken for the test's own.
* The form, match, cleanup, reboot and preview screens are reached by no key.

*gd*
* A stop that a request consumes refreshes neither panes nor code view. A program killed by a
  signal is "stopped" for ever, and r is refused. r typed twice at a slow start restarts the
  program, against README.md:112. A command written to a dead GDB raises SIGPIPE, against the error
  path of `send_cmd`.

*testforge*
* `disk_fill` exits with 4 after a short write, for `errno` is stale; it gives up after 100000
  rounds with 0. `ensure_dir` accepts whatever exists. A permission pattern fails the second time
  unless it is root's. `hard_link` to itself destroys its source. Opening a FIFO blocks for ever,
  though actions are said to be bounded; pid 0 signals the whole group.
* A leak whose maximum is not positive, typed as 0 or wrapping to a negative `int`, escapes the clamp
  of README.md:27-28: `memory_leak_child` (`testforge.c:802`) puts the rate in its place, up to 4096
  MB, which is not clamped to what is available. After 64 runs, dry ones included, the table is full and
  later children are never collected. `/` in a category filters the categories only.

*procview*
* The list keeps its selection by index and the prompt names no process, so the kill may be of
  another than the one that was selected before the prompt; a pid that is used again between
  snapshot and kill is another process. %CPU is wrong after a prompt that was open for long. The
  tree is not drawn under 27 lines (README.md:5). A pid used again during a snapshot can make a
  circle of parents, on which the recursion does not end.
* `build_tree_rows` (`procview.c:708`) looks the row of the old tree up in the new list: after a
  process has left, the cursor may go on from another process, and if the list has shrunk below that
  row, memory past its end is read.

*ltree*
* Under `-x` the cached total of a directory is the one for the operand that asked first. With
  `--dirs-only` a stale `errno` becomes an error. `-d` counts a directory operand as a file. A file
  with two names is counted for each.
* A directory that is made in, or moved to, another after that one's total was taken and before it is
  read (`ltree.c:518`, 508) is listed with a size that the total of the directory around it lacks.
  A directory that cannot be opened is shown with its own size, without what is below it (404-406).

## Not modelled

* Layout, colours, wording, localisation and drawing; the contents of traces, MI answers and
  tests, except for what the properties tell apart; failing allocations.
* `addr2line`, and the parsing of MI text: calls with an answer, no protocol.
* gd's `readbuf` as bytes: that it drops its contents when full, that output of the program can
  share a line with a record, and that the 5 s are counted in rounds of `select`. gd's panes,
  dialogs, history and search: sequential code over text, with little state between keys.
* In the view: how many rows a page has (on a terminal of less than four rows it is negative),
  the cursor inside popups, the search inside the menu.
* autotest-assist-tui: the editor's cursor, selection, undo and completion; syntax validation and
  the two classifiers of "reboot" (tokenizers over characters); starting ordinary
  selected tests; a registry cut within a title, two instances at once, and the
  columns other than path, title, command and description.
* testforge: amounts and contents of files, and what a scenario does to the machine beyond files,
  memory, children, locks and signals.
* procview: a name changed by exec, the order by memory, subreapers, permissions of others'
  processes, and the panels for files and environment. ltree: bind mounts, inode numbers used again,
  formats.
* In `FdTracing`, a process id that is used again within a trace. (`FdTracker` by itself allows it,
  so `ChainReachesOrigin` holds there too.)

## Plan

1. *Done*: the modules above; the theorems above.
2. Theorems: `DoneMeansThere` of `TestforgeScenarios`; `KillsWhatIsShown` of `ProcView`, whose tree would have
   to be written without recursion.
3. Models: the two classifiers of "reboot" against each other; the editor's buffer, cursor and undo;
   gd's `readbuf` as bytes with its limit.
