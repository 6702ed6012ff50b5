------------------------- MODULE TestforgeScenarios -------------------------
(***************************************************************************)
(* What the scenarios of testforge do (testforge.c): each is a process     *)
(* that makes a few system calls, sleeps for its duration perhaps, and     *)
(* tells by its exit code how it went.  Jobs run side by side on one file  *)
(* system, one set of ports and in one process group.                      *)
(*                                                                         *)
(* The program of a scenario is the sequence of its operations; pc is the  *)
(* next one, 0 when the process has ended.  The names a scenario makes in  *)
(* a directory of its own are not told apart, directories are never        *)
(* removed, and the room on the disk, which others use too, is any.        *)
(***************************************************************************)
EXTENDS Integers, Sequences, FiniteSets

CONSTANTS
    Menu,           \* the configured actions that may be run as the first job, the second, ...
    Paths,
    Missing,        \* the path that broken links lead to
    Root,           \* whether testforge runs as root
    Workers,        \* how many children a scenario forks
    LeakRate, LeakMax, LeakDuration

MaxJobs == Len(Menu)

\* q is the second path, arg what else is configured: an errno, a job, a port.
Scenarios == UNION { Menu[n] : n \in DOMAIN Menu }
ASSUME ScenariosAssumption ==
    \A s \in Scenarios : DOMAIN s = {"action", "p", "q", "arg"} /\ {s.p, s.q} \subseteq Paths
ASSUME PathsAssumption == Missing \in Paths /\ Cardinality(Paths) <= 3
ASSUME BoundsAssumption ==
    /\ Root \in BOOLEAN
    /\ {Workers, LeakRate, LeakMax, LeakDuration} \subseteq Nat

VARIABLES
    jobs,       \* the jobs started, in order
    fs          \* what is at every path

vars == <<jobs, fs>>

Types == {"none", "file", "dir", "modes", "link", "fifo", "socket", "node"}
Object(type, id, to) == [type |-> type, id |-> id, to |-> to]
Nothing == Object("none", 0, Missing)
Directories == {"dir", "modes"}

----------------------------------------------------------------------------
(* The programs *)

Program(s) ==
    CASE s.action \in {"MEMORY_PRESSURE", "OOM_PRESSURE"} -> <<"allocate", "touch", "sleep">>
      [] s.action = "MEMORY_LEAK"        -> <<"leak">>
      [] s.action = "MEMORY_FRAGMENTATION" -> <<"allocate">>
      [] s.action = "LARGE_FILE"         -> <<"create", "write">>
      [] s.action = "RANDOM_WRITE"       -> <<"openBoth", "write">>
      [] s.action \in {"DISK_FILL", "ENOSPC", "INODE_FILL", "HUGE_DIRECTORY", "FSYNC_STORM"}
                                         -> <<"ensureDir", "write">>
      [] s.action \in {"CPU_BURN", "PROCESS_FLOOD"} -> <<"fork", "waitAll">>
      [] s.action = "ZOMBIE_PROCESS"     -> <<"fork", "sleep", "reap">>
      [] s.action = "ORPHAN_PROCESS"     -> <<"fork">>
      [] s.action = "REGULAR_FILE"       -> <<"create">>
      [] s.action \in {"DIRECTORY", "DEEP_DIRECTORY", "SYMLINK_LOOP"} -> <<"ensureDir">>
      [] s.action = "PERMISSION_PATTERN" -> <<"ensureDir", "createModes">>
      [] s.action = "HARD_LINK"          -> <<"createSource", "unlink", "make">>
      [] s.action \in {"SYMLINK", "BROKEN_SYMLINK", "FIFO", "UNIX_SOCKET", "DEVICE"}
                                         -> <<"unlink", "make">>
      [] s.action \in {"TCP_SERVER", "SLOW_SERVER", "NO_RESPONSE_SERVER", "IMMEDIATE_DISCONNECT"}
                                         -> <<"listen", "sleep">>
      [] s.action = "TCP_FLOOD"          -> <<"connect", "sleep">>
      [] s.action \in {"OPEN_FAILURE", "READ_FAILURE"} -> <<"openForReading">>
      [] s.action = "DEVICE_BUSY"        -> <<"openBoth", "lock", "sleep">>
      [] s.action \in {"TIMEOUT", "FD_EXHAUSTION"} -> <<"sleep">>
      [] s.action = "SIGNAL_INJECTION"   -> <<"kill">>
      [] s.action = "FILE_TAMPER"        -> <<"sleep", "create", "write">>

Alive(j) == jobs[j].pc # 0
Waits(j) == jobs[j].fifo # 0
Op(j) == Program(jobs[j].scenario)[jobs[j].pc]
At(j, op) == Alive(j) /\ ~Waits(j) /\ Op(j) = op
ArgOf(j) == jobs[j].scenario.arg
Is(j, action) == jobs[j].scenario.action = action

\* _exit; what the process holds is released.
Exited(job, code) == [job EXCEPT !.pc = 0, !.code = code, !.fifo = 0, !.lock = 0, !.memory = 0]

Continued(job) ==
    IF job.pc = Len(Program(job.scenario)) THEN Exited(job, 0)
    ELSE [job EXCEPT !.pc = @ + 1, !.fifo = 0]

Become(j, job) == jobs' = [jobs EXCEPT ![j] = job]
Proceed(j) == Become(j, Continued(jobs[j]))
Fail(j, code) == Become(j, Exited(jobs[j], code))

\* What is at a path changes, which the other jobs are told.
Put(j, path, object, job) ==
    /\ fs' = [fs EXCEPT ![path] = object]
    /\ jobs' = [k \in DOMAIN jobs |->
                   IF k = j THEN job ELSE [jobs[k] EXCEPT !.alone = FALSE]]

----------------------------------------------------------------------------
(* Operations on files *)

PathOf(j) == jobs[j].scenario.p

\* Where a path leads when links are followed, of which there are at most three in a row; a
\* loop leads to a link.
Follow(p) == IF fs[p].type = "link" THEN fs[p].to ELSE p
End(j) == Follow(Follow(Follow(PathOf(j))))
Found(j) == fs[End(j)].type

\* Opening to write creates the file.
Open(j, opened, failed) ==
    CASE Found(j) = "none" -> Put(j, End(j), Object("file", j, Missing), [opened EXCEPT !.open = j])
      [] Found(j) = "file" -> Become(j, [opened EXCEPT !.open = fs[End(j)].id]) /\ UNCHANGED fs
      [] Found(j) = "node" -> (Become(j, opened) \/ Become(j, failed)) /\ UNCHANGED fs
      [] OTHER -> Become(j, failed) /\ UNCHANGED fs

\* O_WRONLY at a FIFO waits for O_RDONLY, and the other way round, whatever is then done
\* with its names.
WaitAtFifo(j) ==
    /\ At(j, "create") \/ At(j, "createSource") \/ At(j, "openForReading")
    /\ Found(j) = "fifo"
    /\ Become(j, [jobs[j] EXCEPT !.fifo = fs[End(j)].id])
    /\ UNCHANGED fs

Create(j) ==
    /\ At(j, "create") /\ Found(j) # "fifo"
    /\ Open(j, Continued(jobs[j]), Exited(jobs[j], 2))

\* hard_link_child: whether the source could be opened does not matter.
CreateSource(j) ==
    /\ At(j, "createSource") /\ Found(j) # "fifo"
    /\ Open(j, Continued(jobs[j]), Continued(jobs[j]))

\* A writer and a reader of a FIFO let each other through; the reader reads nothing, and the
\* writer may be killed by SIGPIPE when it writes.
MeetAtFifo(j, k) ==
    /\ Waits(j) /\ Op(j) # "openForReading" /\ Waits(k) /\ Op(k) = "openForReading"
    /\ jobs[j].fifo = jobs[k].fifo
    /\ \E writer \in {Continued(jobs[j]), Exited(jobs[j], -1)} :
          jobs' = [jobs EXCEPT ![j] = writer,
                               ![k] = Exited(@, IF Is(k, "OPEN_FAILURE") THEN 3 ELSE 4)]
    /\ UNCHANGED fs

\* ensure_dir takes anything that is there for a directory; the files to be made in it show
\* what it is.
EnsureDir(j) ==
    /\ At(j, "ensureDir")
    /\ IF fs[PathOf(j)].type = "none"
       THEN Put(j, PathOf(j), Object("dir", j, Missing), Continued(jobs[j]))
       ELSE /\ IF Found(j) \in Directories \/ Is(j, "DIRECTORY") THEN Proceed(j) ELSE Fail(j, 3)
            /\ UNCHANGED fs

\* A file of mode 000 cannot be opened again, but by root.
CreateModes(j) ==
    /\ At(j, "createModes")
    /\ IF Found(j) = "modes" /\ ~Root THEN Fail(j, 3) /\ UNCHANGED fs
       ELSE Put(j, End(j), [fs[End(j)] EXCEPT !.type = "modes"], Continued(jobs[j]))

NewPath(j) == IF Is(j, "HARD_LINK") THEN jobs[j].scenario.q ELSE PathOf(j)

\* Mutant: what is there stays.
NoUnlink(j) == At(j, "unlink") /\ Proceed(j) /\ UNCHANGED fs

\* unlink: not of a directory; the result is not looked at.
Unlink(j) ==
    /\ At(j, "unlink")
    /\ IF fs[NewPath(j)].type \in Directories \cup {"none"} THEN Proceed(j) /\ UNCHANGED fs
       ELSE Put(j, NewPath(j), Nothing, Continued(jobs[j]))

Made(j) ==
    LET s == jobs[j].scenario IN
    CASE s.action = "SYMLINK"        -> Object("link", j, s.q)
      [] s.action = "BROKEN_SYMLINK" -> Object("link", j, Missing)
      [] s.action = "HARD_LINK"      -> fs[s.p]
      [] s.action = "FIFO"           -> Object("fifo", j, Missing)
      [] s.action = "UNIX_SOCKET"    -> Object("socket", j, Missing)
      [] s.action = "DEVICE"         -> Object("node", j, Missing)

\* symlink, link, mkfifo, bind, mknod: only where nothing is; a node only by root.
CanMake(j) ==
    /\ fs[NewPath(j)].type = "none"
    /\ Made(j).type \notin Directories \cup {"none"}
    /\ Is(j, "DEVICE") => Root

\* Mutant: the result is not looked at.
BlindMake(j) ==
    /\ At(j, "make")
    /\ IF CanMake(j) THEN Put(j, NewPath(j), Made(j), Continued(jobs[j]))
       ELSE Proceed(j) /\ UNCHANGED fs

Make(j) ==
    /\ At(j, "make")
    /\ IF CanMake(j) THEN Put(j, NewPath(j), Made(j), Continued(jobs[j]))
       ELSE Fail(j, IF Is(j, "UNIX_SOCKET") THEN 3 ELSE 2) /\ UNCHANGED fs

Errno(j) == CASE Found(j) = "none" -> "ENOENT" [] Found(j) = "link" -> "ELOOP" [] OTHER -> "ENXIO"

\* Both expect a failure: of the opening, or of the reading, which only a directory refuses.
OpenForReading(j) ==
    /\ At(j, "openForReading") /\ Found(j) # "fifo"
    /\ LET opened == Found(j) \in Directories \cup {"file", "node"}
           reading == Is(j, "READ_FAILURE")
       IN  IF IF opened THEN reading /\ Found(j) \in Directories /\ ArgOf(j) = "EISDIR"
                        ELSE Errno(j) = ArgOf(j)
           THEN Proceed(j)
           ELSE Fail(j, IF opened = reading THEN 4 ELSE 3)
    /\ UNCHANGED fs

\* O_RDWR does not wait at a FIFO, which cannot be given a size.
OpenBoth(j) ==
    /\ At(j, "openBoth")
    /\ IF Found(j) = "fifo" /\ Is(j, "DEVICE_BUSY")
       THEN Become(j, [Continued(jobs[j]) EXCEPT !.open = fs[End(j)].id]) /\ UNCHANGED fs
       ELSE Open(j, Continued(jobs[j]), Exited(jobs[j], 2))

\* flock on the file that was opened, without waiting.
Lock(j) ==
    /\ At(j, "lock")
    /\ IF \E k \in DOMAIN jobs : jobs[k].lock # 0 /\ jobs[k].lock = jobs[j].open THEN Fail(j, 3)
       ELSE Become(j, [Continued(jobs[j]) EXCEPT !.lock = jobs[j].open])
    /\ UNCHANGED fs

\* What is written, in as many rounds as it takes, finds room or does not; for the fillers no
\* room is what they are after, unless a part of a block was written.
Write(j) ==
    /\ At(j, "write")
    /\ \/ Proceed(j)
       \/ Fail(j, IF Is(j, "LARGE_FILE") \/ Is(j, "FILE_TAMPER") \/ Is(j, "HUGE_DIRECTORY")
                  THEN 3 ELSE 4)
    /\ UNCHANGED fs

FileStep(j) ==
    \/ WaitAtFifo(j) \/ Create(j) \/ CreateSource(j) \/ EnsureDir(j) \/ CreateModes(j)
    \/ Unlink(j) \/ Make(j) \/ OpenForReading(j) \/ OpenBoth(j) \/ Lock(j) \/ Write(j)
    \/ \E k \in DOMAIN jobs : MeetAtFifo(j, k)

----------------------------------------------------------------------------
(* Memory, processes, ports, signals *)

Allocate(j) == At(j, "allocate") /\ (Proceed(j) \/ Fail(j, 2)) /\ UNCHANGED fs

\* Touching the pages may bring the OOM killer.
Touch(j) == At(j, "touch") /\ (Proceed(j) \/ Fail(j, -1)) /\ UNCHANGED fs

Chunk(job) == IF job.memory + LeakRate > LeakMax THEN LeakMax - job.memory ELSE LeakRate

\* memory_leak_child: a chunk in every second, up to the maximum or the duration.
Leak(j) ==
    /\ At(j, "leak")
    /\ \/ /\ jobs[j].memory < LeakMax /\ jobs[j].rounds < LeakDuration
          /\ Become(j, [jobs[j] EXCEPT !.memory = @ + Chunk(jobs[j]), !.rounds = @ + 1])
       \/ Proceed(j)
    /\ UNCHANGED fs

\* fork may fail for some; zombie_process_child's children end at once.
Fork(j) ==
    /\ At(j, "fork")
    /\ \E n \in 0..Workers :
          LET job == Continued(jobs[j]) IN
          Become(j, IF Is(j, "ZOMBIE_PROCESS") THEN [job EXCEPT !.zombies = n]
                                               ELSE [job EXCEPT !.children = n])
    /\ UNCHANGED fs

\* A child ends; if its parent has gone, init reaps it.
ChildEnds(j) ==
    /\ jobs[j].children > 0
    /\ Become(j, [jobs[j] EXCEPT !.children = @ - 1, !.zombies = IF Alive(j) THEN @ + 1 ELSE @])
    /\ UNCHANGED fs

WaitAll(j) ==
    /\ At(j, "waitAll") /\ jobs[j].children = 0
    /\ Become(j, [Continued(jobs[j]) EXCEPT !.zombies = 0])
    /\ UNCHANGED fs

Reap(j) ==
    /\ At(j, "reap")
    /\ Become(j, [Continued(jobs[j]) EXCEPT !.zombies = 0])
    /\ UNCHANGED fs

Serving(port) == { k \in DOMAIN jobs : Alive(k) /\ Program(jobs[k].scenario)[1] = "listen" /\
                                       jobs[k].pc = 2 /\ ArgOf(k) = port }

Listen(j) ==
    /\ At(j, "listen")
    /\ IF Serving(ArgOf(j)) = {} THEN Proceed(j) ELSE Fail(j, 2)
    /\ UNCHANGED fs

\* tcp_flood_child tells at its end whether any connection was made.
Connect(j) ==
    /\ At(j, "connect")
    /\ Become(j, [Continued(jobs[j]) EXCEPT !.verdict = IF Serving(ArgOf(j)) = {} THEN 3 ELSE 0])
    /\ UNCHANGED fs

\* Mutant: for ever.
EndlessSleep(j) == FALSE

Sleep(j) ==
    /\ At(j, "sleep")
    /\ IF jobs[j].verdict # 0 THEN Fail(j, jobs[j].verdict) ELSE Proceed(j)
    /\ UNCHANGED fs

\* Job 0 stands for the process group, testforge included.
Kill(j) ==
    /\ At(j, "kill")
    /\ LET hit == { k \in DOMAIN jobs : Alive(k) /\ (ArgOf(j) \in {0, k}) }
       IN  IF hit = {} THEN Fail(j, 2)
           ELSE jobs' = [k \in DOMAIN jobs |->
                   IF k \in hit THEN Exited(jobs[k], -1)
                   ELSE IF k = j THEN Continued(jobs[j]) ELSE jobs[k]]
    /\ UNCHANGED fs

OtherStep(j) ==
    \/ Allocate(j) \/ Touch(j) \/ Leak(j)
    \/ Fork(j) \/ WaitAll(j) \/ Reap(j) \/ ChildEnds(j)
    \/ Listen(j) \/ Connect(j) \/ Sleep(j) \/ Kill(j)

----------------------------------------------------------------------------
Finished(j) == ~Alive(j) /\ jobs[j].code = 0

\* pc, code and open tell of the process; alone is whether nobody else has changed what is at
\* a path since it started, repeats whether it does again what has been done.
NewJob(s) ==
    [scenario |-> s, pc |-> 1, code |-> 0, open |-> 0, lock |-> 0, fifo |-> 0,
     memory |-> 0, rounds |-> 0, children |-> 0, zombies |-> 0, verdict |-> 0, alone |-> TRUE,
     repeats |-> \E k \in DOMAIN jobs : jobs[k].scenario = s /\ jobs[k].alone /\ Finished(k)]

\* run_step: another job.
Start(s) ==
    /\ Len(jobs) < MaxJobs /\ s \in Menu[Len(jobs) + 1]
    /\ jobs' = Append(jobs, NewJob(s))
    /\ UNCHANGED fs

Init == jobs = <<>> /\ fs = [p \in Paths |-> Nothing]

Step(j) == FileStep(j) \/ OtherStep(j)
AnyStep == \E j \in DOMAIN jobs : Step(j)
Next == (\E s \in Scenarios : Start(s)) \/ AnyStep

\* Some process that can go on does, and its seconds pass.
Spec == Init /\ [][Next]_vars /\ WF_vars(AnyStep)

----------------------------------------------------------------------------
\* Every variable has its type.
TypeOK ==
    /\ fs \in [Paths -> [type : Types, id : 0..MaxJobs, to : Paths]]
    /\ \A p \in Paths : fs[p].type = "none" <=> fs[p].id = 0
    /\ \A j \in DOMAIN jobs :
          /\ jobs[j].scenario \in Scenarios
          /\ jobs[j].pc \in 0..Len(Program(jobs[j].scenario))
          /\ jobs[j].code \in {-1, 0, 2, 3, 4}
          /\ {jobs[j].open, jobs[j].lock, jobs[j].fifo} \subseteq 0..MaxJobs
          /\ {jobs[j].children, jobs[j].zombies} \subseteq 0..Workers

Expected(s) ==
    CASE s.action \in {"REGULAR_FILE", "LARGE_FILE", "RANDOM_WRITE", "FILE_TAMPER"} -> {"file", "node", "fifo"}
      [] s.action \in {"DEEP_DIRECTORY", "HUGE_DIRECTORY", "SYMLINK_LOOP"} -> Directories
      [] s.action = "PERMISSION_PATTERN" -> {"modes"}
      [] s.action \in {"SYMLINK", "BROKEN_SYMLINK"} -> {"link"}
      [] s.action = "FIFO" -> {"fifo"}
      [] s.action = "UNIX_SOCKET" -> {"socket"}
      [] s.action = "DEVICE" -> {"node"}
      [] OTHER -> Types

\* A job that made something and ended with 0 has made it: unless another job has changed the
\* files since it started, what its path leads to is of the kind it was to make, a link is
\* there that leads where it was to, and a hard link is the same file as its source.  The
\* exception is Directory, which is content with whatever is there.  (The *_child functions.)
WhatWasAsked ==
    \A j \in DOMAIN jobs :
        LET s == jobs[j].scenario
            at == IF Expected(s) = {"link"} THEN s.p ELSE End(j)
        IN  jobs[j].alone /\ Finished(j) =>
               /\ fs[at].type \in Expected(s)
               /\ s.action = "SYMLINK" => fs[at].to = s.q
               /\ s.action = "HARD_LINK" => fs[s.p] = fs[s.q] /\ fs[s.p].type # "none"

Lasting ==
    {"REGULAR_FILE", "DIRECTORY", "DEEP_DIRECTORY", "SYMLINK_LOOP", "PERMISSION_PATTERN",
     "SYMLINK", "BROKEN_SYMLINK", "HARD_LINK", "FIFO", "UNIX_SOCKET", "DEVICE"}

\* What has been done can be done again: a scenario that has ended with 0 and finds the files
\* as it left them ends with 0 the next time too, or is killed; but for the patterns of
\* permissions, which only root can make twice, and devices, which do as they like.  (unlink before link, mkfifo, bind, mknod;
\* EEXIST in ensure_dir.)
Repeatable ==
    \A j \in DOMAIN jobs :
        LET s == jobs[j].scenario IN
        (/\ jobs[j].repeats /\ jobs[j].alone /\ ~Alive(j)
         /\ s.action \in Lasting /\ Found(j) # "node"
         /\ s.action = "PERMISSION_PATTERN" => Root) => jobs[j].code \in {-1, 0}

\* One file is never held busy by two jobs, whatever names it has and whatever happens to
\* them meanwhile (device_busy_child).
BusyExclusive ==
    \A j, k \in DOMAIN jobs : j # k /\ jobs[j].lock # 0 => jobs[j].lock # jobs[k].lock

\* A leak ends at its maximum, whether or not the rate divides it (memory_leak_child).
LeakBounded == \A j \in DOMAIN jobs : jobs[j].memory <= LeakMax

\* A job that ends by itself leaves no children behind, running or dead, unless orphans are
\* what it makes (cpu_burn_child, process_flood_child, zombie_process_child).
NoneLeft ==
    \A j \in DOMAIN jobs :
        Finished(j) /\ ~Is(j, "ORPHAN_PROCESS") => jobs[j].children = 0 /\ jobs[j].zombies = 0

\* A job that ended with 0 has done what it was to do and leaves nothing else: it has made its
\* file, kept to its maximum, and taken its children and its lock with it.
DoneMeansThere == TypeOK /\ WhatWasAsked /\ BusyExclusive /\ LeakBounded /\ NoneLeft

\* A job ends, or waits at a FIFO for somebody to open its other end: everything else it does
\* is bounded by what is configured (duration_seconds, bounded_positive).
EveryJobEnds ==
    \A j \in 1..MaxJobs :
        j \in DOMAIN jobs ~> j \in DOMAIN jobs /\ (~Alive(j) \/ Waits(j))
=============================================================================
