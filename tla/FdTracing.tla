----------------------------- MODULE FdTracing -----------------------------
(***************************************************************************)
(* The analysis of FdTracker run beside the kernel and the strace process  *)
(* that produced the trace: every step that logs an event is a joint step  *)
(* of the kernel (external, modelled by what its system calls promise) and *)
(* of the loop of fd_analysis_build.  The properties compare what the      *)
(* analysis believes with what the kernel has.                             *)
(*                                                                         *)
(* strace prints a call on one line, or in two halves,                     *)
(*     clone( <unfinished ...>     and     <... clone resumed>...) = 101   *)
(* when another process is printed before it returns.  So it is with a     *)
(* clone whose child is printed first; "split" lets it happen to others.   *)
(***************************************************************************)
EXTENDS FdTracker, FiniteSets

CONSTANTS
    Closed,     \* descriptor slot that is not open
    Idle,       \* process that is not inside a call
    Behaviours, \* sets of what the traced programs may be seen to do
    MaxUnusual  \* bound on the length of a trace in which they do

\* "split"     calls other than clones are printed in two halves;
\* "selfdup"   dup2 of a descriptor onto itself;
\* "strangers" dup2 of a descriptor the analysis does not know onto one it knows;
\* "threads"   another thread of a process runs while a clone is outstanding.
AllBehaviours == {"split", "selfdup", "strangers", "threads"}

ASSUME BehavioursAssumption == Behaviours \subseteq SUBSET AllBehaviours
ASSUME MaxUnusualAssumption == MaxUnusual \in Nat

VARIABLES
    seen,       \* what is seen in this trace, of AllBehaviours
    live,       \* processes that have been started
    slots,      \* the kernel's descriptor table of each process
    inCall      \* the call whose return is still outstanding, or Idle

kernelVars == <<seen, live, slots, inCall>>
vars == <<trackerVars, kernelVars>>

\* An open file description is named by the event that created it, 0 when that
\* event is none of the calls the analysis knows (epoll_create, eventfd, ...).
Slots == [born : Nat, cloexec : BOOLEAN]
Calls == ({"clone"} \X Pid) \cup ({"open"} \X BOOLEAN) \cup ({"close", "dup"} \X Fd)

ASSUME KernelAssumption == Closed \notin Slots /\ Idle \notin Calls

Opened(born, cloexec) == [born |-> born, cloexec |-> cloexec]

Room == Len(infos) < IF seen \subseteq {"strangers"} THEN MaxEvents ELSE MaxUnusual

\* A process inside a call does nothing else unless another of its threads does.
CanRun(p) ==
    /\ p \in live
    /\ inCall[p] = Idle \/ "threads" \in seen
    /\ Room

FreeSlot(p, fd) == slots[p][fd] = Closed
IsOpen(p, fd) == slots[p][fd] # Closed

\* The analysis will have a binding for the descriptor at the next event of p.
Knows(p, fd) == GetTable(p)[fd] # Unbound

SetSlot(p, fd, slot) ==
    /\ slots' = [slots EXCEPT ![p][fd] = slot]
    /\ UNCHANGED <<seen, live, inCall>>

----------------------------------------------------------------------------
(* Calls that strace prints on one line. *)

SysOpen(p, fd, c) ==
    /\ CanRun(p) /\ FreeSlot(p, fd)
    /\ SetSlot(p, fd, Opened(ThisEvent, c))
    /\ Open(p, fd, c)

SysAccept(p, listener, fd, c) ==
    /\ CanRun(p) /\ IsOpen(p, listener) /\ FreeSlot(p, fd)
    /\ SetSlot(p, fd, Opened(ThisEvent, c))
    /\ Accept(p, listener, fd, c)

SysPipe(p, left, right, c) ==
    /\ CanRun(p) /\ left # right /\ FreeSlot(p, left) /\ FreeSlot(p, right)
    /\ slots' = [slots EXCEPT ![p][left] = Opened(ThisEvent, c),
                              ![p][right] = Opened(ThisEvent, c)]
    /\ UNCHANGED <<seen, live, inCall>>
    /\ Pipe(p, left, right, c)

\* A call the analysis does not know that returns a descriptor.
SysForeign(p, fd, c) ==
    /\ CanRun(p) /\ FreeSlot(p, fd)
    /\ SetSlot(p, fd, Opened(0, c))
    /\ Other(p)

SysDup(p, old, fd) ==
    /\ CanRun(p) /\ IsOpen(p, old) /\ FreeSlot(p, fd)
    /\ SetSlot(p, fd, Opened(slots[p][old].born, FALSE))
    /\ Dup(p, <<old>>, fd, FALSE)

\* dup2 and dup3 close the target first; only dup3 can set close-on-exec.
SysDup2(p, old, fd, c) ==
    /\ CanRun(p) /\ IsOpen(p, old) /\ old # fd
    /\ "strangers" \in seen \/ Knows(p, old) \/ ~Knows(p, fd)
    /\ SetSlot(p, fd, Opened(slots[p][old].born, c))
    /\ Dup(p, <<old, fd>>, fd, c)

\* dup2 of a descriptor onto itself returns it and changes nothing.
SysDup2Self(p, fd) ==
    /\ "selfdup" \in seen
    /\ CanRun(p) /\ IsOpen(p, fd)
    /\ Dup(p, <<fd, fd>>, fd, FALSE)
    /\ UNCHANGED kernelVars

SysFcntlDup(p, old, fd, c) ==
    /\ CanRun(p) /\ IsOpen(p, old) /\ FreeSlot(p, fd)
    /\ SetSlot(p, fd, Opened(slots[p][old].born, c))
    /\ FcntlDup(p, old, fd, c)

SysSetFd(p, fd, c) ==
    /\ CanRun(p) /\ IsOpen(p, fd)
    /\ SetSlot(p, fd, [slots[p][fd] EXCEPT !.cloexec = c])
    /\ FcntlSetFd(p, fd, c)

SysClose(p, fd) ==
    /\ CanRun(p) /\ IsOpen(p, fd)
    /\ SetSlot(p, fd, Closed)
    /\ Close(p, fd)

\* Calls that leave the descriptor table as it is, failed ones included.
SysRead(p, fd) == CanRun(p) /\ Use(p, fd) /\ UNCHANGED kernelVars
SysFcntl(p, fd) == CanRun(p) /\ FcntlOther(p, fd) /\ UNCHANGED kernelVars
SysOther(p) == CanRun(p) /\ Other(p) /\ UNCHANGED kernelVars

SysExec(p) ==
    /\ CanRun(p)
    /\ slots' = [slots EXCEPT ![p] = [fd \in Fd |->
                    IF IsOpen(p, fd) /\ slots[p][fd].cloexec THEN Closed ELSE slots[p][fd]]]
    /\ UNCHANGED <<seen, live, inCall>>
    /\ Execve(p)

\* fork, vfork, clone and clone3: the kernel makes the child.
Born(p, child) ==
    /\ CanRun(p) /\ child \notin live
    /\ live' = live \cup {child}
    /\ slots' = [slots EXCEPT ![child] = slots[p]]
    /\ UNCHANGED seen

SysFork(p, child) ==
    /\ Born(p, child) /\ parents[child] = p /\ UNCHANGED inCall
    /\ Clone(p, child)

----------------------------------------------------------------------------
(* Calls with a beginning and an end. *)

Enter(p, call) == inCall[p] = Idle /\ inCall' = [inCall EXCEPT ![p] = call]
Leave(p) == inCall' = [inCall EXCEPT ![p] = Idle]

\* Another process is printed before the clone returns.  The trace may end, or the
\* parent die, before the result is printed: then nobody knows the parent.
ForkBegins(p, child) ==
    /\ Born(p, child) /\ parents[child] \in {p, NoPid}
    /\ Enter(p, <<"clone", child>>)
    /\ Other(p)

ForkReturns(p, child) ==
    /\ Room
    /\ inCall[p] = <<"clone", child>> /\ Leave(p)
    /\ Clone(p, child)
    /\ UNCHANGED <<seen, live, slots>>

\* The flags are printed in the first half, the descriptor in the second.
OpenBegins(p, c) ==
    /\ "split" \in seen /\ CanRun(p) /\ Enter(p, <<"open", c>>)
    /\ Other(p)
    /\ UNCHANGED <<seen, live, slots>>

OpenEnds(p, fd, c) ==
    /\ Room
    /\ inCall[p] = <<"open", c>> /\ FreeSlot(p, fd) /\ Leave(p)
    /\ slots' = [slots EXCEPT ![p][fd] = Opened(ThisEvent, c)]
    /\ Open(p, fd, FALSE)
    /\ UNCHANGED <<seen, live>>

\* The descriptor is printed in the first half, the result in the second.
CloseBegins(p, fd) ==
    /\ "split" \in seen /\ CanRun(p) /\ IsOpen(p, fd) /\ Enter(p, <<"close", fd>>)
    /\ Use(p, fd)
    /\ UNCHANGED <<seen, live, slots>>

CloseEnds(p, fd) ==
    /\ Room
    /\ inCall[p] = <<"close", fd>> /\ Leave(p)
    /\ slots' = [slots EXCEPT ![p][fd] = Closed]
    /\ Other(p)
    /\ UNCHANGED <<seen, live>>

DupBegins(p, old) ==
    /\ "split" \in seen /\ CanRun(p) /\ IsOpen(p, old) /\ Enter(p, <<"dup", old>>)
    /\ Other(p)
    /\ UNCHANGED <<seen, live, slots>>

DupEnds(p, old, fd) ==
    /\ Room
    /\ inCall[p] = <<"dup", old>> /\ IsOpen(p, old) /\ FreeSlot(p, fd) /\ Leave(p)
    /\ slots' = [slots EXCEPT ![p][fd] = Opened(slots[p][old].born, FALSE)]
    /\ Other(p)
    /\ UNCHANGED <<seen, live>>

----------------------------------------------------------------------------
Init ==
    /\ TrackerInit
    /\ seen \in Behaviours
    /\ \E first \in Pid : live = {first} /\ parents[first] = NoPid
    /\ slots = [p \in Pid |-> [fd \in Fd |-> Closed]]
    /\ inCall = [p \in Pid |-> Idle]

WholeCall(p) ==
    \/ \E fd \in Fd, c \in BOOLEAN : SysOpen(p, fd, c)
    \/ \E listener, fd \in Fd, c \in BOOLEAN : SysAccept(p, listener, fd, c)
    \/ \E left, right \in Fd, c \in BOOLEAN : SysPipe(p, left, right, c)
    \/ \E fd \in Fd, c \in BOOLEAN : SysForeign(p, fd, c)
    \/ \E old, fd \in Fd : SysDup(p, old, fd)
    \/ \E old, fd \in Fd, c \in BOOLEAN : SysDup2(p, old, fd, c)
    \/ \E fd \in Fd : SysDup2Self(p, fd)
    \/ \E old, fd \in Fd, c \in BOOLEAN : SysFcntlDup(p, old, fd, c)
    \/ \E fd \in Fd, c \in BOOLEAN : SysSetFd(p, fd, c)
    \/ \E fd \in Fd : SysClose(p, fd) \/ SysRead(p, fd) \/ SysFcntl(p, fd)
    \/ SysOther(p)
    \/ SysExec(p)
    \/ \E child \in Pid : SysFork(p, child)

LongCall(p) ==
    \/ \E child \in Pid : ForkBegins(p, child) \/ ForkReturns(p, child)
    \/ \E c \in BOOLEAN : OpenBegins(p, c) \/ \E fd \in Fd : OpenEnds(p, fd, c)
    \/ \E fd \in Fd : CloseBegins(p, fd) \/ CloseEnds(p, fd) \/ DupBegins(p, fd)
    \/ \E old, fd \in Fd : DupEnds(p, old, fd)

Next == \E p \in Pid : WholeCall(p) \/ LongCall(p)

Spec == Init /\ [][Next]_vars

----------------------------------------------------------------------------
(* Properties *)

KernelTypeOK ==
    /\ seen \in Behaviours
    /\ live \subseteq Pid
    /\ slots \in [Pid -> [Fd -> Slots \cup {Closed}]]
    /\ inCall \in [Pid -> Calls \cup {Idle}]

\* Type invariant of the analysis and of the kernel.
TracingTypeOK == TypeOK /\ KernelTypeOK

Without(behaviours) == seen \cap behaviours = {}

Bound(p, fd) == p \in hasTable /\ tables[p][fd] # Unbound

\* A number the analysis keeps a binding for refers to the open file description the
\* analysis says: README.md:90-92.
RightObjects ==
    \A p \in Pid, fd \in Fd :
        Bound(p, fd) /\ IsOpen(p, fd) => objects[tables[p][fd].object] = slots[p][fd].born

\* No binding outlives its descriptor.
NoStaleBinding == \A p \in Pid, fd \in Fd : Bound(p, fd) => IsOpen(p, fd)

\* The close-on-exec mark the analysis keeps is the kernel's: README.md:91-92.
RightMarks ==
    \A p \in Pid, fd \in Fd :
        Bound(p, fd) /\ IsOpen(p, fd) => tables[p][fd].cloexec = slots[p][fd].cloexec

\* Colours, 'o' and the FD popup speak of the right file, across reuse of numbers, dup,
\* fork and exec in any order, and an exec discards exactly what the kernel closes.
TablesAgree ==
    /\ TracingTypeOK
    /\ seen = {} => RightObjects /\ NoStaleBinding /\ RightMarks

\* The trace contains the result of every fork, vfork and clone.
EveryParentKnown == Cardinality({p \in live : parents[p] = NoPid}) = 1

\* A descriptor created by a call the analysis knows is known in every process
\* that has it: FD state is inherited across fork and clone, in whatever order the
\* clone result and the child's first events are printed.
NothingForgotten ==
    EveryParentKnown /\ Without({"split", "threads"}) =>
        \A p \in hasTable, fd \in Fd :
            IsOpen(p, fd) /\ slots[p][fd].born # 0 => Bound(p, fd)

\* The descriptor the FD popup shows for event i.
ShownFd(i) == infos[i].refs[infos[i].primary].fd

\* The popup says OPEN after the newest event only if the descriptor is open.
OpenMeansOpen ==
    LET n == Len(infos) IN
    n > 0 /\ infos[n].open /\ seen = {} => IsOpen(infos[n].pid, ShownFd(n))
============================================================================
