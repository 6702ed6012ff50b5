----------------------------- MODULE TraceView -----------------------------
(***************************************************************************)
(* The trace log of strace-src (main.c): the list of visible events, its   *)
(* filters and its selection, while events and stack frames keep arriving. *)
(* The loop of main reads what has arrived, draws, and handles one key or  *)
(* the timeout of getch, which is a key like any other.                    *)
(*                                                                         *)
(* Events are numbered from 1; 0 is the -1 of the code.  The index array   *)
(* `visible' is increasing, so it is the set of its elements.  An event is *)
(* its kind (syscall, thread, whether it is printed as resumed) and its    *)
(* frames; a frame is the source line it resolves to.  Frames of runtime   *)
(* libraries count as frames without a line.                               *)
(***************************************************************************)
EXTENDS Integers, Sequences

CONSTANTS
    Names,      \* of syscalls
    Threads,
    Kinds,      \* the kinds of events that occur
    Lines,      \* of source files
    NoLine,
    MaxEvents,  \* bound on the events
    MaxFrames,  \* bound on the frames of an event
    MaxKeys     \* bound on the keys pressed

ASSUME KindsAssumption ==
    Kinds \subseteq [name : Names, thread : Threads, resumed : BOOLEAN]
ASSUME LinesAssumption == NoLine \notin Lines
ASSUME BoundsAssumption == MaxEvents \in Nat /\ MaxFrames \in Nat /\ MaxKeys \in Nat

VARIABLES
    events,     \* model
    visible,    \* the events of the list
    dirty,      \* view_dirty
    selected,   \* the selected event
    follow,     \* follow_latest
    forced,     \* forced_event: shown whatever the filters say
    override,   \* source_override_event and _line
    scrolled,   \* source_scroll_offset # 0
    search,     \* the syscalls whose lines contain the text searched for
    filter,     \* the filters of the two menus
    lineFilter, \* source_filter_line
    focus,      \* focused_pane
    mode,       \* popup, or input_mode
    listed,     \* what the menu lists
    pc, keys

filters == <<search, filter, lineFilter>>
source == <<override, scrolled>>
list == <<visible, dirty, selected, follow, forced>>
vars == <<events, list, source, filters, focus, mode, listed, pc, keys>>

Menus == {"syscalls", "processes"}
Modes == Menus \cup {"none", "search", "stack", "fd", "graph", "help"}
Events == [kind : Kinds, frames : Seq(Lines \cup {NoLine})]
Overrides == [event : Nat, line : Lines \cup {NoLine}]
NoOverride == [event |-> 0, line |-> NoLine]
AllPass == [active |-> FALSE, items |-> {}]

----------------------------------------------------------------------------
(* What an event resolves to, and whether the filters let it through *)

Resolved(e) == { i \in DOMAIN e.frames : e.frames[i] # NoLine }

\* trace_event_resolve: the first frame that resolves.
SourceOf(e) ==
    IF Resolved(e) = {} THEN NoLine
    ELSE e.frames[CHOOSE i \in Resolved(e) : \A j \in Resolved(e) : i <= j]

ItemOf(menu, e) == IF menu = "syscalls" THEN e.kind.name ELSE e.kind.thread

\* The menu lists resumed calls under their names, the filter does not know them.
Passes(menu, e) ==
    \/ ~filter[menu].active
    \/ ItemOf(menu, e) \in filter[menu].items /\ (menu = "syscalls" => ~e.kind.resumed)

\* event_visible: filters are combined with AND.
EventVisible(e) ==
    /\ \A menu \in Menus : Passes(menu, e)
    /\ e.kind.name \in search
    /\ lineFilter = NoLine \/ SourceOf(e) = lineFilter

Filtered(f) == { i \in DOMAIN events : i = f \/ EventVisible(events[i]) }

----------------------------------------------------------------------------
(* The list and its selection *)

LastOf(S) == CHOOSE i \in S : \A j \in S : j <= i

\* select_event.
SelectEvent(s) ==
    /\ selected' = s
    /\ IF s = selected THEN UNCHANGED source
       ELSE override' = NoOverride /\ scrolled' = FALSE

\* rebuild_visible: the list, and what is selected in it.
Rebuilt(f, stale) == IF stale THEN Filtered(f) ELSE visible

\* Mutant: a selection that is not in the list is kept.
SelectedKept(stale, S) ==
    IF ~stale THEN selected
    ELSE IF S = {} THEN 0
    ELSE IF follow THEN LastOf(S) ELSE selected

SelectedIn(stale, S) ==
    IF ~stale THEN selected
    ELSE IF S = {} THEN 0
    ELSE IF follow \/ selected \notin S THEN LastOf(S) ELSE selected

----------------------------------------------------------------------------
(* read_trace: feed_line *)

NewEvent ==
    /\ pc = "read" /\ Len(events) < MaxEvents
    /\ \E kind \in Kinds : events' = Append(events, [kind |-> kind, frames |-> <<>>])
    /\ dirty' = TRUE
    /\ UNCHANGED <<visible, selected, follow, forced, source, filters, focus, mode, listed, pc, keys>>

\* A frame is the last event's; it can make a difference to the filter by source line.
NewFrame ==
    /\ pc = "read" /\ events # <<>> /\ Len(events[Len(events)].frames) < MaxFrames
    /\ \E line \in Lines \cup {NoLine} :
          events' = [events EXCEPT ![Len(events)].frames = Append(@, line)]
    /\ dirty' = (dirty \/ lineFilter # NoLine)
    /\ UNCHANGED <<visible, selected, follow, forced, source, filters, focus, mode, listed, pc, keys>>

Draw ==
    /\ pc = "read" /\ pc' = "key"
    /\ visible' = Rebuilt(forced, dirty)
    /\ SelectEvent(SelectedIn(dirty, visible'))
    /\ dirty' = FALSE
    /\ UNCHANGED <<events, follow, forced, filters, focus, mode, listed, keys>>

----------------------------------------------------------------------------
(* Keys *)

Press == pc = "key" /\ pc' = "read" /\ keys < MaxKeys /\ keys' = keys + 1
PressIn(m) == Press /\ mode = m

\* navigate, up to the choice of a target: the forced event leaves the list.
Unforce ==
    LET stale == dirty \/ forced # 0 IN
    /\ forced' = 0 /\ dirty' = FALSE
    /\ visible' = Rebuilt(0, stale)
    /\ SelectEvent(SelectedIn(stale, visible'))

\* Mutant: the override outlives the selection.
LooseNavigate ==
    /\ PressIn("none") /\ focus = "trace"
    /\ LET stale == dirty \/ forced # 0 IN
       /\ forced' = 0 /\ dirty' = FALSE
       /\ visible' = Rebuilt(0, stale)
       /\ \E target \in visible' :
             /\ selected' = target
             /\ follow' = (target = LastOf(visible'))
    /\ UNCHANGED <<events, source, filters, focus, mode, listed>>

\* Up, Down, PgUp, PgDn, g, G: how far a page goes depends on the terminal, which has
\* room for a page.
Navigate ==
    /\ PressIn("none") /\ focus = "trace"
    /\ LET stale == dirty \/ forced # 0 IN
       /\ forced' = 0 /\ dirty' = FALSE
       /\ visible' = Rebuilt(0, stale)
       /\ \E target \in visible' :
             /\ selected' = target
             /\ follow' = (target = LastOf(visible'))
             /\ IF SelectedIn(stale, visible') = selected /\ target = selected
                THEN UNCHANGED source
                ELSE override' = NoOverride /\ scrolled' = FALSE
    /\ UNCHANGED <<events, filters, focus, mode, listed>>

\* scroll_source; draw_source keeps the offset within the file.
Scroll ==
    /\ PressIn("none") /\ focus = "source"
    /\ scrolled' \in BOOLEAN
    /\ UNCHANGED <<events, list, override, filters, focus, mode, listed>>

\* Tab: back in the trace log, the source is shown where the event is.
Tab ==
    /\ PressIn("none")
    /\ focus' = IF focus = "trace" THEN "source" ELSE "trace"
    /\ scrolled' = (scrolled /\ focus' = "source")
    /\ UNCHANGED <<events, list, override, filters, mode, listed>>

\* / and Enter.
BeginInput ==
    /\ PressIn("none") /\ mode' = "search"
    /\ UNCHANGED <<events, list, source, filters, focus, listed>>

AcceptInput ==
    /\ PressIn("search") /\ mode' = "none"
    /\ search' \in SUBSET Names
    /\ dirty' = TRUE /\ follow' = TRUE
    /\ UNCHANGED <<events, visible, selected, forced, source, filter, lineFilter, focus, listed>>

\* e, p: the menu lists what the events so far have.
OpenMenu(menu) ==
    /\ PressIn("none") /\ mode' = menu
    /\ listed' = { ItemOf(menu, events[i]) : i \in DOMAIN events }
    /\ UNCHANGED <<events, list, source, filters, focus>>

\* Space, a, n; Enter.
ApplyMenu(menu) ==
    /\ PressIn(menu) /\ mode' = "none" /\ listed' = {}
    /\ \E checked \in SUBSET listed :
          filter' = [filter EXCEPT ![menu] =
                        IF checked = listed THEN AllPass ELSE [active |-> TRUE, items |-> checked]]
    /\ dirty' = TRUE /\ follow' = TRUE
    /\ UNCHANGED <<events, visible, selected, forced, source, search, lineFilter, focus>>

\* P, ?
OpenPopup ==
    /\ PressIn("none") /\ mode' \in {"graph", "help"}
    /\ UNCHANGED <<events, list, source, filters, focus, listed>>

\* displayed_source.
Displayed ==
    IF override # NoOverride /\ override.event = selected THEN override.line
    ELSE SourceOf(events[selected])

\* r
ReverseFromSelected ==
    /\ PressIn("none") /\ selected # 0 /\ Displayed # NoLine
    /\ lineFilter' = Displayed /\ dirty' = TRUE
    /\ UNCHANGED <<events, visible, selected, follow, forced, source, search, filter, focus, mode, listed>>

\* o: the creator of the event's descriptor is an earlier event (see FdTracker).
JumpFdOrigin ==
    /\ PressIn("none") /\ selected # 0
    /\ \E target \in 1 .. selected - 1 : forced' = target /\ SelectEvent(target)
    /\ dirty' = TRUE /\ follow' = FALSE
    /\ UNCHANGED <<events, visible, filters, focus, mode, listed>>

\* i
OpenFdInfo ==
    /\ PressIn("none") /\ selected # 0
    /\ mode' = "fd" /\ follow' = FALSE
    /\ UNCHANGED <<events, visible, dirty, selected, forced, source, filters, focus, listed>>

\* Mutant: the selection goes on following under the popup.
FollowingOpenStack ==
    /\ PressIn("none") /\ selected # 0 /\ events[selected].frames # <<>>
    /\ mode' = "stack"
    /\ UNCHANGED <<events, list, source, filters, focus, listed>>

\* s
OpenStack ==
    /\ PressIn("none") /\ selected # 0 /\ events[selected].frames # <<>>
    /\ mode' = "stack" /\ follow' = FALSE
    /\ UNCHANGED <<events, visible, dirty, selected, forced, source, filters, focus, listed>>

\* Enter on a frame that resolves: the cursor can be moved to each of them.
UseStackSource ==
    /\ PressIn("stack") /\ mode' = "none"
    /\ \E i \in Resolved(events[selected]) :
          override' = [event |-> selected, line |-> events[selected].frames[i]]
    /\ scrolled' = FALSE
    /\ UNCHANGED <<events, list, filters, focus, listed>>

\* Esc and its like, in a popup, a menu or the input.
Close ==
    /\ Press /\ mode # "none" /\ mode' = "none"
    /\ listed' = {}
    /\ UNCHANGED <<events, list, source, filters, focus>>

\* Esc
ClearFilters ==
    /\ PressIn("none")
    /\ search' = Names /\ filter' = [menu \in Menus |-> AllPass] /\ lineFilter' = NoLine
    /\ forced' = 0 /\ dirty' = TRUE /\ follow' = TRUE
    /\ UNCHANGED <<events, visible, selected, source, focus, mode, listed>>

\* No key within 100 ms, or one that means nothing: navigate is called all the same.
NoKey ==
    /\ pc = "key" /\ pc' = "read"
    /\ IF mode = "none" /\ focus = "trace" THEN Unforce
       ELSE UNCHANGED <<visible, dirty, selected, forced, source>>
    /\ UNCHANGED <<events, follow, filters, focus, mode, listed, keys>>

\* A key that finds nothing to act on, or that moves the cursor of a popup.
IdleKey ==
    /\ pc = "key" /\ pc' = "read"
    /\ UNCHANGED <<events, list, source, filters, focus, mode, listed, keys>>

Key ==
    \/ Navigate \/ Scroll \/ Tab
    \/ BeginInput \/ AcceptInput
    \/ \E menu \in Menus : OpenMenu(menu) \/ ApplyMenu(menu)
    \/ OpenPopup \/ OpenFdInfo \/ OpenStack \/ UseStackSource \/ Close
    \/ ReverseFromSelected \/ JumpFdOrigin \/ ClearFilters

Init ==
    /\ events = <<>> /\ visible = {} /\ dirty = TRUE
    /\ selected = 0 /\ follow = TRUE /\ forced = 0
    /\ override = NoOverride /\ scrolled = FALSE
    /\ search = Names /\ filter = [menu \in Menus |-> AllPass] /\ lineFilter = NoLine
    /\ focus = "trace" /\ mode = "none" /\ listed = {}
    /\ pc = "read" /\ keys = 0

Next == NewEvent \/ NewFrame \/ Draw \/ Key \/ NoKey \/ IdleKey

Spec == Init /\ [][Next]_vars

----------------------------------------------------------------------------
(* Properties *)

\* Type invariant of the view.
TypeOK ==
    /\ events \in Seq(Events)
    /\ visible \subseteq DOMAIN events
    /\ selected \in {0} \cup DOMAIN events /\ forced \in {0} \cup DOMAIN events
    /\ dirty \in BOOLEAN /\ follow \in BOOLEAN /\ scrolled \in BOOLEAN
    /\ override \in Overrides
    /\ search \in SUBSET Names
    /\ filter \in [Menus -> [active : BOOLEAN, items : SUBSET (Names \cup Threads)]]
    /\ lineFilter \in Lines \cup {NoLine}
    /\ focus \in {"trace", "source"}
    /\ mode \in Modes
    /\ listed \in SUBSET (Names \cup Threads)
    /\ pc \in {"read", "key"}
    /\ keys \in 0..MaxKeys

\* What is on the screen when a key is awaited is what the filters let through of the
\* events and frames that have arrived, and the forced event.
ShownIsFiltered == pc = "key" => visible = Filtered(forced)

\* Keys act on an event that is on the screen, or on none because there is none.
SelectionShown ==
    pc = "key" => IF visible = {} THEN selected = 0 ELSE selected \in visible

\* While it follows, the selection is the latest event of the list.
FollowsLatest == pc = "key" /\ follow /\ visible # {} => selected = LastOf(visible)

\* A source line chosen in the stack popup is shown for the event it was chosen for, as
\* long as that is selected: README.md:98-99.
OverrideOfSelected ==
    override # NoOverride =>
        /\ override.event = selected /\ selected # 0
        /\ \E i \in DOMAIN events[selected].frames : events[selected].frames[i] = override.line

\* What arrives while the stack or FD popup is open does not exchange the event under it:
\* Enter would choose a frame of another event.
PopupKeepsEvent == [][(mode \in {"stack", "fd"}) => (selected' = selected)]_vars
============================================================================
