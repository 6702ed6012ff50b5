---------------------------- MODULE TestforgeApp ----------------------------
(***************************************************************************)
(* The screen and the job table of testforge (testforge.c): the catalog of *)
(* categories and actions with its search, the configuration of one        *)
(* action, and the processes it is run in.  The loop reads the available   *)
(* memory, collects the processes that have ended, draws, and handles one  *)
(* key; a prompt stops the loop until it is answered.  Memory, processes   *)
(* and the size of the terminal change at any time.  What the processes do *)
(* is TestforgeScenarios.                                                  *)
(*                                                                         *)
(* No list of the catalog is longer than the screen, so none is scrolled.  *)
(***************************************************************************)
EXTENDS Integers, Sequences, SequencesExt, FiniteSets

CONSTANTS
    Categories,     \* the names, in order
    Actions,        \* [category, kind, params], in order
    NameHits,       \* for every search, the categories whose name it is found in
    CategoryHits,   \* and those whose name or summary it is found in
    ActionHits,     \* and the actions whose name or summary it is found in
    NoSearch,
    Numbers,        \* what may be typed for a number
    Texts,          \* what may be typed for anything else
    IntRange,       \* atoi wraps: values are -IntRange .. IntRange - 1
    Memories,       \* MemAvailable, in MB; 0 when it cannot be read
    Pids,
    MaxJobs,        \* MAX_JOBS
    MaxRuns         \* bound on the runs of a session

Searches == DOMAIN NameHits
\* A parameter is [type, default, choices]; "mem" is size_mb, max_mb or target_mb of one of the
\* three kinds of memory actions that have one, "rate" the leak's mb_per_sec.
Numeric == {"mem", "rate", "int"}
ParamTypes == Numeric \cup {"bool", "choice", "text"}
Kinds == {"pressure", "leak", "oom", "other"}

ASSUME CatalogAssumption ==
    /\ \A a \in Range(Actions) : a.category \in Range(Categories) /\ Len(a.params) > 0
    /\ Categories \in Seq(Range(Categories)) \ {<<>>} /\ Actions \in Seq(Range(Actions)) \ {<<>>}
    /\ \A a \in Range(Actions) : a.params \in Seq(Range(a.params))
    /\ \A a \in Range(Actions) : \A p \in Range(a.params) :
          p.type \in ParamTypes /\ (p.type \in Numeric => p.default \in Nat)
    /\ \A a \in Range(Actions) :
          /\ a.kind \in Kinds
          /\ a.kind # "other" <=> \E p \in Range(a.params) : p.type = "mem"
          /\ a.kind = "leak" => \E p \in Range(a.params) : p.type = "rate"
    /\ DOMAIN CategoryHits = Searches /\ DOMAIN ActionHits = Searches
    /\ NoSearch \in Searches
    /\ NameHits[NoSearch] = Range(Categories) /\ CategoryHits[NoSearch] = Range(Categories)
    /\ \A s \in Searches : NameHits[s] \subseteq CategoryHits[s]
ASSUME BoundsAssumption ==
    /\ Numbers \subseteq Nat /\ Memories \subseteq Nat /\ Pids \subseteq Nat \ {0}
    /\ {IntRange, MaxJobs, MaxRuns} \subseteq Nat \ {0}
    /\ \A n \in Memories : n < IntRange

VARIABLES
    view,       \* "categories", "actions" or "config"
    focus,      \* 1 when the details are edited
    opened,     \* opened_category_index, 0 for none
    search,
    category, action, param,    \* what is selected, from 1
    draft,      \* the action being configured, <<>> when draft_valid is false
    dryRun,
    mem,        \* mem_available_mb
    jobs        \* the job table

app == <<view, focus, opened, search, category, action, param, draft, dryRun>>

VARIABLES
    at,         \* "top" of the loop, "key", in the prompt "search" or "value", "gone"
    lit,        \* the catalog's row drawn as selected, 0 if none is
    procs       \* the children: their process id, whether they run, how they ended

vars == <<app, mem, jobs, at, lit, procs>>

----------------------------------------------------------------------------
(* The catalog *)

\* The entries a search leaves; the n-th of them is the one with n of them up to it.
CategoriesShown(s) == { i \in DOMAIN Categories : Categories[i] \in CategoryHits[s] }

\* selected_category, action_in_current_category, action_visible.
ActionsShown(s) ==
    { i \in DOMAIN Actions :
        /\ opened # 0 /\ Actions[i].category = Categories[opened]
        /\ Actions[i].category \in NameHits[s] \/ i \in ActionHits[s] }

IsNth(shown, n, i) == i \in shown /\ Cardinality({ j \in shown : j <= i }) = n
Nth(shown, n) == IF \E i \in shown : IsNth(shown, n, i) THEN CHOOSE i \in shown : IsNth(shown, n, i) ELSE 0

Params(step) == Actions[step.action].params
ParamOf(step, n) == Params(step)[n]

\* atoi: int is the low bits of what strtol says.
Atoi(n) == ((n + IntRange) % (2 * IntRange)) - IntRange

\* clamp_step_params: numbers over the limit become the limit, if it is known.
Clamped(step, limit) ==
    [step EXCEPT !.values =
        [n \in DOMAIN @ |-> IF ParamOf(step, n).type = "mem" /\ limit > 0 /\ Atoi(@[n]) > limit
                            THEN limit ELSE @[n]]]

MakeStep(a) == [action |-> a, values |-> [n \in DOMAIN Actions[a].params |-> Actions[a].params[n].default]]

----------------------------------------------------------------------------
(* Children *)

Running(child) == child.state = "running"
FreePids == Pids \ { child.pid : child \in { c \in Range(procs) : c.state # "reaped" } }

\* Mutant: without a look at the room.
CarelessAddJob(job) == jobs' = Append(jobs, job)

\* add_job: nothing when the table is full.
AddJob(job) == jobs' = IF Len(jobs) = MaxJobs THEN jobs ELSE Append(jobs, job)

\* child tells jobs of one process id apart.
DryJob == [pid |-> 0, child |-> 0, state |-> "dry", code |-> 0]
RealJob(pid) == [pid |-> pid, child |-> Len(procs) + 1, state |-> "running", code |-> 0]

\* The process that waitpid finds under a process id, if it is a child not yet waited for.
ChildWith(pid) == { n \in DOMAIN procs : procs[n].pid = pid /\ procs[n].state # "reaped" }

\* Mutant: the loop ends at the first that still runs.
ImpatientPolled ==
    { i \in DOMAIN jobs : jobs[i].state = "running" /\ \A k \in 1..(i - 1) : jobs[k].state # "running" }

Polled == { i \in DOMAIN jobs : jobs[i].state = "running" /\ jobs[i].pid # 0 }

\* refresh_jobs: what waitpid says of each; no child by that number is a failure.
Refreshed(i) ==
    LET job == jobs[i]
        found == ChildWith(job.pid)
        child == CHOOSE n \in found : TRUE
    IN  IF i \notin Polled \/ (found # {} /\ Running(procs[child])) THEN job
        ELSE IF found = {} THEN [job EXCEPT !.state = "failed"]
        ELSE [job EXCEPT !.state = IF procs[child].code = 0 THEN "exited" ELSE "failed",
                         !.code = procs[child].code]

RefreshJobs ==
    /\ jobs' = [i \in DOMAIN jobs |-> Refreshed(i)]
    /\ procs' = [n \in DOMAIN procs |->
                    IF procs[n].state = "zombie" /\ \E i \in Polled : n \in ChildWith(jobs[i].pid)
                    THEN [procs[n] EXCEPT !.state = "reaped"] ELSE procs[n]]

----------------------------------------------------------------------------
(* The loop *)

Inside(n, shown) ==
    IF n <= Cardinality(shown) THEN n ELSE IF shown = {} THEN 1 ELSE Cardinality(shown)

\* draw_actions: the selection of the list that is drawn is brought inside it.
Draw(big) ==
    IF ~big THEN lit' = 0 /\ UNCHANGED <<category, action>>
    ELSE IF opened = 0
    THEN /\ category' = Inside(category, CategoriesShown(search))
         /\ lit' = Nth(CategoriesShown(search), category')
         /\ UNCHANGED action
    ELSE /\ action' = Inside(action, ActionsShown(search))
         /\ lit' = Nth(ActionsShown(search), action')
         /\ UNCHANGED category

\* Memory and terminal may have changed since.
Iterate ==
    /\ at = "top" /\ at' = "key"
    /\ mem' \in Memories
    /\ RefreshJobs
    /\ \E big \in BOOLEAN : Draw(big)
    /\ UNCHANGED <<view, focus, opened, search, param, draft, dryRun>>

\* A key is handled and the loop goes on.
Goes(where) == at = "key" /\ at' = where /\ lit' = 0 /\ UNCHANGED mem
Handle == Goes("top")
OnlyScreen == UNCHANGED <<jobs, procs>>

\* getch has nothing, or a key that does nothing.
NoKey == Handle /\ OnlyScreen /\ UNCHANGED app

KeyQuit == Goes("gone") /\ OnlyScreen /\ UNCHANGED app

\* '/': nodelay off; the prompt waits.
KeySearch == Goes("search") /\ OnlyScreen /\ UNCHANGED app

\* edit_search
Search(s) ==
    /\ at = "search" /\ at' = "top"
    /\ search' = s
    /\ IF opened # 0 THEN action' = 1 /\ UNCHANGED category ELSE category' = 1 /\ UNCHANGED action
    /\ UNCHANGED <<view, focus, opened, param, draft, dryRun, mem, jobs, lit, procs>>

\* close_config
CloseConfig ==
    /\ view' = "actions" /\ focus' = 0 /\ draft' = <<>> /\ param' = 1
    /\ UNCHANGED <<opened, search, category, action, dryRun>>

\* close_category: the search stays.
CloseCategory ==
    /\ view' = "categories" /\ opened' = 0 /\ action' = 1 /\ param' = 1
    /\ UNCHANGED <<focus, search, category, draft, dryRun>>

KeyEsc ==
    /\ Handle /\ OnlyScreen
    /\ \/ view = "config" /\ CloseConfig
       \/ view # "config" /\ opened # 0 /\ CloseCategory
       \/ /\ view # "config" /\ opened = 0
          /\ search' = NoSearch
          /\ category' = IF search = NoSearch THEN category ELSE 1
          /\ UNCHANGED <<view, focus, opened, action, param, draft, dryRun>>

\* By one, within first..last; a selection that is outside stays.
Moved(n, step, last) == IF n + step \in 1..last THEN n + step ELSE n

\* Down only looks at the end of the list, up only at its beginning.
KeyMove(step) ==
    /\ Handle /\ OnlyScreen
    /\ LET last(shown) == IF step = 1 THEN Cardinality(shown) ELSE Len(Categories) + Len(Actions) IN
       /\ category' = IF view = "categories" THEN Moved(category, step, last(CategoriesShown(search)))
                      ELSE category
       /\ action' = IF view = "actions" THEN Moved(action, step, last(ActionsShown(search))) ELSE action
       /\ param' = IF view = "config" /\ focus = 1 THEN Moved(param, step, Len(Params(draft))) ELSE param
    /\ UNCHANGED <<view, focus, opened, search, draft, dryRun>>

\* Mutant: the row is looked up without the search.
UnfilteredOpenCategory ==
    /\ opened' = category /\ view' = "actions" /\ action' = 1 /\ param' = 1
    /\ UNCHANGED <<focus, search, category, draft, dryRun>>

\* open_selected_category
OpenCategory ==
    /\ Nth(CategoriesShown(search), category) # 0
    /\ opened' = Nth(CategoriesShown(search), category)
    /\ view' = "actions" /\ action' = 1 /\ param' = 1
    /\ UNCHANGED <<focus, search, category, draft, dryRun>>

\* open_config
OpenConfig ==
    /\ Nth(ActionsShown(search), action) # 0
    /\ draft' = Clamped(MakeStep(Nth(ActionsShown(search), action)), mem)
    /\ param' = 1 /\ view' = "config" /\ focus' = 1
    /\ UNCHANGED <<opened, search, category, action, dryRun>>

\* 'a'; Enter does the same where nothing is edited.  The edited action begins anew.
KeyOpen ==
    /\ Handle /\ OnlyScreen
    /\ \/ view = "categories" /\ OpenCategory
       \/ view # "categories" /\ OpenConfig

\* Enter in the configuration: edit_selected_param's prompt.
KeyEdit ==
    /\ view = "config" /\ focus = 1
    /\ Goes("value") /\ OnlyScreen /\ UNCHANGED app

Typed == IF ParamOf(draft, param).type \in Numeric THEN Numbers ELSE Texts

\* The rest of edit_selected_param; mem is what it was before the prompt.
Answer ==
    /\ at = "value" /\ at' = "top"
    /\ \E value \in Typed : draft' = Clamped([draft EXCEPT !.values[param] = value], mem)
    /\ UNCHANGED <<view, focus, opened, search, category, action, param, dryRun, mem, jobs,
                   lit, procs>>

\* Esc, or nothing, for a number.
Cancel ==
    /\ at = "value" /\ at' = "top"
    /\ UNCHANGED <<app, mem, jobs, lit, procs>>

Position(x, seq) == IF Contains(seq, x) THEN SelectInSeq(seq, LAMBDA y : y = x) ELSE 1

\* cycle_selected_param: a value that is no choice counts as the first.
Cycled(p, value, direction) ==
    IF p.type = "bool" THEN (IF value \in {"true", "1", "yes"} THEN "false" ELSE "true")
    ELSE p.choices[((Position(value, p.choices) - 1 + direction) % Len(p.choices)) + 1]

KeyCycle(direction) ==
    /\ Handle /\ OnlyScreen
    /\ view = "config" /\ ParamOf(draft, param).type \in {"bool", "choice"}
    /\ draft' = [draft EXCEPT !.values[param] = Cycled(ParamOf(draft, param), @, direction)]
    /\ UNCHANGED <<view, focus, opened, search, category, action, param, dryRun>>

KeyDryRun ==
    /\ Handle /\ OnlyScreen
    /\ dryRun' = ~dryRun
    /\ UNCHANGED <<view, focus, opened, search, category, action, param, draft>>

Runs == Len(procs) + Cardinality({ i \in DOMAIN jobs : jobs[i].state = "dry" })

\* param_int of the step's parameter of a type.
Value(step, type) == Atoi(step.values[CHOOSE n \in DOMAIN step.values : ParamOf(step, n).type = type])

\* bounded_positive
BoundedPositive(n, fallback, most) ==
    LET value == IF n <= 0 THEN fallback ELSE n IN IF value > most THEN most ELSE value

\* The MB a memory action comes to, given the time: malloc refuses a size below zero; the leak
\* grows to its maximum, and to one step of its rate if that is not positive.
Allocated(step) ==
    LET kind == Actions[step.action].kind
        size == Value(step, "mem")
        most == 1024 * 1024
    IN  IF kind = "other" THEN 0
        ELSE IF kind = "pressure" THEN (IF size < 0 THEN 0 ELSE size)
        ELSE IF kind = "oom" THEN BoundedPositive(size, 1, most)
        ELSE BoundedPositive(size, BoundedPositive(Value(step, "rate"), 1, 4096), most)

\* Mutant: what was configured is run as it is.
UnclampedStepToRun == draft

StepToRun == Clamped(draft, mem)

\* 'r': clamp_step_params and run_step; fork may fail.
KeyRun ==
    /\ Handle
    /\ view = "config" /\ Runs < MaxRuns
    /\ LET step == StepToRun IN
       /\ draft' = step
       /\ IF dryRun THEN AddJob(DryJob) /\ UNCHANGED procs
          ELSE \/ \E pid \in FreePids :
                     /\ procs' = Append(procs, [pid |-> pid, state |-> "running", code |-> 0])
                     /\ AddJob(RealJob(pid))
               \/ UNCHANGED <<jobs, procs>>
    /\ UNCHANGED <<view, focus, opened, search, category, action, param, dryRun>>

Key ==
    \/ NoKey \/ KeyQuit \/ KeySearch \/ KeyEsc \/ KeyOpen \/ KeyEdit \/ KeyDryRun \/ KeyRun
    \/ \E step \in {-1, 1} : KeyMove(step) \/ KeyCycle(step)
Prompted == Cancel \/ Answer \/ \E s \in Searches : Search(s)

----------------------------------------------------------------------------
(* Outside *)

ChildEnds(n, code) ==
    /\ n \in DOMAIN procs /\ Running(procs[n])
    /\ procs' = [procs EXCEPT ![n].state = "zombie", ![n].code = code]
    /\ UNCHANGED <<app, mem, jobs, at, lit>>

\* app_init
Init ==
    /\ view = "categories" /\ focus = 0 /\ opened = 0 /\ search = NoSearch
    /\ category = 1 /\ action = 1 /\ param = 1 /\ draft = <<>> /\ dryRun = TRUE
    /\ mem \in Memories
    /\ jobs = <<>> /\ procs = <<>> /\ at = "top" /\ lit = 0

Next == Iterate \/ Key \/ Prompted \/ \E n \in 1..MaxRuns, code \in {0, -1} : ChildEnds(n, code)

\* The loop goes on by itself: getch does not wait.  Nobody has to answer a prompt.
Spec == Init /\ [][Next]_vars /\ WF_vars(Iterate) /\ WF_vars(Key)

----------------------------------------------------------------------------
\* Every variable has its type.
TypeOK ==
    /\ view \in {"categories", "actions", "config"} /\ focus \in {0, 1}
    /\ opened \in 0..Len(Categories) /\ search \in Searches
    /\ category \in 1..Len(Categories) /\ action \in 1..Len(Actions) /\ param \in Nat
    /\ at \in {"top", "key", "search", "value", "gone"}
    /\ dryRun \in BOOLEAN /\ mem \in Memories
    /\ Len(jobs) <= MaxJobs
    /\ \A i \in DOMAIN jobs : jobs[i].state \in {"dry", "running", "exited", "failed"}

\* What says where the user is agrees: a draft is there, and edited, exactly in the
\* configuration; outside the list of categories one is open; the draft is of an action of it,
\* and the selected parameter is one of its.  (view, focus, category_open, draft_valid,
\* opened_category_index and param_selected are set apart by six functions.)
Coherent ==
    /\ view = "config" <=> draft # <<>>
    /\ view = "config" <=> focus = 1
    /\ view = "categories" <=> opened = 0
    /\ draft # <<>> => /\ Actions[draft.action].category = Categories[opened]
                       /\ param \in DOMAIN draft.values

\* Whatever has been searched for and wherever, what opens is the row last drawn as selected,
\* of the catalog's categories or of the open category's actions (visible_category_index,
\* visible_action_index).
OpensWhatIsLit ==
    [][/\ opened' # 0 /\ opened = 0 /\ lit # 0 => opened' = lit
       /\ view # "config" /\ view' = "config" /\ lit # 0 => draft'.action = lit]_vars

\* README.md:27: a memory action never comes to more than what was available when its key was
\* waited for, if that could be read, whatever was available when it was configured and whatever
\* was typed (clamp_step_params, param_limit_mb, and what the children do with the number); but
\* for a leak whose maximum is no positive int: it takes one step of its rate, which nothing
\* limits (memory_leak_child).
FallsBack(step) == Actions[step.action].kind = "leak" /\ Value(step, "mem") <= 0
WithinMemory ==
    [][Len(procs') > Len(procs) /\ mem > 0 /\ ~FallsBack(draft') => Allocated(draft') <= mem]_vars

\* The table tells of each job how its own process ended, although process ids are used again
\* and the table may be full (refresh_jobs, add_job).
ResultIsOwn ==
    \A i \in DOMAIN jobs :
        LET job == jobs[i] IN
        job.state \in {"exited", "failed"} =>
            /\ procs[job.child].state = "reaped"
            /\ job.code = procs[job.child].code
            /\ job.state = "exited" <=> job.code = 0

\* Where the user is and what the table tells are always consistent.
StateRight == TypeOK /\ Coherent /\ ResultIsOwn

\* Processes that have ended and have their places in the table are collected, all of them,
\* unless the user leaves a prompt unanswered or quits (refresh_jobs, waitpid).
Due(n) == procs[n].state = "zombie" /\ \E i \in DOMAIN jobs : jobs[i].child = n
Collected ==
    (\E n \in DOMAIN procs : Due(n))
        ~> (at \in {"search", "value", "gone"} \/ ~\E n \in DOMAIN procs : Due(n))
=============================================================================
