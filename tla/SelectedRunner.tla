--------------------------- MODULE SelectedRunner ---------------------------
(***************************************************************************)
(* The runner autotest-assist-tui generates for a selection that contains  *)
(* a reboot test (write_resume_automation): autotest_selected_runner.sh,   *)
(* which prepares the run, and autotest_selected_resume.sh, which it execs *)
(* and which systemd starts again after every boot.  It runs the scripts   *)
(* of RebootCase one after the other and keeps its place on disk.          *)
(*                                                                         *)
(* Power may fail between any two steps.  The two units that a boot can    *)
(* start run concurrently.                                                 *)
(***************************************************************************)
EXTENDS RebootCase

CONSTANTS
    Faults,     \* sets of what may go wrong in a run
    MaxCrashes  \* bound on the power failures

\* "powerloss"  the machine loses power;
\* "childfirst" on the way down a test's script is killed before the runner;
\* "slow"       the part after the reboot takes more than the 600 s the runner waits.
AllFaults == {"powerloss", "childfirst", "slow"}

ASSUME FaultsAssumption == Faults \subseteq SUBSET AllFaults
ASSUME MaxCrashesAssumption == MaxCrashes \in Nat

Torn == N + 1   \* an INDEX_FILE that is empty

VARIABLES
    kinds, stop,    \* kinds and STOP_ON_FAILURE, embedded in the script
    faults,         \* what may go wrong in this run, of AllFaults
    index,          \* INDEX_FILE: tests passed by, or Torn
    fails,          \* FAIL_FILE
    waitSafe,       \* WAIT_SAFE_FILE: a test, or 0
    waitResult,     \* WAIT_RESULT_FILE: a test, or 0
    unit,           \* the runner's unit is enabled
    summary,        \* last line of autotest_selected.result
    pc,             \* where the runner stands
    idx,            \* its idx
    failures,       \* its failures
    crashes         \* power failures so far

configVars == <<kinds, stop, faults>>
diskVars == <<index, fails, waitSafe, waitResult, unit, summary>>
runnerVars == <<configVars, diskVars, pc, idx, failures>>
vars == <<caseVars, runnerVars, crashes>>

RunnerSteps == {"prepare", "install", "resume", "waiting", "tallied", "counted", "check",
                "loop", "mark", "launch", "reboot", "shell", "failed", "passed", "unmark",
                "stopcheck", "advance", "retire", "erase", "off"}

RunnerGoto(from, to) == pc = from /\ pc' = to

\* The test the loop is at.
Current == idx + 1

\* NG in the result of test t, if there is one.
CountNG(t) == IF result[t] = "NG" THEN 1 ELSE 0

Forget(t) == result' = [result EXCEPT ![t] = "none"]
CasesButResult == <<job, verdict, stateDir, caseUnit, scratch, goingDown,
                    began, reboots, outcome>>

----------------------------------------------------------------------------
(* autotest_selected_runner.sh *)

Prepare ==
    /\ RunnerGoto("prepare", "install")
    /\ index' = 0 /\ fails' = 0 /\ waitSafe' = 0 /\ waitResult' = 0 /\ summary' = "none"
    /\ UNCHANGED <<caseVars, configVars, unit, idx, failures>>

Install ==
    /\ RunnerGoto("install", "resume")
    /\ unit' = TRUE
    /\ UNCHANGED <<caseVars, configVars, index, fails, waitSafe, waitResult, summary,
                   idx, failures>>

----------------------------------------------------------------------------
(* autotest_selected_resume.sh: check_waiting_reboot *)

\* Mutant: the wait for the reboot test is left out.
NoWait ==
    /\ RunnerGoto("resume", "check")
    /\ UNCHANGED <<caseVars, configVars, diskVars, idx, failures>>

NothingWaiting ==
    /\ RunnerGoto("resume", "check") /\ waitSafe = 0
    /\ UNCHANGED <<caseVars, configVars, diskVars, idx, failures>>

StartWaiting ==
    /\ RunnerGoto("resume", "waiting") /\ waitSafe # 0
    /\ UNCHANGED <<caseVars, configVars, diskVars, idx, failures>>

\* The state directory is gone: the result is counted and removed.  Without a
\* result, or without the name of its file, the test counts as failed.
WaitEnds ==
    /\ RunnerGoto("waiting", "tallied") /\ waitSafe \notin stateDir
    /\ IF waitResult # 0 /\ result[waitResult] # "none"
       THEN /\ failures' = fails + CountNG(waitResult)
            /\ Forget(waitResult)
       ELSE /\ failures' = fails + 1
            /\ UNCHANGED result
    /\ UNCHANGED <<CasesButResult, configVars, diskVars, idx>>

\* 600 seconds pass, which suffices for a script that runs unless it is slow.
WaitTimesOut ==
    /\ RunnerGoto("waiting", "tallied") /\ waitSafe \in stateDir
    /\ job[waitSafe] \in Running => "slow" \in faults
    /\ failures' = fails + 1
    /\ UNCHANGED <<caseVars, configVars, diskVars, idx>>

SaveTally ==
    /\ RunnerGoto("tallied", "counted")
    /\ fails' = failures
    /\ UNCHANGED <<caseVars, configVars, index, waitSafe, waitResult, unit, summary,
                   idx, failures>>

ClearWait(from, to) ==
    /\ RunnerGoto(from, to)
    /\ waitSafe' = 0 /\ waitResult' = 0
    /\ UNCHANGED <<configVars, index, fails, unit, summary, idx>>

EndWait == ClearWait("counted", "check") /\ UNCHANGED <<caseVars, failures>>

----------------------------------------------------------------------------
(* stop_after_failure_if_needed and the end of the run *)

\* The log line is written before the unit and the state are removed.
Conclude(from, line) ==
    /\ RunnerGoto(from, "retire")
    /\ summary' = line
    /\ UNCHANGED <<caseVars, configVars, index, fails, waitSafe, waitResult, unit, idx>>

MustStop == stop /\ fails > 0

StopOnFailure ==
    /\ MustStop /\ failures' = fails
    /\ \E from \in {"check", "stopcheck"} : Conclude(from, "stopped")

\* Mutant: the failures before the reboot are not checked after it.
UncheckedEnterLoop ==
    /\ RunnerGoto("check", "loop")
    /\ idx' = index /\ failures' = fails
    /\ UNCHANGED <<caseVars, configVars, diskVars>>

\* Mutant: the failures before the reboot are forgotten.
FreshEnterLoop ==
    /\ ~MustStop /\ RunnerGoto("check", "loop")
    /\ idx' = index /\ failures' = 0
    /\ UNCHANGED <<caseVars, configVars, diskVars>>

\* Without a reason to stop the loop starts from the place kept on disk ...
EnterLoop ==
    /\ ~MustStop /\ RunnerGoto("check", "loop")
    /\ idx' = index /\ failures' = fails
    /\ UNCHANGED <<caseVars, configVars, diskVars>>

\* ... or goes on.
KeepGoing ==
    /\ ~MustStop /\ RunnerGoto("stopcheck", "advance")
    /\ failures' = fails
    /\ UNCHANGED <<caseVars, configVars, diskVars, idx>>

\* idx has reached count, or is empty and the comparison fails.
LoopEnds ==
    /\ idx >= N /\ UNCHANGED failures
    /\ Conclude("loop", IF failures = 0 THEN "OK" ELSE "NG")

Retire ==
    /\ RunnerGoto("retire", "erase")
    /\ unit' = FALSE
    /\ UNCHANGED <<caseVars, configVars, index, fails, waitSafe, waitResult, summary,
                   idx, failures>>

\* rm -rf of the state directory; what is missing reads as 0.
Erase ==
    /\ RunnerGoto("erase", "off")
    /\ index' = 0 /\ fails' = 0 /\ waitSafe' = 0 /\ waitResult' = 0
    /\ UNCHANGED <<caseVars, configVars, unit, summary, idx, failures>>

----------------------------------------------------------------------------
(* The loop, at a reboot test *)

\* Mutant: the place is written when the iteration ends, as for an ordinary test.
StayBy ==
    /\ RunnerGoto("loop", "mark") /\ idx < N /\ kinds[Current] = "reboot"
    /\ UNCHANGED <<caseVars, configVars, diskVars, idx, failures>>

\* The place after the test is written before the test starts.
PassBy ==
    /\ RunnerGoto("loop", "mark") /\ idx < N /\ kinds[Current] = "reboot"
    /\ index' = idx + 1
    /\ UNCHANGED <<caseVars, configVars, fails, waitSafe, waitResult, unit, summary,
                   idx, failures>>

MarkSafe ==
    /\ RunnerGoto("mark", "launch")
    /\ waitSafe' = Current
    /\ UNCHANGED <<caseVars, configVars, index, fails, waitResult, unit, summary,
                   idx, failures>>

Launch ==
    /\ RunnerGoto("launch", "reboot")
    /\ waitResult' = Current
    /\ Spawn(Current)
    /\ UNCHANGED <<configVars, index, fails, waitSafe, unit, summary, idx, failures>>

\* The script returned a failure.
RebootFails ==
    /\ RunnerGoto("reboot", "failed")
    /\ job[Current] = "exited" /\ verdict[Current] = "NG"
    /\ Forget(Current)
    /\ failures' = failures + 1
    /\ UNCHANGED <<CasesButResult, configVars, diskVars, idx>>

\* The reboot was issued: the runner exits and leaves the rest to its unit.
RebootPending ==
    /\ RunnerGoto("reboot", "off")
    /\ job[Current] = "exited" /\ verdict[Current] # "NG" /\ result[Current] = "PENDING"
    /\ fails' = failures
    /\ UNCHANGED <<caseVars, configVars, index, waitSafe, waitResult, unit, summary,
                   idx, failures>>

\* The script finished without a reboot.
RebootPasses ==
    /\ ClearWait("reboot", "passed")
    /\ job[Current] = "exited" /\ verdict[Current] # "NG" /\ result[Current] # "PENDING"
    /\ failures' = failures + CountNG(Current)
    /\ Forget(Current)
    /\ UNCHANGED CasesButResult

SaveFailures(from, to) ==
    /\ RunnerGoto(from, to)
    /\ fails' = failures
    /\ UNCHANGED <<caseVars, configVars, index, waitSafe, waitResult, unit, summary,
                   idx, failures>>

SaveAfterFailure == SaveFailures("failed", "unmark")
SaveAfterPass == SaveFailures("passed", "stopcheck")
Unmark == ClearWait("unmark", "stopcheck") /\ UNCHANGED <<caseVars, failures>>

----------------------------------------------------------------------------
(* The loop, at an ordinary test *)

ShellBegins ==
    /\ RunnerGoto("loop", "shell") /\ idx < N /\ kinds[Current] = "shell"
    /\ began' = [began EXCEPT ![Current] = @ + 1]
    /\ UNCHANGED <<job, verdict, stateDir, caseUnit, result, scratch, goingDown,
                   reboots, outcome>>
    /\ UNCHANGED <<configVars, diskVars, idx, failures>>

ShellEnds(v) ==
    /\ RunnerGoto("shell", "stopcheck")
    /\ failures' = IF v = "NG" THEN failures + 1 ELSE failures
    /\ fails' = IF v = "NG" THEN failures + 1 ELSE fails
    /\ outcome' = [outcome EXCEPT ![Current] = v]
    /\ Forget(Current)
    /\ UNCHANGED <<job, verdict, stateDir, caseUnit, scratch, goingDown, began, reboots>>
    /\ UNCHANGED <<configVars, index, waitSafe, waitResult, unit, summary, idx>>

\* The end of an iteration.
Advance ==
    /\ RunnerGoto("advance", "loop")
    /\ idx' = idx + 1 /\ index' = idx + 1
    /\ UNCHANGED <<caseVars, configVars, fails, waitSafe, waitResult, unit, summary, failures>>

RunnerStep ==
    \/ Prepare \/ Install \/ NothingWaiting \/ StartWaiting \/ WaitEnds \/ WaitTimesOut
    \/ SaveTally \/ EndWait \/ StopOnFailure \/ EnterLoop \/ KeepGoing \/ LoopEnds
    \/ Retire \/ Erase \/ PassBy \/ MarkSafe \/ Launch \/ RebootFails \/ RebootPending
    \/ RebootPasses \/ SaveAfterFailure \/ SaveAfterPass \/ Unmark
    \/ ShellBegins \/ \E v \in {"OK", "NG"} : ShellEnds(v)
    \/ Advance

----------------------------------------------------------------------------
(* The machine *)

ScriptStep(t) ==
    /\ CaseStep(t)
    /\ UNCHANGED <<runnerVars, crashes>>

KillScript(t) ==
    /\ "childfirst" \in faults
    /\ Terminated(t)
    /\ UNCHANGED <<runnerVars, crashes>>

KillRunner ==
    /\ goingDown /\ pc # "off" /\ pc' = "off"
    /\ UNCHANGED <<caseVars, configVars, diskVars, idx, failures, crashes>>

\* Mutant: the unit is not wanted by the target the machine boots into.
BootNoRunner ==
    /\ pc' = "off"
    /\ idx' = 0 /\ failures' = 0
    /\ UNCHANGED <<configVars, fails, waitSafe, waitResult, unit, summary>>

\* The boot starts the units that are enabled.
BootRunner ==
    /\ pc' = IF unit THEN "resume" ELSE "off"
    /\ idx' = 0 /\ failures' = 0
    /\ UNCHANGED <<configVars, fails, waitSafe, waitResult, unit, summary>>

Reboot ==
    /\ goingDown
    /\ Boot /\ BootRunner
    /\ UNCHANGED <<index, crashes>>

\* A power failure can leave the file that is being written empty.
PowerLoss ==
    /\ "powerloss" \in faults /\ crashes < MaxCrashes
    /\ pc # "off" \/ \E t \in Tests : job[t] \in Running
    /\ Boot /\ BootRunner
    /\ index' \in IF pc \in {"mark", "advance"} THEN {index, Torn} ELSE {index}
    /\ crashes' = crashes + 1

Init ==
    /\ CaseInit
    /\ kinds \in [Tests -> {"shell", "reboot"}] /\ \E t \in Tests : kinds[t] = "reboot"
    /\ stop \in BOOLEAN /\ faults \in Faults
    /\ index = 0 /\ fails = 0 /\ waitSafe = 0 /\ waitResult = 0
    /\ unit = FALSE /\ summary = "none"
    /\ pc = "prepare" /\ idx = 0 /\ failures = 0
    /\ crashes = 0

Next ==
    \/ RunnerStep /\ UNCHANGED crashes
    \/ \E t \in Tests : ScriptStep(t) \/ KillScript(t)
    \/ KillRunner \/ Reboot \/ PowerLoss

\* Scripts run on and the machine comes back; it need not lose power.
Fairness ==
    /\ WF_vars(RunnerStep /\ UNCHANGED crashes)
    /\ \A t \in Tests : WF_vars(ScriptStep(t))
    /\ WF_vars(Reboot)

Spec == Init /\ [][Next]_vars /\ Fairness

----------------------------------------------------------------------------
(* Properties *)

RunnerTypeOK ==
    /\ kinds \in [Tests -> {"shell", "reboot"}] /\ stop \in BOOLEAN /\ faults \in Faults
    /\ index \in 0..Torn /\ fails \in Nat
    /\ waitSafe \in 0..N /\ waitResult \in 0..N
    /\ unit \in BOOLEAN /\ summary \in {"none", "OK", "NG", "stopped"}
    /\ pc \in RunnerSteps /\ idx \in 0..Torn /\ failures \in Nat
    /\ crashes \in 0..MaxCrashes

\* Type invariant of the runner, its files and the scripts it runs.
TypeOK == CaseTypeOK /\ RunnerTypeOK

\* A test is not made to reboot the machine twice, so a run does not reboot for ever,
\* even if the power fails at any point of it.
RebootAtMostOnce == \A t \in Tests : reboots[t] <= 1

InBody(t) == job[t] \in Running \ {"leave"} \/ (pc = "shell" /\ Current = t)

\* No two bodies, checks included, overlap: SCREEN_UI.md:115.
NoOverlap == \A t, u \in Tests : InBody(t) /\ InBody(u) => t = u

\* The tests run in order, one at a time, even if the power fails.
OneAtATime == faults \subseteq {"powerloss"} => NoOverlap

\* With "Stop on NG" no test begins after one that came to NG, across reboots too.
StopSkipsRest ==
    stop => \A t, u \in Tests : t < u /\ outcome[t] = "NG" => began[u] = 0

Over == summary # "none"

\* A run in which nothing goes wrong ends well: the summary counts every failed test once
\* and no other, and says OK only after every test has run, once, and passed; and no unit
\* and no state is left behind.
EndsRight ==
    faults = {} =>
        /\ pc = "retire" => failures = Cardinality({t \in Tests : outcome[t] = "NG"})
        /\ summary = "OK" => \A t \in Tests : began[t] = 1 /\ outcome[t] = "OK"
        /\ Over /\ pc = "off" => /\ ~unit /\ index = 0 /\ waitSafe = 0
                                 /\ caseUnit = {} /\ stateDir = {}

\* Once its unit is enabled a run comes to its summary, however often the power fails.
RunCompletes == unit ~> Over
============================================================================
