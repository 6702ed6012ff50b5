----------------------------- MODULE RebootCase -----------------------------
(***************************************************************************)
(* The shell script that autotest-assist-tui generates for a test whose    *)
(* body reboots the machine (write_case, CMD_REBOOT), and the machine it   *)
(* runs on.                                                                *)
(*                                                                         *)
(* The body is cut in two at its reboot command.  The script runs the      *)
(* first part, installs a systemd unit that calls it back with --resume,   *)
(* issues the reboot and exits; after the boot the unit runs the second    *)
(* part, validates the checks and writes the result.                       *)
(*                                                                         *)
(* A step ends where another process, or the loss of power, can see the    *)
(* difference.  What the commands of a body do is not modelled, except     *)
(* that they leave a file under /tmp or /var/tmp (scratch) that the body   *)
(* names, and that they pass or fail.                                      *)
(***************************************************************************)
EXTENDS Naturals, FiniteSets

CONSTANT N      \* number of tests

ASSUME NAssumption == N \in Nat \ {0}

Tests == 1..N

VARIABLES
    job,        \* where the script of a test stands
    verdict,    \* status_msg, the script's own verdict
    stateDir,   \* tests that have a /var/tmp/autotest-<id>-state
    caseUnit,   \* tests whose resume unit is enabled
    result,     \* RESULT_FILE of each test
    scratch,    \* tests whose files under /tmp and /var/tmp exist
    goingDown,  \* a reboot has been issued and the machine is on its way down
    began,      \* history: how often the body of a test has begun
    reboots,    \* history: how often a test has issued its reboot
    outcome     \* history: the last verdict a test came to

caseVars == <<job, verdict, stateDir, caseUnit, result, scratch,
              goingDown, began, reboots, outcome>>

Verdicts == {"none", "OK", "NG", "PENDING"}

\* none and exited: no process.  The others name what the script does next.
RunSteps == {"start", "pre", "arm", "issue", "issued"}
ResumeSteps == {"resume", "post", "finish", "report", "sweep"}
Running == RunSteps \cup ResumeSteps \cup {"leave"}
Steps == Running \cup {"none", "exited"}

Goto(t, step) == job' = [job EXCEPT ![t] = step]

----------------------------------------------------------------------------
(* Before the reboot *)

\* mkdir -p of the state directory.
CaseStart(t) ==
    /\ job[t] = "start" /\ Goto(t, "pre")
    /\ stateDir' = stateDir \cup {t}
    /\ began' = [began EXCEPT ![t] = @ + 1]
    /\ UNCHANGED <<verdict, caseUnit, result, scratch, goingDown, reboots, outcome>>

\* pre.sh exits with 0.
PrePasses(t) ==
    /\ job[t] = "pre" /\ Goto(t, "arm")
    /\ scratch' = scratch \cup {t}
    /\ UNCHANGED <<verdict, stateDir, caseUnit, result, goingDown, began, reboots, outcome>>

\* pre.sh exits with something else, which may be what the test expects.
PreEnds(t, v) ==
    /\ job[t] = "pre" /\ Goto(t, "finish")
    /\ scratch' = scratch \cup {t}
    /\ verdict' = [verdict EXCEPT ![t] = v]
    /\ UNCHANGED <<stateDir, caseUnit, result, goingDown, began, reboots, outcome>>

\* The unit file is written and enabled.
Arm(t) ==
    /\ job[t] = "arm" /\ Goto(t, "issue")
    /\ caseUnit' = caseUnit \cup {t}
    /\ UNCHANGED <<verdict, stateDir, result, scratch, goingDown, began, reboots, outcome>>

\* reboot.sh exits with 0; the machine goes down when it gets to it.
RebootIssued(t) ==
    /\ job[t] = "issue" /\ Goto(t, "issued")
    /\ goingDown' = TRUE
    /\ reboots' = [reboots EXCEPT ![t] = @ + 1]
    /\ UNCHANGED <<verdict, stateDir, caseUnit, result, scratch, began, outcome>>

\* reboot.sh exits with 125: the condition of @reboot-if is false.
RebootNotNeeded(t) ==
    /\ job[t] = "issue" /\ Goto(t, "post")
    /\ UNCHANGED <<verdict, stateDir, caseUnit, result, scratch, goingDown,
                   began, reboots, outcome>>

\* reboot.sh fails.
RebootRefused(t, v) ==
    /\ job[t] = "issue" /\ Goto(t, "finish")
    /\ verdict' = [verdict EXCEPT ![t] = v]
    /\ UNCHANGED <<stateDir, caseUnit, result, scratch, goingDown, began, reboots, outcome>>

\* The [PENDING] result is written; exit 0.
WritePending(t) ==
    /\ job[t] = "issued" /\ Goto(t, "leave")
    /\ verdict' = [verdict EXCEPT ![t] = "PENDING"]
    /\ result' = [result EXCEPT ![t] = "PENDING"]
    /\ UNCHANGED <<stateDir, caseUnit, scratch, goingDown, began, reboots, outcome>>

----------------------------------------------------------------------------
(* After the reboot, or without one: post.sh and finish_reboot_case *)

\* The script is called with --resume.
CaseResume(t) ==
    /\ job[t] = "resume" /\ Goto(t, "post")
    /\ stateDir' = stateDir \cup {t}
    /\ UNCHANGED <<verdict, caseUnit, result, scratch, goingDown, began, reboots, outcome>>

\* post.sh ends and the checks are validated.
PostEnds(t, v) ==
    /\ job[t] = "post" /\ Goto(t, "finish")
    /\ verdict' = [verdict EXCEPT ![t] = v]
    /\ UNCHANGED <<stateDir, caseUnit, result, scratch, goingDown, began, reboots, outcome>>

\* Mutant: only a test that passed removes its unit.
DisarmIfPassed(t) ==
    /\ job[t] = "finish" /\ Goto(t, "report")
    /\ caseUnit' = IF verdict[t] = "OK" THEN caseUnit \ {t} ELSE caseUnit
    /\ scratch' = scratch \ {t}
    /\ UNCHANGED <<verdict, stateDir, result, goingDown, began, reboots, outcome>>

\* The unit is disabled and removed, then the cleanup of the test runs.
Disarm(t) ==
    /\ job[t] = "finish" /\ Goto(t, "report")
    /\ caseUnit' = caseUnit \ {t}
    /\ scratch' = scratch \ {t}
    /\ UNCHANGED <<verdict, stateDir, result, goingDown, began, reboots, outcome>>

Report(t) ==
    /\ job[t] = "report" /\ Goto(t, "sweep")
    /\ result' = [result EXCEPT ![t] = verdict[t]]
    /\ outcome' = [outcome EXCEPT ![t] = verdict[t]]
    /\ UNCHANGED <<verdict, stateDir, caseUnit, scratch, goingDown, began, reboots>>

\* rm -rf of the state directory.
Sweep(t) ==
    /\ job[t] = "sweep" /\ Goto(t, "leave")
    /\ stateDir' = stateDir \ {t}
    /\ UNCHANGED <<verdict, caseUnit, result, scratch, goingDown, began, reboots, outcome>>

\* The script exits, and its EXIT trap runs the cleanup of the test.
Leave(t) ==
    /\ job[t] = "leave" /\ Goto(t, "exited")
    /\ scratch' = scratch \ {t}
    /\ UNCHANGED <<verdict, stateDir, caseUnit, result, goingDown, began, reboots, outcome>>

\* SIGTERM on the way down; bash runs the EXIT trap and the exit status is 143.
Terminated(t) ==
    /\ goingDown /\ job[t] \in Running /\ Goto(t, "exited")
    /\ verdict' = [verdict EXCEPT ![t] = "NG"]
    /\ scratch' = scratch \ {t}
    /\ UNCHANGED <<stateDir, caseUnit, result, goingDown, began, reboots, outcome>>

CaseStep(t) ==
    \/ CaseStart(t) \/ PrePasses(t) \/ Arm(t)
    \/ RebootIssued(t) \/ RebootNotNeeded(t) \/ WritePending(t)
    \/ CaseResume(t) \/ Disarm(t) \/ Report(t) \/ Sweep(t) \/ Leave(t)
    \/ \E v \in {"OK", "NG"} : PreEnds(t, v) \/ RebootRefused(t, v) \/ PostEnds(t, v)

----------------------------------------------------------------------------
\* The runner of the selected tests, or a user, starts the script.
Spawn(t) ==
    /\ Goto(t, "start")
    /\ verdict' = [verdict EXCEPT ![t] = "none"]
    /\ UNCHANGED <<stateDir, caseUnit, result, scratch, goingDown, began, reboots, outcome>>

\* All processes are gone, and systemd starts the enabled units.
Boot ==
    /\ job' = [t \in Tests |-> IF t \in caseUnit THEN "resume" ELSE "none"]
    /\ verdict' = [t \in Tests |-> "none"]
    /\ goingDown' = FALSE
    /\ UNCHANGED <<stateDir, caseUnit, result, scratch, began, reboots, outcome>>

\* A test run by hand may have left its result file.
CaseInit ==
    /\ job = [t \in Tests |-> "none"]
    /\ verdict = [t \in Tests |-> "none"]
    /\ stateDir = {} /\ caseUnit = {} /\ scratch = {}
    /\ result \in [Tests -> {"none", "OK", "NG"}]
    /\ goingDown = FALSE
    /\ began = [t \in Tests |-> 0]
    /\ reboots = [t \in Tests |-> 0]
    /\ outcome = [t \in Tests |-> "none"]

CaseTypeOK ==
    /\ job \in [Tests -> Steps]
    /\ verdict \in [Tests -> Verdicts]
    /\ stateDir \subseteq Tests /\ caseUnit \subseteq Tests /\ scratch \subseteq Tests
    /\ result \in [Tests -> Verdicts]
    /\ goingDown \in BOOLEAN
    /\ began \in [Tests -> Nat]
    /\ reboots \in [Tests -> Nat]
    /\ outcome \in [Tests -> {"none", "OK", "NG"}]
============================================================================
