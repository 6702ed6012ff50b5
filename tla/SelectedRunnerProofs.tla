------------------------- MODULE SelectedRunnerProofs -------------------------
(***************************************************************************)
(* Proofs about the runner of selected tests for any number of tests and   *)
(* however often the power fails: a run reboots the machine at most once   *)
(* for each of its tests, it runs its tests one at a time, "Stop on NG"    *)
(* skips what follows a failure, and a run in which nothing goes wrong     *)
(* comes to a true summary.                                                *)
(***************************************************************************)
EXTENDS SelectedRunner, FiniteSetTheorems, TLAPS

\* The run is over, or was never installed: no boot starts the runner again.
Dead == ~unit /\ pc \in {"erase", "off"}

\* A script that may still issue its reboot.
MayReboot == {"start", "pre", "arm", "issue"}

InIteration == {"mark", "launch", "reboot", "shell", "failed", "passed", "unmark",
                "stopcheck", "advance"}

\* The strengthening.  Every test that has rebooted, or still may, lies before the
\* place kept on disk (Passed); the runner only starts tests at or after it (Place).
Place ==
    /\ unit \/ pc \in {"prepare", "install", "erase", "off"}
    /\ pc = "erase" => ~unit
    /\ pc \in {"prepare", "install"} =>
          \A t \in Tests : reboots[t] = 0 /\ job[t] = "none"
    /\ pc = "loop" => index = idx
    /\ pc \in InIteration => idx < N /\ index <= idx + 1
    /\ pc \in {"mark", "launch"} =>
          index = idx + 1 /\ reboots[idx + 1] = 0 /\ job[idx + 1] \notin MayReboot

Passed ==
    \A t \in Tests :
        /\ reboots[t] <= 1
        /\ job[t] \in MayReboot => reboots[t] = 0
        /\ (reboots[t] > 0 \/ job[t] \in MayReboot) => Dead \/ t <= index

\* A verdict is reached before it is reported.
Judged == \A t \in Tests : job[t] \in {"finish", "report"} => verdict[t] \in {"OK", "NG"}

RunInv == TypeOK /\ Judged /\ Place /\ Passed

----------------------------------------------------------------------------
(* Initially *)

LEMMA RunInvInit == Init => RunInv
<1> SUFFICES ASSUME Init PROVE RunInv
  OBVIOUS
<1> USE DEF Init, CaseInit
<1>1. CaseTypeOK
  BY DEF CaseTypeOK, Verdicts, Steps
<1>5. RunnerTypeOK
  <2>1. 0 \in 0..Torn /\ 0 \in 0..N /\ 0 \in 0..MaxCrashes
    BY NAssumption, MaxCrashesAssumption DEF Torn
  <2> QED
    BY <2>1 DEF RunnerTypeOK, RunnerSteps
<1>2. Judged
  BY DEF Judged
<1>3. Place
  BY DEF Place, InIteration
<1>4. Passed
  BY DEF Passed, MayReboot
<1> QED
  BY <1>1, <1>5, <1>2, <1>3, <1>4 DEF RunInv, TypeOK

----------------------------------------------------------------------------
(* What a step keeps when it leaves the right variables alone *)

LEMMA CaseTypesKept == CaseTypeOK /\ UNCHANGED caseVars => CaseTypeOK'
  BY DEF CaseTypeOK, caseVars

LEMMA JudgedKept == Judged /\ UNCHANGED <<job, verdict>> => Judged'
  BY DEF Judged

LEMMA PassedKept ==
  Passed /\ UNCHANGED <<job, reboots, index>> /\ (Dead => Dead') => Passed'
  BY DEF Passed

\* The place is only disturbed by steps that move the runner or what it compares.
LEMMA PlaceKept ==
  Place /\ UNCHANGED <<unit, pc, index, idx, reboots, job>> => Place'
  BY DEF Place

----------------------------------------------------------------------------
(* The steps of the runner *)

LEMMA RunnerKeeps == RunInv /\ RunnerStep /\ UNCHANGED crashes => RunInv'
<1> SUFFICES ASSUME RunInv, RunnerStep, UNCHANGED crashes PROVE RunInv'
  OBVIOUS
<1> USE NAssumption DEF RunInv, RunnerGoto, configVars, diskVars, Tests, Torn
<1>1. CASE Prepare
  <2>1. CaseTypeOK'
    BY <1>1, CaseTypesKept DEF TypeOK, Prepare, caseVars
  <2>2. RunnerTypeOK'
    BY <1>1 DEF TypeOK, RunnerTypeOK, Prepare, RunnerSteps
  <2>3. Judged'
    BY <1>1, JudgedKept DEF Prepare, caseVars
  <2>4. Place'
    BY <1>1 DEF TypeOK, RunnerTypeOK, Place, InIteration, Prepare, caseVars
  <2>5. Passed'
    BY <1>1 DEF Prepare, Place, Passed, MayReboot, caseVars
  <2> QED
    BY <2>1, <2>2, <2>3, <2>4, <2>5 DEF TypeOK
<1>2. CASE Install
  <2>1. CaseTypeOK'
    BY <1>2, CaseTypesKept DEF TypeOK, Install, caseVars
  <2>2. RunnerTypeOK'
    BY <1>2 DEF TypeOK, RunnerTypeOK, Install, RunnerSteps
  <2>3. Judged'
    BY <1>2, JudgedKept DEF Install, caseVars
  <2>4. Place'
    BY <1>2 DEF TypeOK, RunnerTypeOK, Place, InIteration, Install, caseVars
  <2>5. Passed'
    BY <1>2, PassedKept DEF Dead, Install, caseVars
  <2> QED
    BY <2>1, <2>2, <2>3, <2>4, <2>5 DEF TypeOK
<1>3. CASE NothingWaiting
  <2>1. CaseTypeOK'
    BY <1>3, CaseTypesKept DEF TypeOK, NothingWaiting, caseVars
  <2>2. RunnerTypeOK'
    BY <1>3 DEF TypeOK, RunnerTypeOK, NothingWaiting, RunnerSteps
  <2>3. Judged'
    BY <1>3, JudgedKept DEF NothingWaiting, caseVars
  <2>4. Place'
    BY <1>3 DEF TypeOK, RunnerTypeOK, Place, InIteration, NothingWaiting, caseVars
  <2>5. Passed'
    BY <1>3, PassedKept DEF Dead, NothingWaiting, caseVars
  <2> QED
    BY <2>1, <2>2, <2>3, <2>4, <2>5 DEF TypeOK
<1>4. CASE StartWaiting
  <2>1. CaseTypeOK'
    BY <1>4, CaseTypesKept DEF TypeOK, StartWaiting, caseVars
  <2>2. RunnerTypeOK'
    BY <1>4 DEF TypeOK, RunnerTypeOK, StartWaiting, RunnerSteps
  <2>3. Judged'
    BY <1>4, JudgedKept DEF StartWaiting, caseVars
  <2>4. Place'
    BY <1>4 DEF TypeOK, RunnerTypeOK, Place, InIteration, StartWaiting, caseVars
  <2>5. Passed'
    BY <1>4, PassedKept DEF Dead, StartWaiting, caseVars
  <2> QED
    BY <2>1, <2>2, <2>3, <2>4, <2>5 DEF TypeOK
<1>5. CASE WaitEnds
  <2>1. CaseTypeOK'
    <3>1. result' \in [Tests -> Verdicts]
      BY <1>5 DEF WaitEnds, Forget, TypeOK, CaseTypeOK, Verdicts
    <3> QED
      BY <1>5, <3>1 DEF WaitEnds, TypeOK, CaseTypeOK, CasesButResult
  <2>2. RunnerTypeOK'
    BY <1>5 DEF TypeOK, RunnerTypeOK, WaitEnds, Forget, CountNG, CasesButResult, RunnerSteps
  <2>3. Judged'
    BY <1>5, JudgedKept DEF WaitEnds, Forget, CountNG, CasesButResult, caseVars
  <2>4. Place'
    BY <1>5
    DEF TypeOK, RunnerTypeOK, Place, InIteration, WaitEnds, Forget, CountNG, CasesButResult,
        caseVars
  <2>5. Passed'
    BY <1>5, PassedKept DEF Dead, WaitEnds, Forget, CountNG, CasesButResult, caseVars
  <2> QED
    BY <2>1, <2>2, <2>3, <2>4, <2>5 DEF TypeOK
<1>6. CASE WaitTimesOut
  <2>1. CaseTypeOK'
    BY <1>6, CaseTypesKept DEF TypeOK, WaitTimesOut, caseVars
  <2>2. RunnerTypeOK'
    BY <1>6 DEF TypeOK, RunnerTypeOK, WaitTimesOut, RunnerSteps
  <2>3. Judged'
    BY <1>6, JudgedKept DEF WaitTimesOut, caseVars
  <2>4. Place'
    BY <1>6 DEF TypeOK, RunnerTypeOK, Place, InIteration, WaitTimesOut, caseVars
  <2>5. Passed'
    BY <1>6, PassedKept DEF Dead, WaitTimesOut, caseVars
  <2> QED
    BY <2>1, <2>2, <2>3, <2>4, <2>5 DEF TypeOK
<1>7. CASE SaveTally
  <2>1. CaseTypeOK'
    BY <1>7, CaseTypesKept DEF TypeOK, SaveTally, caseVars
  <2>2. RunnerTypeOK'
    BY <1>7 DEF TypeOK, RunnerTypeOK, SaveTally, RunnerSteps
  <2>3. Judged'
    BY <1>7, JudgedKept DEF SaveTally, caseVars
  <2>4. Place'
    BY <1>7 DEF TypeOK, RunnerTypeOK, Place, InIteration, SaveTally, caseVars
  <2>5. Passed'
    BY <1>7, PassedKept DEF Dead, SaveTally, caseVars
  <2> QED
    BY <2>1, <2>2, <2>3, <2>4, <2>5 DEF TypeOK
<1>8. CASE EndWait
  <2>1. CaseTypeOK'
    BY <1>8, CaseTypesKept DEF TypeOK, EndWait, ClearWait, caseVars
  <2>2. RunnerTypeOK'
    BY <1>8 DEF TypeOK, RunnerTypeOK, EndWait, ClearWait, RunnerSteps
  <2>3. Judged'
    BY <1>8, JudgedKept DEF EndWait, ClearWait, caseVars
  <2>4. Place'
    BY <1>8 DEF TypeOK, RunnerTypeOK, Place, InIteration, EndWait, ClearWait, caseVars
  <2>5. Passed'
    BY <1>8, PassedKept DEF Dead, EndWait, ClearWait, caseVars
  <2> QED
    BY <2>1, <2>2, <2>3, <2>4, <2>5 DEF TypeOK
<1>9. CASE StopOnFailure
  <2>1. CaseTypeOK'
    BY <1>9, CaseTypesKept DEF TypeOK, StopOnFailure, Conclude, caseVars
  <2>2. RunnerTypeOK'
    BY <1>9 DEF TypeOK, RunnerTypeOK, StopOnFailure, Conclude, RunnerSteps
  <2>3. Judged'
    BY <1>9, JudgedKept DEF StopOnFailure, Conclude, caseVars
  <2>4. Place'
    BY <1>9 DEF TypeOK, RunnerTypeOK, Place, InIteration, StopOnFailure, Conclude, caseVars
  <2>5. Passed'
    BY <1>9, PassedKept DEF Dead, StopOnFailure, Conclude, caseVars
  <2> QED
    BY <2>1, <2>2, <2>3, <2>4, <2>5 DEF TypeOK
<1>10. CASE EnterLoop
  <2>1. CaseTypeOK'
    BY <1>10, CaseTypesKept DEF TypeOK, EnterLoop, caseVars
  <2>2. RunnerTypeOK'
    BY <1>10 DEF TypeOK, RunnerTypeOK, EnterLoop, RunnerSteps
  <2>3. Judged'
    BY <1>10, JudgedKept DEF EnterLoop, caseVars
  <2>4. Place'
    BY <1>10 DEF TypeOK, RunnerTypeOK, Place, InIteration, EnterLoop, caseVars
  <2>5. Passed'
    BY <1>10, PassedKept DEF Dead, EnterLoop, caseVars
  <2> QED
    BY <2>1, <2>2, <2>3, <2>4, <2>5 DEF TypeOK
<1>11. CASE KeepGoing
  <2>1. CaseTypeOK'
    BY <1>11, CaseTypesKept DEF TypeOK, KeepGoing, caseVars
  <2>2. RunnerTypeOK'
    BY <1>11 DEF TypeOK, RunnerTypeOK, KeepGoing, RunnerSteps
  <2>3. Judged'
    BY <1>11, JudgedKept DEF KeepGoing, caseVars
  <2>4. Place'
    BY <1>11 DEF TypeOK, RunnerTypeOK, Place, InIteration, KeepGoing, caseVars
  <2>5. Passed'
    BY <1>11, PassedKept DEF Dead, KeepGoing, caseVars
  <2> QED
    BY <2>1, <2>2, <2>3, <2>4, <2>5 DEF TypeOK
<1>12. CASE LoopEnds
  <2>1. CaseTypeOK'
    BY <1>12, CaseTypesKept DEF TypeOK, LoopEnds, Conclude, caseVars
  <2>2. RunnerTypeOK'
    BY <1>12 DEF TypeOK, RunnerTypeOK, LoopEnds, Conclude, RunnerSteps
  <2>3. Judged'
    BY <1>12, JudgedKept DEF LoopEnds, Conclude, caseVars
  <2>4. Place'
    BY <1>12 DEF TypeOK, RunnerTypeOK, Place, InIteration, LoopEnds, Conclude, caseVars
  <2>5. Passed'
    BY <1>12, PassedKept DEF Dead, LoopEnds, Conclude, caseVars
  <2> QED
    BY <2>1, <2>2, <2>3, <2>4, <2>5 DEF TypeOK
<1>13. CASE Retire
  <2>1. CaseTypeOK'
    BY <1>13, CaseTypesKept DEF TypeOK, Retire, caseVars
  <2>2. RunnerTypeOK'
    BY <1>13 DEF TypeOK, RunnerTypeOK, Retire, RunnerSteps
  <2>3. Judged'
    BY <1>13, JudgedKept DEF Retire, caseVars
  <2>4. Place'
    BY <1>13 DEF TypeOK, RunnerTypeOK, Place, InIteration, Retire, caseVars
  <2>5. Passed'
    BY <1>13, PassedKept DEF Dead, Retire, caseVars
  <2> QED
    BY <2>1, <2>2, <2>3, <2>4, <2>5 DEF TypeOK
<1>14. CASE Erase
  <2>1. CaseTypeOK'
    BY <1>14, CaseTypesKept DEF TypeOK, Erase, caseVars
  <2>2. RunnerTypeOK'
    BY <1>14 DEF TypeOK, RunnerTypeOK, Erase, RunnerSteps
  <2>3. Judged'
    BY <1>14, JudgedKept DEF Erase, caseVars
  <2>4. Place'
    BY <1>14 DEF TypeOK, RunnerTypeOK, Place, InIteration, Erase, caseVars
  <2>5. Passed'
    <3>1. ~unit
      BY <1>14 DEF Erase, Place, InIteration
    <3> QED
      BY <1>14, <3>1 DEF Erase, Dead, Passed, caseVars
  <2> QED
    BY <2>1, <2>2, <2>3, <2>4, <2>5 DEF TypeOK
<1>15. CASE PassBy
  <2>1. CaseTypeOK'
    BY <1>15, CaseTypesKept DEF TypeOK, PassBy, caseVars
  <2>2. RunnerTypeOK'
    BY <1>15 DEF TypeOK, RunnerTypeOK, PassBy, RunnerSteps, Place, InIteration
  <2>3. Judged'
    BY <1>15, JudgedKept DEF PassBy, caseVars
  <2>4. Place'
    <3>1. idx + 1 \in Tests /\ idx = index /\ ~Dead
      BY <1>15 DEF PassBy, TypeOK, RunnerTypeOK, Place, Dead
    <3>2. reboots[idx + 1] = 0 /\ job[idx + 1] \notin MayReboot
      BY <3>1 DEF Passed, TypeOK, CaseTypeOK, RunnerTypeOK
    <3> QED
      BY <1>15, <3>1, <3>2 DEF PassBy, TypeOK, RunnerTypeOK, Place, InIteration, caseVars
  <2>5. Passed'
    <3>1. index' = index + 1 /\ index \in Nat /\ ~Dead
      BY <1>15 DEF PassBy, TypeOK, RunnerTypeOK, Place, Dead
    <3> QED
      BY <1>15, <3>1 DEF PassBy, Passed, caseVars
  <2> QED
    BY <2>1, <2>2, <2>3, <2>4, <2>5 DEF TypeOK
<1>16. CASE MarkSafe
  <2>1. CaseTypeOK'
    BY <1>16, CaseTypesKept DEF TypeOK, MarkSafe, Current, caseVars
  <2>2. RunnerTypeOK'
    BY <1>16 DEF TypeOK, RunnerTypeOK, MarkSafe, Current, RunnerSteps, Place, InIteration
  <2>3. Judged'
    BY <1>16, JudgedKept DEF MarkSafe, Current, caseVars
  <2>4. Place'
    BY <1>16 DEF TypeOK, RunnerTypeOK, Place, InIteration, MarkSafe, Current, caseVars
  <2>5. Passed'
    BY <1>16, PassedKept DEF Dead, MarkSafe, Current, caseVars
  <2> QED
    BY <2>1, <2>2, <2>3, <2>4, <2>5 DEF TypeOK
<1>17. CASE Launch
  <2>1. CaseTypeOK'
    BY <1>17, CaseTypesKept
    DEF TypeOK, CaseTypeOK, Verdicts, Steps, Running, RunSteps, Launch, Spawn, Goto, Current,
        caseVars
  <2>2. RunnerTypeOK'
    BY <1>17
    DEF TypeOK, RunnerTypeOK, Launch, Spawn, Goto, Current, RunnerSteps, Place, InIteration
  <2>3. Judged'
    BY <1>17 DEF Launch, Spawn, Goto, Current, Judged, TypeOK, CaseTypeOK
  <2>4. Place'
    BY <1>17
    DEF TypeOK, RunnerTypeOK, Place, InIteration, Launch, Spawn, Goto, Current, caseVars
  <2>5. Passed'
    <3>1. idx + 1 \in Tests /\ index = idx + 1 /\ reboots[idx + 1] = 0 /\ ~Dead
      BY <1>17 DEF Launch, TypeOK, RunnerTypeOK, Place, InIteration, Dead
    <3>2. job' = [job EXCEPT ![idx + 1] = "start"] /\ UNCHANGED <<reboots, index>>
      BY <1>17 DEF Launch, Spawn, Goto, Current
    <3> QED
      BY <3>1, <3>2 DEF Passed, TypeOK, CaseTypeOK, RunnerTypeOK
  <2> QED
    BY <2>1, <2>2, <2>3, <2>4, <2>5 DEF TypeOK
<1>18. CASE RebootFails
  <2>1. CaseTypeOK'
    BY <1>18, CaseTypesKept
    DEF TypeOK, CaseTypeOK, Verdicts, Steps, Running, RunSteps, RebootFails, Forget,
        CasesButResult, caseVars
  <2>2. RunnerTypeOK'
    BY <1>18 DEF TypeOK, RunnerTypeOK, RebootFails, Forget, CasesButResult, RunnerSteps
  <2>3. Judged'
    BY <1>18, JudgedKept DEF RebootFails, Forget, CasesButResult, caseVars
  <2>4. Place'
    BY <1>18
    DEF TypeOK, RunnerTypeOK, Place, InIteration, RebootFails, Forget, CasesButResult, caseVars
  <2>5. Passed'
    BY <1>18, PassedKept DEF Dead, RebootFails, Forget, CasesButResult, caseVars
  <2> QED
    BY <2>1, <2>2, <2>3, <2>4, <2>5 DEF TypeOK
<1>19. CASE RebootPending
  <2>1. CaseTypeOK'
    BY <1>19, CaseTypesKept DEF TypeOK, RebootPending, caseVars
  <2>2. RunnerTypeOK'
    BY <1>19 DEF TypeOK, RunnerTypeOK, RebootPending, RunnerSteps
  <2>3. Judged'
    BY <1>19, JudgedKept DEF RebootPending, caseVars
  <2>4. Place'
    BY <1>19 DEF TypeOK, RunnerTypeOK, Place, InIteration, RebootPending, caseVars
  <2>5. Passed'
    BY <1>19, PassedKept DEF Dead, RebootPending, caseVars
  <2> QED
    BY <2>1, <2>2, <2>3, <2>4, <2>5 DEF TypeOK
<1>20. CASE RebootPasses
  <2>1. CaseTypeOK'
    BY <1>20, CaseTypesKept
    DEF TypeOK, CaseTypeOK, Verdicts, Steps, Running, RunSteps, RebootPasses, ClearWait,
        Forget, CountNG, CasesButResult, caseVars
  <2>2. RunnerTypeOK'
    BY <1>20
    DEF TypeOK, RunnerTypeOK, RebootPasses, ClearWait, Forget, CountNG, CasesButResult,
        RunnerSteps
  <2>3. Judged'
    BY <1>20, JudgedKept DEF RebootPasses, ClearWait, Forget, CountNG, CasesButResult, caseVars
  <2>4. Place'
    BY <1>20
    DEF TypeOK, RunnerTypeOK, Place, InIteration, RebootPasses, ClearWait, Forget, CountNG,
        CasesButResult, caseVars
  <2>5. Passed'
    BY <1>20, PassedKept
    DEF Dead, RebootPasses, ClearWait, Forget, CountNG, CasesButResult, caseVars
  <2> QED
    BY <2>1, <2>2, <2>3, <2>4, <2>5 DEF TypeOK
<1>21. CASE SaveAfterFailure
  <2>1. CaseTypeOK'
    BY <1>21, CaseTypesKept DEF TypeOK, SaveAfterFailure, SaveFailures, caseVars
  <2>2. RunnerTypeOK'
    BY <1>21 DEF TypeOK, RunnerTypeOK, SaveAfterFailure, SaveFailures, RunnerSteps
  <2>3. Judged'
    BY <1>21, JudgedKept DEF SaveAfterFailure, SaveFailures, caseVars
  <2>4. Place'
    BY <1>21
    DEF TypeOK, RunnerTypeOK, Place, InIteration, SaveAfterFailure, SaveFailures, caseVars
  <2>5. Passed'
    BY <1>21, PassedKept DEF Dead, SaveAfterFailure, SaveFailures, caseVars
  <2> QED
    BY <2>1, <2>2, <2>3, <2>4, <2>5 DEF TypeOK
<1>22. CASE SaveAfterPass
  <2>1. CaseTypeOK'
    BY <1>22, CaseTypesKept DEF TypeOK, SaveAfterPass, SaveFailures, caseVars
  <2>2. RunnerTypeOK'
    BY <1>22 DEF TypeOK, RunnerTypeOK, SaveAfterPass, SaveFailures, RunnerSteps
  <2>3. Judged'
    BY <1>22, JudgedKept DEF SaveAfterPass, SaveFailures, caseVars
  <2>4. Place'
    BY <1>22 DEF TypeOK, RunnerTypeOK, Place, InIteration, SaveAfterPass, SaveFailures, caseVars
  <2>5. Passed'
    BY <1>22, PassedKept DEF Dead, SaveAfterPass, SaveFailures, caseVars
  <2> QED
    BY <2>1, <2>2, <2>3, <2>4, <2>5 DEF TypeOK
<1>23. CASE Unmark
  <2>1. CaseTypeOK'
    BY <1>23, CaseTypesKept DEF TypeOK, Unmark, ClearWait, caseVars
  <2>2. RunnerTypeOK'
    BY <1>23 DEF TypeOK, RunnerTypeOK, Unmark, ClearWait, RunnerSteps
  <2>3. Judged'
    BY <1>23, JudgedKept DEF Unmark, ClearWait, caseVars
  <2>4. Place'
    BY <1>23 DEF TypeOK, RunnerTypeOK, Place, InIteration, Unmark, ClearWait, caseVars
  <2>5. Passed'
    BY <1>23, PassedKept DEF Dead, Unmark, ClearWait, caseVars
  <2> QED
    BY <2>1, <2>2, <2>3, <2>4, <2>5 DEF TypeOK
<1>24. CASE ShellBegins
  <2>1. CaseTypeOK'
    <3>1. began' \in [Tests -> Nat]
      BY <1>24 DEF ShellBegins, Current, TypeOK, CaseTypeOK, RunnerTypeOK
    <3> QED
      BY <1>24, <3>1 DEF ShellBegins, TypeOK, CaseTypeOK
  <2>2. RunnerTypeOK'
    BY <1>24 DEF TypeOK, RunnerTypeOK, ShellBegins, Current, RunnerSteps
  <2>3. Judged'
    BY <1>24, JudgedKept DEF ShellBegins, Current, caseVars
  <2>4. Place'
    BY <1>24 DEF TypeOK, RunnerTypeOK, Place, InIteration, ShellBegins, Current, caseVars
  <2>5. Passed'
    BY <1>24, PassedKept DEF Dead, ShellBegins, Current, caseVars
  <2> QED
    BY <2>1, <2>2, <2>3, <2>4, <2>5 DEF TypeOK
<1>25. CASE \E v \in {"OK", "NG"} : ShellEnds(v)
  <2>1. CaseTypeOK'
    <3>1. result' \in [Tests -> Verdicts]
      BY <1>25 DEF ShellEnds, Forget, TypeOK, CaseTypeOK, Verdicts
    <3>2. outcome' \in [Tests -> {"none", "OK", "NG"}]
      BY <1>25 DEF ShellEnds, TypeOK, CaseTypeOK
    <3> QED
      BY <1>25, <3>1, <3>2 DEF ShellEnds, TypeOK, CaseTypeOK
  <2>2. RunnerTypeOK'
    BY <1>25 DEF TypeOK, RunnerTypeOK, ShellEnds, RunnerSteps
  <2>3. Judged'
    BY <1>25, JudgedKept DEF ShellEnds, caseVars
  <2>4. Place'
    BY <1>25 DEF TypeOK, RunnerTypeOK, Place, InIteration, ShellEnds, caseVars
  <2>5. Passed'
    BY <1>25, PassedKept DEF Dead, ShellEnds, caseVars
  <2> QED
    BY <2>1, <2>2, <2>3, <2>4, <2>5 DEF TypeOK
<1>26. CASE Advance
  <2>1. CaseTypeOK'
    BY <1>26, CaseTypesKept DEF TypeOK, Advance, caseVars
  <2>2. RunnerTypeOK'
    BY <1>26 DEF TypeOK, RunnerTypeOK, Advance, RunnerSteps, Place, InIteration
  <2>3. Judged'
    BY <1>26, JudgedKept DEF Advance, caseVars
  <2>4. Place'
    BY <1>26 DEF TypeOK, RunnerTypeOK, Place, InIteration, Advance, caseVars
  <2>5. Passed'
    <3>1. index \in Nat /\ index' = idx + 1 /\ index <= index' /\ ~Dead
      BY <1>26 DEF Advance, TypeOK, RunnerTypeOK, Place, InIteration, Dead
    <3> QED
      BY <1>26, <3>1 DEF Advance, Passed, TypeOK, RunnerTypeOK, caseVars
  <2> QED
    BY <2>1, <2>2, <2>3, <2>4, <2>5 DEF TypeOK
<1> QED
  BY <1>1, <1>2, <1>3, <1>4, <1>5, <1>6, <1>7, <1>8, <1>9, <1>10, <1>11, <1>12, <1>13, <1>14, <1>15, <1>16, <1>17, <1>18, <1>19, <1>20, <1>21, <1>22, <1>23, <1>24, <1>25, <1>26
  DEF RunnerStep

----------------------------------------------------------------------------
(* The steps of a script *)

LEMMA ScriptKeeps ==
  ASSUME RunInv, NEW t \in Tests, ScriptStep(t) PROVE RunInv'
<1> USE DEF RunInv, Goto, Tests
<1>1. UNCHANGED <<runnerVars, crashes>>
  BY DEF ScriptStep
<1>2. RunnerTypeOK'
  BY <1>1 DEF TypeOK, RunnerTypeOK, runnerVars, configVars, diskVars
<1>3. CASE CaseStart(t)
  <2>1. CaseTypeOK'
    BY <1>3 DEF CaseStart, TypeOK, CaseTypeOK, Verdicts, Steps, Running, RunSteps, ResumeSteps
  <2>2. Judged'
    BY <1>3 DEF CaseStart, Judged, TypeOK, CaseTypeOK
  <2>3. Place'
    BY <1>1, <1>3
    DEF CaseStart, Place, InIteration, MayReboot, runnerVars, configVars, diskVars, TypeOK,
        CaseTypeOK, RunnerTypeOK
  <2>4. Passed'
    BY <1>1, <1>3
    DEF CaseStart, Passed, MayReboot, Dead, runnerVars, diskVars, TypeOK, CaseTypeOK
  <2> QED
    BY <1>2, <2>1, <2>2, <2>3, <2>4 DEF TypeOK
<1>4. CASE PrePasses(t)
  <2>1. CaseTypeOK'
    BY <1>4 DEF PrePasses, TypeOK, CaseTypeOK, Verdicts, Steps, Running, RunSteps, ResumeSteps
  <2>2. Judged'
    BY <1>4 DEF PrePasses, Judged, TypeOK, CaseTypeOK
  <2>3. Place'
    BY <1>1, <1>4
    DEF PrePasses, Place, InIteration, MayReboot, runnerVars, configVars, diskVars, TypeOK,
        CaseTypeOK, RunnerTypeOK
  <2>4. Passed'
    BY <1>1, <1>4
    DEF PrePasses, Passed, MayReboot, Dead, runnerVars, diskVars, TypeOK, CaseTypeOK
  <2> QED
    BY <1>2, <2>1, <2>2, <2>3, <2>4 DEF TypeOK
<1>5. CASE Arm(t)
  <2>1. CaseTypeOK'
    BY <1>5 DEF Arm, TypeOK, CaseTypeOK, Verdicts, Steps, Running, RunSteps, ResumeSteps
  <2>2. Judged'
    BY <1>5 DEF Arm, Judged, TypeOK, CaseTypeOK
  <2>3. Place'
    BY <1>1, <1>5
    DEF Arm, Place, InIteration, MayReboot, runnerVars, configVars, diskVars, TypeOK,
        CaseTypeOK, RunnerTypeOK
  <2>4. Passed'
    BY <1>1, <1>5 DEF Arm, Passed, MayReboot, Dead, runnerVars, diskVars, TypeOK, CaseTypeOK
  <2> QED
    BY <1>2, <2>1, <2>2, <2>3, <2>4 DEF TypeOK
<1>6. CASE RebootIssued(t)
  <2>1. CaseTypeOK'
    BY <1>6
    DEF RebootIssued, TypeOK, CaseTypeOK, Verdicts, Steps, Running, RunSteps, ResumeSteps
  <2>2. Judged'
    BY <1>6 DEF RebootIssued, Judged, TypeOK, CaseTypeOK
  <2>3. Place'
    BY <1>1, <1>6
    DEF RebootIssued, Place, InIteration, MayReboot, runnerVars, configVars, diskVars, TypeOK,
        CaseTypeOK, RunnerTypeOK
  <2>4. Passed'
    BY <1>1, <1>6
    DEF RebootIssued, Passed, MayReboot, Dead, runnerVars, diskVars, TypeOK, CaseTypeOK
  <2> QED
    BY <1>2, <2>1, <2>2, <2>3, <2>4 DEF TypeOK
<1>7. CASE RebootNotNeeded(t)
  <2>1. CaseTypeOK'
    BY <1>7
    DEF RebootNotNeeded, TypeOK, CaseTypeOK, Verdicts, Steps, Running, RunSteps, ResumeSteps
  <2>2. Judged'
    BY <1>7 DEF RebootNotNeeded, Judged, TypeOK, CaseTypeOK
  <2>3. Place'
    BY <1>1, <1>7
    DEF RebootNotNeeded, Place, InIteration, MayReboot, runnerVars, configVars, diskVars,
        TypeOK, CaseTypeOK, RunnerTypeOK
  <2>4. Passed'
    BY <1>1, <1>7
    DEF RebootNotNeeded, Passed, MayReboot, Dead, runnerVars, diskVars, TypeOK, CaseTypeOK
  <2> QED
    BY <1>2, <2>1, <2>2, <2>3, <2>4 DEF TypeOK
<1>8. CASE WritePending(t)
  <2>1. CaseTypeOK'
    BY <1>8
    DEF WritePending, TypeOK, CaseTypeOK, Verdicts, Steps, Running, RunSteps, ResumeSteps
  <2>2. Judged'
    BY <1>8 DEF WritePending, Judged, TypeOK, CaseTypeOK
  <2>3. Place'
    BY <1>1, <1>8
    DEF WritePending, Place, InIteration, MayReboot, runnerVars, configVars, diskVars, TypeOK,
        CaseTypeOK, RunnerTypeOK
  <2>4. Passed'
    BY <1>1, <1>8
    DEF WritePending, Passed, MayReboot, Dead, runnerVars, diskVars, TypeOK, CaseTypeOK
  <2> QED
    BY <1>2, <2>1, <2>2, <2>3, <2>4 DEF TypeOK
<1>9. CASE CaseResume(t)
  <2>1. CaseTypeOK'
    BY <1>9 DEF CaseResume, TypeOK, CaseTypeOK, Verdicts, Steps, Running, RunSteps, ResumeSteps
  <2>2. Judged'
    BY <1>9 DEF CaseResume, Judged, TypeOK, CaseTypeOK
  <2>3. Place'
    BY <1>1, <1>9
    DEF CaseResume, Place, InIteration, MayReboot, runnerVars, configVars, diskVars, TypeOK,
        CaseTypeOK, RunnerTypeOK
  <2>4. Passed'
    BY <1>1, <1>9
    DEF CaseResume, Passed, MayReboot, Dead, runnerVars, diskVars, TypeOK, CaseTypeOK
  <2> QED
    BY <1>2, <2>1, <2>2, <2>3, <2>4 DEF TypeOK
<1>10. CASE Disarm(t)
  <2>1. CaseTypeOK'
    BY <1>10 DEF Disarm, TypeOK, CaseTypeOK, Verdicts, Steps, Running, RunSteps, ResumeSteps
  <2>2. Judged'
    BY <1>10 DEF Disarm, Judged, TypeOK, CaseTypeOK
  <2>3. Place'
    BY <1>1, <1>10
    DEF Disarm, Place, InIteration, MayReboot, runnerVars, configVars, diskVars, TypeOK,
        CaseTypeOK, RunnerTypeOK
  <2>4. Passed'
    BY <1>1, <1>10 DEF Disarm, Passed, MayReboot, Dead, runnerVars, diskVars, TypeOK, CaseTypeOK
  <2> QED
    BY <1>2, <2>1, <2>2, <2>3, <2>4 DEF TypeOK
<1>11. CASE Report(t)
  <2>1. CaseTypeOK'
    BY <1>11
    DEF Report, Judged, TypeOK, CaseTypeOK, Verdicts, Steps, Running, RunSteps, ResumeSteps
  <2>2. Judged'
    BY <1>11 DEF Report, Judged, TypeOK, CaseTypeOK
  <2>3. Place'
    BY <1>1, <1>11
    DEF Report, Place, InIteration, MayReboot, runnerVars, configVars, diskVars, TypeOK,
        CaseTypeOK, RunnerTypeOK
  <2>4. Passed'
    BY <1>1, <1>11 DEF Report, Passed, MayReboot, Dead, runnerVars, diskVars, TypeOK, CaseTypeOK
  <2> QED
    BY <1>2, <2>1, <2>2, <2>3, <2>4 DEF TypeOK
<1>12. CASE Sweep(t)
  <2>1. CaseTypeOK'
    BY <1>12 DEF Sweep, TypeOK, CaseTypeOK, Verdicts, Steps, Running, RunSteps, ResumeSteps
  <2>2. Judged'
    BY <1>12 DEF Sweep, Judged, TypeOK, CaseTypeOK
  <2>3. Place'
    BY <1>1, <1>12
    DEF Sweep, Place, InIteration, MayReboot, runnerVars, configVars, diskVars, TypeOK,
        CaseTypeOK, RunnerTypeOK
  <2>4. Passed'
    BY <1>1, <1>12 DEF Sweep, Passed, MayReboot, Dead, runnerVars, diskVars, TypeOK, CaseTypeOK
  <2> QED
    BY <1>2, <2>1, <2>2, <2>3, <2>4 DEF TypeOK
<1>13. CASE Leave(t)
  <2>1. CaseTypeOK'
    BY <1>13 DEF Leave, TypeOK, CaseTypeOK, Verdicts, Steps, Running, RunSteps, ResumeSteps
  <2>2. Judged'
    BY <1>13 DEF Leave, Judged, TypeOK, CaseTypeOK
  <2>3. Place'
    BY <1>1, <1>13
    DEF Leave, Place, InIteration, MayReboot, runnerVars, configVars, diskVars, TypeOK,
        CaseTypeOK, RunnerTypeOK
  <2>4. Passed'
    BY <1>1, <1>13 DEF Leave, Passed, MayReboot, Dead, runnerVars, diskVars, TypeOK, CaseTypeOK
  <2> QED
    BY <1>2, <2>1, <2>2, <2>3, <2>4 DEF TypeOK
<1>14. CASE \E v \in {"OK", "NG"} : PreEnds(t, v)
  <2>1. CaseTypeOK'
    BY <1>14 DEF PreEnds, TypeOK, CaseTypeOK, Verdicts, Steps, Running, RunSteps, ResumeSteps
  <2>2. Judged'
    BY <1>14 DEF PreEnds, Judged, TypeOK, CaseTypeOK
  <2>3. Place'
    BY <1>1, <1>14
    DEF PreEnds, Place, InIteration, MayReboot, runnerVars, configVars, diskVars, TypeOK,
        CaseTypeOK, RunnerTypeOK
  <2>4. Passed'
    BY <1>1, <1>14
    DEF PreEnds, Passed, MayReboot, Dead, runnerVars, diskVars, TypeOK, CaseTypeOK
  <2> QED
    BY <1>2, <2>1, <2>2, <2>3, <2>4 DEF TypeOK
<1>15. CASE \E v \in {"OK", "NG"} : RebootRefused(t, v)
  <2>1. CaseTypeOK'
    BY <1>15
    DEF RebootRefused, TypeOK, CaseTypeOK, Verdicts, Steps, Running, RunSteps, ResumeSteps
  <2>2. Judged'
    BY <1>15 DEF RebootRefused, Judged, TypeOK, CaseTypeOK
  <2>3. Place'
    BY <1>1, <1>15
    DEF RebootRefused, Place, InIteration, MayReboot, runnerVars, configVars, diskVars,
        TypeOK, CaseTypeOK, RunnerTypeOK
  <2>4. Passed'
    BY <1>1, <1>15
    DEF RebootRefused, Passed, MayReboot, Dead, runnerVars, diskVars, TypeOK, CaseTypeOK
  <2> QED
    BY <1>2, <2>1, <2>2, <2>3, <2>4 DEF TypeOK
<1>16. CASE \E v \in {"OK", "NG"} : PostEnds(t, v)
  <2>1. CaseTypeOK'
    BY <1>16 DEF PostEnds, TypeOK, CaseTypeOK, Verdicts, Steps, Running, RunSteps, ResumeSteps
  <2>2. Judged'
    BY <1>16 DEF PostEnds, Judged, TypeOK, CaseTypeOK
  <2>3. Place'
    BY <1>1, <1>16
    DEF PostEnds, Place, InIteration, MayReboot, runnerVars, configVars, diskVars, TypeOK,
        CaseTypeOK, RunnerTypeOK
  <2>4. Passed'
    BY <1>1, <1>16
    DEF PostEnds, Passed, MayReboot, Dead, runnerVars, diskVars, TypeOK, CaseTypeOK
  <2> QED
    BY <1>2, <2>1, <2>2, <2>3, <2>4 DEF TypeOK
<1> QED
  BY <1>3, <1>4, <1>5, <1>6, <1>7, <1>8, <1>9, <1>10, <1>11, <1>12, <1>13, <1>14, <1>15, <1>16
  DEF ScriptStep, CaseStep

LEMMA KillScriptKeeps ==
  ASSUME RunInv, NEW t \in Tests, KillScript(t) PROVE RunInv'
<1> USE DEF RunInv, Goto, Tests, KillScript, Terminated
<1>1. CaseTypeOK'
  BY DEF TypeOK, CaseTypeOK, Verdicts, Steps
<1>2. RunnerTypeOK'
  BY DEF TypeOK, RunnerTypeOK, runnerVars, configVars, diskVars
<1>3. Judged'
  BY DEF Judged, TypeOK, CaseTypeOK
<1>4. Place'
  BY
  DEF Place, InIteration, MayReboot, Running, RunSteps, ResumeSteps, runnerVars, configVars,
      diskVars,
         TypeOK, CaseTypeOK
<1>5. Passed'
  BY DEF Passed, MayReboot, Dead, runnerVars, diskVars, TypeOK, CaseTypeOK
<1> QED
  BY <1>1, <1>2, <1>3, <1>4, <1>5 DEF TypeOK

----------------------------------------------------------------------------
(* The machine *)

LEMMA KillRunnerKeeps == RunInv /\ KillRunner => RunInv'
<1> SUFFICES ASSUME RunInv, KillRunner PROVE RunInv'
  OBVIOUS
<1> USE DEF RunInv, KillRunner, configVars, diskVars
<1>1. CaseTypeOK' /\ Judged'
  BY CaseTypesKept, JudgedKept DEF TypeOK, caseVars
<1>2. RunnerTypeOK'
  BY DEF TypeOK, RunnerTypeOK, RunnerSteps
<1>3. Place' /\ Passed'
  BY PassedKept DEF Place, InIteration, Dead, caseVars
<1> QED
  BY <1>1, <1>2, <1>3 DEF TypeOK

\* A boot, after a reboot or a power failure.  Only tests that have a unit run then,
\* and they resume after their reboot.
LEMMA BootKeeps ==
  ASSUME RunInv, Boot, BootRunner, crashes' \in 0..MaxCrashes,
         index' = index \/ (index' = Torn /\ pc # "prepare" /\ pc # "install")
  PROVE  RunInv'
<1> USE DEF RunInv, Boot, BootRunner
<1>1. CaseTypeOK'
  BY DEF TypeOK, CaseTypeOK, Verdicts, Steps, Running, RunSteps, ResumeSteps
<1>2. RunnerTypeOK'
  BY NAssumption DEF TypeOK, RunnerTypeOK, configVars, RunnerSteps, Torn
<1>3. Judged'
  BY DEF Judged
<1>4. Place'
  BY DEF Place, InIteration, TypeOK, RunnerTypeOK
<1>5. Passed'
  BY NAssumption DEF Passed, MayReboot, Dead, TypeOK, CaseTypeOK, RunnerTypeOK, Torn, Tests
<1> QED
  BY <1>1, <1>2, <1>3, <1>4, <1>5 DEF TypeOK

LEMMA RunInvNext == RunInv /\ [Next]_vars => RunInv'
<1> SUFFICES ASSUME RunInv, [Next]_vars PROVE RunInv'
  OBVIOUS
<1>1. CASE RunnerStep /\ UNCHANGED crashes
  BY <1>1, RunnerKeeps
<1>2. CASE \E t \in Tests : ScriptStep(t) \/ KillScript(t)
  BY <1>2, ScriptKeeps, KillScriptKeeps
<1>3. CASE KillRunner
  BY <1>3, KillRunnerKeeps
<1>4. CASE Reboot
  BY <1>4, BootKeeps DEF Reboot, RunInv, TypeOK, RunnerTypeOK
<1>5. CASE PowerLoss
  <2>1. crashes' \in 0..MaxCrashes
    BY <1>5, MaxCrashesAssumption DEF PowerLoss, RunInv, TypeOK, RunnerTypeOK
  <2>2. index' = index \/ (index' = Torn /\ pc # "prepare" /\ pc # "install")
    BY <1>5 DEF PowerLoss
  <2> QED
    BY <1>5, <2>1, <2>2, BootKeeps DEF PowerLoss
<1>6. CASE UNCHANGED vars
  <2>1. CaseTypeOK' /\ RunnerTypeOK' /\ Judged'
    BY <1>6, CaseTypesKept, JudgedKept
    DEF RunInv, TypeOK, RunnerTypeOK, vars, caseVars, runnerVars, configVars, diskVars
  <2>2. Place' /\ Passed'
    BY <1>6, PlaceKept, PassedKept
    DEF RunInv, Dead, vars, caseVars, runnerVars, configVars, diskVars
  <2> QED
    BY <2>1, <2>2 DEF RunInv, TypeOK
<1> QED
  BY <1>1, <1>2, <1>3, <1>4, <1>5, <1>6 DEF Next

----------------------------------------------------------------------------
LEMMA RunInvariant == Spec => []RunInv
  BY RunInvInit, RunInvNext, PTL DEF Spec

\* The runner, its files and the scripts keep their types, for every number of tests.
THEOREM RunnerTypeCorrect == Spec => []TypeOK
<1>1. RunInv => TypeOK
  BY DEF RunInv
<1> QED
  BY <1>1, RunInvariant, PTL

\* A run reboots the machine at most once for each test, for every number of tests,
\* whichever processes are killed and however often the power fails at whatever point:
\* a machine under test never ends up in a loop of reboots.
THEOREM RebootsAtMostOnce == Spec => []RebootAtMostOnce
<1>1. RunInv => RebootAtMostOnce
  BY DEF RunInv, Passed, RebootAtMostOnce
<1> QED
  BY <1>1, RunInvariant, PTL
----------------------------------------------------------------------------
(* The order of the tests, and the summary *)


\* The runner has given test t to a script that left a trace.
Launched(t) ==
    \/ job[t] # "none" \/ t \in caseUnit \/ t \in stateDir
    \/ kinds[t] = "reboot" /\ (began[t] > 0 \/ outcome[t] # "none")

\* The body of test t has begun, or is about to.
Touched(t) == began[t] > 0 \/ job[t] = "start"

Fresh ==
    pc \in {"prepare", "install"} =>
        /\ caseUnit = {} /\ stateDir = {}
        /\ \A t \in Tests : job[t] = "none" /\ began[t] = 0 /\ outcome[t] = "none"

\* No test beyond the place kept on disk has been given to a script, and none beyond
\* the one after it has begun.
Frontier ==
    \A t \in Tests :
        /\ Launched(t) => Dead \/ t <= index
        /\ Touched(t) => Dead \/ t <= index + 1
        /\ Touched(t) /\ pc \in InIteration => t <= idx + 1

AtTest ==
    /\ pc \in {"mark", "launch"} => ~Launched(idx + 1)
    /\ pc \in {"mark", "launch", "reboot"} => kinds[idx + 1] = "reboot"
    /\ pc = "shell" => kinds[idx + 1] = "shell"

\* A unit is enabled only for a script that has yet to reach its verdict, and that has
\* its state directory.
Armed ==
    \A t \in caseUnit :
        /\ t \in stateDir
        /\ job[t] \in {"issue", "issued", "leave", "exited", "resume", "post", "finish"}
        /\ job[t] \in {"leave", "exited"} =>
              verdict[t] = "NG" \/ (verdict[t] = "PENDING" /\ result[t] = "PENDING")

HasDir == \A t \in Tests : job[t] \in Running \ {"start", "leave"} => t \in stateDir

\* The steps at which a script has yet to write its result.
Reports == Running \ {"sweep", "leave"}

Unreported == \A t \in Tests : job[t] \in Reports \/ t \in caseUnit => outcome[t] = "none"

\* A test that came to NG shows it to whoever looks: in the exit status of its script
\* and in its result.
Reported ==
    \A t \in Tests :
        /\ job[t] \in {"sweep", "leave", "exited"} /\ outcome[t] = "NG" /\ kinds[t] = "reboot" =>
              verdict[t] = "NG"
        /\ outcome[t] = "NG" /\ kinds[t] = "reboot" => result[t] \in {"NG", "none"}
        /\ kinds[t] = "shell" => job[t] = "none" /\ t \notin caseUnit

Waits ==
    /\ waitResult \in {0, waitSafe}
    /\ waitSafe # 0 => kinds[waitSafe] = "reboot"
    /\ pc \in {"prepare", "install", "check", "loop", "mark", "shell", "passed",
               "stopcheck", "advance"} => waitSafe = 0
    /\ pc \in {"launch", "reboot", "failed", "unmark"} => waitSafe = idx + 1
    /\ pc \in {"waiting", "tallied"} => waitSafe # 0
    /\ pc \in {"resume", "waiting"} => \A t \in Tests : job[t] \notin RunSteps

\* The steps of a script between the start of its body and the end of its checks.
Body == Running \ {"leave"}

\* Unless a script outlives the runner's patience or loses the race down, only the test
\* the runner waits for is at work, and only then.
Alone ==
    faults \subseteq {"powerloss"} =>
        /\ caseUnit \subseteq {waitSafe}
        /\ pc \notin {"reboot", "off", "resume", "waiting"} => caseUnit = {}
        /\ \A t \in Tests :
              job[t] \in Body => t = waitSafe /\ pc \in {"reboot", "off", "resume", "waiting"}
        /\ \A t \in caseUnit :
              job[t] \in {"leave", "exited"} => pc \in {"reboot", "off"} /\ verdict[t] = "PENDING"

\* A test that came to NG, or still may.
Unsettled(t) == t \in caseUnit \/ job[t] \in Reports \/ outcome[t] = "NG"

\* The runner has yet to look at test t.
Awaited(t) ==
    t = waitSafe /\ pc \in {"reboot", "failed", "off", "resume", "waiting", "tallied"}

\* A failure that nobody is about to look at is in the failure count, where every way to
\* the next test passes.
Heeded ==
    stop =>
        /\ \A t \in Tests : Unsettled(t) => Dead \/ fails > 0 \/ Awaited(t)
        /\ fails > 0 =>
              pc \in {"off", "resume", "waiting", "tallied", "counted", "check", "unmark",
                      "stopcheck", "retire", "erase"}
        /\ pc = "tallied" =>
              failures >= fails /\ ((\E t \in Tests : Unsettled(t)) => failures > 0)
        /\ pc = "failed" => failures > 0
        /\ pc = "unmark" => fails > 0
        /\ \A t, u \in Tests : t < u /\ Unsettled(t) => ~Touched(u)

CaseInv == Armed /\ HasDir /\ Unreported /\ Reported

OrderInv == Fresh /\ Frontier /\ AtTest /\ CaseInv /\ Waits /\ Alone /\ Heeded


----------------------------------------------------------------------------
(* What a step keeps when it leaves the right variables alone *)

LEMMA CaseInvKept == CaseInv /\ UNCHANGED <<caseVars, configVars>> => CaseInv'
  BY DEF CaseInv, Armed, HasDir, Unreported, Reported, caseVars, configVars

----------------------------------------------------------------------------
(* The steps of the runner *)

LEMMA QuietStepsOrdered ==
  ASSUME RunInv, RunInv', OrderInv,
            Prepare \/ Install \/ NothingWaiting \/ StartWaiting \/ WaitTimesOut
         \/ SaveTally \/ EndWait \/ StopOnFailure \/ EnterLoop \/ KeepGoing
         \/ LoopEnds \/ Retire \/ Erase \/ PassBy \/ MarkSafe
         \/ RebootPending \/ SaveAfterFailure \/ SaveAfterPass \/ Unmark \/ Advance,
         UNCHANGED crashes
  PROVE  OrderInv'
<1> USE NAssumption DEF RunnerGoto, Current, configVars, diskVars, caseVars, Tests, Torn
<1>1. CASE Prepare
  <2>1. CaseInv'
    BY <1>1, CaseInvKept DEF Prepare, OrderInv
  <2>2. Fresh' /\ Frontier' /\ AtTest'
    BY <1>1 DEF Prepare, Fresh, Frontier, Launched, Touched, AtTest, OrderInv
  <2>3. Waits'
    BY <1>1 DEF Prepare, Waits
  <2>4. Alone'
    BY <1>1 DEF Prepare, Alone, OrderInv
  <2>5. Heeded'
    BY <1>1 DEF Prepare, Heeded, Unsettled, Awaited, Dead, OrderInv
  <2> QED
    BY <2>1, <2>2, <2>3, <2>4, <2>5 DEF OrderInv
<1>2. CASE Install
  <2>1. CaseInv'
    BY <1>2, CaseInvKept DEF Install, OrderInv
  <2>2. Fresh' /\ Frontier' /\ AtTest'
    BY <1>2 DEF Install, Fresh, Frontier, Launched, Touched, AtTest, OrderInv
  <2>3. Waits'
    BY <1>2 DEF Install, Waits, RunSteps, OrderInv, RunInv, Place
  <2>4. Alone'
    BY <1>2 DEF Install, Alone, OrderInv
  <2>5. Heeded'
    BY <1>2 DEF Install, Heeded, Unsettled, Awaited, Dead, OrderInv
  <2> QED
    BY <2>1, <2>2, <2>3, <2>4, <2>5 DEF OrderInv
<1>3. CASE NothingWaiting
  <2>1. CaseInv'
    BY <1>3, CaseInvKept DEF NothingWaiting, OrderInv
  <2>2. Fresh' /\ Frontier' /\ AtTest'
    BY <1>3
    DEF NothingWaiting, Fresh, Frontier, Launched, Touched, Dead, InIteration, AtTest,
        OrderInv
  <2>3. Waits'
    BY <1>3 DEF NothingWaiting, Waits, OrderInv
  <2>4. Alone'
    BY <1>3 DEF NothingWaiting, Alone, OrderInv, RunInv, TypeOK, CaseTypeOK
  <2>5. Heeded'
    BY <1>3 DEF NothingWaiting, Heeded, Unsettled, Awaited, Touched, Dead, OrderInv
  <2> QED
    BY <2>1, <2>2, <2>3, <2>4, <2>5 DEF OrderInv
<1>4. CASE StartWaiting
  <2>1. CaseInv'
    BY <1>4, CaseInvKept DEF StartWaiting, OrderInv
  <2>2. Fresh' /\ Frontier' /\ AtTest'
    BY <1>4
    DEF StartWaiting, Fresh, Frontier, Launched, Touched, Dead, InIteration, AtTest,
        OrderInv
  <2>3. Waits'
    BY <1>4 DEF StartWaiting, Waits, OrderInv
  <2>4. Alone'
    BY <1>4 DEF StartWaiting, Alone, OrderInv
  <2>5. Heeded'
    BY <1>4 DEF StartWaiting, Heeded, Unsettled, Awaited, Touched, Dead, OrderInv
  <2> QED
    BY <2>1, <2>2, <2>3, <2>4, <2>5 DEF OrderInv
<1>5. CASE WaitTimesOut
  <2>1. CaseInv'
    BY <1>5, CaseInvKept DEF WaitTimesOut, OrderInv
  <2>2. Fresh' /\ Frontier' /\ AtTest'
    BY <1>5
    DEF WaitTimesOut, Fresh, Frontier, Launched, Touched, Dead, InIteration, AtTest,
        OrderInv
  <2>3. Waits'
    BY <1>5 DEF WaitTimesOut, Waits, OrderInv
  <2>4. Alone'
    BY <1>5
    DEF WaitTimesOut, Alone, Body, Running, RunSteps, ResumeSteps, Armed, OrderInv,
        CaseInv, RunnerTypeOK
  <2>5. Heeded'
    BY <1>5
    DEF WaitTimesOut, Heeded, Unsettled, Awaited, Touched, Dead, OrderInv, RunInv,
        TypeOK, RunnerTypeOK
  <2> QED
    BY <2>1, <2>2, <2>3, <2>4, <2>5 DEF OrderInv
<1>6. CASE SaveTally
  <2>1. CaseInv'
    BY <1>6, CaseInvKept DEF SaveTally, OrderInv
  <2>2. Fresh' /\ Frontier' /\ AtTest'
    BY <1>6
    DEF SaveTally, Fresh, Frontier, Launched, Touched, Dead, InIteration, AtTest,
        OrderInv
  <2>3. Waits'
    BY <1>6 DEF SaveTally, Waits, OrderInv
  <2>4. Alone'
    BY <1>6 DEF SaveTally, Alone, OrderInv
  <2>5. Heeded'
    BY <1>6 DEF SaveTally, Heeded, Unsettled, Touched, OrderInv
  <2> QED
    BY <2>1, <2>2, <2>3, <2>4, <2>5 DEF OrderInv
<1>7. CASE EndWait
  <2>1. CaseInv'
    BY <1>7, CaseInvKept DEF EndWait, ClearWait, OrderInv
  <2>2. Fresh' /\ Frontier' /\ AtTest'
    BY <1>7
    DEF EndWait, ClearWait, Fresh, Frontier, Launched, Touched, Dead, InIteration,
        AtTest, OrderInv
  <2>3. Waits'
    BY <1>7 DEF EndWait, ClearWait, Waits
  <2>4. Alone'
    BY <1>7 DEF EndWait, ClearWait, Alone, OrderInv
  <2>5. Heeded'
    BY <1>7 DEF EndWait, ClearWait, Heeded, Unsettled, Awaited, Touched, Dead, OrderInv
  <2> QED
    BY <2>1, <2>2, <2>3, <2>4, <2>5 DEF OrderInv
<1>8. CASE StopOnFailure
  <2>1. CaseInv'
    BY <1>8, CaseInvKept DEF StopOnFailure, Conclude, OrderInv
  <2>2. Fresh' /\ Frontier' /\ AtTest'
    BY <1>8
    DEF StopOnFailure, Conclude, Fresh, Frontier, Launched, Touched, Dead, InIteration,
        AtTest, OrderInv
  <2>3. Waits'
    BY <1>8 DEF StopOnFailure, Conclude, Waits, OrderInv
  <2>4. Alone'
    BY <1>8 DEF StopOnFailure, Conclude, Alone, OrderInv
  <2>5. Heeded'
    BY <1>8 DEF StopOnFailure, Conclude, MustStop, Heeded, Unsettled, Touched, OrderInv
  <2> QED
    BY <2>1, <2>2, <2>3, <2>4, <2>5 DEF OrderInv
<1>9. CASE EnterLoop
  <2>1. CaseInv'
    BY <1>9, CaseInvKept DEF EnterLoop, OrderInv
  <2>2. Fresh' /\ Frontier' /\ AtTest'
    BY <1>9 DEF EnterLoop, Fresh, Frontier, Launched, Touched, Dead, AtTest, OrderInv
  <2>3. Waits'
    BY <1>9 DEF EnterLoop, Waits, OrderInv
  <2>4. Alone'
    BY <1>9 DEF EnterLoop, Alone, OrderInv
  <2>5. Heeded'
    BY <1>9 DEF EnterLoop, MustStop, Heeded, Unsettled, Awaited, Dead, OrderInv
  <2> QED
    BY <2>1, <2>2, <2>3, <2>4, <2>5 DEF OrderInv
<1>10. CASE KeepGoing
  <2>1. CaseInv'
    BY <1>10, CaseInvKept DEF KeepGoing, OrderInv
  <2>2. Fresh' /\ Frontier' /\ AtTest'
    BY <1>10
    DEF KeepGoing, Fresh, Frontier, Launched, Touched, Dead, InIteration, AtTest,
        OrderInv
  <2>3. Waits'
    BY <1>10 DEF KeepGoing, Waits, OrderInv
  <2>4. Alone'
    BY <1>10 DEF KeepGoing, Alone, OrderInv
  <2>5. Heeded'
    BY <1>10 DEF KeepGoing, MustStop, Heeded, Unsettled, Awaited, Dead, OrderInv
  <2> QED
    BY <2>1, <2>2, <2>3, <2>4, <2>5 DEF OrderInv
<1>11. CASE LoopEnds
  <2>1. CaseInv'
    BY <1>11, CaseInvKept DEF LoopEnds, Conclude, OrderInv
  <2>2. Fresh' /\ Frontier' /\ AtTest'
    BY <1>11
    DEF LoopEnds, Conclude, Fresh, Frontier, Launched, Touched, Dead, InIteration,
        AtTest, OrderInv
  <2>3. Waits'
    BY <1>11 DEF LoopEnds, Conclude, Waits, OrderInv
  <2>4. Alone'
    BY <1>11 DEF LoopEnds, Conclude, Alone, OrderInv
  <2>5. Heeded'
    BY <1>11 DEF LoopEnds, Conclude, Heeded, Unsettled, Awaited, Dead, OrderInv
  <2> QED
    BY <2>1, <2>2, <2>3, <2>4, <2>5 DEF OrderInv
<1>12. CASE Retire
  <2>1. CaseInv'
    BY <1>12, CaseInvKept DEF Retire, OrderInv
  <2>2. Fresh' /\ Frontier' /\ AtTest'
    BY <1>12 DEF Retire, Fresh, Frontier, Dead, InIteration, AtTest
  <2>3. Waits'
    BY <1>12 DEF Retire, Waits, OrderInv
  <2>4. Alone'
    BY <1>12 DEF Retire, Alone, OrderInv
  <2>5. Heeded'
    BY <1>12 DEF Retire, Heeded, Unsettled, Touched, Dead, OrderInv
  <2> QED
    BY <2>1, <2>2, <2>3, <2>4, <2>5 DEF OrderInv
<1>13. CASE Erase
  <2>1. CaseInv'
    BY <1>13, CaseInvKept DEF Erase, OrderInv
  <2>2. Fresh' /\ Frontier' /\ AtTest'
    BY <1>13 DEF Erase, Fresh, Frontier, Dead, InIteration, AtTest, RunInv, Place
  <2>3. Waits'
    BY <1>13 DEF Erase, Waits
  <2>4. Alone'
    BY <1>13 DEF Erase, Alone, OrderInv
  <2>5. Heeded'
    BY <1>13 DEF Erase, Heeded, Unsettled, Touched, Dead, OrderInv, RunInv, Place
  <2> QED
    BY <2>1, <2>2, <2>3, <2>4, <2>5 DEF OrderInv
<1>14. CASE PassBy
  <2>1. CaseInv'
    BY <1>14, CaseInvKept DEF PassBy, OrderInv
  <2>2. Fresh' /\ Frontier' /\ AtTest'
    BY <1>14
    DEF PassBy, Fresh, Frontier, Launched, Touched, Dead, AtTest, OrderInv, RunInv,
        TypeOK, RunnerTypeOK, Place
  <2>3. Waits'
    BY <1>14 DEF PassBy, Waits, OrderInv
  <2>4. Alone'
    BY <1>14 DEF PassBy, Alone, OrderInv
  <2>5. Heeded'
    BY <1>14 DEF PassBy, Heeded, Unsettled, Awaited, Dead, OrderInv
  <2> QED
    BY <2>1, <2>2, <2>3, <2>4, <2>5 DEF OrderInv
<1>15. CASE MarkSafe
  <2>1. idx + 1 \in Tests /\ kinds[idx + 1] = "reboot"
    BY <1>15 DEF MarkSafe, AtTest, OrderInv, RunInv, TypeOK, RunnerTypeOK
  <2>2. CaseInv'
    BY <1>15, CaseInvKept DEF MarkSafe, OrderInv
  <2>3. Fresh' /\ Frontier' /\ AtTest'
    BY <1>15
    DEF MarkSafe, Fresh, Frontier, Launched, Touched, Dead, InIteration, AtTest,
        OrderInv
  <2>4. Waits'
    BY <1>15, <2>1 DEF MarkSafe, Waits, OrderInv
  <2>5. Alone'
    BY <1>15 DEF MarkSafe, Alone, OrderInv
  <2>6. Heeded'
    BY <1>15 DEF MarkSafe, Heeded, Unsettled, Awaited, Dead, OrderInv
  <2> QED
    BY <2>2, <2>3, <2>4, <2>5, <2>6 DEF OrderInv
<1>16. CASE RebootPending
  <2>1. CaseInv'
    BY <1>16, CaseInvKept DEF RebootPending, OrderInv
  <2>2. Fresh' /\ Frontier' /\ AtTest'
    BY <1>16
    DEF RebootPending, Fresh, Frontier, Launched, Touched, Dead, InIteration, AtTest,
        OrderInv
  <2>3. Waits'
    BY <1>16 DEF RebootPending, Waits, OrderInv
  <2>4. Alone'
    BY <1>16 DEF RebootPending, Alone, OrderInv
  <2>5. Heeded'
    BY <1>16 DEF RebootPending, Heeded, Unsettled, Awaited, Touched, Dead, OrderInv
  <2> QED
    BY <2>1, <2>2, <2>3, <2>4, <2>5 DEF OrderInv
<1>17. CASE SaveAfterFailure
  <2>1. CaseInv'
    BY <1>17, CaseInvKept DEF SaveAfterFailure, SaveFailures, OrderInv
  <2>2. Fresh' /\ Frontier' /\ AtTest'
    BY <1>17
    DEF SaveAfterFailure, SaveFailures, Fresh, Frontier, Launched, Touched, Dead,
        InIteration, AtTest, OrderInv
  <2>3. Waits'
    BY <1>17 DEF SaveAfterFailure, SaveFailures, Waits, OrderInv
  <2>4. Alone'
    BY <1>17 DEF SaveAfterFailure, SaveFailures, Alone, OrderInv
  <2>5. Heeded'
    BY <1>17 DEF SaveAfterFailure, SaveFailures, Heeded, Unsettled, Touched, OrderInv
  <2> QED
    BY <2>1, <2>2, <2>3, <2>4, <2>5 DEF OrderInv
<1>18. CASE SaveAfterPass
  <2>1. CaseInv'
    BY <1>18, CaseInvKept DEF SaveAfterPass, SaveFailures, OrderInv
  <2>2. Fresh' /\ Frontier' /\ AtTest'
    BY <1>18
    DEF SaveAfterPass, SaveFailures, Fresh, Frontier, Launched, Touched, Dead,
        InIteration, AtTest, OrderInv
  <2>3. Waits'
    BY <1>18 DEF SaveAfterPass, SaveFailures, Waits, OrderInv
  <2>4. Alone'
    BY <1>18 DEF SaveAfterPass, SaveFailures, Alone, OrderInv
  <2>5. Heeded'
    BY <1>18 DEF SaveAfterPass, SaveFailures, Heeded, Unsettled, Awaited, Dead, OrderInv
  <2> QED
    BY <2>1, <2>2, <2>3, <2>4, <2>5 DEF OrderInv
<1>19. CASE Unmark
  <2>1. CaseInv'
    BY <1>19, CaseInvKept DEF Unmark, ClearWait, OrderInv
  <2>2. Fresh' /\ Frontier' /\ AtTest'
    BY <1>19
    DEF Unmark, ClearWait, Fresh, Frontier, Launched, Touched, Dead, InIteration,
        AtTest, OrderInv
  <2>3. Waits'
    BY <1>19 DEF Unmark, ClearWait, Waits
  <2>4. Alone'
    BY <1>19 DEF Unmark, ClearWait, Alone, OrderInv
  <2>5. Heeded'
    BY <1>19 DEF Unmark, ClearWait, Heeded, Unsettled, Touched, OrderInv
  <2> QED
    BY <2>1, <2>2, <2>3, <2>4, <2>5 DEF OrderInv
<1>20. CASE Advance
  <2>1. CaseInv'
    BY <1>20, CaseInvKept DEF Advance, OrderInv
  <2>2. Fresh' /\ Frontier' /\ AtTest'
    BY <1>20
    DEF Advance, Fresh, Frontier, Launched, Touched, Dead, InIteration, AtTest,
        OrderInv, RunInv, TypeOK, RunnerTypeOK, Place
  <2>3. Waits'
    BY <1>20 DEF Advance, Waits, OrderInv
  <2>4. Alone'
    BY <1>20 DEF Advance, Alone, OrderInv
  <2>5. Heeded'
    BY <1>20 DEF Advance, Heeded, Unsettled, Awaited, Dead, OrderInv
  <2> QED
    BY <2>1, <2>2, <2>3, <2>4, <2>5 DEF OrderInv
<1> QED
  BY <1>1, <1>2, <1>3, <1>4, <1>5, <1>6, <1>7, <1>8, <1>9, <1>10, <1>11, <1>12, <1>13,
     <1>14, <1>15, <1>16, <1>17, <1>18, <1>19, <1>20

\* The steps that also touch what the scripts keep.
LEMMA LoudStepsOrdered ==
  ASSUME RunInv, RunInv', OrderInv,
         \/ WaitEnds \/ Launch \/ RebootFails \/ RebootPasses \/ ShellBegins
         \/ \E v \in {"OK", "NG"} : ShellEnds(v),
         UNCHANGED crashes
  PROVE  OrderInv'
<1> USE NAssumption DEF RunnerGoto, Current, configVars, diskVars, caseVars, Tests, Torn
<1>1. CASE WaitEnds
  <2>1. waitSafe \notin caseUnit /\ job[waitSafe] \notin Reports
    BY <1>1
    DEF WaitEnds, Armed, HasDir, Waits, Reports, RunSteps, OrderInv, CaseInv, RunInv,
        TypeOK, RunnerTypeOK
  <2>2. Armed' /\ HasDir'
    BY <1>1
    DEF WaitEnds, Forget, CasesButResult, Armed, HasDir, Waits, OrderInv, CaseInv,
        RunInv, TypeOK, CaseTypeOK
  <2>3. Unreported' /\ Reported'
    <3>1. Unreported'
      BY <1>1, <2>1 DEF WaitEnds, Forget, CasesButResult, Unreported, OrderInv, CaseInv
    <3>2. Reported'
      BY <1>1, <2>1 DEF WaitEnds, Forget, CasesButResult, Reported, OrderInv, CaseInv, RunInv,
         TypeOK, CaseTypeOK
    <3> QED
      BY <3>1, <3>2
  <2>4. Fresh' /\ Frontier' /\ AtTest'
    BY <1>1
    DEF WaitEnds, CasesButResult, Fresh, Frontier, Launched, Touched, Dead, InIteration,
        AtTest, OrderInv
  <2>5. Waits'
    BY <1>1 DEF WaitEnds, Waits, OrderInv
  <2>6. Alone'
    BY <1>1, <2>1
    DEF WaitEnds, CasesButResult, Alone, Body, RunSteps, Waits, HasDir, OrderInv,
        CaseInv
  <2>7. Heeded'
    BY <1>1, <2>1
    DEF WaitEnds, CountNG, CasesButResult, Heeded, Unsettled, Awaited, Touched, Dead,
        Waits, Reported, OrderInv, CaseInv, RunInv, TypeOK, RunnerTypeOK
  <2> QED
    BY <2>2, <2>3, <2>4, <2>5, <2>6, <2>7 DEF OrderInv, CaseInv
<1>2. CASE Launch
  <2>1. /\ idx + 1 \in Tests /\ kinds[idx + 1] = "reboot"
        /\ idx + 1 \notin caseUnit /\ outcome[idx + 1] = "none"
    BY <1>2 DEF Launch, Spawn, AtTest, Launched, OrderInv, RunInv, TypeOK, CaseTypeOK
  <2>2. Armed' /\ HasDir'
    BY <1>2, <2>1 DEF Launch, Spawn, Goto, Armed, HasDir, OrderInv, CaseInv
  <2>3. Unreported'
    BY <1>2, <2>1 DEF Launch, Spawn, Goto, Unreported, OrderInv, CaseInv, InIteration
  <2>4. Reported'
    BY <1>2, <2>1 DEF Launch, Spawn, Goto, Reported, OrderInv, CaseInv
  <2>5. Fresh' /\ Frontier' /\ AtTest'
    BY <1>2
    DEF Launch, Spawn, Goto, Fresh, Frontier, Launched, Touched, Dead, InIteration,
        AtTest, OrderInv, RunInv, Place
  <2>6. Waits'
    BY <1>2 DEF Launch, Waits, OrderInv
  <2>7. Alone'
    BY <1>2 DEF Launch, Spawn, Goto, Alone, Waits, OrderInv
  <2>8. Heeded'
    <3>1. /\ pc = "launch" /\ pc' = "reboot" /\ waitSafe = idx + 1
          /\ UNCHANGED <<stop, fails, waitSafe, caseUnit, outcome, idx>>
          /\ \A t \in Tests : t # idx + 1 => job'[t] = job[t]
      BY <1>2 DEF Launch, Spawn, Goto, Waits, OrderInv, RunInv, TypeOK, CaseTypeOK
    <3>2. Heeded /\ fails \in Nat
      BY DEF OrderInv, RunInv, TypeOK, RunnerTypeOK
    <3>3. stop => fails = 0 /\ \A t \in Tests : ~Unsettled(t)
      BY <3>1, <3>2 DEF Heeded, Awaited, Dead
    <3>4. \A t \in Tests : t # idx + 1 /\ Unsettled(t)' => Unsettled(t)
      BY <3>1 DEF Unsettled
    <3>5. ASSUME NEW t \in Tests, t = idx + 1 PROVE Awaited(t)'
      BY <3>1, <3>5 DEF Awaited
    <3>6. stop' => fails' = 0 /\ \A t \in Tests : Unsettled(t)' => Awaited(t)'
      BY <3>1, <3>3, <3>4, <3>5
    <3>7. \A t \in Tests : Touched(t)' => t <= idx + 1
      BY <2>5, <3>1 DEF Frontier, InIteration
    <3>8. idx \in Nat /\ fails \in Nat /\ Tests \subseteq Nat
      BY DEF RunInv, TypeOK, RunnerTypeOK
    <3>9. \A t, u \in Tests : stop' /\ t < u /\ Unsettled(t)' => ~Touched(u)'
      BY <3>1, <3>6, <3>7, <3>8 DEF Awaited
    <3> QED
      BY <3>1, <3>6, <3>9 DEF Heeded
  <2> QED
    BY <2>2, <2>3, <2>4, <2>5, <2>6, <2>7, <2>8 DEF OrderInv, CaseInv
<1>3. CASE RebootFails
  <2>1. faults \subseteq {"powerloss"} => caseUnit = {} /\ job[waitSafe] = "exited"
    BY <1>3 DEF RebootFails, Waits, Alone, OrderInv, CaseInv, RunInv, TypeOK, CaseTypeOK
  <2>2. Armed' /\ HasDir'
    BY <1>3 DEF RebootFails, Forget, CasesButResult, Armed, HasDir, OrderInv, CaseInv
  <2>3. Unreported' /\ Reported'
    BY <1>3 DEF RebootFails, Forget, CasesButResult, Unreported, Reported, OrderInv, CaseInv
  <2>4. Fresh' /\ Frontier' /\ AtTest'
    BY <1>3
    DEF RebootFails, CasesButResult, Fresh, Frontier, Launched, Touched, Dead,
        InIteration, AtTest, OrderInv
  <2>5. Waits'
    BY <1>3 DEF RebootFails, Waits, OrderInv
  <2>6. Alone'
    BY <1>3, <2>1
    DEF RebootFails, CasesButResult, Alone, Body, Running, RunSteps, ResumeSteps,
        OrderInv
  <2>7. Heeded'
    BY <1>3
    DEF RebootFails, CasesButResult, Heeded, Unsettled, Awaited, Touched, Dead,
        OrderInv, RunInv, TypeOK, RunnerTypeOK
  <2> QED
    BY <2>2, <2>3, <2>4, <2>5, <2>6, <2>7 DEF OrderInv, CaseInv
<1>4. CASE RebootPasses
  <2>1. /\ waitSafe = idx + 1 /\ waitSafe \notin caseUnit /\ job[waitSafe] = "exited"
        /\ faults \subseteq {"powerloss"} => caseUnit = {}
    BY <1>4 DEF RebootPasses, ClearWait, Waits, Armed, Alone, OrderInv, CaseInv, Place
  <2>2. Armed' /\ HasDir'
    BY <1>4 DEF RebootPasses, Forget, CasesButResult, Armed, HasDir, OrderInv, CaseInv
  <2>3. Unreported' /\ Reported'
    BY <1>4
    DEF RebootPasses, ClearWait, Forget, CasesButResult, Unreported, Reported, OrderInv,
        CaseInv
  <2>4. Fresh' /\ Frontier' /\ AtTest'
    BY <1>4
    DEF RebootPasses, ClearWait, CasesButResult, Fresh, Frontier, Launched, Touched,
        Dead, InIteration, AtTest, OrderInv
  <2>5. Waits'
    BY <1>4 DEF RebootPasses, ClearWait, Waits
  <2>6. Alone'
    BY <1>4, <2>1
    DEF RebootPasses, ClearWait, CasesButResult, Alone, Body, Running, RunSteps,
        ResumeSteps, OrderInv
  <2>7. Heeded'
    BY <1>4, <2>1
    DEF RebootPasses, ClearWait, CasesButResult, Heeded, Unsettled, Awaited, Reports,
        Running, RunSteps, ResumeSteps, Dead, Waits, Reported, OrderInv, CaseInv
  <2> QED
    BY <2>2, <2>3, <2>4, <2>5, <2>6, <2>7 DEF OrderInv, CaseInv
<1>5. CASE ShellBegins
  <2>1. Armed' /\ HasDir'
    BY <1>5 DEF ShellBegins, Armed, HasDir, OrderInv, CaseInv
  <2>2. Unreported' /\ Reported'
    BY <1>5 DEF ShellBegins, Unreported, Reported, OrderInv, CaseInv
  <2>3. Fresh' /\ Frontier' /\ AtTest'
    BY <1>5
    DEF ShellBegins, Fresh, Frontier, Launched, Touched, Dead, AtTest, OrderInv, RunInv,
        Place
  <2>4. Waits'
    BY <1>5 DEF ShellBegins, Waits, OrderInv
  <2>5. Alone'
    BY <1>5 DEF ShellBegins, Alone, OrderInv
  <2>6. Heeded'
    BY <1>5 DEF ShellBegins, Heeded, Unsettled, Awaited, Dead, OrderInv
  <2> QED
    BY <2>1, <2>2, <2>3, <2>4, <2>5, <2>6 DEF OrderInv, CaseInv
<1>6. CASE \E v \in {"OK", "NG"} : ShellEnds(v)
  <2>1. idx + 1 \in Tests /\ job[idx + 1] = "none" /\ idx + 1 \notin caseUnit
    BY <1>6 DEF ShellEnds, AtTest, Reported, OrderInv, CaseInv, RunInv, TypeOK, CaseTypeOK
  <2>2. Armed' /\ HasDir'
    BY <1>6, <2>1 DEF ShellEnds, Forget, Armed, HasDir, OrderInv, CaseInv
  <2>3. Unreported'
    <3>1. job' = job /\ caseUnit' = caseUnit
      BY <1>6 DEF ShellEnds
    <3>2. \A u \in Tests : u # idx + 1 => outcome'[u] = outcome[u]
      BY <1>6 DEF ShellEnds, Current, RunInv, TypeOK, CaseTypeOK
    <3>3. job[idx + 1] \notin Reports
      BY <2>1 DEF Reports, Running, RunSteps, ResumeSteps
    <3> QED
      BY <2>1, <3>1, <3>2, <3>3 DEF Unreported, OrderInv, CaseInv
  <2>4. Reported'
    BY <1>6 DEF ShellEnds, Forget, Reported, AtTest, OrderInv, CaseInv, Place, InIteration
  <2>5. Fresh' /\ Frontier' /\ AtTest'
    BY <1>6
    DEF ShellEnds, Fresh, Frontier, Launched, Touched, Dead, InIteration, AtTest,
        OrderInv
  <2>6. Waits'
    BY <1>6 DEF ShellEnds, Waits, OrderInv
  <2>7. Alone'
    BY <1>6 DEF ShellEnds, Alone, OrderInv
  <2>8. Heeded'
    BY <1>6
    DEF ShellEnds, Heeded, Unsettled, Awaited, Touched, Dead, Frontier, InIteration,
        OrderInv, RunInv, TypeOK, RunnerTypeOK
  <2> QED
    BY <2>2, <2>3, <2>4, <2>5, <2>6, <2>7, <2>8 DEF OrderInv, CaseInv
<1> QED
  BY <1>1, <1>2, <1>3, <1>4, <1>5, <1>6

----------------------------------------------------------------------------
(* The steps of a script *)

\* A step that launches, begins and unsettles no other test keeps the order of the run.
LEMMA RunKept ==
  ASSUME Frontier, AtTest, Heeded, pc \notin {"prepare", "install"},
         UNCHANGED <<kinds, stop, index, fails, waitSafe, unit, pc, idx, failures>>,
         \A t \in Tests :
            /\ Launched(t)' => Launched(t)
            /\ Touched(t)' => Touched(t)
            /\ Unsettled(t)' => Unsettled(t),
         pc \in InIteration => idx + 1 \in Tests
  PROVE  Fresh' /\ Frontier' /\ AtTest' /\ Heeded'
<1>1. Fresh'
  BY DEF Fresh
<1>2. Frontier'
  BY DEF Frontier, Dead
<1>3. AtTest'
  BY DEF AtTest, InIteration
<1>4. Heeded'
  BY DEF Heeded, Dead, Awaited
<1> QED
  BY <1>1, <1>2, <1>3, <1>4

LEMMA ScriptStepsOrdered ==
  ASSUME RunInv, RunInv', OrderInv, NEW t \in Tests, ScriptStep(t)
  PROVE  OrderInv'
<1> USE DEF Goto
<1>1. UNCHANGED <<kinds, stop, faults, index, fails, waitSafe, waitResult, unit, summary, pc, idx,
                  failures>>
  BY DEF ScriptStep, runnerVars, configVars, diskVars
<1>20. pc \notin {"prepare", "install"} /\ (pc \in InIteration => idx + 1 \in Tests)
  <2>1. job[t] # "none"
    BY DEF ScriptStep, CaseStep, CaseStart, PrePasses, Arm, RebootIssued,
        RebootNotNeeded, WritePending, CaseResume, Disarm, Report, Sweep, Leave, PreEnds,
        RebootRefused, PostEnds
  <2>2. pc \notin {"prepare", "install"}
    BY <2>1 DEF OrderInv, Fresh
  <2>3. idx \in Nat /\ (pc \in InIteration => idx < N)
    BY DEF RunInv, TypeOK, RunnerTypeOK, Place
  <2> QED
    BY NAssumption, <2>2, <2>3 DEF Tests
<1>2. CASE CaseStart(t)
  <2>1. Armed' /\ HasDir'
    BY <1>2 DEF CaseStart, Armed, HasDir, OrderInv, CaseInv
  <2>2. Unreported' /\ Reported'
    BY <1>1, <1>2
    DEF CaseStart, Unreported, Reports, Running, RunSteps, Reported, OrderInv, CaseInv
  <2>3. Waits' /\ Alone'
    BY <1>1, <1>2 DEF CaseStart, Waits, RunSteps, Alone, Body, Running, OrderInv
  <2>4. \A u \in Tests :
            /\ Launched(u)' => Launched(u)
            /\ Touched(u)' => Touched(u)
            /\ Unsettled(u)' => Unsettled(u)
    BY <1>1, <1>2 DEF CaseStart, Launched, Touched, Unsettled, Reports, Running, RunSteps
  <2> QED
    BY <1>1, <1>20, <2>1, <2>2, <2>3, <2>4, RunKept DEF OrderInv, CaseInv
<1>3. CASE PrePasses(t)
  <2>1. Armed' /\ HasDir'
    BY <1>3 DEF PrePasses, Armed, HasDir, Running, RunSteps, OrderInv, CaseInv
  <2>2. Unreported' /\ Reported'
    BY <1>1, <1>3
    DEF PrePasses, Unreported, Reports, Running, RunSteps, Reported, OrderInv, CaseInv
  <2>3. Waits' /\ Alone'
    BY <1>1, <1>3 DEF PrePasses, Waits, RunSteps, Alone, Body, Running, OrderInv
  <2>4. \A u \in Tests :
            /\ Launched(u)' => Launched(u)
            /\ Touched(u)' => Touched(u)
            /\ Unsettled(u)' => Unsettled(u)
    BY <1>1, <1>3 DEF PrePasses, Launched, Touched, Unsettled, Reports, Running, RunSteps
  <2> QED
    BY <1>1, <1>20, <2>1, <2>2, <2>3, <2>4, RunKept DEF OrderInv, CaseInv
<1>4. CASE Arm(t)
  <2>1. Armed' /\ HasDir'
    BY <1>4
    DEF Arm, Armed, HasDir, Running, RunSteps, OrderInv, CaseInv, RunInv, TypeOK,
        CaseTypeOK
  <2>2. Unreported' /\ Reported'
    BY <1>1, <1>4
    DEF Arm, Unreported, Reports, Running, RunSteps, Reported, OrderInv, CaseInv
  <2>3. Waits' /\ Alone'
    BY <1>1, <1>4 DEF Arm, Waits, RunSteps, Alone, Body, Running, OrderInv
  <2>4. \A u \in Tests :
            /\ Launched(u)' => Launched(u)
            /\ Touched(u)' => Touched(u)
            /\ Unsettled(u)' => Unsettled(u)
    BY <1>1, <1>4 DEF Arm, Launched, Touched, Unsettled, Reports, Running, RunSteps
  <2> QED
    BY <1>1, <1>20, <2>1, <2>2, <2>3, <2>4, RunKept DEF OrderInv, CaseInv
<1>5. CASE RebootIssued(t)
  <2>1. Armed' /\ HasDir'
    BY <1>5 DEF RebootIssued, Armed, HasDir, Running, RunSteps, OrderInv, CaseInv
  <2>2. Unreported' /\ Reported'
    BY <1>1, <1>5
    DEF RebootIssued, Unreported, Reports, Running, RunSteps, Reported, OrderInv,
        CaseInv
  <2>3. Waits' /\ Alone'
    BY <1>1, <1>5 DEF RebootIssued, Waits, RunSteps, Alone, Body, Running, OrderInv
  <2>4. \A u \in Tests :
            /\ Launched(u)' => Launched(u)
            /\ Touched(u)' => Touched(u)
            /\ Unsettled(u)' => Unsettled(u)
    BY <1>1, <1>5 DEF RebootIssued, Launched, Touched, Unsettled, Reports, Running, RunSteps
  <2> QED
    BY <1>1, <1>20, <2>1, <2>2, <2>3, <2>4, RunKept DEF OrderInv, CaseInv
<1>6. CASE RebootNotNeeded(t)
  <2>1. Armed' /\ HasDir'
    BY <1>6 DEF RebootNotNeeded, Armed, HasDir, Running, RunSteps, OrderInv, CaseInv
  <2>2. Unreported' /\ Reported'
    BY <1>1, <1>6
    DEF RebootNotNeeded, Unreported, Reports, Running, RunSteps, Reported, OrderInv,
        CaseInv
  <2>3. Waits' /\ Alone'
    BY <1>1, <1>6 DEF RebootNotNeeded, Waits, RunSteps, Alone, Body, Running, OrderInv
  <2>4. \A u \in Tests :
            /\ Launched(u)' => Launched(u)
            /\ Touched(u)' => Touched(u)
            /\ Unsettled(u)' => Unsettled(u)
    BY <1>1, <1>6
    DEF RebootNotNeeded, Launched, Touched, Unsettled, Reports, Running, RunSteps
  <2> QED
    BY <1>1, <1>20, <2>1, <2>2, <2>3, <2>4, RunKept DEF OrderInv, CaseInv
<1>7. CASE WritePending(t)
  <2>1. Armed' /\ HasDir'
    BY <1>7 DEF WritePending, Armed, HasDir, OrderInv, CaseInv, RunInv, TypeOK, CaseTypeOK
  <2>2. Unreported' /\ Reported'
    BY <1>1, <1>7
    DEF WritePending, Unreported, Reports, Running, RunSteps, Reported, OrderInv,
        CaseInv
  <2>3. Waits' /\ Alone'
    BY <1>1, <1>7
    DEF WritePending, Waits, RunSteps, Alone, Body, OrderInv, RunInv, TypeOK, CaseTypeOK
  <2>4. \A u \in Tests :
            /\ Launched(u)' => Launched(u)
            /\ Touched(u)' => Touched(u)
            /\ Unsettled(u)' => Unsettled(u)
    BY <1>1, <1>7 DEF WritePending, Launched, Touched, Unsettled, Reports
  <2> QED
    BY <1>1, <1>20, <2>1, <2>2, <2>3, <2>4, RunKept DEF OrderInv, CaseInv
<1>8. CASE CaseResume(t)
  <2>1. Armed' /\ HasDir'
    BY <1>8 DEF CaseResume, Armed, HasDir, OrderInv, CaseInv
  <2>2. Unreported' /\ Reported'
    BY <1>1, <1>8
    DEF CaseResume, Unreported, Reports, Running, ResumeSteps, Reported, OrderInv,
        CaseInv
  <2>3. Waits' /\ Alone'
    BY <1>1, <1>8
    DEF CaseResume, Waits, RunSteps, Alone, Body, Running, ResumeSteps, OrderInv
  <2>4. \A u \in Tests :
            /\ Launched(u)' => Launched(u)
            /\ Touched(u)' => Touched(u)
            /\ Unsettled(u)' => Unsettled(u)
    BY <1>1, <1>8
    DEF CaseResume, Launched, Touched, Unsettled, Reports, Running, ResumeSteps
  <2> QED
    BY <1>1, <1>20, <2>1, <2>2, <2>3, <2>4, RunKept DEF OrderInv, CaseInv
<1>9. CASE Disarm(t)
  <2>1. Armed' /\ HasDir'
    BY <1>9 DEF Disarm, Armed, HasDir, Running, ResumeSteps, OrderInv, CaseInv
  <2>2. Unreported' /\ Reported'
    BY <1>1, <1>9
    DEF Disarm, Unreported, Reports, Running, ResumeSteps, Reported, OrderInv, CaseInv
  <2>3. Waits' /\ Alone'
    BY <1>1, <1>9 DEF Disarm, Waits, RunSteps, Alone, Body, Running, ResumeSteps, OrderInv
  <2>4. \A u \in Tests :
            /\ Launched(u)' => Launched(u)
            /\ Touched(u)' => Touched(u)
            /\ Unsettled(u)' => Unsettled(u)
    BY <1>1, <1>9 DEF Disarm, Launched, Touched, Unsettled, Reports, Running, ResumeSteps
  <2> QED
    BY <1>1, <1>20, <2>1, <2>2, <2>3, <2>4, RunKept DEF OrderInv, CaseInv
<1>10. CASE Report(t)
  <2>1. Armed' /\ HasDir'
    BY <1>10 DEF Report, Armed, HasDir, Running, ResumeSteps, OrderInv, CaseInv
  <2>2. Unreported' /\ Reported'
    BY <1>1, <1>10
    DEF Report, Unreported, Reports, Reported, Armed, OrderInv, CaseInv, RunInv, TypeOK,
        CaseTypeOK
  <2>3. Waits' /\ Alone'
    BY <1>1, <1>10 DEF Report, Waits, RunSteps, Alone, Body, Running, ResumeSteps, OrderInv
  <2>4. \A u \in Tests :
            /\ Launched(u)' => Launched(u)
            /\ Touched(u)' => Touched(u)
            /\ Unsettled(u)' => Unsettled(u)
    BY <1>1, <1>10 DEF Report, Launched, Touched, Unsettled, Reports, Running, ResumeSteps
  <2> QED
    BY <1>1, <1>20, <2>1, <2>2, <2>3, <2>4, RunKept DEF OrderInv, CaseInv
<1>11. CASE Sweep(t)
  <2>1. Armed' /\ HasDir'
    BY <1>11 DEF Sweep, Armed, HasDir, OrderInv, CaseInv, RunInv, TypeOK, CaseTypeOK
  <2>2. Unreported' /\ Reported'
    BY <1>1, <1>11 DEF Sweep, Unreported, Reports, Reported, OrderInv, CaseInv
  <2>3. Waits' /\ Alone'
    BY <1>1, <1>11 DEF Sweep, Waits, RunSteps, Alone, Body, Armed, OrderInv, CaseInv
  <2>4. \A u \in Tests :
            /\ Launched(u)' => Launched(u)
            /\ Touched(u)' => Touched(u)
            /\ Unsettled(u)' => Unsettled(u)
    BY <1>1, <1>11 DEF Sweep, Launched, Touched, Unsettled, Reports
  <2> QED
    BY <1>1, <1>20, <2>1, <2>2, <2>3, <2>4, RunKept DEF OrderInv, CaseInv
<1>12. CASE Leave(t)
  <2>1. Armed' /\ HasDir'
    BY <1>12 DEF Leave, Armed, HasDir, Running, RunSteps, ResumeSteps, OrderInv, CaseInv
  <2>2. Unreported' /\ Reported'
    BY <1>1, <1>12
    DEF Leave, Unreported, Reports, Running, RunSteps, ResumeSteps, Reported, OrderInv,
        CaseInv
  <2>3. Waits' /\ Alone'
    BY <1>1, <1>12 DEF Leave, Waits, RunSteps, Alone, Body, Running, ResumeSteps, OrderInv
  <2>4. \A u \in Tests :
            /\ Launched(u)' => Launched(u)
            /\ Touched(u)' => Touched(u)
            /\ Unsettled(u)' => Unsettled(u)
    BY <1>1, <1>12
    DEF Leave, Launched, Touched, Unsettled, Reports, Running, RunSteps, ResumeSteps
  <2> QED
    BY <1>1, <1>20, <2>1, <2>2, <2>3, <2>4, RunKept DEF OrderInv, CaseInv
<1>13. CASE \E v \in {"OK", "NG"} : PreEnds(t, v)
  <2>1. Armed' /\ HasDir'
    BY <1>13 DEF PreEnds, Armed, HasDir, Running, RunSteps, OrderInv, CaseInv
  <2>2. Unreported' /\ Reported'
    BY <1>1, <1>13
    DEF PreEnds, Unreported, Reports, Running, RunSteps, Reported, OrderInv, CaseInv
  <2>3. Waits' /\ Alone'
    BY <1>1, <1>13 DEF PreEnds, Waits, RunSteps, Alone, Body, Running, OrderInv
  <2>4. \A u \in Tests :
            /\ Launched(u)' => Launched(u)
            /\ Touched(u)' => Touched(u)
            /\ Unsettled(u)' => Unsettled(u)
    BY <1>1, <1>13 DEF PreEnds, Launched, Touched, Unsettled, Reports, Running, RunSteps
  <2> QED
    BY <1>1, <1>20, <2>1, <2>2, <2>3, <2>4, RunKept DEF OrderInv, CaseInv
<1>14. CASE \E v \in {"OK", "NG"} : RebootRefused(t, v)
  <2>1. Armed' /\ HasDir'
    BY <1>14 DEF RebootRefused, Armed, HasDir, Running, RunSteps, OrderInv, CaseInv
  <2>2. Unreported' /\ Reported'
    BY <1>1, <1>14
    DEF RebootRefused, Unreported, Reports, Running, RunSteps, Reported, OrderInv,
        CaseInv
  <2>3. Waits' /\ Alone'
    BY <1>1, <1>14 DEF RebootRefused, Waits, RunSteps, Alone, Body, Running, OrderInv
  <2>4. \A u \in Tests :
            /\ Launched(u)' => Launched(u)
            /\ Touched(u)' => Touched(u)
            /\ Unsettled(u)' => Unsettled(u)
    BY <1>1, <1>14
    DEF RebootRefused, Launched, Touched, Unsettled, Reports, Running, RunSteps
  <2> QED
    BY <1>1, <1>20, <2>1, <2>2, <2>3, <2>4, RunKept DEF OrderInv, CaseInv
<1>15. CASE \E v \in {"OK", "NG"} : PostEnds(t, v)
  <2>1. Armed' /\ HasDir'
    BY <1>15 DEF PostEnds, Armed, HasDir, Running, ResumeSteps, OrderInv, CaseInv
  <2>2. Unreported' /\ Reported'
    BY <1>1, <1>15
    DEF PostEnds, Unreported, Reports, Running, ResumeSteps, Reported, OrderInv, CaseInv
  <2>3. Waits' /\ Alone'
    BY <1>1, <1>15
    DEF PostEnds, Waits, RunSteps, Alone, Body, Running, ResumeSteps, OrderInv
  <2>4. \A u \in Tests :
            /\ Launched(u)' => Launched(u)
            /\ Touched(u)' => Touched(u)
            /\ Unsettled(u)' => Unsettled(u)
    BY <1>1, <1>15 DEF PostEnds, Launched, Touched, Unsettled, Reports, Running, ResumeSteps
  <2> QED
    BY <1>1, <1>20, <2>1, <2>2, <2>3, <2>4, RunKept DEF OrderInv, CaseInv
<1> QED
  BY <1>2, <1>3, <1>4, <1>5, <1>6, <1>7, <1>8, <1>9, <1>10, <1>11, <1>12, <1>13, <1>14,
     <1>15
  DEF ScriptStep, CaseStep

LEMMA KillScriptOrdered ==
  ASSUME RunInv, RunInv', OrderInv, NEW t \in Tests, KillScript(t)
  PROVE  OrderInv'
<1> USE NAssumption DEF Goto, Tests, Torn, KillScript, Terminated, runnerVars, configVars, diskVars
<1>1. UNCHANGED <<kinds, stop, faults, index, fails, waitSafe, waitResult, unit, summary, pc, idx,
                  failures>>
  OBVIOUS
<1>2. pc \notin {"prepare", "install"} /\ (pc \in InIteration => idx + 1 \in Tests)
  <2>1. job[t] # "none"
    BY DEF Running, RunSteps, ResumeSteps
  <2> QED
    BY <2>1 DEF RunInv, TypeOK, RunnerTypeOK, Place
<1>3. Armed' /\ HasDir'
  BY DEF Armed, HasDir, Running, RunSteps, ResumeSteps, OrderInv, CaseInv, RunInv,
      TypeOK, CaseTypeOK
<1>4. Unreported' /\ Reported'
  BY DEF Unreported, Reports, Running, RunSteps, ResumeSteps, Reported, OrderInv, CaseInv
<1>5. Waits' /\ Alone'
  BY DEF Waits, RunSteps, Alone, OrderInv
<1>6. \A u \in Tests :
            /\ Launched(u)' => Launched(u)
            /\ Touched(u)' => Touched(u)
            /\ Unsettled(u)' => Unsettled(u)
  BY DEF Launched, Touched, Unsettled, Reports, Running, RunSteps, ResumeSteps
<1> QED
  BY <1>2, <1>3, <1>4, <1>5, <1>6, RunKept DEF OrderInv, CaseInv

----------------------------------------------------------------------------
(* The machine *)

LEMMA KillRunnerOrdered ==
  ASSUME RunInv, RunInv', OrderInv, KillRunner
  PROVE  OrderInv'
<1> USE NAssumption DEF Tests, Torn, KillRunner, caseVars, configVars, diskVars
<1>1. CaseInv'
  BY CaseInvKept DEF OrderInv
<1>2. Fresh' /\ Frontier' /\ AtTest'
  BY DEF Fresh, Frontier, Launched, Touched, Dead, InIteration, AtTest, OrderInv
<1>3. Waits'
  BY DEF Waits, OrderInv
<1>4. Alone'
  BY DEF Alone, OrderInv
<1>5. Heeded'
  BY DEF Heeded, Unsettled, Awaited, Touched, Dead, OrderInv
<1> QED
  BY <1>1, <1>2, <1>3, <1>4, <1>5 DEF OrderInv

\* After a boot only the scripts that have a unit run, at their second part.
LEMMA BootOrdered ==
  ASSUME RunInv, RunInv', OrderInv, Boot, BootRunner,
         index' = index \/ (index' = Torn /\ pc # "prepare" /\ pc # "install")
  PROVE  OrderInv'
<1> USE NAssumption DEF Tests, Torn, Boot, BootRunner, configVars
<1>1. Armed' /\ HasDir'
  BY DEF Armed, HasDir, Running, RunSteps, ResumeSteps, OrderInv, CaseInv, RunInv,
      TypeOK, CaseTypeOK
<1>2. Unreported' /\ Reported'
  BY DEF Unreported, Reports, Running, RunSteps, ResumeSteps, Reported, OrderInv, CaseInv
<1>3. Frontier'
  <2>1. \A t \in Tests : (Launched(t)' => Launched(t)) /\ (Touched(t)' => Touched(t))
    BY DEF Launched, Touched
  <2>2. (Dead => Dead') /\ pc' \notin InIteration
    BY DEF Dead, InIteration
  <2>3. ASSUME NEW t \in Tests PROVE (t <= index => t <= index') /\ (t <= index + 1 => t <= index' + 1)
    <3>1. index \in Nat /\ N \in Nat /\ t \in Nat /\ t <= N
      BY DEF RunInv, TypeOK, RunnerTypeOK
    <3>2. index' = index \/ index' = N + 1
      OBVIOUS
    <3> QED
      OBVIOUS
  <2> QED
    BY <2>1, <2>2 DEF OrderInv, Frontier
<1>4. Fresh' /\ AtTest'
  BY DEF Fresh, AtTest
<1>5. Waits'
  BY DEF Waits, RunSteps, OrderInv
<1>6. Alone'
  BY DEF Alone, Body, Running, RunSteps, ResumeSteps, OrderInv, RunInv, TypeOK, CaseTypeOK
<1>7. Heeded'
  BY DEF Heeded, Unsettled, Awaited, Touched, Reports, Running, RunSteps, ResumeSteps,
      Dead, OrderInv
<1> QED
  BY <1>1, <1>2, <1>3, <1>4, <1>5, <1>6, <1>7 DEF OrderInv, CaseInv

LEMMA OrderInvInit == Init => OrderInv
<1> SUFFICES ASSUME Init PROVE OrderInv
  OBVIOUS
<1> USE DEF Init, CaseInit
<1>1. CaseInv
  BY DEF CaseInv, Armed, HasDir, Running, RunSteps, ResumeSteps, Unreported, Reported
<1>2. Fresh /\ Frontier /\ AtTest
  BY DEF Fresh, Frontier, Launched, Touched, AtTest
<1>3. Waits /\ Alone /\ Heeded
  BY DEF Waits, RunSteps, Alone, Body, Running, ResumeSteps, Heeded, Unsettled, Reports
<1> QED
  BY <1>1, <1>2, <1>3 DEF OrderInv

LEMMA OrderInvNext == RunInv /\ RunInv' /\ OrderInv /\ [Next]_vars => OrderInv'
<1> SUFFICES ASSUME RunInv, RunInv', OrderInv, [Next]_vars PROVE OrderInv'
  OBVIOUS
<1>1. CASE RunnerStep /\ UNCHANGED crashes
  BY <1>1, QuietStepsOrdered, LoudStepsOrdered DEF RunnerStep
<1>2. CASE \E t \in Tests : ScriptStep(t) \/ KillScript(t)
  BY <1>2, ScriptStepsOrdered, KillScriptOrdered
<1>3. CASE KillRunner
  BY <1>3, KillRunnerOrdered
<1>4. CASE Reboot
  BY <1>4, BootOrdered DEF Reboot
<1>5. CASE PowerLoss
  BY <1>5, BootOrdered DEF PowerLoss
<1>6. CASE UNCHANGED vars
  <2>1. CaseInv'
    BY <1>6, CaseInvKept DEF OrderInv, vars, runnerVars
  <2>2. Fresh' /\ Frontier' /\ AtTest' /\ Waits'
    BY <1>6
    DEF OrderInv, Fresh, Frontier, AtTest, Waits, Launched, Touched, Dead, vars,
        caseVars, runnerVars, configVars, diskVars
  <2>3. Alone' /\ Heeded'
    BY <1>6
    DEF OrderInv, Alone, Heeded, Unsettled, Awaited, Touched, Dead, vars, caseVars,
        runnerVars, configVars, diskVars
  <2> QED
    BY <2>1, <2>2, <2>3 DEF OrderInv
<1> QED
  BY <1>1, <1>2, <1>3, <1>4, <1>5, <1>6 DEF Next

----------------------------------------------------------------------------
LEMMA OrderInvariant == Spec => [](RunInv /\ OrderInv)
  BY RunInvInit, RunInvNext, OrderInvInit, OrderInvNext, PTL DEF Spec

\* The tests of a run do not overlap, checks and cleanup included, for every number of
\* tests and however often the power fails at whatever point, unless a script outlives
\* the time the runner waits for it or is killed before the runner on the way down.
THEOREM TestsRunOneAtATime == Spec => []OneAtATime
<1>1. RunInv /\ OrderInv => OneAtATime
  <2> SUFFICES ASSUME RunInv, OrderInv, faults \subseteq {"powerloss"},
                      NEW t \in Tests, NEW u \in Tests, InBody(t), InBody(u)
               PROVE  t = u
    BY DEF OneAtATime, NoOverlap
  <2>1. job[t] \in Body => t = waitSafe /\ pc # "shell"
    BY DEF OrderInv, Alone
  <2>2. job[u] \in Body => u = waitSafe /\ pc # "shell"
    BY DEF OrderInv, Alone
  <2> QED
    BY <2>1, <2>2 DEF InBody, Body
<1> QED
  BY <1>1, OrderInvariant, PTL

\* With "Stop on NG" no test begins after one that came to NG, for every number of tests,
\* whichever processes are killed and however often the power fails: no failure is lost
\* on its way through the files that outlive a boot.
THEOREM StopOnFailureSkipsRest == Spec => []StopSkipsRest
<1>1. RunInv /\ OrderInv => StopSkipsRest
  <2> SUFFICES ASSUME RunInv, OrderInv, stop,
                      NEW t \in Tests, NEW u \in Tests, t < u, outcome[t] = "NG"
               PROVE  began[u] = 0
    BY DEF StopSkipsRest
  <2>1. ~Touched(u)
    BY DEF OrderInv, Heeded, Unsettled
  <2> QED
    BY <2>1 DEF Touched, RunInv, TypeOK, CaseTypeOK
<1> QED
  BY <1>1, OrderInvariant, PTL

----------------------------------------------------------------------------
(* How a run ends *)

\* The tests that came to NG.
Failed == {t \in Tests : outcome[t] = "NG"}

Done(t) == began[t] = 1 /\ outcome[t] \in {"OK", "NG"}
Untouched(t) == began[t] = 0 /\ outcome[t] = "none"

\* The tests up to n have ended, and none after m has begun.
Between(n, m) == \A t \in Tests : (t <= n => Done(t)) /\ (t > m => Untouched(t))

\* The runner has started a reboot test and not yet seen how it ended.
AtWork == waitSafe # 0 /\ pc \in {"reboot", "off", "resume", "waiting"}

\* How that test stands: its script has yet to report, or what it reported can be read.
InWork(c) ==
    /\ began[c] = IF job[c] = "start" THEN 0 ELSE 1
    /\ job[c] \in {"issue", "issued"} => c \in caseUnit
    /\ \/ job[c] \in Reports \/ c \in caseUnit
       \/ /\ job[c] \in {"sweep", "leave", "exited"}
          /\ outcome[c] \in {"OK", "NG"} /\ verdict[c] = outcome[c] /\ result[c] = outcome[c]
          /\ job[c] # "sweep" => c \notin stateDir

\* The machine goes down only under a test that has its unit and a runner that waits.
GoesDown ==
    goingDown =>
        /\ waitSafe \in caseUnit /\ unit /\ pc \in {"reboot", "off"}
        /\ job[waitSafe] \in {"issued", "leave", "exited"}

\* Where the run stands: which tests have ended, and which are untouched.
Standing ==
    /\ index <= N /\ (pc = "install" => index = 0)
    /\ AtWork => /\ index = waitSafe /\ waitResult = waitSafe
                 /\ InWork(waitSafe) /\ stateDir \subseteq {waitSafe}
                 /\ Between(index - 1, index)
    /\ ~AtWork => stateDir = {}
    /\ pc \in {"tallied", "counted", "check"} \/ (pc = "resume" /\ waitSafe = 0) =>
          Between(index, index)
    /\ pc \in {"loop", "mark", "launch"} => Between(idx, idx)
    /\ pc \in {"mark", "launch"} => index = idx + 1
    /\ pc = "shell" => Between(idx, idx + 1) /\ began[idx + 1] = 1 /\ outcome[idx + 1] = "none"
    /\ pc \in {"failed", "passed", "unmark", "stopcheck", "advance"} => Between(idx + 1, idx + 1)

\* What the counters hold.
Counts ==
    /\ AtWork => fails = Cardinality(Failed \ {waitSafe})
    /\ pc \in {"reboot", "shell"} => failures = fails
    /\ pc \in {"install", "counted", "check", "loop", "mark", "launch", "shell", "unmark",
               "stopcheck", "advance"} \/ (pc = "resume" /\ waitSafe = 0) =>
          fails = Cardinality(Failed)
    /\ pc \in {"tallied", "failed", "passed", "loop", "mark", "launch", "unmark", "advance",
               "retire"} =>
          failures = Cardinality(Failed)

\* How the run is over.
Ends ==
    /\ Over <=> pc \in {"retire", "erase"} \/ (pc = "off" /\ ~unit)
    /\ summary = "OK" => \A t \in Tests : Done(t) /\ outcome[t] = "OK"
    /\ pc = "off" => IF unit THEN waitSafe # 0 ELSE index = 0 /\ waitSafe = 0

Clean == GoesDown /\ Standing /\ Counts /\ Ends

EndInv == faults = {} => Clean

----------------------------------------------------------------------------
(* Counting *)

LEMMA FailedFinite ==
  /\ IsFiniteSet(Failed) /\ Cardinality(Failed) \in Nat
  /\ \A c : IsFiniteSet(Failed \ {c}) /\ Cardinality(Failed \ {c}) \in Nat
<1>1. IsFiniteSet(Tests)
  BY FS_Interval, NAssumption DEF Tests
<1>2. IsFiniteSet(Failed)
  BY <1>1, FS_Subset DEF Failed
<1>3. \A c : IsFiniteSet(Failed \ {c})
  BY <1>2, FS_Subset
<1> QED
  BY <1>2, <1>3, FS_CardinalityType

\* The one test left out counts if it failed.
LEMMA CountedIn ==
  ASSUME NEW c \in Tests
  PROVE  Cardinality(Failed) = Cardinality(Failed \ {c}) + (IF outcome[c] = "NG" THEN 1 ELSE 0)
<1>1. CASE outcome[c] = "NG"
  <2>1. c \in Failed
    BY <1>1 DEF Failed
  <2>2. Cardinality(Failed \ {c}) = Cardinality(Failed) - 1
    BY <2>1, FailedFinite, FS_RemoveElement
  <2> QED
    BY <1>1, <2>2, FailedFinite
<1>2. CASE outcome[c] # "NG"
  <2>1. Failed \ {c} = Failed
    BY <1>2 DEF Failed
  <2> QED
    BY <1>2, <2>1, FailedFinite
<1> QED
  BY <1>1, <1>2

\* Until it has come to a verdict it does not count.
LEMMA NotYetCounted ==
  ASSUME NEW c \in Tests, outcome[c] = "none"
  PROVE  Failed \ {c} = Failed
  BY DEF Failed

LEMMA NoneFailed ==
  ASSUME Cardinality(Failed) = 0
  PROVE  \A t \in Tests : outcome[t] # "NG"
<1>1. Failed = {}
  BY FailedFinite, FS_EmptySet
<1> QED
  BY <1>1 DEF Failed

----------------------------------------------------------------------------
LEMMA EndInit == Init => Clean
<1> SUFFICES ASSUME Init PROVE Clean
  OBVIOUS
<1> USE DEF Init, CaseInit
<1>1. GoesDown /\ Ends
  BY DEF GoesDown, Ends, Over
<1>2. Standing /\ Counts
  BY NAssumption DEF Standing, Counts, AtWork
<1> QED
  BY <1>1, <1>2 DEF Clean

----------------------------------------------------------------------------
\* A step of the runner that tells the scripts nothing.
LEMMA QuietStepsEnd ==
  ASSUME RunInv, RunInv', OrderInv, OrderInv', faults = {}, Clean,
            Prepare \/ Install \/ NothingWaiting \/ StartWaiting
         \/ SaveTally \/ EndWait \/ StopOnFailure \/ EnterLoop \/ KeepGoing
         \/ LoopEnds \/ Retire \/ Erase \/ PassBy \/ MarkSafe
         \/ RebootPending \/ SaveAfterFailure \/ SaveAfterPass \/ Unmark \/ Advance
  PROVE  Clean'
<1> DEFINE C == Cardinality(Failed)
<1>1. UNCHANGED caseVars
  BY DEF Prepare, Install, NothingWaiting, StartWaiting, SaveTally, EndWait, StopOnFailure, EnterLoop, KeepGoing,
     LoopEnds, Retire, Erase, PassBy, MarkSafe, RebootPending, SaveAfterFailure, SaveAfterPass, Unmark, Advance,
     Conclude, ClearWait, SaveFailures
<1>2. Failed' = Failed /\ C' = C /\ C \in Nat
  BY <1>1, FailedFinite DEF Failed, caseVars
<1>3. /\ index \in Nat /\ idx \in Nat /\ N \in Nat /\ fails \in Nat /\ failures \in Nat
      /\ index <= N
      /\ pc \in InIteration => idx < N /\ idx + 1 \in Tests
  BY NAssumption DEF RunInv, TypeOK, RunnerTypeOK, Place, Clean, Standing, Tests, Torn
<1> USE DEF RunnerGoto, Conclude, ClearWait, SaveFailures, configVars, diskVars, caseVars
<1>4. CASE Prepare
  <2>1. GoesDown'
    BY <1>1, <1>4 DEF Prepare, Clean, GoesDown, RunInv, Place
  <2>2. Standing'
    BY <1>1, <1>3, <1>4 DEF Prepare, Clean, Standing, AtWork, InWork, Between, Done, Untouched, OrderInv, Waits, Fresh
  <2>3. Counts'
    <3>1. Failed = {} /\ Cardinality(Failed) = 0
      BY <1>4, FS_EmptySet DEF Prepare, OrderInv, Fresh, Failed
    <3> QED
      BY <1>1, <1>2, <3>1, <1>4 DEF Prepare, Counts, AtWork
  <2>4. Ends'
    BY <1>1, <1>2, <1>3, <1>4 DEF Prepare, Clean, Ends, Over
  <2> QED
    BY <2>1, <2>2, <2>3, <2>4 DEF Clean
<1>5. CASE Install
  <2>1. GoesDown'
    BY <1>1, <1>5 DEF Install, Clean, GoesDown, RunInv, Place
  <2>2. Standing'
    BY <1>1, <1>3, <1>5 DEF Install, Clean, Standing, AtWork, Between, Done, Untouched, OrderInv, Waits, Fresh, Tests
  <2>3. Counts'
    BY <1>1, <1>2, <1>3, <1>5 DEF Install, Clean, Counts, AtWork, OrderInv, Waits
  <2>4. Ends'
    BY <1>1, <1>2, <1>3, <1>5 DEF Install, Clean, Ends, Over
  <2> QED
    BY <2>1, <2>2, <2>3, <2>4 DEF Clean
<1>6. CASE NothingWaiting
  <2>1. GoesDown'
    BY <1>1, <1>6 DEF NothingWaiting, Clean, GoesDown, RunInv, Place
  <2>2. Standing'
    BY <1>1, <1>3, <1>6 DEF NothingWaiting, Clean, Standing, AtWork, InWork, Between, Done, Untouched, OrderInv, Waits, Fresh
  <2>3. Counts'
    BY <1>1, <1>2, <1>3, <1>6 DEF NothingWaiting, Clean, Counts, AtWork, OrderInv, Waits
  <2>4. Ends'
    BY <1>1, <1>2, <1>3, <1>6 DEF NothingWaiting, Clean, Ends, Over
  <2> QED
    BY <2>1, <2>2, <2>3, <2>4 DEF Clean
<1>7. CASE StartWaiting
  <2>1. GoesDown'
    BY <1>1, <1>7 DEF StartWaiting, Clean, GoesDown, RunInv, Place
  <2>2. Standing'
    BY <1>1, <1>3, <1>7 DEF StartWaiting, Clean, Standing, AtWork, InWork, Between, Done, Untouched, OrderInv, Waits, Fresh
  <2>3. Counts'
    BY <1>1, <1>2, <1>3, <1>7 DEF StartWaiting, Clean, Counts, AtWork, OrderInv, Waits
  <2>4. Ends'
    BY <1>1, <1>2, <1>3, <1>7 DEF StartWaiting, Clean, Ends, Over
  <2> QED
    BY <2>1, <2>2, <2>3, <2>4 DEF Clean
<1>8. CASE SaveTally
  <2>1. GoesDown'
    BY <1>1, <1>8 DEF SaveTally, Clean, GoesDown, RunInv, Place
  <2>2. Standing'
    BY <1>1, <1>3, <1>8 DEF SaveTally, Clean, Standing, AtWork, InWork, Between, Done, Untouched, OrderInv, Waits, Fresh
  <2>3. Counts'
    BY <1>1, <1>2, <1>3, <1>8 DEF SaveTally, Clean, Counts, AtWork, OrderInv, Waits
  <2>4. Ends'
    BY <1>1, <1>2, <1>3, <1>8 DEF SaveTally, Clean, Ends, Over
  <2> QED
    BY <2>1, <2>2, <2>3, <2>4 DEF Clean
<1>9. CASE EndWait
  <2>1. GoesDown'
    BY <1>1, <1>9 DEF EndWait, Clean, GoesDown, RunInv, Place
  <2>2. Standing'
    BY <1>1, <1>3, <1>9 DEF EndWait, Clean, Standing, AtWork, InWork, Between, Done, Untouched, OrderInv, Waits, Fresh
  <2>3. Counts'
    BY <1>1, <1>2, <1>3, <1>9 DEF EndWait, Clean, Counts, AtWork, OrderInv, Waits
  <2>4. Ends'
    BY <1>1, <1>2, <1>3, <1>9 DEF EndWait, Clean, Ends, Over
  <2> QED
    BY <2>1, <2>2, <2>3, <2>4 DEF Clean
<1>10. CASE StopOnFailure
  <2>1. GoesDown'
    BY <1>1, <1>10 DEF StopOnFailure, Clean, GoesDown, RunInv, Place
  <2>2. Standing'
    BY <1>1, <1>3, <1>10 DEF StopOnFailure, Clean, Standing, AtWork, InWork, Between, Done, Untouched, OrderInv, Waits, Fresh
  <2>3. Counts'
    BY <1>1, <1>2, <1>3, <1>10 DEF StopOnFailure, Clean, Counts, AtWork, OrderInv, Waits
  <2>4. Ends'
    BY <1>1, <1>2, <1>3, <1>10 DEF StopOnFailure, Clean, Ends, Over
  <2> QED
    BY <2>1, <2>2, <2>3, <2>4 DEF Clean
<1>11. CASE EnterLoop
  <2>1. GoesDown'
    BY <1>1, <1>11 DEF EnterLoop, Clean, GoesDown, RunInv, Place
  <2>2. Standing'
    BY <1>1, <1>3, <1>11 DEF EnterLoop, Clean, Standing, AtWork, InWork, Between, Done, Untouched, OrderInv, Waits, Fresh
  <2>3. Counts'
    BY <1>1, <1>2, <1>3, <1>11 DEF EnterLoop, Clean, Counts, AtWork, OrderInv, Waits
  <2>4. Ends'
    BY <1>1, <1>2, <1>3, <1>11 DEF EnterLoop, Clean, Ends, Over
  <2> QED
    BY <2>1, <2>2, <2>3, <2>4 DEF Clean
<1>12. CASE KeepGoing
  <2>1. GoesDown'
    BY <1>1, <1>12 DEF KeepGoing, Clean, GoesDown, RunInv, Place
  <2>2. Standing'
    BY <1>1, <1>3, <1>12 DEF KeepGoing, Clean, Standing, AtWork, InWork, Between, Done, Untouched, OrderInv, Waits, Fresh
  <2>3. Counts'
    BY <1>1, <1>2, <1>3, <1>12 DEF KeepGoing, Clean, Counts, AtWork, OrderInv, Waits
  <2>4. Ends'
    BY <1>1, <1>2, <1>3, <1>12 DEF KeepGoing, Clean, Ends, Over
  <2> QED
    BY <2>1, <2>2, <2>3, <2>4 DEF Clean
<1>13. CASE LoopEnds
  <2>1. GoesDown'
    BY <1>1, <1>13 DEF LoopEnds, Clean, GoesDown, RunInv, Place
  <2>2. Standing'
    BY <1>1, <1>3, <1>13 DEF LoopEnds, Clean, Standing, AtWork, InWork, Between, Done, Untouched, OrderInv, Waits, Fresh
  <2>3. Counts'
    BY <1>1, <1>2, <1>3, <1>13 DEF LoopEnds, Clean, Counts, AtWork, OrderInv, Waits
  <2>4. Ends'
    <3>1. failures = 0 => \A t \in Tests : Done(t) /\ outcome[t] = "OK"
      <4>1. \A t \in Tests : t <= idx
        BY <1>3, <1>13 DEF LoopEnds, Tests
      <4>2. \A t \in Tests : Done(t)
        BY <4>1, <1>13 DEF LoopEnds, Clean, Standing, Between
      <4>3. failures = 0 => \A t \in Tests : outcome[t] # "NG"
        BY <1>13, NoneFailed DEF LoopEnds, Clean, Counts
      <4> QED
        BY <4>2, <4>3 DEF Done
    <3> QED
      BY <1>1, <1>13, <3>1 DEF LoopEnds, Ends, Over, Done
  <2> QED
    BY <2>1, <2>2, <2>3, <2>4 DEF Clean
<1>14. CASE Retire
  <2>1. GoesDown'
    BY <1>1, <1>14 DEF Retire, Clean, GoesDown, RunInv, Place
  <2>2. Standing'
    BY <1>1, <1>3, <1>14 DEF Retire, Clean, Standing, AtWork, InWork, Between, Done, Untouched, OrderInv, Waits, Fresh
  <2>3. Counts'
    BY <1>1, <1>2, <1>3, <1>14 DEF Retire, Clean, Counts, AtWork, OrderInv, Waits
  <2>4. Ends'
    BY <1>1, <1>14 DEF Retire, Clean, Ends, Over, Done, RunInv, Place, InIteration, OrderInv, Waits
  <2> QED
    BY <2>1, <2>2, <2>3, <2>4 DEF Clean
<1>15. CASE Erase
  <2>1. GoesDown'
    BY <1>1, <1>15 DEF Erase, Clean, GoesDown, RunInv, Place
  <2>2. Standing'
    BY <1>1, <1>3, <1>15 DEF Erase, Clean, Standing, AtWork, InWork, Between, Done, Untouched, OrderInv, Waits, Fresh
  <2>3. Counts'
    BY <1>1, <1>2, <1>3, <1>15 DEF Erase, Clean, Counts, AtWork, OrderInv, Waits
  <2>4. Ends'
    BY <1>1, <1>15 DEF Erase, Clean, Ends, Over, Done, RunInv, Place, InIteration, OrderInv, Waits
  <2> QED
    BY <2>1, <2>2, <2>3, <2>4 DEF Clean
<1>16. CASE PassBy
  <2>1. GoesDown'
    BY <1>1, <1>16 DEF PassBy, Clean, GoesDown, RunInv, Place
  <2>2. Standing'
    BY <1>1, <1>3, <1>16 DEF PassBy, Clean, Standing, AtWork, InWork, Between, Done, Untouched, OrderInv, Waits, Fresh
  <2>3. Counts'
    BY <1>1, <1>2, <1>3, <1>16 DEF PassBy, Clean, Counts, AtWork, OrderInv, Waits
  <2>4. Ends'
    BY <1>1, <1>2, <1>3, <1>16 DEF PassBy, Clean, Ends, Over
  <2> QED
    BY <2>1, <2>2, <2>3, <2>4 DEF Clean
<1>17. CASE MarkSafe
  <2>1. GoesDown'
    BY <1>1, <1>17 DEF MarkSafe, Clean, GoesDown, RunInv, Place
  <2>2. Standing'
    BY <1>1, <1>3, <1>17 DEF MarkSafe, Clean, Standing, AtWork, InWork, Between, Done, Untouched, OrderInv, Waits, Fresh
  <2>3. Counts'
    BY <1>1, <1>2, <1>3, <1>17 DEF MarkSafe, Clean, Counts, AtWork, OrderInv, Waits
  <2>4. Ends'
    BY <1>1, <1>2, <1>3, <1>17 DEF MarkSafe, Clean, Ends, Over
  <2> QED
    BY <2>1, <2>2, <2>3, <2>4 DEF Clean
<1>18. CASE RebootPending
  <2>1. GoesDown'
    BY <1>1, <1>18 DEF RebootPending, Clean, GoesDown, RunInv, Place
  <2>2. Standing'
    BY <1>1, <1>3, <1>18 DEF RebootPending, Clean, Standing, AtWork, InWork, Between, Done, Untouched, OrderInv, Waits, Fresh
  <2>3. Counts'
    BY <1>1, <1>2, <1>3, <1>18 DEF RebootPending, Clean, Counts, AtWork, OrderInv, Waits
  <2>4. Ends'
    BY <1>1, <1>3, <1>18 DEF RebootPending, Clean, Ends, Over, Done, RunInv, Place, InIteration, OrderInv, Waits
  <2> QED
    BY <2>1, <2>2, <2>3, <2>4 DEF Clean
<1>19. CASE SaveAfterFailure
  <2>1. GoesDown'
    BY <1>1, <1>19 DEF SaveAfterFailure, Clean, GoesDown, RunInv, Place
  <2>2. Standing'
    BY <1>1, <1>3, <1>19 DEF SaveAfterFailure, Clean, Standing, AtWork, InWork, Between, Done, Untouched, OrderInv, Waits, Fresh
  <2>3. Counts'
    BY <1>1, <1>2, <1>3, <1>19 DEF SaveAfterFailure, Clean, Counts, AtWork, OrderInv, Waits
  <2>4. Ends'
    BY <1>1, <1>2, <1>3, <1>19 DEF SaveAfterFailure, Clean, Ends, Over
  <2> QED
    BY <2>1, <2>2, <2>3, <2>4 DEF Clean
<1>20. CASE SaveAfterPass
  <2>1. GoesDown'
    BY <1>1, <1>20 DEF SaveAfterPass, Clean, GoesDown, RunInv, Place
  <2>2. Standing'
    BY <1>1, <1>3, <1>20 DEF SaveAfterPass, Clean, Standing, AtWork, InWork, Between, Done, Untouched, OrderInv, Waits, Fresh
  <2>3. Counts'
    BY <1>1, <1>2, <1>3, <1>20 DEF SaveAfterPass, Clean, Counts, AtWork, OrderInv, Waits
  <2>4. Ends'
    BY <1>1, <1>2, <1>3, <1>20 DEF SaveAfterPass, Clean, Ends, Over
  <2> QED
    BY <2>1, <2>2, <2>3, <2>4 DEF Clean
<1>21. CASE Unmark
  <2>1. GoesDown'
    BY <1>1, <1>21 DEF Unmark, Clean, GoesDown, RunInv, Place
  <2>2. Standing'
    BY <1>1, <1>3, <1>21 DEF Unmark, Clean, Standing, AtWork, InWork, Between, Done, Untouched, OrderInv, Waits, Fresh
  <2>3. Counts'
    BY <1>1, <1>2, <1>3, <1>21 DEF Unmark, Clean, Counts, AtWork, OrderInv, Waits
  <2>4. Ends'
    BY <1>1, <1>2, <1>3, <1>21 DEF Unmark, Clean, Ends, Over
  <2> QED
    BY <2>1, <2>2, <2>3, <2>4 DEF Clean
<1>22. CASE Advance
  <2>1. GoesDown'
    BY <1>1, <1>22 DEF Advance, Clean, GoesDown, RunInv, Place
  <2>2. Standing'
    <3>1. index' <= N /\ idx' = idx + 1 /\ pc = "advance" /\ pc' = "loop" /\ stateDir' = {}
      BY <1>1, <1>3, <1>22 DEF Advance, Clean, Standing, AtWork, InIteration
    <3>2. \A t \in Tests : (t <= idx + 1 => Done(t)') /\ (t > idx + 1 => Untouched(t)')
      BY <1>1, <3>1 DEF Clean, Standing, Between, Done, Untouched
    <3> QED
      BY <3>1, <3>2 DEF Standing, AtWork, Between
  <2>3. Counts'
    BY <1>1, <1>2, <1>3, <1>22 DEF Advance, Clean, Counts, AtWork, OrderInv, Waits
  <2>4. Ends'
    BY <1>1, <1>2, <1>3, <1>22 DEF Advance, Clean, Ends, Over
  <2> QED
    BY <2>1, <2>2, <2>3, <2>4 DEF Clean
<1> QED
  BY <1>4, <1>5, <1>6, <1>7, <1>8, <1>9, <1>10, <1>11, <1>12, <1>13, <1>14, <1>15, <1>16, <1>17, <1>18, <1>19, <1>20, <1>21, <1>22

----------------------------------------------------------------------------
\* The steps that start a test or take note of how it ended.
LEMMA LoudStepsEnd ==
  ASSUME RunInv, RunInv', OrderInv, OrderInv', faults = {}, Clean,
         WaitEnds \/ WaitTimesOut \/ Launch \/ RebootFails \/ RebootPasses \/ ShellBegins
            \/ \E v \in {"OK", "NG"} : ShellEnds(v)
  PROVE  Clean'
<1>1. /\ index \in Nat /\ idx \in Nat /\ N \in Nat /\ fails \in Nat /\ failures \in Nat
      /\ index <= N
      /\ pc \in InIteration => idx < N /\ idx + 1 \in Tests
      /\ waitSafe # 0 => waitSafe \in Tests
  <2>1. /\ index \in Nat /\ idx \in Nat /\ N \in Nat /\ fails \in Nat /\ failures \in Nat
        /\ waitSafe \in 0..N
    BY NAssumption DEF RunInv, TypeOK, RunnerTypeOK, Torn
  <2>2. index <= N
    BY DEF Clean, Standing
  <2>3. pc \in InIteration => idx < N
    BY DEF RunInv, Place
  <2> QED
    BY <2>1, <2>2, <2>3 DEF Tests
<1>2. CaseTypeOK
  BY DEF RunInv, TypeOK
<1> USE DEF RunnerGoto, configVars, diskVars, caseVars, CasesButResult, ClearWait, Forget
<1>3. CASE WaitEnds
  <2>1. /\ pc = "waiting" /\ pc' = "tallied" /\ waitSafe \in Tests /\ AtWork
        /\ waitSafe \notin stateDir /\ waitResult = waitSafe
    BY <1>1, <1>3 DEF WaitEnds, OrderInv, Waits, AtWork, Clean, Standing
  <2>2. outcome[waitSafe] \in {"OK", "NG"} /\ result[waitSafe] = outcome[waitSafe]
        /\ began[waitSafe] = 1
    <3>1. InWork(waitSafe) /\ job[waitSafe] \notin RunSteps
      BY <2>1 DEF Clean, Standing, OrderInv, Waits
    <3>2. waitSafe \notin caseUnit
      BY <2>1 DEF OrderInv, CaseInv, Armed
    <3>3. job[waitSafe] \notin Reports
      BY <2>1, <3>1 DEF OrderInv, CaseInv, HasDir, Reports, Running, RunSteps
    <3> QED
      BY <3>1, <3>2, <3>3 DEF InWork, RunSteps
  <2>3. /\ failures' = fails + CountNG(waitSafe)
        /\ UNCHANGED <<job, verdict, stateDir, caseUnit, goingDown, began, outcome>>
        /\ UNCHANGED <<index, fails, waitSafe, unit, summary, idx>>
    <3>1. waitResult # 0 /\ result[waitResult] # "none"
      BY <2>1, <2>2 DEF Tests
    <3> QED
      BY <2>1, <3>1, <1>3 DEF WaitEnds
  <2>4. Failed' = Failed
    BY <2>3 DEF Failed
  <2>5. failures' = Cardinality(Failed)
    BY <2>1, <2>2, <2>3, CountedIn DEF CountNG, Clean, Counts
  <2>6. stateDir' = {} /\ UNCHANGED <<index, waitSafe>>
    BY <2>1, <2>3 DEF Clean, Standing
  <2>7. \A t \in Tests : (t <= index => Done(t)) /\ (t > index => Untouched(t))
    <3>1. index = waitSafe /\ Between(index - 1, index)
      BY <2>1 DEF Clean, Standing
    <3> QED
      BY <3>1, <1>1, <2>2 DEF Between, Done, Tests
  <2>8. Standing'
    BY <1>1, <2>1, <2>3, <2>6, <2>7 DEF Standing, AtWork, Between, Done, Untouched
  <2>9. Counts'
    BY <2>1, <2>4, <2>5 DEF Counts, AtWork
  <2>10. GoesDown' /\ Ends'
    BY <2>1, <2>3 DEF Clean, GoesDown, Ends, Over, Done
  <2> QED
    BY <2>8, <2>9, <2>10 DEF Clean
<1>4. CASE WaitTimesOut
  <2>1. /\ pc = "waiting" /\ waitSafe \in Tests /\ AtWork /\ waitSafe \in stateDir
        /\ job[waitSafe] \notin Running
    BY <1>1, <1>4 DEF WaitTimesOut, OrderInv, Waits, AtWork
  <2>2. waitSafe \in caseUnit /\ job[waitSafe] = "exited"
    <3>1. InWork(waitSafe)
      BY <2>1 DEF Clean, Standing
    <3>2. waitSafe \in caseUnit
      BY <2>1, <3>1 DEF InWork, Reports, Running, ResumeSteps
    <3> QED
      BY <3>2, <2>1 DEF OrderInv, CaseInv, Armed, Running, RunSteps, ResumeSteps
  <2> QED
    BY <2>1, <2>2 DEF OrderInv, Alone
<1>5. CASE Launch
  <2>1. /\ pc = "launch" /\ pc' = "reboot" /\ waitSafe = idx + 1 /\ idx + 1 \in Tests
        /\ waitSafe # 0 /\ AtWork' /\ ~AtWork
        /\ waitResult' = waitSafe
        /\ UNCHANGED <<index, fails, waitSafe, unit, summary, idx, failures>>
        /\ UNCHANGED <<stateDir, caseUnit, result, scratch, goingDown, began, reboots, outcome>>
        /\ job' = [job EXCEPT ![idx + 1] = "start"]
    BY <1>1, <1>5 DEF Launch, OrderInv, Waits, AtWork, InIteration, Spawn, Goto, Current
  <2>2. /\ index = idx + 1 /\ stateDir = {} /\ failures = fails
        /\ Between(idx, idx) /\ fails = Cardinality(Failed) /\ failures = Cardinality(Failed)
    BY <2>1 DEF Clean, Standing, Counts
  <2>3. Untouched(idx + 1)
    BY <2>1, <2>2, <1>1 DEF Between
  <2>4. Failed \ {waitSafe} = Failed /\ Failed' = Failed
    BY <2>1, <2>3, NotYetCounted DEF Untouched, Failed
  <2>5. job'[idx + 1] = "start"
    BY <1>2, <2>1 DEF CaseTypeOK
  <2>6. InWork(idx + 1)'
    BY <2>1, <2>3, <2>5 DEF InWork, Untouched, Reports, Running, RunSteps
  <2>7. InWork(waitSafe)'
    BY <2>1, <2>6 DEF InWork
  <2>8. \A t \in Tests : (t <= index - 1 => Done(t)') /\ (t > index => Untouched(t)')
    BY <1>1, <2>1, <2>2 DEF Between, Done, Untouched, Tests
  <2>9. Standing'
    BY <1>1, <2>1, <2>2, <2>7, <2>8 DEF Standing, AtWork, Between
  <2>10. Counts'
    BY <2>1, <2>2, <2>4 DEF Counts, AtWork
  <2>11. GoesDown' /\ Ends'
    BY <2>1 DEF Clean, GoesDown, Ends, Over, Done
  <2> QED
    BY <2>9, <2>10, <2>11 DEF Clean
<1>6. CASE RebootFails
  <2>1. /\ pc = "reboot" /\ pc' = "failed" /\ waitSafe = idx + 1 /\ idx + 1 \in Tests
        /\ AtWork /\ ~AtWork' /\ job[idx + 1] = "exited" /\ verdict[idx + 1] = "NG"
        /\ failures' = failures + 1
        /\ UNCHANGED <<index, fails, waitSafe, unit, summary, idx>>
        /\ UNCHANGED <<job, verdict, stateDir, caseUnit, goingDown, began, outcome>>
    BY <1>1, <1>6 DEF RebootFails, OrderInv, Waits, AtWork, InIteration, Current
  <2>2. /\ index = idx + 1 /\ InWork(idx + 1) /\ Between(index - 1, index)
        /\ failures = fails /\ fails = Cardinality(Failed \ {idx + 1})
        /\ stateDir \subseteq {idx + 1}
    BY <2>1 DEF Clean, Standing, Counts
  <2>3. idx + 1 \notin caseUnit
    BY <2>1 DEF OrderInv, Alone
  <2>4. outcome[idx + 1] = "NG" /\ began[idx + 1] = 1 /\ stateDir' = {}
    BY <2>1, <2>2, <2>3 DEF InWork, Reports, Running, RunSteps, ResumeSteps
  <2>5. Failed' = Failed /\ failures' = Cardinality(Failed)
    <3>1. Cardinality(Failed) = fails + 1
      BY <2>1, <2>2, <2>4, CountedIn
    <3> QED
      BY <2>1, <2>2, <3>1 DEF Failed
  <2>6. \A t \in Tests : (t <= idx + 1 => Done(t)') /\ (t > idx + 1 => Untouched(t)')
    BY <1>1, <2>1, <2>2, <2>4 DEF Between, Done, Untouched, Tests
  <2>7. Standing'
    BY <1>1, <2>1, <2>4, <2>6 DEF Standing, AtWork, Between
  <2>8. Counts'
    BY <2>1, <2>5 DEF Counts, AtWork
  <2>9. GoesDown' /\ Ends'
    BY <2>1, <2>3 DEF Clean, GoesDown, Ends, Over, Done
  <2> QED
    BY <2>7, <2>8, <2>9 DEF Clean
<1>7. CASE RebootPasses
  <2>1. /\ pc = "reboot" /\ pc' = "passed" /\ waitSafe = idx + 1 /\ idx + 1 \in Tests
        /\ AtWork /\ ~AtWork' /\ job[idx + 1] = "exited" /\ verdict[idx + 1] # "NG"
        /\ result[idx + 1] # "PENDING" /\ waitSafe' = 0
        /\ failures' = failures + CountNG(idx + 1)
        /\ UNCHANGED <<index, fails, unit, summary, idx>>
        /\ UNCHANGED <<job, verdict, stateDir, caseUnit, goingDown, began, outcome>>
    BY <1>1, <1>7 DEF RebootPasses, OrderInv, Waits, AtWork, InIteration, Current
  <2>2. /\ index = idx + 1 /\ InWork(idx + 1) /\ Between(index - 1, index)
        /\ failures = fails /\ fails = Cardinality(Failed \ {idx + 1})
        /\ stateDir \subseteq {idx + 1}
    BY <2>1 DEF Clean, Standing, Counts
  <2>3. idx + 1 \notin caseUnit
    BY <2>1 DEF OrderInv, CaseInv, Armed
  <2>4. /\ outcome[idx + 1] \in {"OK", "NG"} /\ result[idx + 1] = outcome[idx + 1]
        /\ began[idx + 1] = 1 /\ stateDir' = {}
    BY <2>1, <2>2, <2>3 DEF InWork, Reports, Running, RunSteps, ResumeSteps
  <2>5. Failed' = Failed /\ failures' = Cardinality(Failed)
    <3>1. Cardinality(Failed) = fails + CountNG(idx + 1)
      BY <2>1, <2>2, <2>4, CountedIn DEF CountNG
    <3> QED
      BY <2>1, <2>2, <3>1 DEF Failed
  <2>6. \A t \in Tests : (t <= idx + 1 => Done(t)') /\ (t > idx + 1 => Untouched(t)')
    BY <1>1, <2>1, <2>2, <2>4 DEF Between, Done, Untouched, Tests
  <2>7. Standing'
    BY <1>1, <2>1, <2>4, <2>6 DEF Standing, AtWork, Between
  <2>8. Counts'
    BY <2>1, <2>5 DEF Counts, AtWork
  <2>9. ~goingDown
    BY <2>1, <2>3 DEF Clean, GoesDown
  <2>10. GoesDown' /\ Ends'
    BY <2>1, <2>9 DEF Clean, GoesDown, Ends, Over, Done
  <2> QED
    BY <2>7, <2>8, <2>10 DEF Clean
<1>8. CASE ShellBegins
  <2>1. /\ pc = "loop" /\ pc' = "shell" /\ ~AtWork /\ ~AtWork' /\ idx < N /\ idx + 1 \in Tests
        /\ began' = [began EXCEPT ![idx + 1] = @ + 1]
        /\ UNCHANGED <<index, fails, waitSafe, unit, summary, idx, failures>>
        /\ UNCHANGED <<job, verdict, stateDir, caseUnit, goingDown, outcome>>
    BY <1>1, <1>8 DEF ShellBegins, AtWork, Current, Tests
  <2>2. Between(idx, idx) /\ fails = Cardinality(Failed) /\ failures = fails /\ stateDir = {}
    BY <2>1 DEF Clean, Standing, Counts
  <2>3. began[idx + 1] = 0 /\ outcome[idx + 1] = "none"
    BY <1>1, <2>1, <2>2 DEF Between, Untouched
  <2>4. began' \in [Tests -> Nat] /\ began'[idx + 1] = 1 /\ \A t \in Tests : t # idx + 1 => began'[t] = began[t]
    BY <1>2, <2>1, <2>3 DEF CaseTypeOK
  <2>5. \A t \in Tests : (t <= idx => Done(t)') /\ (t > idx + 1 => Untouched(t)')
    BY <1>1, <2>1, <2>2, <2>4 DEF Between, Done, Untouched, Tests
  <2>6. Standing'
    BY <1>1, <2>1, <2>2, <2>3, <2>4, <2>5 DEF Standing, AtWork, Between
  <2>7. Counts'
    BY <2>1, <2>2 DEF Counts, AtWork, Failed
  <2>8. GoesDown'
    BY <2>1 DEF Clean, GoesDown
  <2>9. Ends'
    BY <2>1 DEF Clean, Ends, Over
  <2> QED
    BY <2>6, <2>7, <2>8, <2>9 DEF Clean
<1>9. ASSUME NEW v \in {"OK", "NG"}, ShellEnds(v) PROVE Clean'
  <2>1. /\ pc = "shell" /\ pc' = "stopcheck" /\ ~AtWork /\ ~AtWork' /\ idx + 1 \in Tests
        /\ failures' = IF v = "NG" THEN failures + 1 ELSE failures
        /\ fails' = IF v = "NG" THEN failures + 1 ELSE fails
        /\ outcome' = [outcome EXCEPT ![idx + 1] = v]
        /\ UNCHANGED <<index, waitSafe, unit, summary, idx>>
        /\ UNCHANGED <<job, verdict, stateDir, caseUnit, goingDown, began>>
    BY <1>1, <1>9 DEF ShellEnds, AtWork, Current, InIteration
  <2>2. /\ Between(idx, idx + 1) /\ began[idx + 1] = 1 /\ outcome[idx + 1] = "none"
        /\ stateDir = {} /\ failures = fails /\ fails = Cardinality(Failed)
    BY <2>1 DEF Clean, Standing, Counts
  <2>3. outcome'[idx + 1] = v /\ \A t \in Tests : t # idx + 1 => outcome'[t] = outcome[t]
    BY <1>2, <2>1 DEF CaseTypeOK
  <2>4. \A t \in Tests : (t <= idx + 1 => Done(t)') /\ (t > idx + 1 => Untouched(t)')
    BY <1>1, <2>1, <2>2, <2>3 DEF Between, Done, Untouched, Tests
  <2>5. fails' = Cardinality(Failed)' /\ failures' = fails'
    <3>1. CASE v = "NG"
      <4>1. Failed' = Failed \cup {idx + 1} /\ idx + 1 \notin Failed
        BY <2>1, <2>2, <2>3, <3>1 DEF Failed
      <4>2. Cardinality(Failed') = Cardinality(Failed) + 1
        BY <4>1, FailedFinite, FS_AddElement
      <4> QED
        BY <2>1, <2>2, <3>1, <4>2
    <3>2. CASE v = "OK"
      <4>1. Failed' = Failed
        BY <2>1, <2>2, <2>3, <3>2 DEF Failed
      <4> QED
        BY <2>1, <2>2, <3>2, <4>1
    <3> QED
      BY <3>1, <3>2
  <2>6. Standing'
    BY <1>1, <2>1, <2>2, <2>4 DEF Standing, AtWork, Between
  <2>7. Counts'
    BY <2>1, <2>5 DEF Counts, AtWork
  <2>8. GoesDown'
    BY <2>1 DEF Clean, GoesDown
  <2>9. Ends'
    BY <2>1 DEF Clean, Ends, Over
  <2> QED
    BY <2>6, <2>7, <2>8, <2>9 DEF Clean
<1> QED
  BY <1>3, <1>4, <1>5, <1>6, <1>7, <1>8, <1>9

----------------------------------------------------------------------------
\* A step of a script: of the one the runner waits for, but for its last.
LEMMA ScriptStepsEnd ==
  ASSUME RunInv, RunInv', OrderInv, OrderInv', faults = {}, Clean, NEW t \in Tests, ScriptStep(t)
  PROVE  Clean'
<1>1. UNCHANGED <<index, fails, waitSafe, waitResult, unit, summary, pc, idx, failures>>
  BY DEF ScriptStep, runnerVars, configVars, diskVars
<1>2. CaseTypeOK /\ index \in Nat /\ idx \in Nat
  BY NAssumption DEF RunInv, TypeOK, RunnerTypeOK, Torn
<1>3. AtWork' <=> AtWork
  BY <1>1 DEF AtWork
<1>4. CASE Leave(t)
  <2>1. /\ job[t] = "leave" /\ job'[t] = "exited" /\ \A u \in Tests : u # t => job'[u] = job[u]
        /\ UNCHANGED <<verdict, stateDir, caseUnit, result, goingDown, began, outcome>>
    BY <1>2, <1>4 DEF Leave, Goto, CaseTypeOK
  <2>2. GoesDown'
    BY <1>1, <2>1 DEF Clean, GoesDown, RunInv, TypeOK, CaseTypeOK
  <2>3. AtWork => InWork(waitSafe)'
    <3>1. SUFFICES ASSUME AtWork PROVE InWork(waitSafe)'
      OBVIOUS
    <3>2. InWork(waitSafe) /\ waitSafe \in Tests
      BY <3>1 DEF Clean, Standing, AtWork, RunInv, TypeOK, RunnerTypeOK, Tests
    <3> QED
      BY <1>1, <2>1, <3>2 DEF InWork, Reports, Running, RunSteps, ResumeSteps
  <2>4. Standing'
    BY <1>1, <1>3, <2>1, <2>3 DEF Clean, Standing, Between, Done, Untouched
  <2>5. Counts' /\ Ends'
    BY <1>1, <1>3, <2>1 DEF Clean, Counts, Ends, Over, Failed, Done
  <2> QED
    BY <2>2, <2>4, <2>5 DEF Clean
<1>5. CASE ~Leave(t)
  <2>1. job[t] \in Body
    BY <1>5
    DEF ScriptStep, CaseStep, CaseStart, PrePasses, Arm, RebootIssued, RebootNotNeeded,
        WritePending, CaseResume, Disarm, Report, Sweep, PreEnds, RebootRefused, PostEnds,
        Body, Running, RunSteps, ResumeSteps
  <2>2. t = waitSafe /\ AtWork /\ t # 0
    BY <2>1 DEF OrderInv, Alone, AtWork, Tests
  <2>3. /\ index = t /\ waitResult = t /\ InWork(t) /\ stateDir \subseteq {t}
        /\ Between(index - 1, index) /\ fails = Cardinality(Failed \ {t})
    BY <2>2 DEF Clean, Standing, Counts
  <2>4. /\ \A u \in Tests : u # t => began'[u] = began[u] /\ outcome'[u] = outcome[u]
        /\ stateDir' \subseteq {t}
    BY <1>2, <1>5, <2>3
    DEF ScriptStep, CaseStep, CaseStart, PrePasses, Arm, RebootIssued, RebootNotNeeded,
        WritePending, CaseResume, Disarm, Report, Sweep, PreEnds, RebootRefused, PostEnds,
        CaseTypeOK
  <2>5. InWork(t)' /\ GoesDown'
    <3>1. waitSafe' = t /\ UNCHANGED <<unit, pc>> /\ (unit \/ pc = "off")
          /\ (t \in caseUnit => unit)
      BY <1>1, <2>2 DEF RunInv, Place, AtWork, Clean, Ends
    <3>2. /\ job[t] \in Steps /\ verdict[t] \in Verdicts
          /\ \A step : Goto(t, step) => job'[t] = step
      BY <1>2 DEF CaseTypeOK, Goto
    <3>3. goingDown => /\ t \in caseUnit /\ unit /\ pc \in {"reboot", "off"}
                       /\ job[t] \in {"issued", "leave", "exited"}
      BY <2>2 DEF Clean, GoesDown
    <3> USE DEF Reports, Running, RunSteps, ResumeSteps, InWork, GoesDown
    <3>4. CASE CaseStart(t)
      BY <1>2, <2>2, <2>3, <3>1, <3>2, <3>3, <3>4 DEF CaseStart, CaseTypeOK, OrderInv, CaseInv, Unreported, Armed
    <3>5. CASE PrePasses(t)
      BY <1>2, <2>2, <2>3, <3>1, <3>2, <3>3, <3>5 DEF PrePasses, CaseTypeOK, OrderInv, CaseInv, Unreported, Armed
    <3>6. CASE Arm(t)
      BY <1>2, <2>2, <2>3, <3>1, <3>2, <3>3, <3>6 DEF Arm, CaseTypeOK, OrderInv, CaseInv, Unreported, Armed
    <3>7. CASE RebootIssued(t)
      <4>1. job[t] = "issue" /\ job'[t] = "issued" /\ UNCHANGED <<began, caseUnit>>
        BY <3>2, <3>7 DEF RebootIssued
      <4>2. pc \in {"reboot", "off"}
        BY <2>2, <4>1 DEF AtWork, OrderInv, Waits
      <4> QED
        BY <2>3, <3>1, <4>1, <4>2
    <3>8. CASE RebootNotNeeded(t)
      BY <1>2, <2>2, <2>3, <3>1, <3>2, <3>3, <3>8 DEF RebootNotNeeded, CaseTypeOK, OrderInv, CaseInv, Unreported, Armed
    <3>9. CASE WritePending(t)
      BY <1>2, <2>2, <2>3, <3>1, <3>2, <3>3, <3>9 DEF WritePending, OrderInv, Waits
    <3>10. CASE CaseResume(t)
      BY <1>2, <2>2, <2>3, <3>1, <3>2, <3>3, <3>10 DEF CaseResume, CaseTypeOK, OrderInv, CaseInv, Unreported, Armed
    <3>11. CASE Disarm(t)
      BY <1>2, <2>2, <2>3, <3>1, <3>2, <3>3, <3>11 DEF Disarm, CaseTypeOK, OrderInv, CaseInv, Unreported, Armed
    <3>12. CASE Report(t)
      BY <1>2, <2>2, <2>3, <3>1, <3>2, <3>3, <3>12 DEF Report, CaseTypeOK, OrderInv, CaseInv, Armed, RunInv, Judged
    <3>13. CASE Sweep(t)
      BY <1>2, <2>2, <2>3, <3>1, <3>2, <3>3, <3>13 DEF Sweep, CaseTypeOK, OrderInv, CaseInv, Unreported, Armed
    <3>14. ASSUME NEW v \in {"OK", "NG"}, PreEnds(t, v) \/ RebootRefused(t, v) \/ PostEnds(t, v)
           PROVE  InWork(t)' /\ GoesDown'
      BY <1>2, <2>2, <2>3, <3>1, <3>2, <3>3, <3>14 DEF PreEnds, RebootRefused, PostEnds, CaseTypeOK
    <3> QED
      BY <1>5, <3>4, <3>5, <3>6, <3>7, <3>8, <3>9, <3>10, <3>11, <3>12, <3>13, <3>14 DEF ScriptStep, CaseStep
  <2>6. \A u \in Tests : (u <= index - 1 => Done(u)') /\ (u > index => Untouched(u)')
    <3>1. \A u \in Tests : u <= index - 1 \/ u > index => u # t
      BY <1>2, <2>3 DEF Tests
    <3> QED
      BY <2>3, <2>4, <3>1 DEF Between, Done, Untouched
  <2>7. Standing'
    <3>1. InWork(waitSafe)'
      BY <1>1, <2>2, <2>5 DEF InWork
    <3> QED
      BY <1>1, <1>3, <2>2, <2>3, <2>4, <2>6, <3>1 DEF Clean, Standing, AtWork, Between
  <2>8. Counts'
    <3>1. Failed' \ {t} = Failed \ {t}
      BY <2>4 DEF Failed
    <3> QED
      BY <1>1, <1>3, <2>2, <2>3, <3>1 DEF Clean, Counts, AtWork
  <2>9. Ends'
    <3>1. ~Over
      BY <2>2 DEF Clean, Ends, AtWork
    <3> QED
      BY <1>1, <3>1 DEF Clean, Ends, Over
  <2> QED
    BY <2>5, <2>7, <2>8, <2>9 DEF Clean
<1> QED
  BY <1>4, <1>5

LEMMA KillRunnerEnds ==
  ASSUME RunInv, RunInv', OrderInv, OrderInv', faults = {}, Clean, KillRunner
  PROVE  Clean'
<1>1. /\ waitSafe \in caseUnit /\ unit /\ pc = "reboot" /\ pc' = "off" /\ waitSafe # 0
      /\ AtWork /\ AtWork'
  BY DEF KillRunner, Clean, GoesDown, AtWork, diskVars, RunInv, TypeOK, CaseTypeOK, Tests
<1>2. UNCHANGED <<job, verdict, stateDir, caseUnit, result, goingDown, began, outcome,
                  index, fails, waitSafe, waitResult, unit, summary, idx, failures>>
  BY DEF KillRunner, caseVars, diskVars
<1>3. GoesDown' /\ Ends'
  BY <1>1, <1>2 DEF Clean, GoesDown, Ends, Over, Done
<1>4. Standing'
  BY <1>1, <1>2 DEF Clean, Standing, InWork, Between, Done, Untouched
<1>5. Counts'
  BY <1>1, <1>2 DEF Clean, Counts, Failed
<1> QED
  BY <1>3, <1>4, <1>5 DEF Clean

LEMMA RebootEnds ==
  ASSUME RunInv, RunInv', OrderInv, OrderInv', faults = {}, Clean, Reboot
  PROVE  Clean'
<1>1. /\ waitSafe \in caseUnit /\ waitSafe \in Tests /\ unit /\ pc \in {"reboot", "off"}
      /\ pc' = "resume" /\ waitSafe # 0 /\ job[waitSafe] \in {"issued", "leave", "exited"}
      /\ ~goingDown'
  <2>1. /\ waitSafe \in caseUnit /\ unit /\ pc \in {"reboot", "off"}
        /\ job[waitSafe] \in {"issued", "leave", "exited"}
    BY DEF Reboot, Clean, GoesDown
  <2>2. waitSafe \in Tests /\ waitSafe # 0
    BY <2>1 DEF RunInv, TypeOK, CaseTypeOK, Tests
  <2> QED
    BY <2>1, <2>2 DEF Reboot, Boot, BootRunner
<1>2. UNCHANGED <<stateDir, caseUnit, result, began, outcome, index, fails, waitSafe, waitResult,
                  unit, summary>>
  BY DEF Reboot, Boot, BootRunner
<1>3. AtWork /\ AtWork'
  BY <1>1, <1>2 DEF AtWork
<1>4. InWork(waitSafe)'
  <2>1. InWork(waitSafe)
    BY <1>3 DEF Clean, Standing
  <2>2. job'[waitSafe] = "resume"
    BY <1>1 DEF Reboot, Boot
  <2> QED
    BY <1>1, <1>2, <2>1, <2>2 DEF InWork
<1>5. GoesDown' /\ Ends'
  BY <1>1, <1>2 DEF Clean, GoesDown, Ends, Over
<1>6. Standing'
  BY <1>1, <1>2, <1>3, <1>4 DEF Clean, Standing, Between, Done, Untouched
<1>7. Counts'
  BY <1>1, <1>2, <1>3 DEF Clean, Counts, Failed
<1> QED
  BY <1>5, <1>6, <1>7 DEF Clean

----------------------------------------------------------------------------
LEMMA EndInvInit == Init => EndInv
  BY EndInit DEF EndInv, Clean

LEMMA EndInvNext ==
  RunInv /\ RunInv' /\ OrderInv /\ OrderInv' /\ EndInv /\ [Next]_vars => EndInv'
<1> SUFFICES ASSUME RunInv, RunInv', OrderInv, OrderInv', EndInv, [Next]_vars, faults' = {}
             PROVE  Clean'
  BY DEF EndInv, Clean
<1>1. faults = {}
  <2>1. faults' = faults
    BY DEF Next, vars, runnerVars, configVars, RunnerStep, Prepare, Install, NothingWaiting,
       StartWaiting, WaitEnds, WaitTimesOut, SaveTally, EndWait, StopOnFailure, EnterLoop,
       KeepGoing, LoopEnds, Retire, Erase, PassBy, MarkSafe, Launch, RebootFails,
       RebootPending, RebootPasses, SaveAfterFailure, SaveAfterPass, Unmark, ShellBegins,
       ShellEnds, Advance, Conclude, ClearWait, SaveFailures, ScriptStep, KillScript,
       KillRunner, Reboot, PowerLoss, BootRunner
  <2> QED
    BY <2>1
<1>2. Clean
  BY <1>1 DEF EndInv, Clean
<1>3. CASE RunnerStep /\ UNCHANGED crashes
  BY <1>1, <1>2, <1>3, QuietStepsEnd, LoudStepsEnd DEF RunnerStep
<1>4. CASE \E t \in Tests : ScriptStep(t) \/ KillScript(t)
  <2>1. ASSUME NEW t \in Tests, KillScript(t) PROVE FALSE
    BY <1>1, <2>1 DEF KillScript
  <2> QED
    BY <1>1, <1>2, <1>4, <2>1, ScriptStepsEnd
<1>5. CASE KillRunner
  BY <1>1, <1>2, <1>5, KillRunnerEnds
<1>6. CASE Reboot
  BY <1>1, <1>2, <1>6, RebootEnds
<1>7. CASE PowerLoss
  BY <1>1, <1>7 DEF PowerLoss
<1>8. CASE UNCHANGED vars
  <2> USE <1>8 DEF vars, caseVars, runnerVars, configVars, diskVars
  <2>1. GoesDown' /\ Ends'
    BY <1>2 DEF Clean, GoesDown, Ends, Over, Done
  <2>2. Standing'
    BY <1>2 DEF Clean, Standing, AtWork, InWork, Between, Done, Untouched
  <2>3. Counts'
    BY <1>2 DEF Clean, Counts, AtWork, Failed
  <2> QED
    BY <2>1, <2>2, <2>3 DEF Clean
<1> QED
  BY <1>3, <1>4, <1>5, <1>6, <1>7, <1>8 DEF Next

LEMMA EndInvariant == Spec => [](RunInv /\ OrderInv /\ EndInv)
  BY RunInvInit, RunInvNext, OrderInvInit, OrderInvNext, EndInvInit, EndInvNext, PTL DEF Spec

\* A run in which nothing goes wrong ends well, for every number of tests and every
\* kind of each: the summary counts every test that came to NG and no other, says OK only
\* after every test has run once and passed, and no unit and no state is left behind.
THEOREM RunsEndRight == Spec => []EndsRight
<1>1. RunInv /\ OrderInv /\ EndInv => EndsRight
  <2> SUFFICES ASSUME RunInv, OrderInv, EndInv, faults = {}
               PROVE /\ pc = "retire" => failures = Cardinality({t \in Tests : outcome[t] = "NG"})
                     /\ summary = "OK" => \A t \in Tests : began[t] = 1 /\ outcome[t] = "OK"
                     /\ Over /\ pc = "off" => /\ ~unit /\ index = 0 /\ waitSafe = 0
                                              /\ caseUnit = {} /\ stateDir = {}
    BY DEF EndsRight
  <2>1. pc = "retire" => failures = Cardinality({t \in Tests : outcome[t] = "NG"})
    BY DEF EndInv, Clean, Counts, Failed
  <2>2. summary = "OK" => \A t \in Tests : began[t] = 1 /\ outcome[t] = "OK"
    BY DEF EndInv, Clean, Ends, Done
  <2>3. Over /\ pc = "off" => ~unit /\ index = 0 /\ waitSafe = 0 /\ caseUnit = {} /\ stateDir = {}
    <3>1. Over /\ pc = "off" => ~unit /\ index = 0 /\ waitSafe = 0 /\ ~AtWork
      BY DEF EndInv, Clean, Ends, AtWork
    <3>2. waitSafe = 0 => caseUnit = {}
      BY DEF OrderInv, Alone, RunInv, TypeOK, CaseTypeOK, Tests
    <3> QED
      BY <3>1, <3>2 DEF EndInv, Clean, Standing
  <2> QED
    BY <2>1, <2>2, <2>3
<1> QED
  BY <1>1, EndInvariant, PTL
=============================================================================
