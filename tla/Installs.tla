------------------------------- MODULE Installs -------------------------------
(***************************************************************************)
(* InstallManager (managers/install.py) and the TaskTracker that follows   *)
(* what it has started: install_device_settings, install_policy_package    *)
(* and install_preview differ in URL and payload only.  Each is one exec,   *)
(* which the client repeats when its answer is lost, and whose answer names *)
(* the task to wait for.                                                   *)
(***************************************************************************)
EXTENDS TaskTracker

CONSTANTS
    MaxAttempts, \* attempts of the exec (max_retries)
    OldTasks     \* FMG's tasks 1 .. OldTasks are somebody else's

ASSUME InstallAssumption ==
    /\ MaxAttempts \in Nat \ {0}
    /\ OldTasks \in Nat

VARIABLES
    stage,    \* "exec": in install_*, "tracking": in wait(), "failed": install_* raised
    attempts, \* attempts of the exec that were made
    tasks,    \* number of FMG's tasks; those above OldTasks are the install's
    id        \* what install_* returned

allVars == <<vars, stage, attempts, tasks, id>>

\* Wrong variant (for testing the properties): another number for a missing task.
TaskIdOrOne(answer) == IF answer.dict /\ answer.task # 0 THEN answer.task ELSE 1

\* int(result.get("task", 0)) if isinstance(result, dict) else 0
TaskIdOf(answer) == IF answer.dict THEN answer.task ELSE 0

InstallInit ==
    /\ Init
    /\ stage = "exec"
    /\ attempts = 0
    /\ tasks = OldTasks
    /\ id = 0

\* An attempt is lost, before FMG has executed it or after.
ExecLost ==
    /\ stage = "exec"
    /\ attempts < MaxAttempts
    /\ attempts' = attempts + 1
    /\ tasks' \in {tasks, tasks + 1}
    /\ UNCHANGED <<vars, stage, id>>

\* An attempt is answered: with a dict that names the task, with one that names none
\* (task 0 stands for the missing key; nobody can tell whether a task was started), or
\* with something else.  FMG never reports a task that is not there as finished.
ExecReturns ==
    /\ stage = "exec"
    /\ attempts < MaxAttempts
    /\ attempts' = attempts + 1
    /\ \E answer \in [dict : BOOLEAN, task : {0, tasks + 1}] :
          /\ answer.task # 0 => answer.dict
          /\ tasks' \in IF answer.task = 0 THEN {tasks, tasks + 1} ELSE {answer.task}
          /\ id' = TaskIdOf(answer)
    /\ stage' = "tracking"
    /\ final' = IF id' \in 1 .. tasks' THEN final ELSE Unlisted
    /\ UNCHANGED <<now, pc, interval, status, doneAt>>

\* Every attempt was lost, or FMG refused the install.
ExecRaises ==
    /\ stage = "exec"
    /\ stage' = "failed"
    /\ UNCHANGED <<vars, attempts, tasks, id>>

\* wait(id)
Track ==
    /\ stage = "tracking"
    /\ Next
    /\ UNCHANGED <<stage, attempts, tasks, id>>

InstallNext == ExecLost \/ ExecReturns \/ ExecRaises \/ Track

InstallSpec == InstallInit /\ [][InstallNext]_allVars

-----------------------------------------------------------------------------
(* Properties *)

\* An install that is reported as finished has been started: wait() returns only for a
\* task of the install, never for the 0 that stands for none or a task of somebody
\* else.  If the exec was not repeated, that task is all there is, and nothing of the
\* install is under way any more.
FinishedWasStarted ==
    pc = "returned" =>
        /\ id \in OldTasks + 1 .. tasks
        /\ attempts = 1 => tasks = id /\ doneAt <= now
=============================================================================
