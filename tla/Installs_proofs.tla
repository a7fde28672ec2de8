-------------------------- MODULE Installs_proofs --------------------------
(***************************************************************************)
(* Installs, for any number of attempts and of older tasks: the wait keeps   *)
(* its timing whatever the install left behind, and what it reports as       *)
(* finished is a task of the install.                                      *)
(***************************************************************************)
EXTENDS Installs, TaskTracker_proofs

\* wait() starts when install_* has returned, and then knows a task of the install or
\* one that FMG does not have.
Handover ==
    /\ stage # "tracking" => pc = "check"
    /\ stage = "exec" /\ attempts = 0 => tasks = OldTasks
    /\ stage = "tracking" =>
          /\ id # 0 => id \in OldTasks + 1 .. tasks
          /\ id = 0 => final = Unlisted
          /\ id # 0 /\ attempts = 1 => tasks = id

InstallTypeOK ==
    /\ stage \in {"exec", "tracking", "failed"}
    /\ attempts \in 0 .. MaxAttempts
    /\ tasks \in Nat /\ OldTasks <= tasks
    /\ id \in Nat

InstallInv == IInv /\ InstallTypeOK /\ Handover

\* A wait for a task that is not there does not end by its state.
LEMMA UnlistedIsNotDone == Unlisted \in Final /\ ~IsDone(CoerceState(Unlisted))
  BY DEF Final, Unlisted, Word, CoerceState, IsDone

\* The outcome of the exec: install_* names a new task or none.
LEMMA Started ==
    ASSUME InstallInv, ExecReturns
    PROVE  /\ tasks' \in {tasks, tasks + 1}
           /\ id' \in {0, tasks + 1}
           /\ id' # 0 => tasks' = id'
           /\ id' = 0 => final' = Unlisted
           /\ final' \in {final, Unlisted}
<1>1. PICK answer \in [dict : BOOLEAN, task : {0, tasks + 1}] :
         /\ answer.task # 0 => answer.dict
         /\ tasks' \in IF answer.task = 0 THEN {tasks, tasks + 1} ELSE {answer.task}
         /\ id' = TaskIdOf(answer)
  BY DEF ExecReturns
<1>2. tasks \in Nat /\ answer.task \in {0, tasks + 1} /\ answer.dict \in BOOLEAN
  BY <1>1 DEF InstallInv, InstallTypeOK
<1>3. id' = answer.task
  BY <1>1, <1>2 DEF TaskIdOf
<1>4. final' = IF id' \in 1 .. tasks' THEN final ELSE Unlisted
  BY DEF ExecReturns
<1>5. QED
  BY <1>1, <1>2, <1>3, <1>4

\* The inductive invariant of an install and its wait.
THEOREM InstallInductive == InstallSpec => []InstallInv
<1> USE InstallAssumption
<1>1. InstallInit => InstallInv
  <2> SUFFICES ASSUME InstallInit
               PROVE  InstallInv
    OBVIOUS
  <2>1. IInv
    BY InvInit DEF InstallInit
  <2>2. InstallTypeOK /\ Handover
    BY DEF InstallInit, Init, InstallTypeOK, Handover
  <2>3. QED
    BY <2>1, <2>2 DEF InstallInv
<1>2. InstallInv /\ [InstallNext]_allVars => InstallInv'
  <2> SUFFICES ASSUME InstallInv, [InstallNext]_allVars
               PROVE  InstallInv'
    OBVIOUS
  <2> USE DEF InstallInv
  <2>1. ASSUME UNCHANGED vars
        PROVE  IInv'
    BY <2>1, InvStep
  <2>2. CASE ExecLost
    <3>1. InstallTypeOK' /\ Handover'
      BY <2>2 DEF ExecLost, vars, InstallTypeOK, Handover
    <3>2. QED
      BY <2>1, <2>2, <3>1 DEF ExecLost
  <2>3. CASE ExecReturns
    <3>1. /\ stage = "exec" /\ stage' = "tracking"
          /\ attempts < MaxAttempts /\ attempts' = attempts + 1
          /\ UNCHANGED <<now, pc, interval, status, doneAt>>
      BY <2>3 DEF ExecReturns
    <3>2. pc = "check"
      BY <3>1 DEF Handover
    <3>3. IInv'
      BY <2>3, <3>1, <3>2, Started, UnlistedIsNotDone
         DEF IInv, TypeOK, Pace, ReturnIsTrue, NoticedSoon
    <3>4. InstallTypeOK'
      BY <2>3, <3>1, Started DEF InstallTypeOK
    <3>5. Handover'
      BY <2>3, <3>1, Started DEF InstallTypeOK, Handover
    <3>6. QED
      BY <3>3, <3>4, <3>5
  <2>4. CASE ExecRaises
    <3>1. InstallTypeOK' /\ Handover'
      BY <2>4 DEF ExecRaises, vars, InstallTypeOK, Handover
    <3>2. QED
      BY <2>1, <2>4, <3>1 DEF ExecRaises
  <2>5. CASE Track
    <3>1. IInv'
      BY <2>5, InvStep DEF Track
    <3>2. final' = final
      BY <2>5 DEF Track, Next, TimesOut, Poll, GetReturns, GetRaises, Wake
    <3>3. InstallTypeOK' /\ Handover'
      BY <2>5, <3>2 DEF Track, InstallTypeOK, Handover
    <3>4. QED
      BY <3>1, <3>3
  <2>6. CASE UNCHANGED allVars
    <3>1. InstallTypeOK' /\ Handover'
      BY <2>6 DEF allVars, vars, InstallTypeOK, Handover
    <3>2. QED
      BY <2>1, <2>6, <3>1 DEF allVars
  <2>7. QED
    BY <2>2, <2>3, <2>4, <2>5, <2>6 DEF InstallNext
<1>3. QED
  BY <1>1, <1>2, PTL DEF InstallSpec

\* What wait() reports as finished is a task of the install, and all there is of it
\* if the exec was not repeated.
THEOREM FinishedStarted == InstallSpec => []FinishedWasStarted
<1>1. InstallInv => FinishedWasStarted
  <2> SUFFICES ASSUME InstallInv, pc = "returned"
               PROVE  /\ id \in OldTasks + 1 .. tasks
                      /\ attempts = 1 => tasks = id /\ doneAt <= now
    BY DEF FinishedWasStarted
  <2>1. IsDone(status) /\ doneAt <= now /\ status = CoerceState(final)
    BY DEF InstallInv, IInv, Pace, ReturnIsTrue
  <2>2. final # Unlisted
    BY <2>1, UnlistedIsNotDone
  <2>3. stage = "tracking"
    BY DEF InstallInv, Handover
  <2>4. QED
    BY <2>1, <2>2, <2>3 DEF InstallInv, Handover
<1>2. QED
  BY <1>1, InstallInductive, PTL

\* The promises of wait() hold behind an install, too.
THEOREM WaitAfterInstall ==
    InstallSpec => [](TypeOK /\ WaitBounded /\ ReturnIsTrue /\ NoticedSoon
                      /\ EarlyFinishNotTimedOut)
<1>1. InstallInv => TypeOK /\ WaitBounded /\ ReturnIsTrue /\ NoticedSoon
                    /\ EarlyFinishNotTimedOut
  BY Consequences DEF InstallInv, IInv
<1>2. QED
  BY <1>1, InstallInductive, PTL
=============================================================================
