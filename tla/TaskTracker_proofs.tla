------------------------- MODULE TaskTracker_proofs -------------------------
(***************************************************************************)
(* The timing of TaskTracker.wait, for all intervals, caps, backoff factors *)
(* and timeouts it can be given, all latencies and all finishing times.    *)
(***************************************************************************)
EXTENDS TaskTracker, TLAPS

IInv == TypeOK /\ Pace /\ ReturnIsTrue /\ NoticedSoon

LEMMA CoerceStateType ==
    ASSUME NEW raw \in Running \cup Final
    PROVE  CoerceState(raw) \in {0, 3, 4} \cup RunningCodes \cup FinalCodes
  BY DEF CoerceState, Running, Final, Number, Word, Unlisted

\* No report on a task that is under way is taken for its end.
LEMMA RunningIsNotDone ==
    ASSUME NEW raw \in Running
    PROVE  ~IsDone(CoerceState(raw))
  BY TrackerAssumption DEF CoerceState, IsDone, Running, Number, Word

\* The next interval is one, and no longer than the cap.
LEMMA NextIntervalBounded ==
    ASSUME NEW i \in Int
    PROVE  NextInterval(i) \in Int /\ NextInterval(i) <= PollMaxInterval
<1>1. i * BackoffNum \in Int
  BY TrackerAssumption
<1>2. (i * BackoffNum) \div BackoffDen \in Int
  BY <1>1, TrackerAssumption
<1>3. QED
  BY <1>2, TrackerAssumption DEF NextInterval, Smaller

\* The longest sleep is one, and covers the first interval and the cap.
LEMMA LongestBounds ==
    /\ Longest \in Nat
    /\ PollInterval <= Longest
    /\ PollMaxInterval <= Longest
    /\ Deadline \in Nat
    /\ Timeout <= Deadline
    /\ Timeout \in Nat => Deadline = Timeout
  BY TrackerAssumption DEF Longest, Deadline, Larger

LEMMA InvInit == Init => IInv
  BY TrackerAssumption, LongestBounds DEF Init, IInv, TypeOK, Pace, ReturnIsTrue,
     NoticedSoon, Round, Labels, IsDone

\* Every step of the loop keeps the pace.
LEMMA InvStep == IInv /\ [Next]_vars => IInv'
<1> USE TrackerAssumption, LongestBounds DEF Round
<1> SUFFICES ASSUME IInv, [Next]_vars
             PROVE  IInv'
  OBVIOUS
<1> USE DEF IInv, TypeOK, Labels
<1>1. CASE TimesOut
  BY <1>1 DEF TimesOut, Pace, ReturnIsTrue, NoticedSoon
<1>2. CASE Poll
  BY <1>2 DEF Poll, Pace, ReturnIsTrue, NoticedSoon
<1>3. CASE GetReturns
  <2>1. PICK latency \in 1 .. MaxLatency, t \in now .. now + MaxLatency,
             raw \in Running \cup Final :
           /\ t <= now + latency
           /\ now' = now + latency
           /\ raw \in Reports(t)
           /\ status' = CoerceState(raw)
    BY <1>3 DEF GetReturns, Reports
  <2>2. /\ pc = "get"
        /\ pc' = IF IsDone(status') THEN "returned" ELSE "sleep"
        /\ UNCHANGED <<interval, doneAt, final>>
    BY <1>3 DEF GetReturns
  <2>3. status' \in {0, 3, 4} \cup RunningCodes \cup FinalCodes
    BY <2>1, CoerceStateType
  <2>4. doneAt \in Nat /\ now' \in Nat /\ now <= Deadline
    BY <2>1, <2>2 DEF Pace
  <2>5. IsDone(status') => doneAt <= t /\ raw = final
    <3>1. raw \in IF doneAt <= t THEN {final} ELSE Running
      BY <2>1 DEF Reports
    <3>2. raw \in Running => ~IsDone(status')
      BY <2>1, RunningIsNotDone
    <3>3. QED
      BY <3>1, <3>2
  <2>6. IsDone(CoerceState(final)) /\ ~IsDone(status') => t < doneAt
    <3>1. doneAt <= t => status' = CoerceState(final)
      BY <2>1 DEF Reports
    <3>2. QED
      BY <2>1, <2>4, <3>1
  <2>7. TypeOK'
    BY <2>2, <2>3, <2>4
  <2>8. Pace'
    BY <2>1, <2>2, <2>4, <2>6 DEF Pace
  <2>9. ReturnIsTrue'
    BY <2>1, <2>2, <2>4, <2>5 DEF ReturnIsTrue
  <2>10. NoticedSoon'
    BY <2>1, <2>2, <2>4, <2>5 DEF NoticedSoon, Pace
  <2>11. QED
    BY <2>7, <2>8, <2>9, <2>10
<1>4. CASE GetRaises
  BY <1>4 DEF GetRaises, Pace, ReturnIsTrue, NoticedSoon
<1>5. CASE Wake
  <2>1. PICK overrun \in 0 .. MaxOverrun : now' = now + Larger(interval, 0) + overrun
    BY <1>5 DEF Wake
  <2>2. /\ pc = "sleep" /\ pc' = "check"
        /\ interval' = NextInterval(interval)
        /\ UNCHANGED <<status, doneAt, final>>
    BY <1>5 DEF Wake
  <2>3. /\ doneAt \in Nat /\ now <= Deadline + MaxLatency
        /\ Larger(interval, 0) \in 0 .. Longest
    BY <2>2 DEF Pace, Larger
  <2>4. now' \in Nat /\ now' <= now + Longest + MaxOverrun
    BY <2>1, <2>3
  <2>5. interval' \in Int /\ interval' <= Longest
    BY <2>2, NextIntervalBounded
  <2>6. QED
    BY <2>2, <2>3, <2>4, <2>5 DEF Pace, ReturnIsTrue, NoticedSoon
<1>6. CASE UNCHANGED vars
  BY <1>6 DEF vars, Pace, ReturnIsTrue, NoticedSoon
<1>7. QED
  BY <1>1, <1>2, <1>3, <1>4, <1>5, <1>6 DEF Next

LEMMA Consequences == IInv => TypeOK /\ WaitBounded /\ EarlyFinishNotTimedOut
  BY TrackerAssumption, LongestBounds DEF IInv, TypeOK, Labels, Pace, WaitBounded,
     EarlyFinishNotTimedOut, Round

\* The inductive invariant of the loop.
THEOREM Inductive == Spec => []IInv
  BY InvInit, InvStep, PTL DEF Spec

\* The variables of wait() keep their types.
THEOREM TypeCorrect == Spec => []TypeOK
  BY Inductive, Consequences, PTL

\* wait() is over at most one round after its timeout.
THEOREM Bounded == Spec => []WaitBounded
  BY Inductive, Consequences, PTL

\* What wait() returns is what FMG says of a task that has finished.
THEOREM Truthful == Spec => []ReturnIsTrue
<1>1. IInv => ReturnIsTrue
  BY DEF IInv
<1>2. QED
  BY <1>1, Inductive, PTL

\* A finished task is noticed within a round of the loop.
THEOREM Prompt == Spec => []NoticedSoon
<1>1. IInv => NoticedSoon
  BY DEF IInv
<1>2. QED
  BY <1>1, Inductive, PTL

\* The blind spot of the timeout is one round: a task that finished before it is
\* never reported as timed out.
THEOREM BlindSpot == Spec => []EarlyFinishNotTimedOut
  BY Inductive, Consequences, PTL
=============================================================================
