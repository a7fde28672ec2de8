----------------------------- MODULE TaskTracker -----------------------------
(***************************************************************************)
(* TaskTracker.wait (core/tasks.py): poll an FMG task with a growing        *)
(* interval until it is done or a timeout has passed.                      *)
(*                                                                         *)
(* Time is counted in eighths of a second, in which the defaults 2.0, 1.5   *)
(* and 15.0 make every interval an integer; other parameters are rounded    *)
(* down.  When the task finishes, and how FMG reports that, is fixed in the *)
(* initial state; time passes while a GET is under way and while the        *)
(* coroutine sleeps.                                                       *)
(***************************************************************************)
EXTENDS Integers

CONSTANTS
    PollInterval,     \* poll_interval
    BackoffNum,       \* poll_backoff is BackoffNum / BackoffDen
    BackoffDen,
    PollMaxInterval,  \* poll_max_interval
    Timeout,          \* timeout
    MaxLatency,       \* a GET, with its retries, takes 1 .. MaxLatency
    MaxOverrun,       \* a sleep may last 0 .. MaxOverrun too long
    FinishTimes,      \* when the task may finish
    RunningCodes,     \* numbers FMG may report for a task under way
    FinalCodes        \* numbers it may report for one that has finished

\* TaskTracker takes any parameters, in any order of size.  FMG is taken at the word of
\* TaskStatus.state: a 3 or a 4 stands for a task that has finished.
ASSUME TrackerAssumption ==
    /\ PollInterval \in Int
    /\ BackoffNum \in Int
    /\ BackoffDen \in Nat \ {0}
    /\ PollMaxInterval \in Int
    /\ Timeout \in Int
    /\ MaxLatency \in Nat \ {0}
    /\ MaxOverrun \in Nat
    /\ FinishTimes \subseteq Nat
    /\ RunningCodes \subseteq Int \ {3, 4}
    /\ FinalCodes \subseteq Int

VARIABLES
    now,       \* time since wait() was called
    pc,        \* where wait() stands
    interval,  \* interval
    status,    \* state of the last TaskStatus, or "none"
    doneAt,    \* when the task finishes
    final      \* the state FMG reports from then on

vars == <<now, pc, interval, status, doneAt, final>>

Labels == {"check", "get", "sleep", "returned", "timedOut", "raised"}

\* What FMG may call a state: 7.4 a number, 7.6 a word.  Of the words, "cancelled" stands
\* for all that _TASK_STATE_STRING_TO_INT maps to 3 besides "error"; "unlisted" for any
\* other word, and for an answer that is no dict.
Number(n) == <<"number", n>>
Word(w) == <<"word", w>>
Unlisted == Word("unlisted")
Running == {Number(n) : n \in RunningCodes} \cup {Word("pending"), Word("running")}
Final ==
    {Number(n) : n \in FinalCodes} \cup
    {Word(w) : w \in {"done", "success", "error", "cancelled"}} \cup {Unlisted}

\* Wrong variants: an unknown word is no state at all; any word that is not known means
\* done.
CoerceStateUndefined(raw) ==
    CASE raw[1] = "number" -> raw[2]
      [] raw \in {Word("done"), Word("success")} -> 4
      [] raw \in {Word("error"), Word("cancelled")} -> 3
      [] OTHER -> -1
CoerceStateOptimistic(raw) ==
    CASE raw[1] = "number" -> raw[2]
      [] raw \in {Word("error"), Word("cancelled")} -> 3
      [] OTHER -> 4

\* _coerce_state: a number stays as it is; TaskStatus() when the answer is no dict.
CoerceState(raw) ==
    CASE raw[1] = "number" -> raw[2]
      [] raw \in {Word("done"), Word("success")} -> 4
      [] raw \in {Word("error"), Word("cancelled")} -> 3
      [] OTHER -> 0

IsDone(state) == state \in {3, 4}

\* The report FMG gives on the task at time t.
Reports(t) == IF doneAt <= t THEN {final} ELSE Running

\* Wrong variant: the interval has no upper bound.
First(a, b) == a

Smaller(a, b) == IF a <= b THEN a ELSE b
Larger(a, b) == IF a <= b THEN b ELSE a

TypeOK ==
    /\ now \in Nat
    /\ pc \in Labels
    /\ interval \in Int
    /\ status \in {0, 3, 4} \cup RunningCodes \cup FinalCodes
    /\ doneAt \in FinishTimes
    /\ final \in Final

Init ==
    /\ now = 0
    /\ pc = "check"
    /\ interval = PollInterval
    /\ status = 0
    /\ doneAt \in FinishTimes
    /\ final \in Final

\* The loop head: the timeout is looked at before the poll.
TimesOut ==
    /\ pc = "check"
    /\ now > Timeout
    /\ pc' = "timedOut"
    /\ UNCHANGED <<now, interval, status, doneAt, final>>

\* Wrong variant: the timeout does not stop the loop.
PollForEver ==
    /\ pc = "check"
    /\ pc' = "get"
    /\ UNCHANGED <<now, interval, status, doneAt, final>>

Poll ==
    /\ pc = "check"
    /\ now <= Timeout
    /\ pc' = "get"
    /\ UNCHANGED <<now, interval, status, doneAt, final>>

\* Wrong variant: only state 4 ends the wait.
GetReturnsOnSuccess ==
    /\ pc = "get"
    /\ \E latency \in 1 .. MaxLatency, t \in now .. now + MaxLatency :
          /\ t <= now + latency
          /\ now' = now + latency
          /\ \E raw \in Reports(t) : status' = CoerceState(raw)
    /\ pc' = IF status' = 4 THEN "returned" ELSE "sleep"
    /\ UNCHANGED <<interval, doneAt, final>>

\* GET /task/task/{id}: FMG looks at the task some time before the answer is here.
GetReturns ==
    /\ pc = "get"
    /\ \E latency \in 1 .. MaxLatency, t \in now .. now + MaxLatency :
          /\ t <= now + latency
          /\ now' = now + latency
          /\ \E raw \in Reports(t) : status' = CoerceState(raw)
    /\ pc' = IF IsDone(status') THEN "returned" ELSE "sleep"
    /\ UNCHANGED <<interval, doneAt, final>>

\* A GET that raises ends the wait.
GetRaises ==
    /\ pc = "get"
    /\ \E latency \in 1 .. MaxLatency : now' = now + latency
    /\ pc' = "raised"
    /\ UNCHANGED <<interval, status, doneAt, final>>

\* The interval after i; in units of time, so a fraction of one is dropped.
NextInterval(i) == Smaller((i * BackoffNum) \div BackoffDen, PollMaxInterval)

\* asyncio.sleep(interval), which comes back at once from a delay that is not positive,
\* then the next interval.
Wake ==
    /\ pc = "sleep"
    /\ \E overrun \in 0 .. MaxOverrun : now' = now + Larger(interval, 0) + overrun
    /\ interval' = NextInterval(interval)
    /\ pc' = "check"
    /\ UNCHANGED <<status, doneAt, final>>

Next == TimesOut \/ Poll \/ GetReturns \/ GetRaises \/ Wake

Spec == Init /\ [][Next]_vars

-----------------------------------------------------------------------------
(* Properties *)

\* The longest sleep: the first one is not held to the cap.
Longest == Larger(Larger(PollInterval, PollMaxInterval), 0)

\* One round of the loop: a poll, and the longest sleep behind it.
Round == MaxLatency + Longest + MaxOverrun

\* The end of the time wait() may take; at once if the timeout is negative.
Deadline == Larger(Timeout, 0)

\* wait() never runs on for more than one round past the timeout.
WaitBounded == now <= Deadline + Round

\* A status that is returned is true: the task has finished, and as reported.
ReturnIsTrue ==
    pc = "returned" => doneAt <= now /\ status = CoerceState(final)

\* A task that finishes is noticed within a round (and the two ends of a GET).
NoticedSoon ==
    pc = "returned" => now <= doneAt + Round + MaxLatency

\* A task that finished a full round before the timeout, in a state the client
\* knows, is never reported as timed out.
EarlyFinishNotTimedOut ==
    pc = "timedOut" /\ IsDone(CoerceState(final)) => doneAt + Round > Timeout

\* "Raises TaskTimeoutError: If timeout exceeded before task completes."
TimeoutMeansUnfinished ==
    pc = "timedOut" /\ IsDone(CoerceState(final)) => doneAt > Timeout

\* How far time can have run on at each place of the loop, past the timeout and past
\* the end of a task whose final state the client knows.
Pace ==
    /\ interval <= Longest
    /\ pc \in {"check", "timedOut"} => now <= Deadline + Round
    /\ pc = "get" => now <= Deadline
    /\ pc \in {"sleep", "returned", "raised"} => now <= Deadline + MaxLatency
    /\ pc = "timedOut" => now > Timeout
    /\ pc = "returned" => IsDone(status)
    /\ IsDone(CoerceState(final)) =>
          /\ pc \in {"check", "get", "timedOut"} => now <= doneAt + Round
          /\ pc = "sleep" => now <= doneAt + MaxLatency
=============================================================================
