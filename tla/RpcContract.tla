----------------------------- MODULE RpcContract -----------------------------
(***************************************************************************)
(* What one call of FMGClient promises its caller (and what WorkspaceLock   *)
(* and the managers are built on): FMG executes the request at most once    *)
(* per attempt, at most MaxRetries times in all, possibly after the caller  *)
(* was told it failed; an answer that only an execution can produce is the  *)
(* answer of one; a call rejected up front is never executed.               *)
(***************************************************************************)
EXTENDS Naturals

CONSTANTS
    Calls,       \* the calls made through one client
    MaxRetries   \* attempts a call may take

VARIABLES
    phase,     \* [Calls -> {"idle", "running", "done", "rejected"}]
    executed,  \* [Calls -> attempts FMG has executed]
    result     \* [Calls -> Results \cup {"none"}]

vars == <<phase, executed, result>>

\* Results that only an executed request brings about.
Witnessed == {"ok", "NotFoundError", "DuplicateError"}

\* The others: an FMG or transport error, no permission, no client, an exception
\* that is no FMGError, cancellation, or multiplex's data without a status.
Unwitnessed == {"FMGError", "AuthError", "NotConnected", "Broken", "Raw",
                "Cancelled", "data"}
Results == Witnessed \cup Unwitnessed

Init ==
    /\ phase = [c \in Calls |-> "idle"]
    /\ executed = [c \in Calls |-> {}]
    /\ result = [c \in Calls |-> "none"]

Begin(c) ==
    /\ phase[c] = "idle"
    /\ phase' = [phase EXCEPT ![c] = "running"]
    /\ UNCHANGED <<executed, result>>

\* Nothing was sent and nothing will be.
Reject(c, r) ==
    /\ phase[c] = "idle"
    /\ r \in Unwitnessed
    /\ phase' = [phase EXCEPT ![c] = "rejected"]
    /\ result' = [result EXCEPT ![c] = r]
    /\ UNCHANGED executed

\* FMG executes attempt k, in time or late.
Execute(c, k) ==
    /\ phase[c] \in {"running", "done"}
    /\ k \notin executed[c]
    /\ executed' = [executed EXCEPT ![c] = @ \cup {k}]
    /\ UNCHANGED <<phase, result>>

Return(c, r) ==
    /\ phase[c] = "running"
    /\ r \in Witnessed => executed[c] # {}
    /\ phase' = [phase EXCEPT ![c] = "done"]
    /\ result' = [result EXCEPT ![c] = r]
    /\ UNCHANGED executed

Next ==
    \E c \in Calls :
        \/ Begin(c)
        \/ \E k \in 1 .. MaxRetries : Execute(c, k)
        \/ \E r \in Results : Reject(c, r) \/ Return(c, r)

Spec == Init /\ [][Next]_vars
=============================================================================
