---------------------------- MODULE WorkspaceLock ----------------------------
(***************************************************************************)
(* WorkspaceLockContext (core/locking.py): workers on one ADOM, each       *)
(* running `async with WorkspaceLockContext(...)' around a batch of        *)
(* writes, against the workspace of FmgWorkspace.                          *)
(*                                                                         *)
(* A context is one pass through a with block.  Its pc names the await it  *)
(* is suspended at: a client call ("lockinfo", "lock", "probe", "write",   *)
(* "commit", "unlock", "force"), the body between two calls ("body"), or   *)
(* where it ended ("returned", "raised", "crashed").                       *)
(*                                                                         *)
(* A client call is what FmgClient promises (see RpcContract): FMG may     *)
(* execute the request any number of times before the call ends (Serve;    *)
(* the client retries), and the call ends with the latest answer or, when  *)
(* every answer was lost, with a transport error.                          *)
(***************************************************************************)
EXTENDS FmgWorkspace, Naturals

CONSTANTS
    Ctx,            \* contexts, each used for one with block
    Sessions,       \* FMG sessions (a login, or an API token)
    SessionOf,      \* [Ctx -> Sessions]: the session a context's client uses
    WorkspaceFlag,  \* [Ctx -> SUBSET BOOLEAN]: values of the workspace_enabled argument
    Faulty,         \* contexts whose calls may be lost, cancelled or cut by a crash
    Forcing,        \* contexts an operator calls force_unlock() on
    BatchSize,      \* writes in a body
    Overlap,        \* BOOLEAN: contexts of one session may be open together
    LateProcessing  \* BOOLEAN: FMG may execute a request its client gave up on

ASSUME LockAssumption ==
    /\ SessionOf \in [Ctx -> Sessions]
    /\ WorkspaceFlag \in [Ctx -> SUBSET BOOLEAN]
    /\ Faulty \subseteq Ctx
    /\ Forcing \subseteq Ctx
    /\ BatchSize \in Nat
    /\ NoSession \notin Sessions
    /\ RelockOutcomes \subseteq BOOLEAN
    /\ WorkspaceModes \subseteq BOOLEAN /\ LockinfoExposed \in BOOLEAN
    /\ Denied \subseteq Sessions
    /\ CommitMayFail \in BOOLEAN
    /\ Overlap \in BOOLEAN /\ LateProcessing \in BOOLEAN

VARIABLES
    pc,      \* [Ctx -> Labels]
    reply,   \* [Ctx -> answer FMG has given the pending call, or "none"]
    locked,  \* _locked
    enabled, \* _workspace_enabled
    wrote,   \* [Ctx -> writes of the body FMG accepted]
    aborted, \* [Ctx -> BOOLEAN]: the body raised
    failed,  \* [Ctx -> calls of the context that raised] (history)
    late     \* requests abandoned by their client, FMG may still execute them

vars == <<owner, pending, committed, mode, pc, reply, locked, enabled, wrote,
          aborted, failed, late>>

Calls == {"lockinfo", "lock", "probe", "write", "commit", "unlock", "force"}
Ended == {"returned", "raised", "crashed"}
Labels == {"idle", "body"} \cup Calls \cup Ended

Batch(w) == {w} \X (1 .. BatchSize)
Writes == Ctx \X (1 .. BatchSize)
\* Requests that change something at FMG.
Mutating == {"lock", "write", "commit", "unlock", "force"}
Requests == [ctx : Ctx, op : Mutating, nth : 1 .. BatchSize + 1]

Active(w) == pc[w] \notin {"idle"} \cup Ended
SameSession(v, w) == SessionOf[v] = SessionOf[w]

TypeOK ==
    /\ owner \in Sessions \cup {NoSession}
    /\ pending \subseteq Writes
    /\ committed \subseteq Writes
    /\ mode \in BOOLEAN
    /\ pc \in [Ctx -> Labels]
    /\ reply \in [Ctx -> ServerAnswers \cup {"none"}]
    /\ locked \in [Ctx -> BOOLEAN]
    /\ enabled \in [Ctx -> BOOLEAN]
    /\ wrote \in [Ctx -> 0 .. BatchSize]
    /\ \A w \in Ctx : pc[w] = "write" => wrote[w] < BatchSize
    /\ aborted \in [Ctx -> BOOLEAN]
    /\ failed \in [Ctx -> SUBSET Calls]
    /\ late \subseteq Requests
    /\ \A r \in late : r.op = "write" => r.nth <= BatchSize

Init ==
    /\ ServerInit
    /\ pc = [w \in Ctx |-> "idle"]
    /\ reply = [w \in Ctx |-> "none"]
    /\ locked = [w \in Ctx |-> FALSE]
    /\ enabled \in [Ctx -> BOOLEAN] /\ \A w \in Ctx : enabled[w] \in WorkspaceFlag[w]
    /\ wrote = [w \in Ctx |-> 0]
    /\ aborted = [w \in Ctx |-> FALSE]
    /\ failed = [w \in Ctx |-> {}]
    /\ late = {}

-----------------------------------------------------------------------------
(* Client calls *)

\* FMG executes request r for the session of its context.
Execute(r, a) ==
    LET s == SessionOf[r.ctx] IN
    \/ r.op = "lockinfo" /\ ServeLockinfo(a)
    \/ r.op = "lock" /\ ServeLock(s, a)
    \/ r.op = "probe" /\ ServeProbe(a)
    \/ r.op = "write" /\ ServeWrite(s, <<r.ctx, r.nth>>, a)
    \/ r.op = "commit" /\ ServeCommit(s, a)
    \/ r.op \in {"unlock", "force"} /\ ServeUnlock(s, a)

Request(w) == [ctx |-> w, op |-> pc[w], nth |-> wrote[w] + 1]

\* One attempt of w's call reaches FMG; a second one is a retry after the
\* answer to the first was lost.
Serve(w) ==
    /\ pc[w] \in Calls
    /\ reply[w] = "none" \/ w \in Faulty
    /\ \E a \in ServerAnswers :
          /\ Execute(Request(w), a)
          /\ reply' = [reply EXCEPT ![w] = a]
    /\ UNCHANGED <<pc, locked, enabled, wrote, aborted, failed, late>>

\* An attempt the client timed out on is executed after the call has ended.
ServeLate(r) ==
    /\ r \in late
    /\ \E a \in ServerAnswers : Execute(r, a)
    /\ late' = late \ {r}
    /\ UNCHANGED <<pc, reply, locked, enabled, wrote, aborted, failed>>

\* What the awaited call can deliver now: FMG's answer, or the transport
\* error that ends a call whose attempts all failed.
Answers(w) ==
    ({reply[w]} \ {"none"}) \cup (IF w \in Faulty THEN {"lost"} ELSE {})

\* The call of w is over and w goes on at `next'; an attempt it timed out on
\* may still be under way.
EndCall(w, next) ==
    /\ pc' = [pc EXCEPT ![w] = next]
    /\ reply' = [reply EXCEPT ![w] = "none"]
    /\ late' \in IF LateProcessing /\ w \in Faulty /\ pc[w] \in Mutating
                 THEN {late, late \cup {Request(w)}} ELSE {late}

CallRaised(w) == failed' = [failed EXCEPT ![w] = @ \cup {pc[w]}]

-----------------------------------------------------------------------------
(* __aenter__ and lock() *)

\* Wrong variant: _locked is set before FMG was asked.
EnterLocked(w) ==
    /\ pc[w] = "idle"
    /\ Overlap \/ \A v \in Ctx : SameSession(v, w) => ~Active(v)
    /\ pc' = [pc EXCEPT ![w] = IF enabled[w] THEN "lockinfo" ELSE "body"]
    /\ locked' = [locked EXCEPT ![w] = TRUE]
    /\ UNCHANGED <<serverVars, reply, enabled, wrote, aborted, failed, late>>

\* __aenter__: lock() starts with the lockinfo pre-check, or does nothing at
\* all when workspace_enabled is False.
Enter(w) ==
    /\ pc[w] = "idle"
    /\ Overlap \/ \A v \in Ctx : SameSession(v, w) => ~Active(v)
    /\ pc' = [pc EXCEPT ![w] = IF enabled[w] THEN "lockinfo" ELSE "body"]
    /\ UNCHANGED <<serverVars, reply, locked, enabled, wrote, aborted, failed, late>>

\* get_lock_state(): only an explicit lock_state 1 stops lock(); any error is
\* "state unknown" and falls through to the lock request.
LockinfoReturns(w) ==
    /\ pc[w] = "lockinfo"
    /\ \E a \in Answers(w) :
          \/ /\ a = "held"
             /\ EndCall(w, "raised")
             /\ UNCHANGED failed
          \/ /\ a = "free"
             /\ EndCall(w, "lock")
             /\ UNCHANGED failed
          \/ /\ a \notin {"held", "free"}
             /\ EndCall(w, "lock")
             /\ CallRaised(w)
    /\ UNCHANGED <<serverVars, locked, enabled, wrote, aborted>>

\* Wrong variant (for testing the properties): every outcome but -9 passes for a
\* granted lock.
LockReturnsUnchecked(w) ==
    /\ pc[w] = "lock"
    /\ \E a \in Answers(w) :
          /\ EndCall(w, IF a = "minus9" THEN "probe" ELSE "body")
          /\ locked' = [locked EXCEPT ![w] = a # "minus9"]
    /\ UNCHANGED <<serverVars, enabled, wrote, aborted, failed>>

\* exec workspace/lock: granted, -9 (probe the ADOM), or LockError.
LockReturns(w) ==
    /\ pc[w] = "lock"
    /\ \E a \in Answers(w) :
          \/ /\ a = "ok"
             /\ EndCall(w, "body")
             /\ locked' = [locked EXCEPT ![w] = TRUE]
             /\ UNCHANGED failed
          \/ /\ a = "minus9"
             /\ EndCall(w, "probe")
             /\ UNCHANGED <<locked, failed>>
          \/ /\ a \notin {"ok", "minus9"}
             /\ EndCall(w, "raised")
             /\ CallRaised(w)
             /\ UNCHANGED locked
    /\ UNCHANGED <<serverVars, enabled, wrote, aborted>>

\* _downgrade_on_minus9_or_raise
ProbeReturns(w) ==
    /\ pc[w] = "probe"
    /\ \E a \in Answers(w) :
          \/ /\ a = "ok"
             /\ EndCall(w, "body")
             /\ enabled' = [enabled EXCEPT ![w] = FALSE]
             /\ UNCHANGED failed
          \/ /\ a # "ok"
             /\ EndCall(w, "raised")
             /\ CallRaised(w)
             /\ UNCHANGED enabled
    /\ UNCHANGED <<serverVars, locked, wrote, aborted>>

-----------------------------------------------------------------------------
(* The body and __aexit__ *)

\* commit() and unlock() act only for a context that took the lock.
Protects(w) == enabled[w] /\ locked[w]

\* Wrong variants: an exception leaves without unlocking; it commits all the same.
AfterExceptionLeaks(w) == "raised"
AfterExceptionCommits(w) == IF Protects(w) THEN "commit" ELSE "raised"

\* Where __aexit__ goes with an exception: commit is skipped, unlock is not.
AfterException(w) == IF Protects(w) THEN "unlock" ELSE "raised"

\* The body issues its next write.
BeginWrite(w) ==
    /\ pc[w] = "body"
    /\ wrote[w] < BatchSize
    /\ pc' = [pc EXCEPT ![w] = "write"]
    /\ UNCHANGED <<serverVars, reply, locked, enabled, wrote, aborted, failed, late>>

\* Wrong variant: the outcome of a write is not looked at.
WriteReturnsUnchecked(w) ==
    /\ pc[w] = "write"
    /\ Answers(w) # {}
    /\ EndCall(w, "body")
    /\ wrote' = [wrote EXCEPT ![w] = @ + 1]
    /\ UNCHANGED <<serverVars, locked, enabled, aborted, failed>>

\* A write the server refused, or that never got an answer, raises in the body.
WriteReturns(w) ==
    /\ pc[w] = "write"
    /\ \E a \in Answers(w) :
          \/ /\ a = "ok"
             /\ EndCall(w, "body")
             /\ wrote' = [wrote EXCEPT ![w] = @ + 1]
             /\ UNCHANGED <<aborted, failed>>
          \/ /\ a # "ok"
             /\ EndCall(w, AfterException(w))
             /\ aborted' = [aborted EXCEPT ![w] = TRUE]
             /\ CallRaised(w)
             /\ UNCHANGED wrote
    /\ UNCHANGED <<serverVars, locked, enabled>>

\* The body raises on its own account, or its task is cancelled between writes.
BodyRaises(w) ==
    /\ pc[w] = "body"
    /\ pc' = [pc EXCEPT ![w] = AfterException(w)]
    /\ aborted' = [aborted EXCEPT ![w] = TRUE]
    /\ UNCHANGED <<serverVars, reply, locked, enabled, wrote, failed, late>>

\* The body is through: __aexit__ commits, or has nothing to do.
BodyCompletes(w) ==
    /\ pc[w] = "body"
    /\ wrote[w] = BatchSize
    /\ pc' = [pc EXCEPT ![w] = IF Protects(w) THEN "commit" ELSE "returned"]
    /\ UNCHANGED <<serverVars, reply, locked, enabled, wrote, aborted, failed, late>>

\* Wrong variant: commit() logs its error and does not raise it.
CommitReturnsQuietly(w) ==
    /\ pc[w] = "commit"
    /\ Answers(w) # {}
    /\ EndCall(w, "unlock")
    /\ UNCHANGED <<serverVars, locked, enabled, wrote, aborted, failed>>

\* A commit that raises leaves __aexit__ before its unlock.
CommitReturns(w) ==
    /\ pc[w] = "commit"
    /\ \E a \in Answers(w) :
          \/ /\ a = "ok"
             /\ EndCall(w, "unlock")
             /\ UNCHANGED failed
          \/ /\ a # "ok"
             /\ EndCall(w, "raised")
             /\ CallRaised(w)
    /\ UNCHANGED <<serverVars, locked, enabled, wrote, aborted>>

\* Wrong variant: unlock() goes on until FMG says ok.
UnlockReturnsInsists(w) ==
    /\ pc[w] = "unlock"
    /\ \E a \in Answers(w) :
          EndCall(w, IF a # "ok" THEN "unlock"
                     ELSE IF aborted[w] THEN "raised" ELSE "returned")
    /\ UNCHANGED <<serverVars, locked, enabled, wrote, aborted, failed>>

\* unlock() swallows its error and forgets the lock either way.
UnlockReturns(w) ==
    /\ pc[w] = "unlock"
    /\ \E a \in Answers(w) :
          /\ EndCall(w, IF aborted[w] THEN "raised" ELSE "returned")
          /\ IF a = "ok" THEN UNCHANGED failed ELSE CallRaised(w)
    /\ locked' = [locked EXCEPT ![w] = FALSE]
    /\ UNCHANGED <<serverVars, enabled, wrote, aborted>>

-----------------------------------------------------------------------------
(* force_unlock(), cancellation, crash *)

\* force_unlock() on a context that is not in use: _locked is not consulted.
ForceUnlock(w) ==
    /\ w \in Forcing
    /\ pc[w] = "idle"
    /\ Overlap \/ \A v \in Ctx : SameSession(v, w) => ~Active(v)
    /\ pc' = [pc EXCEPT ![w] = "force"]
    /\ UNCHANGED <<serverVars, reply, locked, enabled, wrote, aborted, failed, late>>

\* Whether it raised or not, the operator may enter the context or try again.
ForceReturns(w) ==
    /\ pc[w] = "force"
    /\ Answers(w) # {}
    /\ EndCall(w, "idle")
    /\ UNCHANGED <<serverVars, locked, enabled, wrote, aborted, failed>>

\* CancelledError at an await outside the body.  It is no Exception, so no
\* handler of lock() or commit() sees it; unlock()'s finally clause does.
\* In "write" it is one more exception of the body (WriteReturns).
Cancel(w) ==
    /\ w \in Faulty
    /\ pc[w] \in {"lockinfo", "lock", "probe", "commit", "unlock"}
    /\ EndCall(w, "raised")
    /\ CallRaised(w)
    /\ locked' = [locked EXCEPT ![w] = IF pc[w] = "unlock" THEN FALSE ELSE @]
    /\ UNCHANGED <<serverVars, enabled, wrote, aborted>>

\* The worker process dies.
Crash(w) ==
    /\ w \in Faulty
    /\ Active(w)
    /\ EndCall(w, "crashed")
    /\ UNCHANGED <<serverVars, locked, enabled, wrote, aborted, failed>>

-----------------------------------------------------------------------------
(* The specification *)

\* The end of the pending call.
Returns(w) ==
    \/ LockinfoReturns(w) \/ LockReturns(w) \/ ProbeReturns(w)
    \/ WriteReturns(w) \/ CommitReturns(w) \/ UnlockReturns(w)
    \/ ForceReturns(w)

\* The steps of the with body between two calls.
Body(w) == BeginWrite(w) \/ BodyRaises(w) \/ BodyCompletes(w)

Next ==
    \/ \E w \in Ctx :
          \/ Enter(w) \/ Serve(w) \/ Returns(w) \/ Body(w)
          \/ ForceUnlock(w) \/ Cancel(w) \/ Crash(w)
    \/ \E r \in late : ServeLate(r)

Spec == Init /\ [][Next]_vars

\* A call ends: httpx bounds every attempt by its timeouts and _post_payload
\* their number, so an attempt is answered or given up and the handler goes on.
\* The body is the user's; it is assumed to end.
Fairness ==
    \A w \in Ctx :
        /\ WF_vars(reply[w] = "none" /\ Serve(w))
        /\ WF_vars(Returns(w))
        /\ WF_vars(Body(w))

FairSpec == Spec /\ Fairness

-----------------------------------------------------------------------------
(* Properties *)

\* The with body of w, or the commit that follows it, is running under a lock
\* that w believes to hold.
Holding(w) == locked[w] /\ pc[w] \in {"body", "write", "commit"}

\* A context that believes to hold the lock does: from the answer to its lock
\* request to the end of its commit, FMG's lock belongs to its session.
LockedImpliesOwner == \A w \in Ctx : Holding(w) => owner = SessionOf[w]

\* Two workers never run their bodies under the same ADOM's lock at once.
MutualExclusion ==
    \A v, w \in Ctx : Holding(v) /\ Holding(w) => v = w

\* A with block that ends without an exception leaves its whole batch where
\* every session sees it, whatever was retried and whoever came in between.
CleanExitDurable ==
    \A w \in Ctx : pc[w] = "returned" => Batch(w) \subseteq committed

\* What may keep a session's lock from being given back: a refused commit; and, for
\* a session with lost calls, a raising lock or unlock and a crash as well.
Excused(s) ==
    \E w \in Ctx :
       /\ SessionOf[w] = s
       /\ \/ "commit" \in failed[w]
          \/ /\ \E v \in Faulty : SessionOf[v] = s
             /\ pc[w] = "crashed" \/ failed[w] \cap {"lock", "unlock"} # {}

\* A lock nobody uses any more is left behind only for such a reason: no failing
\* pre-check, probe or write, and no exception of the body leaks the lock, and where
\* calls are answered no lock or unlock does.
LeakExplained ==
    \A s \in Sessions :
        owner = s => Excused(s) \/ \E w \in Ctx : SessionOf[w] = s /\ Active(w)

\* Either the contexts of one session never overlap and FMG never executes a
\* request its client gave up on, or no two contexts share a session and nobody
\* uses force_unlock().
Disciplined ==
    \/ ~Overlap /\ ~LateProcessing
    \/ /\ \A v, w \in Ctx : SameSession(v, w) => v = w
       /\ Forcing = {}

\* Contexts of one session take turns.
TakeTurns ==
    Disciplined =>
        \A v, w \in Ctx : Active(v) /\ Active(w) /\ SameSession(v, w) => v = w

\* A request abandoned and not executed yet is there only if FMG may execute it
\* late; an abandoned unlock belongs to a context that has ended.
LateIsPast ==
    \A r \in late :
        /\ LateProcessing
        /\ r.op = "unlock" => pc[r.ctx] \in Ended
        /\ r.op = "force" => r.ctx \in Forcing

\* The _locked flag is not set before the lock call has returned.
LockedLate ==
    \A w \in Ctx :
        /\ locked[w] => pc[w] \notin {"idle", "lockinfo", "lock", "probe", "force"}
        /\ pc[w] = "force" => w \in Forcing

\* An "ok" on its way to a waiting lock() is still true.
GrantIsCurrent ==
    \A w \in Ctx : pc[w] = "lock" /\ reply[w] = "ok" => owner = SessionOf[w]

IInv ==
    /\ TypeOK
    /\ TakeTurns
    /\ LateIsPast
    /\ LockedLate
    /\ Disciplined => GrantIsCurrent
    /\ Disciplined => LockedImpliesOwner

\* The with block is over and the context object still says it holds the lock.
\* The module docstring promises that this cannot be.
ExitUnlocks == \A w \in Ctx : pc[w] \in {"returned", "raised"} => ~locked[w]

\* That is the whole extent of it: the flag outlives the with block exactly when the
\* commit raised.  Every other way out, a cancelled or a refused unlock too, drops it.
FlagOutlivesCommit ==
    \A w \in Ctx :
        pc[w] \in {"returned", "raised"} => (locked[w] <=> "commit" \in failed[w])

\* A write of a body that raised is seen by others only if its context could not
\* give the lock back: the unlock behind it raised, or the worker crashed before it.
\* The next context of that session may then commit what was left pending.
AbortedHidden ==
    \A w \in Ctx :
        mode /\ aborted[w] /\ Batch(w) \cap committed # {} =>
            "unlock" \in failed[w] \/ pc[w] = "crashed"

\* What the with block promises its user (AtomicBatches): a batch becomes
\* visible as a whole or not at all, and never after its body has raised.  The
\* outcome is in doubt when the commit, or the unlock behind it, raised, or when
\* the worker crashed.  An ADOM without workspace mode is promised nothing.
Outcome(w) ==
    CASE ~mode -> "open"
      [] mode /\ pc[w] = "returned" -> "succeeded"
      [] mode /\ pc[w] = "raised" ->
            IF ~aborted[w] /\ failed[w] \cap {"commit", "unlock"} # {}
            THEN "doubtful" ELSE "aborted"
      [] mode /\ pc[w] = "crashed" -> "doubtful"
      [] OTHER -> "open"

Promise == INSTANCE AtomicBatches WITH
    Batches <- Ctx,
    Size <- BatchSize,
    store <- IF mode THEN committed ELSE {},
    outcome <- [w \in Ctx |-> Outcome(w)]

\* The context managers of all workers together keep that promise.
BatchesAtomic == Promise!Spec

\* An entered with block is left, whatever fails on the way: from some time on no
\* context is in use any more.
BlocksEnd == <>[] (\A w \in Ctx : pc[w] \in {"idle", "force"} \cup Ended)

\* The awaits and body steps that w still has before it, at most.  force_unlock() may be
\* called as often as the operator likes.
Left(w) ==
    CASE pc[w] \in {"idle", "force"} -> 2 * BatchSize + 7
      [] pc[w] = "lockinfo" -> 2 * BatchSize + 6
      [] pc[w] = "lock" -> 2 * BatchSize + 5
      [] pc[w] = "probe" -> 2 * BatchSize + 4
      [] pc[w] = "body" -> 2 * (BatchSize - wrote[w]) + 3
      [] pc[w] = "write" -> 2 * (BatchSize - wrote[w]) + 2
      [] pc[w] = "commit" -> 2
      [] pc[w] = "unlock" -> 1
      [] OTHER -> 0

\* Whatever a call is answered, the code behind it comes closer to the end of the with
\* block: no error, -9 or refused unlock sends a context back to try again, and no step
\* of another context or of FMG does.
BlocksRunDown ==
    [][\A w \in Ctx :
          /\ Left(w)' <= Left(w)
          /\ (Returns(w) /\ pc[w] # "force") \/ Body(w) => Left(w)' < Left(w)]_vars

\* In the end every lock is given back: by a session whose calls are all answered unless FMG refused
\* one of its commits, by any other unless its lock, commit or unlock raised or a
\* worker of it crashed.
LockGivenBack == <>[] (\A s \in Sessions : owner = s => Excused(s))
=============================================================================
