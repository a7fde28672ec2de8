----------------------- MODULE WorkspaceBatches_proofs -----------------------
(***************************************************************************)
(* What a with block promises its user, for any number of contexts,        *)
(* sessions and writes: no lock is leaked unnoticed, a block that ends     *)
(* without an exception has published its batch, and WorkspaceLock         *)
(* implements AtomicBatches.                                               *)
(***************************************************************************)
EXTENDS WorkspaceLock_proofs

Alone(w) == \A v \in Ctx : SameSession(v, w) => v = w

\* Who says workspace_enabled=False of an ADOM that may have workspace mode on uses a
\* session of its own.
Told == \A w \in Ctx : FALSE \in WorkspaceFlag[w] /\ TRUE \in WorkspaceModes => Alone(w)

\* FMG does not grant the owner its own lock again, or nobody else could profit.
Sole == TRUE \notin RelockOutcomes \/ \A w \in Ctx : Alone(w)

\* FMG answers -9 to the session of w.
CannotLock(w) == ~mode \/ SessionOf[w] \in Denied

OwnerMayOwn == owner # NoSession => mode /\ owner \notin Denied

Minus9IsTrue ==
    \A w \in Ctx : (pc[w] = "lock" /\ reply[w] = "minus9") \/ pc[w] = "probe" => CannotLock(w)

\* Only a context that protects its batch asks for the lock.
LockersEnabled ==
    /\ \A w \in Ctx : pc[w] \in {"lockinfo", "lock", "probe"} \/ locked[w] => enabled[w]
    /\ \A w \in Ctx : pc[w] \in {"body", "write", "commit"} => (enabled[w] <=> locked[w])
    /\ \A w \in Ctx : pc[w] = "commit" => locked[w]
    /\ \A r \in late : r.op = "lock" => enabled[r.ctx] \/ CannotLock(r.ctx)

\* A context without protection does not write under a lock of its session.
OffIsSafe ==
    Told => \A w \in Ctx : ~enabled[w] =>
                CannotLock(w) \/ (Alone(w) /\ owner # SessionOf[w])

\* No answer is on its way to a context that waits for none.
NoneUnasked == \A w \in Ctx : pc[w] \notin Calls => reply[w] = "none"

ModeInv == OwnerMayOwn /\ Minus9IsTrue /\ LockersEnabled /\ OffIsSafe /\ NoneUnasked

\* All calls of the session of w are answered.
Reliable(w) == \A v \in Faulty : ~SameSession(v, w)

\* The context that answers for its session's lock.
Answerable(w) ==
    \/ "commit" \in failed[w]
    \/ pc[w] = "lock" /\ reply[w] = "ok"
    \/ Holding(w)
    \/ pc[w] = "unlock" /\ reply[w] = "none"
    \/ /\ ~Reliable(w)
       /\ \/ pc[w] = "crashed" \/ failed[w] \cap {"lock", "unlock"} # {}
          \/ pc[w] = "lock"
          \/ pc[w] = "unlock" /\ reply[w] # "ok"

LeakInv ==
    ~LateProcessing =>
        \A s \in Sessions : owner = s => \E w \in Ctx : SessionOf[w] = s /\ Answerable(w)

\* What the writes of w have reached: everybody, or what its commit will publish.
Reached(w) == committed \cup (IF locked[w] THEN pending ELSE {})

DurableInv ==
    \A w \in Ctx :
        /\ pc[w] \in {"idle", "lockinfo", "lock", "probe", "force"} => wrote[w] = 0
        /\ pc[w] \in {"body", "write"} => {w} \X (1 .. wrote[w]) \subseteq Reached(w)
        /\ pc[w] = "write" /\ reply[w] = "ok" => <<w, wrote[w] + 1>> \in Reached(w)
        /\ pc[w] = "commit" => Batch(w) \subseteq Reached(w)
        /\ pc[w] = "commit" /\ reply[w] = "ok" => Batch(w) \subseteq committed
        /\ pc[w] = "unlock" /\ ~aborted[w] => Batch(w) \subseteq committed
        /\ pc[w] = "returned" => Batch(w) \subseteq committed

\* The outcome of w is that nothing was published.
Unpublished(w) ==
    \/ pc[w] \in {"idle", "lockinfo", "lock", "probe", "force", "body", "write"}
    \/ aborted[w]
    \/ pc[w] = "raised" /\ failed[w] \cap {"commit", "unlock"} = {}

\* Pending writes are those of the owner, and of the context that is to commit them.
PendingOwned ==
    /\ \A x \in pending : SessionOf[x[1]] = owner
    /\ \A w \in Ctx : (pc[w] = "lock" /\ reply[w] = "ok") \/ Holding(w) =>
            pending \subseteq Batch(w)

\* What an abandoned request can still do.
LateHarmless ==
    \A r \in late :
        /\ r.op = "commit" => /\ ~Unpublished(r.ctx) /\ pc[r.ctx] \in {"unlock"} \cup Ended
                              /\ Batch(r.ctx) \subseteq pending \cup committed
        /\ r.op = "unlock" => aborted[r.ctx] \/ Batch(r.ctx) \subseteq committed

AtomicInv ==
    /\ \A w \in Ctx : pc[w] \notin {"unlock"} \cup Ended => ~aborted[w]
    /\ PendingOwned
    /\ LateHarmless
    /\ mode => \A w \in Ctx : Unpublished(w) => Batch(w) \cap committed = {}

-----------------------------------------------------------------------------
(* What a step does *)

\* The rest of context w stays what it is.
Keeps(w) ==
    /\ locked'[w] = locked[w] /\ enabled'[w] = enabled[w]
    /\ wrote'[w] = wrote[w] /\ aborted'[w] = aborted[w]

\* The ways in which a call of w can end.
Ends(w) ==
    \/ pc'[w] = "crashed" /\ Keeps(w)
    \/ pc[w] = "lockinfo" /\ pc'[w] \in {"lock", "raised"} /\ Keeps(w)
    \/ /\ pc[w] = "lock" /\ reply[w] = "ok" /\ pc'[w] = "body" /\ locked'[w]
       /\ enabled'[w] = enabled[w] /\ wrote'[w] = wrote[w] /\ aborted'[w] = aborted[w]
    \/ pc[w] = "lock" /\ reply[w] = "minus9" /\ pc'[w] = "probe" /\ Keeps(w)
    \/ pc[w] = "lock" /\ pc'[w] = "raised" /\ "lock" \in failed'[w] /\ Keeps(w)
    \/ /\ pc[w] = "probe" /\ pc'[w] = "body" /\ ~enabled'[w]
       /\ locked'[w] = locked[w] /\ wrote'[w] = wrote[w] /\ aborted'[w] = aborted[w]
    \/ pc[w] = "probe" /\ pc'[w] = "raised" /\ Keeps(w)
    \/ /\ pc[w] = "write" /\ reply[w] = "ok" /\ pc'[w] = "body" /\ wrote'[w] = wrote[w] + 1
       /\ locked'[w] = locked[w] /\ enabled'[w] = enabled[w] /\ aborted'[w] = aborted[w]
    \/ /\ pc[w] = "write" /\ pc'[w] = AfterException(w) /\ aborted'[w]
       /\ locked'[w] = locked[w] /\ enabled'[w] = enabled[w] /\ wrote'[w] = wrote[w]
    \/ pc[w] = "commit" /\ reply[w] = "ok" /\ pc'[w] = "unlock" /\ Keeps(w)
    \/ pc[w] = "commit" /\ pc'[w] = "raised" /\ "commit" \in failed'[w] /\ Keeps(w)
    \/ /\ pc[w] = "unlock" /\ ~locked'[w]
       /\ \/ reply[w] = "ok" /\ pc'[w] = IF aborted[w] THEN "raised" ELSE "returned"
          \/ /\ "unlock" \in failed'[w]
             /\ pc'[w] \in {"raised", IF aborted[w] THEN "raised" ELSE "returned"}
       /\ enabled'[w] = enabled[w] /\ wrote'[w] = wrote[w] /\ aborted'[w] = aborted[w]
    \/ pc[w] = "force" /\ pc'[w] = "idle" /\ Keeps(w)

\* A call that ends changes nothing at FMG and no other context.
LEMMA EndsStep ==
    ASSUME TypeOK, NEW w \in Ctx, Returns(w) \/ Cancel(w) \/ Crash(w)
    PROVE  /\ UNCHANGED <<owner, pending, committed, mode>>
           /\ \A v \in Ctx \ {w} :
                 /\ pc'[v] = pc[v] /\ reply'[v] = reply[v] /\ failed'[v] = failed[v]
                 /\ Keeps(v)
           /\ Active(w) /\ reply'[w] = "none" /\ failed[w] \subseteq failed'[w]
           /\ \/ late' = late
              \/ late' = late \cup {Request(w)} /\ LateProcessing /\ pc[w] \in Mutating
           /\ Ends(w)
<1> USE DEF TypeOK, EndCall, Answers, CallRaised, Keeps, Active, Ended, serverVars
<1>1. CASE LockinfoReturns(w)
  BY <1>1 DEF LockinfoReturns, Ends
<1>2. CASE LockReturns(w)
  BY <1>2 DEF LockReturns, Ends
<1>3. CASE ProbeReturns(w)
  BY <1>3 DEF ProbeReturns, Ends
<1>4. CASE WriteReturns(w)
  BY <1>4 DEF WriteReturns, Ends
<1>5. CASE CommitReturns(w)
  BY <1>5 DEF CommitReturns, Ends
<1>6. CASE UnlockReturns(w)
  BY <1>6 DEF UnlockReturns, Ends
<1>7. CASE ForceReturns(w)
  BY <1>7 DEF ForceReturns, Ends
<1>8. CASE Cancel(w)
  BY <1>8 DEF Cancel, Ends
<1>9. CASE Crash(w)
  BY <1>9 DEF Crash, Ends
<1>10. QED
  BY <1>1, <1>2, <1>3, <1>4, <1>5, <1>6, <1>7, <1>8, <1>9 DEF Returns

\* The ways in which w goes on by itself.
Begins(w) ==
    \/ pc[w] = "idle" /\ pc'[w] = "force" /\ aborted'[w] = aborted[w]
    \/ /\ pc[w] = "idle" /\ pc'[w] = IF enabled[w] THEN "lockinfo" ELSE "body"
       /\ aborted'[w] = aborted[w]
    \/ pc[w] = "body" /\ pc'[w] = "write" /\ aborted'[w] = aborted[w]
    \/ pc[w] = "body" /\ pc'[w] = AfterException(w) /\ aborted'[w]
    \/ /\ pc[w] = "body" /\ wrote[w] = BatchSize /\ aborted'[w] = aborted[w]
       /\ pc'[w] = IF Protects(w) THEN "commit" ELSE "returned"

\* Nothing else changes then.
LEMMA BeginsStep ==
    ASSUME TypeOK, NEW w \in Ctx, Enter(w) \/ ForceUnlock(w) \/ Body(w)
    PROVE  /\ UNCHANGED <<owner, pending, committed, mode, reply, late, locked, enabled,
                          wrote, failed>>
           /\ \A v \in Ctx \ {w} : pc'[v] = pc[v] /\ aborted'[v] = aborted[v]
           /\ Begins(w)
<1> USE DEF TypeOK, serverVars, Begins
<1>1. CASE Enter(w)
  BY <1>1 DEF Enter
<1>2. CASE ForceUnlock(w)
  BY <1>2 DEF ForceUnlock
<1>3. CASE BeginWrite(w)
  BY <1>3 DEF BeginWrite
<1>4. CASE BodyRaises(w)
  BY <1>4 DEF BodyRaises
<1>5. CASE BodyCompletes(w)
  BY <1>5 DEF BodyCompletes
<1>6. QED
  BY <1>1, <1>2, <1>3, <1>4, <1>5 DEF Body

\* A request that a step of FMG executes: of a pending call, or abandoned.
Sent(r) == r.ctx \in Ctx /\ (r \in late \/ (r = Request(r.ctx) /\ pc[r.ctx] \in Calls))

\* A step of FMG executes one request and leaves the contexts alone, up to one answer.
LEMMA ServesStep ==
    ASSUME TypeOK, (\E w \in Ctx : Serve(w)) \/ (\E r \in late : ServeLate(r))
    PROVE  \E r, a : /\ Sent(r) /\ Execute(r, a) /\ a \in ServerAnswers
                     /\ UNCHANGED <<pc, locked, enabled, wrote, aborted, failed>>
                     /\ late' \subseteq late
                     /\ \/ UNCHANGED reply
                        \/ /\ r = Request(r.ctx) /\ pc[r.ctx] \in Calls
                           /\ reply'[r.ctx] = a
                           /\ \A v \in Ctx \ {r.ctx} : reply'[v] = reply[v]
<1>1. CASE \E w \in Ctx : Serve(w)
  <2>1. PICK w \in Ctx : Serve(w)
    BY <1>1
  <2>2. PICK a \in ServerAnswers : Execute(Request(w), a) /\ reply' = [reply EXCEPT ![w] = a]
    BY <2>1 DEF Serve
  <2>3. Request(w).ctx = w /\ pc[w] \in Calls
    BY <2>1 DEF Request, Serve
  <2>4. /\ reply'[w] = a /\ \A v \in Ctx \ {w} : reply'[v] = reply[v]
        /\ UNCHANGED <<pc, locked, enabled, wrote, aborted, failed, late>>
    BY <2>1, <2>2 DEF TypeOK, Serve
  <2>5. Sent(Request(w))
    BY <2>3 DEF Sent
  <2>6. QED
    BY <2>2, <2>3, <2>4, <2>5
<1>2. CASE \E r \in late : ServeLate(r)
  <2>1. PICK r \in late : ServeLate(r)
    BY <1>2
  <2>2. PICK a \in ServerAnswers : Execute(r, a)
    BY <2>1 DEF ServeLate
  <2>3. Sent(r)
    BY DEF TypeOK, Requests, Sent
  <2>4. QED
    BY <2>1, <2>2, <2>3 DEF ServeLate
<1>3. QED
  BY <1>1, <1>2
-----------------------------------------------------------------------------
(* Workspace mode *)

\* Workspace mode at the start: nobody owns the lock, and who may skip it does so safely.
LEMMA InitMode == Init => ModeInv
<1> SUFFICES ASSUME Init
             PROVE  ModeInv
  OBVIOUS
<1>1. OwnerMayOwn /\ Minus9IsTrue /\ LockersEnabled /\ NoneUnasked
  BY DEF Init, ServerInit, OwnerMayOwn, Minus9IsTrue, LockersEnabled, NoneUnasked
<1>2. OffIsSafe
  <2> SUFFICES ASSUME Told, NEW w \in Ctx, ~enabled[w]
               PROVE  CannotLock(w) \/ (Alone(w) /\ owner # SessionOf[w])
    BY DEF OffIsSafe
  <2>1. FALSE \in WorkspaceFlag[w] /\ mode \in WorkspaceModes
    BY DEF Init, ServerInit
  <2>2. mode \in BOOLEAN /\ owner # SessionOf[w]
    BY LockAssumption DEF Init, ServerInit
  <2>3. QED
    BY <2>1, <2>2 DEF Told, CannotLock
<1>3. QED
  BY <1>1, <1>2 DEF ModeInv

\* A context that stops protecting its batch does so after -9, which was true.
LEMMA EndsMode ==
    ASSUME IInv, ModeInv, NEW w \in Ctx, Returns(w) \/ Cancel(w) \/ Crash(w)
    PROVE  ModeInv'
<1> USE DEF ModeInv
<1>1. /\ owner' = owner /\ mode' = mode
      /\ \A v \in Ctx \ {w} : pc'[v] = pc[v] /\ reply'[v] = reply[v] /\ Keeps(v)
      /\ reply'[w] = "none" /\ Ends(w)
      /\ \/ late' = late
         \/ late' = late \cup {Request(w)} /\ LateProcessing /\ pc[w] \in Mutating
  BY EndsStep DEF IInv
<1>2. OwnerMayOwn' /\ NoneUnasked'
  BY <1>1 DEF OwnerMayOwn, NoneUnasked
<1>3. \A v \in Ctx : CannotLock(v) => CannotLock(v)'
  BY <1>1 DEF CannotLock
<1>4. Minus9IsTrue'
  <2>1. pc'[w] = "probe" => pc[w] = "lock" /\ reply[w] = "minus9"
    BY <1>1 DEF Ends, AfterException
  <2>2. pc'[w] # "lock" \/ reply'[w] # "minus9"
    BY <1>1
  <2>3. QED
    BY <1>1, <1>3, <2>1, <2>2 DEF Minus9IsTrue
<1>5. enabled'[w] \/ ~enabled[w] \/ CannotLock(w)
  BY <1>1 DEF Ends, Keeps, Minus9IsTrue
<1>6. LockersEnabled'
  <2>1. /\ pc'[w] \in {"lockinfo", "lock", "probe"} \/ locked'[w] => enabled'[w]
        /\ pc'[w] \in {"body", "write", "commit"} => (enabled'[w] <=> locked'[w])
        /\ pc'[w] = "commit" => locked'[w]
    BY <1>1 DEF LockersEnabled, LockedLate, IInv, Ends, Keeps, AfterException
  <2>2. \A r \in late' : r.op = "lock" => r.ctx \in Ctx /\ (enabled[r.ctx] \/ CannotLock(r.ctx))
    BY <1>1 DEF LockersEnabled, Request, IInv, TypeOK, Requests
  <2>3. \A r \in late' : r.op = "lock" => enabled'[r.ctx] \/ CannotLock(r.ctx)'
    <3> SUFFICES ASSUME NEW r \in late', r.op = "lock"
                 PROVE  enabled'[r.ctx] \/ CannotLock(r.ctx)'
      OBVIOUS
    <3>1. CASE r.ctx = w
      BY <1>3, <1>5, <2>2, <3>1
    <3>2. CASE r.ctx # w
      BY <1>1, <1>3, <2>2, <3>2 DEF Keeps
    <3>3. QED
      BY <3>1, <3>2
  <2>4. \A v \in Ctx \ {w} :
          /\ pc'[v] \in {"lockinfo", "lock", "probe"} \/ locked'[v] => enabled'[v]
          /\ pc'[v] \in {"body", "write", "commit"} => (enabled'[v] <=> locked'[v])
          /\ pc'[v] = "commit" => locked'[v]
    BY <1>1 DEF LockersEnabled, Keeps
  <2>5. QED
    BY <2>1, <2>3, <2>4 DEF LockersEnabled
<1>7. OffIsSafe'
  <2> SUFFICES ASSUME Told, NEW v \in Ctx, ~enabled'[v]
               PROVE  CannotLock(v)' \/ (Alone(v) /\ owner # SessionOf[v])
    BY <1>1 DEF OffIsSafe, Told, Alone, SameSession
  <2>1. ~enabled[v] \/ CannotLock(v)
    BY <1>1, <1>5 DEF Keeps
  <2>2. QED
    BY <1>3, <2>1 DEF OffIsSafe
<1>8. QED
  BY <1>2, <1>4, <1>6, <1>7

\* A body runs unprotected only where the caller said so.
LEMMA BeginsMode ==
    ASSUME IInv, ModeInv, NEW w \in Ctx, Enter(w) \/ ForceUnlock(w) \/ Body(w)
    PROVE  ModeInv'
<1> USE DEF ModeInv
<1>1. /\ UNCHANGED <<owner, mode, reply, late, locked, enabled>>
      /\ \A v \in Ctx \ {w} : pc'[v] = pc[v]
      /\ Begins(w)
  BY BeginsStep DEF IInv
<1>2. /\ pc'[w] \notin {"lock", "probe"} /\ pc[w] \notin Calls
      /\ pc'[w] = "lockinfo" => enabled[w]
      /\ pc'[w] = "body" => pc[w] = "idle" /\ ~enabled[w]
      /\ pc'[w] \in {"write", "commit"} => pc[w] = "body"
      /\ pc'[w] = "commit" => locked[w]
  BY <1>1 DEF Begins, AfterException, Protects, Calls
<1>3. OwnerMayOwn' /\ Minus9IsTrue' /\ NoneUnasked'
  BY <1>1, <1>2 DEF OwnerMayOwn, Minus9IsTrue, NoneUnasked, CannotLock
<1>4. LockersEnabled'
  <2>1. pc'[w] = "body" => ~locked[w]
    BY <1>2 DEF LockedLate, IInv
  <2>2. QED
    BY <1>1, <1>2, <2>1 DEF LockersEnabled, CannotLock
<1>5. OffIsSafe'
  BY <1>1 DEF OffIsSafe, Told, Alone, SameSession, CannotLock
<1>6. QED
  BY <1>3, <1>4, <1>5

\* FMG answers -9 only if it is true, and gives the lock only to a context that asks for it.
LEMMA ServesMode ==
    ASSUME IInv, ModeInv, (\E w \in Ctx : Serve(w)) \/ (\E r \in late : ServeLate(r))
    PROVE  ModeInv'
<1> USE DEF ModeInv
<1>1. PICK r, a :
        /\ Sent(r) /\ Execute(r, a) /\ UNCHANGED <<pc, locked, enabled>>
        /\ late' \subseteq late
        /\ \/ UNCHANGED reply
           \/ /\ r = Request(r.ctx) /\ pc[r.ctx] \in Calls
              /\ reply'[r.ctx] = a
              /\ \A v \in Ctx \ {r.ctx} : reply'[v] = reply[v]
  BY ServesStep DEF IInv
<1>2. r.ctx \in Ctx
  BY <1>1 DEF Sent
<1>3. mode' = mode
  BY <1>1 DEF Execute, ServeLockinfo, ServeLock, GrantLock, RelockOwn, RefuseLock,
         LockNotSupported, ServeProbe, ServeWrite, ServeCommit, ServeUnlock, serverVars
<1>4. \A v \in Ctx : CannotLock(v)' <=> CannotLock(v)
  BY <1>3 DEF CannotLock
<1>5. OwnerMayOwn'
  BY <1>1 DEF OwnerMayOwn, Execute, ServeLockinfo, ServeLock, GrantLock, RelockOwn,
         RefuseLock, LockNotSupported, ServeProbe, ServeWrite, ServeCommit, ServeUnlock,
         serverVars
<1>6. Minus9IsTrue'
  <2>1. r.op = "lock" /\ a = "minus9" => CannotLock(r.ctx)
    BY <1>1 DEF CannotLock, Execute, ServeLock, GrantLock, RelockOwn, RefuseLock,
           LockNotSupported
  <2>2. r = Request(r.ctx) => r.op = pc[r.ctx]
    BY DEF Request
  <2>3. QED
    BY <1>1, <1>2, <1>4, <2>1, <2>2 DEF Minus9IsTrue
<1>7. LockersEnabled' /\ NoneUnasked'
  <2>1. \A q \in late : q.ctx \in Ctx
    BY DEF IInv, TypeOK, Requests
  <2>2. QED
    BY <1>1, <1>2, <1>4, <2>1 DEF LockersEnabled, NoneUnasked
<1>8. OffIsSafe'
  <2> SUFFICES ASSUME Told, NEW v \in Ctx, ~enabled[v], ~CannotLock(v)
               PROVE  Alone(v) /\ owner' # SessionOf[v]
    BY <1>1, <1>4 DEF OffIsSafe, Told, Alone, SameSession
  <2>1. Alone(v) /\ owner # SessionOf[v]
    BY DEF OffIsSafe
  <2>2. SUFFICES ASSUME owner' = SessionOf[v]
                 PROVE  FALSE
    BY <2>1
  <2>3. SessionOf[v] # NoSession
    BY LockAssumption
  <2>4. r.op = "lock" /\ SessionOf[r.ctx] = SessionOf[v]
    BY <1>1, <2>1, <2>2, <2>3, ExecuteOwner
  <2>5. r.ctx = v
    BY <1>2, <2>1, <2>4 DEF Alone, SameSession
  <2>6. CASE r \in late
    BY <2>4, <2>5, <2>6 DEF LockersEnabled
  <2>7. CASE r = Request(v)
    BY <2>4, <2>7 DEF Request, LockersEnabled
  <2>8. QED
    BY <1>1, <2>5, <2>6, <2>7 DEF Sent
<1>9. QED
  BY <1>5, <1>6, <1>7, <1>8
-----------------------------------------------------------------------------
(* No lock is leaked unnoticed *)

\* A call without faults ends with its answer, and a granted lock is taken.
LEMMA ReliableEnds ==
    ASSUME TypeOK, NEW w \in Ctx, w \notin Faulty, Returns(w) \/ Cancel(w) \/ Crash(w)
    PROVE  /\ reply[w] # "none" /\ pc'[w] # "crashed"
           /\ pc[w] = "lock" /\ reply[w] = "ok" => pc'[w] = "body" /\ locked'[w]
<1> USE DEF TypeOK, EndCall, Answers
<1>1. CASE LockinfoReturns(w)
  BY <1>1 DEF LockinfoReturns
<1>2. CASE LockReturns(w)
  BY <1>2 DEF LockReturns
<1>3. CASE ProbeReturns(w)
  BY <1>3 DEF ProbeReturns
<1>4. CASE WriteReturns(w)
  BY <1>4 DEF WriteReturns, AfterException
<1>5. CASE CommitReturns(w)
  BY <1>5 DEF CommitReturns
<1>6. CASE UnlockReturns(w)
  BY <1>6 DEF UnlockReturns
<1>7. CASE ForceReturns(w)
  BY <1>7 DEF ForceReturns
<1>8. ~Cancel(w) /\ ~Crash(w)
  BY DEF Cancel, Crash
<1>9. QED
  BY <1>1, <1>2, <1>3, <1>4, <1>5, <1>6, <1>7, <1>8 DEF Returns

\* A call that ends hands the responsibility for the lock on, or records why not.
LEMMA EndsLeak ==
    ASSUME IInv, ModeInv, LeakInv, NEW w \in Ctx, Returns(w) \/ Cancel(w) \/ Crash(w)
    PROVE  LeakInv'
<1>1. /\ owner' = owner /\ mode' = mode
      /\ \A v \in Ctx \ {w} :
            pc'[v] = pc[v] /\ reply'[v] = reply[v] /\ failed'[v] = failed[v] /\ Keeps(v)
      /\ Active(w) /\ reply'[w] = "none" /\ failed[w] \subseteq failed'[w] /\ Ends(w)
  BY EndsStep DEF IInv
<1>2. SUFFICES ASSUME ~LateProcessing, NEW s \in Sessions, owner = s
               PROVE  \E v \in Ctx : SessionOf[v] = s /\ Answerable(v)'
  BY <1>1 DEF LeakInv
<1>3. PICK v \in Ctx : SessionOf[v] = s /\ Answerable(v)
  BY <1>2 DEF LeakInv
<1>4. CASE v # w
  BY <1>1, <1>3, <1>4 DEF Answerable, Holding, Keeps, Reliable, SameSession
<1>5. CASE v = w
  <2>1. ~CannotLock(w)
    BY <1>2, <1>3, <1>5, LockAssumption DEF ModeInv, OwnerMayOwn, CannotLock
  <2>2. Holding(w) => Protects(w)
    BY DEF ModeInv, LockersEnabled, Holding, Protects
  <2>3. Reliable(w)' <=> Reliable(w)
    BY DEF Reliable, SameSession
  <2>4. Reliable(w) =>
          /\ reply[w] # "none" /\ pc'[w] # "crashed"
          /\ pc[w] = "lock" /\ reply[w] = "ok" => pc'[w] = "body" /\ locked'[w]
    <3>1. Reliable(w) => w \notin Faulty
      BY DEF Reliable, SameSession
    <3>2. QED
      BY <3>1, ReliableEnds DEF IInv
  <2>5. Answerable(w)'
    <3>1. CASE "commit" \in failed[w]
      BY <1>1, <3>1 DEF Answerable
    <3>2. CASE pc[w] = "lock" /\ (~Reliable(w) \/ reply[w] = "ok")
      <4>1. CASE Reliable(w)
        BY <2>4, <3>2, <4>1 DEF Answerable, Holding
      <4>2. CASE ~Reliable(w)
        BY <1>1, <2>1, <2>3, <3>2, <4>2
           DEF Answerable, Holding, Ends, ModeInv, Minus9IsTrue
      <4>3. QED
        BY <4>1, <4>2
    <3>3. CASE Holding(w)
      BY <1>1, <2>2, <2>3, <2>4, <3>3 DEF Answerable, Holding, Ends, Keeps, AfterException
    <3>4. CASE pc[w] = "unlock" /\ ~Reliable(w) /\ reply[w] # "ok"
      BY <1>1, <2>3, <3>4 DEF Answerable, Ends
    <3>5. CASE ~Reliable(w) /\ failed[w] \cap {"lock", "unlock"} # {}
      BY <1>1, <2>3, <3>5 DEF Answerable
    <3>6. pc[w] # "crashed" /\ ~(Reliable(w) /\ reply[w] = "none")
      BY <1>1, <2>4 DEF Active, Ended
    <3>7. QED
      BY <1>3, <1>5, <3>1, <3>2, <3>3, <3>4, <3>5, <3>6 DEF Answerable
  <2>6. QED
    BY <1>3, <1>5, <2>5
<1>6. QED
  BY <1>4, <1>5

\* A body that ends under the lock goes on to its commit or its unlock.
LEMMA BeginsLeak ==
    ASSUME IInv, ModeInv, LeakInv, NEW w \in Ctx, Enter(w) \/ ForceUnlock(w) \/ Body(w)
    PROVE  LeakInv'
<1>1. /\ UNCHANGED <<owner, reply, locked, enabled, failed>>
      /\ \A v \in Ctx \ {w} : pc'[v] = pc[v]
      /\ Begins(w)
  BY BeginsStep DEF IInv
<1>2. \A v \in Ctx : Answerable(v) => Answerable(v)'
  <2> SUFFICES ASSUME NEW v \in Ctx, Answerable(v)
               PROVE  Answerable(v)'
    OBVIOUS
  <2>1. CASE v # w
    BY <1>1, <2>1 DEF Answerable, Holding
  <2>2. CASE v = w
    <3>1. pc[w] \in {"idle", "body"} /\ reply[w] = "none"
      BY <1>1 DEF Begins, ModeInv, NoneUnasked, Calls
    <3>2. Holding(w) => Protects(w)
      BY DEF ModeInv, LockersEnabled, Holding, Protects
    <3>3. QED
      BY <1>1, <2>2, <3>1, <3>2 DEF Begins, Answerable, Holding, AfterException
  <2>3. QED
    BY <2>1, <2>2
<1>3. QED
  BY <1>1, <1>2 DEF LeakInv

\* FMG gives the lock to a context that waits for it, and an unlock takes it back.
LEMMA ServesLeak ==
    ASSUME IInv, ModeInv, LeakInv,
           (\E w \in Ctx : Serve(w)) \/ (\E r \in late : ServeLate(r))
    PROVE  LeakInv'
<1>1. SUFFICES ASSUME ~LateProcessing, NEW s \in Sessions, owner' = s
               PROVE  \E v \in Ctx : SessionOf[v] = s /\ Answerable(v)'
  BY DEF LeakInv
<1>2. PICK w \in Ctx : Serve(w)
  BY <1>1 DEF IInv, LateIsPast
<1>3. PICK a \in ServerAnswers :
        Execute(Request(w), a) /\ reply' = [reply EXCEPT ![w] = a]
  BY <1>2 DEF Serve
<1>4. /\ UNCHANGED <<pc, locked, failed>> /\ reply'[w] = a
      /\ reply[w] = "none" \/ ~Reliable(w)
      /\ \A v \in Ctx \ {w} : reply'[v] = reply[v]
  BY <1>2, <1>3 DEF Serve, IInv, TypeOK, Reliable, SameSession
<1>5. Request(w).ctx = w /\ Request(w).op = pc[w]
  BY DEF Request
<1>6. NoSession # s
  BY LockAssumption
<1>7. CASE owner' # owner
  <2>1. pc[w] = "lock" /\ SessionOf[w] = s
    BY <1>1, <1>3, <1>5, <1>6, <1>7, ExecuteOwner
  <2>2. a = "ok"
    BY <1>3, <1>5, <1>7, <2>1
       DEF Execute, ServeLock, GrantLock, RelockOwn, RefuseLock, LockNotSupported, serverVars
  <2>3. QED
    BY <1>4, <2>1, <2>2 DEF Answerable
<1>8. CASE owner' = owner
  <2>1. PICK v \in Ctx : SessionOf[v] = s /\ Answerable(v)
    BY <1>1, <1>8 DEF LeakInv
  <2>2. Reliable(v)' <=> Reliable(v)
    BY DEF Reliable, SameSession
  <2>3. CASE v = w /\ pc[w] = "unlock"
    <3>1. owner' = NoSession
      BY <1>1, <1>3, <1>5, <1>8, <2>1, <2>3 DEF Execute, ServeUnlock
    <3>2. QED
      BY <1>1, <1>6, <3>1
  <2>4. CASE v # w \/ pc[w] # "unlock"
    BY <1>4, <2>1, <2>2, <2>4 DEF Answerable, Holding
  <2>5. QED
    BY <2>3, <2>4
<1>9. QED
  BY <1>7, <1>8

\* The invariants of workspace mode and of responsibility for the lock.
LEMMA LeakInductive == Spec => [](ModeInv /\ LeakInv)
<1>1. Init => ModeInv /\ LeakInv
  <2>1. Init => owner = NoSession
    BY DEF Init, ServerInit
  <2>2. owner = NoSession => LeakInv
    BY LockAssumption DEF LeakInv
  <2>3. QED
    BY <2>1, <2>2, InitMode
<1>2. IInv /\ ModeInv /\ LeakInv /\ [Next]_vars => (ModeInv /\ LeakInv)'
  <2> SUFFICES ASSUME IInv, ModeInv, LeakInv, [Next]_vars
               PROVE  ModeInv' /\ LeakInv'
    OBVIOUS
  <2>1. CASE UNCHANGED vars
    <3> USE <2>1 DEF vars
    <3>1. OwnerMayOwn' /\ Minus9IsTrue' /\ LockersEnabled' /\ NoneUnasked'
      BY DEF ModeInv, OwnerMayOwn, Minus9IsTrue, LockersEnabled, NoneUnasked, CannotLock
    <3>2. OffIsSafe'
      BY DEF ModeInv, OffIsSafe, CannotLock, Told, Alone, SameSession
    <3>3. LeakInv'
      BY DEF LeakInv, Answerable, Holding, Reliable, SameSession
    <3>4. QED
      BY <3>1, <3>2, <3>3 DEF ModeInv
  <2>2. ASSUME NEW w \in Ctx, Returns(w) \/ Cancel(w) \/ Crash(w)
        PROVE  ModeInv' /\ LeakInv'
    BY <2>2, EndsMode, EndsLeak
  <2>3. ASSUME NEW w \in Ctx, Enter(w) \/ ForceUnlock(w) \/ Body(w)
        PROVE  ModeInv' /\ LeakInv'
    BY <2>3, BeginsMode, BeginsLeak
  <2>4. ASSUME (\E w \in Ctx : Serve(w)) \/ (\E r \in late : ServeLate(r))
        PROVE  ModeInv' /\ LeakInv'
    BY <2>4, ServesMode, ServesLeak
  <2>5. QED
    BY <2>1, <2>2, <2>3, <2>4 DEF Next
<1>3. QED
  BY <1>1, <1>2, Inductive, PTL DEF Spec

\* Where FMG executes no abandoned request, a lock nobody uses is left behind only by a
\* session that has an excuse: a commit that raised or, where calls may be lost, a raising
\* lock or unlock or a crash.  lock() and __aexit__ have no other way out that skips the
\* unlock.
THEOREM LeakAccounted == ~LateProcessing => (Spec => []LeakExplained)
<1> SUFFICES ASSUME ~LateProcessing
             PROVE  Spec => []LeakExplained
  OBVIOUS
<1>1. LeakInv => LeakExplained
  <2> SUFFICES ASSUME LeakInv, NEW s \in Sessions, owner = s
               PROVE  Excused(s) \/ \E w \in Ctx : SessionOf[w] = s /\ Active(w)
    BY DEF LeakExplained
  <2>1. PICK w \in Ctx : SessionOf[w] = s /\ Answerable(w)
    BY DEF LeakInv
  <2>2. CASE pc[w] \in {"lock", "body", "write", "commit", "unlock"}
    BY <2>1, <2>2 DEF Active, Ended
  <2>3. CASE \/ "commit" \in failed[w]
             \/ ~Reliable(w) /\ (pc[w] = "crashed" \/ failed[w] \cap {"lock", "unlock"} # {})
    BY <2>1, <2>3 DEF Excused, Reliable, SameSession
  <2>4. QED
    BY <2>1, <2>2, <2>3 DEF Answerable, Holding
<1>2. QED
  BY <1>1, LeakInductive, PTL
-----------------------------------------------------------------------------
(* The flag of a context that has ended *)

\* A context whose commit raised has ended under its lock; one that has ended otherwise
\* has none.
FlagInv ==
    \A w \in Ctx :
        /\ "commit" \in failed[w] => pc[w] = "raised" /\ locked[w]
        /\ pc[w] \in {"returned", "raised"} /\ locked[w] => "commit" \in failed[w]

\* Only the commit of w, by raising, makes "commit" a failed call of w.
LEMMA CommitFails ==
    ASSUME TypeOK, NEW w \in Ctx, Returns(w) \/ Cancel(w) \/ Crash(w)
    PROVE  "commit" \in failed'[w] <=>
              "commit" \in failed[w] \/ (pc[w] = "commit" /\ pc'[w] = "raised")
<1> USE DEF TypeOK, EndCall, Answers, CallRaised
<1>1. CASE LockinfoReturns(w)
  BY <1>1 DEF LockinfoReturns
<1>2. CASE LockReturns(w)
  BY <1>2 DEF LockReturns
<1>3. CASE ProbeReturns(w)
  BY <1>3 DEF ProbeReturns
<1>4. CASE WriteReturns(w)
  BY <1>4 DEF WriteReturns
<1>5. CASE CommitReturns(w)
  BY <1>5 DEF CommitReturns
<1>6. CASE UnlockReturns(w)
  BY <1>6 DEF UnlockReturns
<1>7. CASE ForceReturns(w)
  BY <1>7 DEF ForceReturns
<1>8. CASE Cancel(w)
  BY <1>8 DEF Cancel
<1>9. CASE Crash(w)
  BY <1>9 DEF Crash, Active
<1>10. QED
  BY <1>1, <1>2, <1>3, <1>4, <1>5, <1>6, <1>7, <1>8, <1>9 DEF Returns

\* Every step keeps it: __aexit__ skips its unlock after a raising commit only, and
\* without an unlock a context ends before it has the lock or without protection.
LEMMA FlagInductive == Spec => []FlagInv
<1>1. Init => FlagInv
  BY DEF Init, FlagInv
<1>2. IInv /\ ModeInv /\ FlagInv /\ [Next]_vars => FlagInv'
  <2> SUFFICES ASSUME IInv, ModeInv, FlagInv, [Next]_vars
               PROVE  FlagInv'
    OBVIOUS
  <2>1. CASE UNCHANGED vars
    BY <2>1 DEF vars, FlagInv
  <2>2. ASSUME NEW w \in Ctx, Returns(w) \/ Cancel(w) \/ Crash(w)
        PROVE  FlagInv'
    <3>1. /\ \A v \in Ctx \ {w} :
                pc'[v] = pc[v] /\ failed'[v] = failed[v] /\ locked'[v] = locked[v]
          /\ Active(w) /\ Ends(w)
      BY <2>2, EndsStep DEF IInv, Keeps
    <3>2. "commit" \notin failed[w]
      BY <3>1 DEF FlagInv, Active, Ended
    <3>3. "commit" \in failed'[w] <=> pc[w] = "commit" /\ pc'[w] = "raised"
      BY <2>2, <3>2, CommitFails DEF IInv
    <3>4. /\ pc[w] \in {"lockinfo", "lock", "probe", "force"} => ~locked[w]
          /\ pc[w] = "commit" => locked[w]
          /\ pc[w] = "write" /\ ~Protects(w) => ~locked[w]
      BY DEF IInv, LockedLate, ModeInv, LockersEnabled, Protects
    <3>5. pc'[w] \in {"returned", "raised"} => (locked'[w] <=> pc[w] = "commit")
      BY <3>1, <3>4 DEF Ends, Keeps, AfterException
    <3>6. pc[w] = "commit" => pc'[w] # "returned"
      BY <3>1 DEF Ends
    <3>7. QED
      BY <3>1, <3>3, <3>5, <3>6 DEF FlagInv
  <2>3. ASSUME NEW w \in Ctx, Enter(w) \/ ForceUnlock(w) \/ Body(w)
        PROVE  FlagInv'
    <3>1. /\ UNCHANGED <<locked, failed>> /\ Begins(w)
          /\ \A v \in Ctx \ {w} : pc'[v] = pc[v]
      BY <2>3, BeginsStep DEF IInv
    <3>2. pc[w] \in {"idle", "body"} /\ "commit" \notin failed[w]
      BY <3>1 DEF Begins, FlagInv
    <3>3. pc'[w] \in {"returned", "raised"} => pc[w] = "body" /\ ~Protects(w)
      BY <3>1 DEF Begins, AfterException
    <3>4. pc[w] = "body" /\ ~Protects(w) => ~locked[w]
      BY DEF ModeInv, LockersEnabled, Protects
    <3>5. QED
      BY <3>1, <3>2, <3>3, <3>4 DEF FlagInv
  <2>4. ASSUME (\E w \in Ctx : Serve(w)) \/ (\E r \in late : ServeLate(r))
        PROVE  FlagInv'
    BY <2>4 DEF Serve, ServeLate, FlagInv
  <2>5. QED
    BY <2>1, <2>2, <2>3, <2>4 DEF Next
<1>3. QED
  BY <1>1, <1>2, Inductive, LeakInductive, PTL DEF Spec

\* The flag outlives a with block exactly when its commit raised, whatever else failed,
\* was cancelled or was retried, and whoever shares the session.
THEOREM FlagAccounted == Spec => []FlagOutlivesCommit
<1>1. FlagInv => FlagOutlivesCommit
  BY DEF FlagInv, FlagOutlivesCommit
<1>2. QED
  BY <1>1, FlagInductive, PTL
-----------------------------------------------------------------------------
(* What FMG does with the writes *)

\* The effects that request r can have.
Effect(r, a) ==
    LET s == SessionOf[r.ctx] IN
    /\ mode' = mode
    /\ \/ /\ UNCHANGED <<owner, pending, committed>>
          /\ \/ a # "ok" \/ r.op \in {"lockinfo", "probe"}
             \/ r.op = "lock" /\ owner = s /\ TRUE \in RelockOutcomes
       \/ /\ r.op = "lock" /\ owner = NoSession
          /\ owner' = s /\ UNCHANGED <<pending, committed>>
       \/ /\ r.op = "write" /\ mode /\ owner = s
          /\ pending' = pending \cup {<<r.ctx, r.nth>>} /\ UNCHANGED <<owner, committed>>
       \/ /\ r.op = "write" /\ ~mode
          /\ committed' = committed \cup {<<r.ctx, r.nth>>} /\ UNCHANGED <<owner, pending>>
       \/ /\ r.op = "commit" /\ owner = s
          /\ committed' = committed \cup pending /\ pending' = {} /\ owner' = owner
       \/ /\ r.op \in {"unlock", "force"} /\ owner = s
          /\ owner' = NoSession /\ pending' = {} /\ committed' = committed

\* Every request has one of these effects.
LEMMA ExecuteEffect ==
    ASSUME NEW r, NEW a, Execute(r, a)
    PROVE  Effect(r, a)
<1> USE DEF serverVars, Effect
<1>1. CASE r.op = "lockinfo"
  BY <1>1 DEF Execute, ServeLockinfo
<1>2. CASE r.op = "lock"
  BY <1>2 DEF Execute, ServeLock, GrantLock, RelockOwn, RefuseLock, LockNotSupported
<1>3. CASE r.op = "probe"
  BY <1>3 DEF Execute, ServeProbe
<1>4. CASE r.op = "write"
  BY <1>4 DEF Execute, ServeWrite
<1>5. CASE r.op = "commit"
  BY <1>5 DEF Execute, ServeCommit
<1>6. CASE r.op \in {"unlock", "force"}
  BY <1>6 DEF Execute, ServeUnlock
<1>7. QED
  BY <1>1, <1>2, <1>3, <1>4, <1>5, <1>6 DEF Execute

\* Nothing that was published is taken back, and nothing that the context of a lock is
\* to commit is lost.
LEMMA StoreGrows ==
    ASSUME IInv, Disciplined, NEW r, NEW a, Sent(r), Execute(r, a), UNCHANGED locked,
           NEW v \in Ctx, pc[v] \in {"body", "write", "commit"}
    PROVE  Reached(v) \subseteq Reached(v)'
<1>1. Effect(r, a) /\ r.ctx \in Ctx
  BY ExecuteEffect DEF Sent
<1>2. committed \subseteq committed'
  BY <1>1 DEF Effect
<1>3. CASE ~locked[v]
  BY <1>2, <1>3 DEF Reached
<1>4. CASE locked[v]
  <2>1. owner' = SessionOf[v] /\ NoSession # SessionOf[v]
    BY <1>1, <1>4, ExecuteKeeps, LockAssumption DEF Holding, Sent
  <2>2. pending \subseteq pending' \cup committed'
    BY <1>1, <2>1 DEF Effect
  <2>3. QED
    BY <1>2, <1>4, <2>2 DEF Reached
<1>5. QED
  BY <1>3, <1>4

-----------------------------------------------------------------------------
(* A block that ends without an exception has published its batch *)

\* A call that ends: a write that was accepted is counted, a commit that was is behind.
LEMMA EndsDurable ==
    ASSUME IInv, DurableInv, NEW w \in Ctx, Returns(w) \/ Cancel(w) \/ Crash(w)
    PROVE  DurableInv'
<1>1. /\ UNCHANGED <<pending, committed>>
      /\ \A v \in Ctx \ {w} : pc'[v] = pc[v] /\ reply'[v] = reply[v] /\ Keeps(v)
      /\ reply'[w] = "none" /\ Ends(w)
  BY EndsStep DEF IInv
<1>2. wrote[w] \in Nat
  BY LockAssumption DEF IInv, TypeOK
<1>3. pc'[w] \in {"idle", "lockinfo", "lock", "probe", "force"} => wrote'[w] = 0
  BY <1>1 DEF DurableInv, Ends, Keeps, AfterException
<1>4. ASSUME pc'[w] \in {"body", "write"}
      PROVE  {w} \X (1 .. wrote'[w]) \subseteq Reached(w)'
  <2>1. CASE pc[w] \in {"lock", "probe"}
    <3>1. wrote'[w] = 0
      BY <1>1, <2>1 DEF DurableInv, Ends, Keeps, AfterException
    <3>2. QED
      BY <3>1
  <2>2. CASE pc[w] = "write" /\ reply[w] = "ok" /\ wrote'[w] = wrote[w] + 1
             /\ locked'[w] = locked[w]
    <3>1. Reached(w)' = Reached(w)
      BY <1>1, <2>2 DEF Reached
    <3>2. {w} \X (1 .. wrote[w]) \subseteq Reached(w) /\ <<w, wrote[w] + 1>> \in Reached(w)
      BY <2>2 DEF DurableInv
    <3>3. 1 .. wrote[w] + 1 = (1 .. wrote[w]) \cup {wrote[w] + 1}
      BY <1>2
    <3>4. QED
      BY <2>2, <3>1, <3>2, <3>3
  <2>3. QED
    BY <1>1, <1>4, <2>1, <2>2 DEF Ends, AfterException
<1>5. /\ pc'[w] # "commit"
      /\ pc'[w] = "unlock" /\ ~aborted'[w] => Batch(w) \subseteq committed
      /\ pc'[w] = "returned" => Batch(w) \subseteq committed
  BY <1>1 DEF DurableInv, Ends, Keeps, AfterException
<1>6. ASSUME NEW v \in Ctx \ {w}
      PROVE  pc'[v] = pc[v] /\ reply'[v] = reply[v] /\ wrote'[v] = wrote[v]
             /\ aborted'[v] = aborted[v] /\ Reached(v)' = Reached(v)
  BY <1>1 DEF Keeps, Reached
<1>7. QED
  BY <1>1, <1>3, <1>4, <1>5, <1>6 DEF DurableInv, Batch

\* A body that is through has written its whole batch.
LEMMA BeginsDurable ==
    ASSUME IInv, ModeInv, DurableInv, NEW w \in Ctx, Enter(w) \/ ForceUnlock(w) \/ Body(w)
    PROVE  DurableInv'
<1>1. /\ UNCHANGED <<pending, committed, reply, locked, enabled, wrote>>
      /\ \A v \in Ctx \ {w} : pc'[v] = pc[v] /\ aborted'[v] = aborted[v]
      /\ Begins(w)
  BY BeginsStep DEF IInv
<1>2. \A v \in Ctx : Reached(v)' = Reached(v)
  BY <1>1 DEF Reached
<1>3. reply'[w] = "none"
  BY <1>1 DEF Begins, ModeInv, NoneUnasked, Calls
<1>4. pc[w] = "idle" => wrote[w] = 0 /\ {w} \X (1 .. wrote[w]) \subseteq Reached(w)
  <2>1. 1 .. 0 = {}
    OBVIOUS
  <2>2. pc[w] = "idle" => wrote[w] = 0
    BY DEF DurableInv
  <2>3. QED
    BY <2>1, <2>2
<1>5. /\ pc'[w] \in {"idle", "lockinfo", "lock", "probe", "force"} => wrote[w] = 0
      /\ pc'[w] \in {"body", "write"} => {w} \X (1 .. wrote[w]) \subseteq Reached(w)
  BY <1>1, <1>4 DEF DurableInv, Begins, AfterException
<1>6. pc[w] = "body" /\ wrote[w] = BatchSize => Batch(w) \subseteq Reached(w)
  BY DEF DurableInv, Batch
<1>7. pc'[w] = "commit" => Batch(w) \subseteq Reached(w)
  BY <1>1, <1>6 DEF Begins, AfterException
<1>8. pc'[w] = "returned" => Batch(w) \subseteq committed
  <2>1. pc[w] = "body" /\ ~Protects(w) => Reached(w) = committed
    BY DEF ModeInv, LockersEnabled, Protects, Reached
  <2>2. pc'[w] = "returned" => pc[w] = "body" /\ wrote[w] = BatchSize /\ ~Protects(w)
    BY <1>1 DEF Begins, AfterException
  <2>3. QED
    BY <1>6, <2>1, <2>2
<1>9. pc'[w] = "unlock" => aborted'[w]
  BY <1>1 DEF Begins, AfterException
<1>10. QED
  BY <1>1, <1>2, <1>3, <1>5, <1>7, <1>8, <1>9 DEF DurableInv, Batch

\* An accepted write is where its commit finds it, an accepted commit has published all.
LEMMA ServesDurable ==
    ASSUME IInv, ModeInv, DurableInv, Disciplined, Told,
           (\E w \in Ctx : Serve(w)) \/ (\E r \in late : ServeLate(r))
    PROVE  DurableInv'
<1>1. PICK r, a :
        /\ Sent(r) /\ Execute(r, a) /\ UNCHANGED <<pc, locked, wrote, aborted>>
        /\ \/ UNCHANGED reply
           \/ /\ r = Request(r.ctx) /\ pc[r.ctx] \in Calls
              /\ reply'[r.ctx] = a
              /\ \A v \in Ctx \ {r.ctx} : reply'[v] = reply[v]
  BY ServesStep DEF IInv
<1>2. Effect(r, a) /\ r.ctx \in Ctx
  BY <1>1, ExecuteEffect DEF Sent
<1>3. committed \subseteq committed'
  BY <1>2 DEF Effect
<1>4. \A v \in Ctx : pc[v] \in {"body", "write", "commit"} => Reached(v) \subseteq Reached(v)'
  BY <1>1, StoreGrows
<1>5. ASSUME NEW v \in Ctx, reply'[v] # reply[v]
      PROVE  v = r.ctx /\ reply'[v] = a /\ r = Request(v) /\ r.op = pc[v] /\ r.nth = wrote[v] + 1
  BY <1>1, <1>5 DEF Request
<1>6. ASSUME NEW v \in Ctx, pc[v] = "write", reply'[v] = "ok"
      PROVE  <<v, wrote[v] + 1>> \in Reached(v)'
  <2>1. CASE reply[v] = "ok"
    BY <1>4, <1>6, <2>1 DEF DurableInv
  <2>2. CASE reply[v] # "ok"
    <3>1. v = r.ctx /\ a = "ok" /\ r.op = "write" /\ r.nth = wrote[v] + 1
      BY <1>5, <1>6, <2>2
    <3>2. CASE ~mode
      BY <1>2, <3>1, <3>2 DEF Effect, Reached
    <3>3. CASE mode
      <4>1. owner = SessionOf[v] /\ <<v, wrote[v] + 1>> \in pending'
        BY <1>2, <3>1, <3>3 DEF Effect
      <4>2. ~CannotLock(v)
        BY <4>1, LockAssumption DEF ModeInv, OwnerMayOwn, CannotLock
      <4>3. locked[v]
        BY <1>6, <4>1, <4>2 DEF ModeInv, OffIsSafe, LockersEnabled
      <4>4. QED
        BY <1>1, <4>1, <4>3 DEF Reached
    <3>4. QED
      BY <3>2, <3>3
  <2>3. QED
    BY <2>1, <2>2
<1>7. ASSUME NEW v \in Ctx, pc[v] = "commit", reply'[v] = "ok"
      PROVE  Batch(v) \subseteq committed'
  <2>1. CASE reply[v] = "ok"
    BY <1>3, <1>7, <2>1 DEF DurableInv
  <2>2. CASE reply[v] # "ok"
    <3>1. a = "ok" /\ r.op = "commit"
      BY <1>5, <1>7, <2>2
    <3>2. committed' = committed \cup pending
      BY <1>2, <3>1 DEF Effect
    <3>3. QED
      BY <1>7, <3>2 DEF DurableInv, Reached
  <2>3. QED
    BY <2>1, <2>2
<1>8. QED
  BY <1>1, <1>3, <1>4, <1>6, <1>7 DEF DurableInv, Batch

\* Whatever was published stays so, under the usage rules.
LEMMA DurableInductive == Disciplined /\ Told => (Spec => []DurableInv)
<1> SUFFICES ASSUME Disciplined, Told
             PROVE  Spec => []DurableInv
  OBVIOUS
<1>1. Init => DurableInv
  BY DEF Init, DurableInv
<1>2. IInv /\ ModeInv /\ DurableInv /\ [Next]_vars => DurableInv'
  <2> SUFFICES ASSUME IInv, ModeInv, DurableInv, [Next]_vars
               PROVE  DurableInv'
    OBVIOUS
  <2>1. CASE UNCHANGED vars
    BY <2>1 DEF vars, DurableInv, Reached, Batch
  <2>2. QED
    BY <2>1, EndsDurable, BeginsDurable, ServesDurable DEF Next
<1>3. QED
  BY <1>1, <1>2, Inductive, LeakInductive, PTL DEF Spec

\* Under the usage rules a with block that ends without an exception has published its
\* whole batch: commit() is awaited for every batch that was written under a lock.
THEOREM CleanExit == Disciplined /\ Told => (Spec => []CleanExitDurable)
<1> SUFFICES ASSUME Disciplined, Told
             PROVE  Spec => []CleanExitDurable
  OBVIOUS
<1>1. DurableInv => CleanExitDurable
  BY DEF DurableInv, CleanExitDurable
<1>2. QED
  BY <1>1, DurableInductive, PTL
-----------------------------------------------------------------------------
(* A batch is published as a whole, or never *)

\* A call that ends keeps the invariant: only a context at its commit or behind publishes.
LEMMA EndsAtomic ==
    ASSUME IInv, DurableInv, AtomicInv, NEW w \in Ctx, Returns(w) \/ Cancel(w) \/ Crash(w)
    PROVE  AtomicInv'
<1>1. /\ UNCHANGED <<owner, pending, committed, mode>>
      /\ \A v \in Ctx \ {w} :
            pc'[v] = pc[v] /\ reply'[v] = reply[v] /\ failed'[v] = failed[v] /\ Keeps(v)
      /\ Active(w) /\ reply'[w] = "none" /\ failed[w] \subseteq failed'[w] /\ Ends(w)
      /\ \/ late' = late
         \/ late' = late \cup {Request(w)} /\ LateProcessing /\ pc[w] \in Mutating
  BY EndsStep DEF IInv
<1>2. \A v \in Ctx : pc'[v] \notin {"unlock"} \cup Ended => ~aborted'[v]
  <2>1. pc'[w] \notin {"unlock"} \cup Ended => ~aborted'[w]
    BY <1>1 DEF AtomicInv, Ends, Keeps, AfterException, Active, Ended
  <2>2. QED
    BY <1>1, <2>1 DEF AtomicInv, Keeps
<1>3. PendingOwned'
  <2>1. pc'[w] # "lock" \/ reply'[w] # "ok"
    BY <1>1
  <2>2. Holding(w)' => Holding(w) \/ (pc[w] = "lock" /\ reply[w] = "ok")
    BY <1>1 DEF IInv, LockedLate, Holding, Ends, Keeps, AfterException
  <2>3. \A v \in Ctx \ {w} : Holding(v)' <=> Holding(v)
    BY <1>1 DEF Holding, Keeps
  <2>4. QED
    BY <1>1, <2>1, <2>2, <2>3 DEF AtomicInv, PendingOwned, Batch
<1>4. \A v \in Ctx \ {w} : Unpublished(v)' <=> Unpublished(v)
  BY <1>1 DEF Unpublished, Keeps
<1>5. /\ Unpublished(w)' => Unpublished(w)
      /\ pc[w] = "commit" => ~Unpublished(w)' /\ pc'[w] \in {"unlock"} \cup Ended
      /\ pc[w] = "unlock" => aborted'[w] = aborted[w] /\ pc'[w] \in Ended
  <2>1. CASE pc[w] = "commit"
    <3>1. ~aborted[w]
      BY <2>1 DEF AtomicInv, Ended
    <3>2. QED
      BY <1>1, <2>1, <3>1 DEF Ends, Keeps, Unpublished, Ended
  <2>2. CASE pc[w] = "unlock"
    BY <1>1, <2>2 DEF Ends, Keeps, Unpublished, Ended
  <2>3. CASE pc[w] \notin {"commit", "unlock"}
    <3>1. Unpublished(w)
      <4>1. pc[w] \in Labels
        BY DEF IInv, TypeOK
      <4>2. QED
        BY <1>1, <2>3, <4>1 DEF Unpublished, Active, Ended, Labels, Calls
    <3>2. QED
      BY <2>3, <3>1
  <2>4. QED
    BY <2>1, <2>2, <2>3
<1>6. LateHarmless'
  <2>1. ASSUME NEW r \in late
        PROVE  /\ r.op = "commit" => ~Unpublished(r.ctx)' /\ pc'[r.ctx] \in {"unlock"} \cup Ended
                                     /\ Batch(r.ctx) \subseteq pending \cup committed
               /\ r.op = "unlock" => aborted'[r.ctx] \/ Batch(r.ctx) \subseteq committed
    <3>1. r.ctx \in Ctx
      BY DEF IInv, TypeOK, Requests
    <3>2. CASE r.ctx # w
      BY <1>1, <1>4, <3>1, <3>2 DEF AtomicInv, LateHarmless, Keeps
    <3>3. CASE r.ctx = w
      <4>1. r.op # "unlock"
        BY <1>1, <3>3 DEF IInv, LateIsPast, Active
      <4>2. r.op = "commit" => pc[w] = "unlock"
        BY <1>1, <3>3 DEF AtomicInv, LateHarmless, Active
      <4>3. QED
        BY <1>5, <3>3, <4>1, <4>2 DEF AtomicInv, LateHarmless
    <3>4. QED
      BY <3>2, <3>3
  <2>2. /\ pc[w] = "commit" => Batch(w) \subseteq pending \cup committed
        /\ pc[w] = "unlock" => aborted[w] \/ Batch(w) \subseteq committed
    BY DEF DurableInv, Reached
  <2>3. Request(w).ctx = w /\ Request(w).op = pc[w]
    BY DEF Request
  <2>4. QED
    BY <1>1, <1>5, <2>1, <2>2, <2>3 DEF LateHarmless, Batch
<1>7. mode => \A v \in Ctx : Unpublished(v)' => Batch(v) \cap committed = {}
  BY <1>4, <1>5 DEF AtomicInv
<1>8. QED
  BY <1>1, <1>2, <1>3, <1>6, <1>7 DEF AtomicInv, Batch

\* So do the steps of a body.
LEMMA BeginsAtomic ==
    ASSUME IInv, AtomicInv, NEW w \in Ctx, Enter(w) \/ ForceUnlock(w) \/ Body(w)
    PROVE  AtomicInv'
<1>1. /\ UNCHANGED <<owner, pending, committed, mode, reply, late, locked, failed>>
      /\ \A v \in Ctx \ {w} : pc'[v] = pc[v] /\ aborted'[v] = aborted[v]
      /\ Begins(w)
  BY BeginsStep DEF IInv
<1>2. pc[w] \in {"idle", "body"} /\ pc'[w] # "lock"
  BY <1>1 DEF Begins, AfterException
<1>3. \A v \in Ctx : pc'[v] \notin {"unlock"} \cup Ended => ~aborted'[v]
  <2>1. ~aborted[w]
    BY <1>2 DEF AtomicInv, Ended
  <2>2. pc'[w] \notin {"unlock"} \cup Ended => ~aborted'[w]
    BY <1>1, <2>1 DEF Begins, AfterException, Ended
  <2>3. QED
    BY <1>1, <2>2 DEF AtomicInv
<1>4. PendingOwned'
  <2>1. Holding(w)' => Holding(w)
    BY <1>1, <1>2 DEF IInv, LockedLate, Holding
  <2>2. \A v \in Ctx \ {w} : Holding(v)' <=> Holding(v)
    BY <1>1 DEF Holding
  <2>3. QED
    BY <1>1, <1>2, <2>1, <2>2 DEF AtomicInv, PendingOwned, Batch
<1>5. \A v \in Ctx : Unpublished(v)' => Unpublished(v)
  BY <1>1, <1>2 DEF Unpublished
<1>6. LateHarmless'
  <2>1. \A r \in late : r.op \in {"commit", "unlock"} => r.ctx \in Ctx \ {w}
    BY <1>2 DEF AtomicInv, LateHarmless, IInv, LateIsPast, TypeOK, Requests, Ended
  <2>2. \A v \in Ctx \ {w} : Unpublished(v)' <=> Unpublished(v)
    BY <1>1 DEF Unpublished
  <2>3. QED
    BY <1>1, <2>1, <2>2 DEF AtomicInv, LateHarmless, Batch
<1>7. QED
  BY <1>1, <1>3, <1>4, <1>5, <1>6 DEF AtomicInv, Batch

\* When an abandoned request is executed, its context has its session for itself.
LEMMA LateAlone ==
    ASSUME IInv, Disciplined, NEW r \in late
    PROVE  r.ctx \in Ctx /\ Forcing = {} /\ \A v \in Ctx : Alone(v)
  BY DEF IInv, LateIsPast, Disciplined, TypeOK, Requests, Alone

\* The pending writes of the session of w belong to w if w has the session for itself.
LEMMA AloneOwns ==
    ASSUME IInv, PendingOwned, NEW w \in Ctx, Alone(w), owner = SessionOf[w]
    PROVE  pending \subseteq Batch(w)
<1> SUFFICES ASSUME NEW x \in pending
             PROVE  x \in Batch(w)
  OBVIOUS
<1>1. x \in Writes
  BY DEF IInv, TypeOK
<1>2. x[1] = w
  BY <1>1 DEF PendingOwned, Writes, Alone, SameSession
<1>3. QED
  BY <1>1, <1>2 DEF Writes, Batch

\* A commit that FMG executes publishes the rest of one batch, whose context is at its
\* commit or behind it.
LEMMA CommitsOne ==
    ASSUME IInv, ModeInv, DurableInv, AtomicInv, Disciplined,
           NEW r, Sent(r), r.op = "commit", owner = SessionOf[r.ctx]
    PROVE  /\ pending \subseteq Batch(r.ctx) /\ Batch(r.ctx) \subseteq pending \cup committed
           /\ ~Unpublished(r.ctx) /\ pc[r.ctx] \in {"commit", "unlock"} \cup Ended
<1>1. r.ctx \in Ctx
  BY DEF Sent
<1>2. CASE r \in late
  <2>1. pending \subseteq Batch(r.ctx)
    BY <1>1, <1>2, LateAlone, AloneOwns DEF AtomicInv
  <2>2. QED
    BY <1>2, <2>1 DEF AtomicInv, LateHarmless
<1>3. CASE r = Request(r.ctx)
  <2>1. pc[r.ctx] = "commit"
    BY <1>3 DEF Request
  <2>2. Holding(r.ctx)
    BY <1>1, <2>1 DEF ModeInv, LockersEnabled, Holding
  <2>3. ~aborted[r.ctx]
    BY <1>1, <2>1 DEF AtomicInv, Ended
  <2>4. Batch(r.ctx) \subseteq pending \cup committed
    BY <1>1, <2>1 DEF DurableInv, Reached
  <2>5. QED
    BY <1>1, <2>1, <2>2, <2>3, <2>4 DEF AtomicInv, PendingOwned, Unpublished, Ended
<1>4. QED
  BY <1>2, <1>3 DEF Sent

\* Pending writes stay with the owner, and with the context that is to commit them.
LEMMA ServesOwned ==
    ASSUME IInv, AtomicInv, Disciplined, Sole,
           NEW r, NEW a, Sent(r), Execute(r, a), UNCHANGED <<pc, locked>>,
           \/ UNCHANGED reply
           \/ /\ r = Request(r.ctx) /\ pc[r.ctx] \in Calls
              /\ reply'[r.ctx] = a
              /\ \A v \in Ctx \ {r.ctx} : reply'[v] = reply[v]
    PROVE  PendingOwned'
<1>1. Effect(r, a) /\ r.ctx \in Ctx
  BY ExecuteEffect DEF Sent
<1>2. PendingOwned /\ pending \subseteq Writes
  BY DEF AtomicInv, IInv, TypeOK
<1>3. owner = NoSession => pending = {}
  BY <1>2, LockAssumption DEF PendingOwned, Writes
<1>4. \A x \in pending' : SessionOf[x[1]] = owner'
  <2>1. CASE /\ owner = SessionOf[r.ctx] /\ owner' = owner
             /\ pending' = pending \cup {<<r.ctx, r.nth>>}
    <3>1. \A x \in pending' : x \in pending \/ x[1] = r.ctx
      BY <2>1
    <3>2. QED
      BY <1>2, <2>1, <3>1 DEF PendingOwned
  <2>2. CASE pending' = {} \/ (pending' = pending /\ owner' = owner)
    BY <1>2, <2>2 DEF PendingOwned
  <2>3. QED
    BY <1>1, <1>3, <2>1, <2>2 DEF Effect
<1>5. ASSUME NEW v \in Ctx, pending \subseteq Batch(v), owner = SessionOf[v],
             pc[v] \in {"lock", "body", "write", "commit"}
      PROVE  pending' \subseteq Batch(v)
  <2>1. CASE r.op = "write" /\ owner = SessionOf[r.ctx]
    <3>1. r.nth \in 1 .. BatchSize
      <4>1. CASE r \in late
        BY <2>1, <4>1, LockAssumption DEF IInv, TypeOK, Requests
      <4>2. CASE r = Request(r.ctx)
        BY <1>1, <2>1, <4>2, LockAssumption DEF IInv, TypeOK, Request
      <4>3. QED
        BY <4>1, <4>2 DEF Sent
    <3>2. r.ctx = v
      <4>1. CASE r \in late
        BY <1>1, <1>5, <2>1, <4>1, LateAlone DEF Alone, SameSession
      <4>2. CASE r = Request(r.ctx)
        <5>1. pc[r.ctx] = "write"
          BY <2>1, <4>2 DEF Request
        <5>2. Active(r.ctx) /\ Active(v) /\ SameSession(r.ctx, v)
          BY <1>5, <2>1, <5>1 DEF Active, Ended, SameSession
        <5>3. QED
          BY <1>1, <5>2 DEF IInv, TakeTurns
      <4>3. QED
        BY <4>1, <4>2 DEF Sent
    <3>3. QED
      BY <1>1, <1>5, <2>1, <3>1, <3>2 DEF Effect, Batch
  <2>2. CASE ~(r.op = "write" /\ owner = SessionOf[r.ctx])
    BY <1>1, <1>5, <2>2 DEF Effect
  <2>3. QED
    BY <2>1, <2>2
<1>6. ASSUME NEW v \in Ctx, (pc[v] = "lock" /\ reply[v] = "ok") \/ Holding(v)
      PROVE  pending' \subseteq Batch(v)
  <2>1. owner = SessionOf[v] /\ pending \subseteq Batch(v)
    BY <1>2, <1>6 DEF IInv, GrantIsCurrent, LockedImpliesOwner, PendingOwned
  <2>2. QED
    BY <1>5, <1>6, <2>1 DEF Holding
<1>7. ASSUME NEW v \in Ctx, pc[v] = "lock", reply'[v] = "ok", reply[v] # "ok"
      PROVE  pending' \subseteq Batch(v)
  <2>1. v = r.ctx /\ r.op = "lock" /\ a = "ok"
    BY <1>7 DEF Request
  <2>2. \/ owner = SessionOf[v] /\ TRUE \in RelockOutcomes
        \/ owner = NoSession
    BY <1>1, <2>1 DEF Effect
  <2>3. pending' = pending
    BY <1>1, <2>1 DEF Effect
  <2>4. QED
    BY <1>2, <1>3, <2>2, <2>3, AloneOwns DEF Sole
<1>8. ASSUME NEW v \in Ctx, (pc'[v] = "lock" /\ reply'[v] = "ok") \/ Holding(v)'
      PROVE  pending' \subseteq Batch(v)'
  BY <1>6, <1>7, <1>8 DEF Holding, Batch
<1>9. QED
  BY <1>4, <1>8 DEF PendingOwned

\* And the requests that FMG executes, abandoned ones included.
LEMMA ServesAtomic ==
    ASSUME IInv, ModeInv, DurableInv, AtomicInv, Disciplined, Sole,
           (\E w \in Ctx : Serve(w)) \/ (\E r \in late : ServeLate(r))
    PROVE  AtomicInv'
<1>1. PICK r, a :
        /\ Sent(r) /\ Execute(r, a) /\ UNCHANGED <<pc, locked, aborted, failed>>
        /\ late' \subseteq late
        /\ \/ UNCHANGED reply
           \/ /\ r = Request(r.ctx) /\ pc[r.ctx] \in Calls
              /\ reply'[r.ctx] = a
              /\ \A v \in Ctx \ {r.ctx} : reply'[v] = reply[v]
  BY ServesStep DEF IInv
<1>2. Effect(r, a) /\ r.ctx \in Ctx
  BY <1>1, ExecuteEffect DEF Sent
<1>3. PendingOwned'
  BY <1>1, ServesOwned
<1>4. \A v : Unpublished(v)' <=> Unpublished(v)
  BY <1>1 DEF Unpublished
<1>5. LateHarmless'
  <2>1. ASSUME NEW q \in late, q.op = "commit"
        PROVE  Batch(q.ctx) \subseteq pending' \cup committed'
    <3>1. /\ q.ctx \in Ctx /\ Forcing = {} /\ Alone(q.ctx)
          /\ Batch(q.ctx) \subseteq pending \cup committed /\ ~aborted[q.ctx]
      BY <2>1, LateAlone DEF AtomicInv, LateHarmless, Unpublished
    <3>2. CASE r.op \in {"unlock", "force"} /\ owner = SessionOf[r.ctx]
      <4>1. r.ctx = q.ctx => Batch(q.ctx) \subseteq committed
        <5>1. r.op # "force"
          BY <1>1, <3>1 DEF Sent, IInv, LateIsPast, LockedLate, Request
        <5>2. CASE r \in late
          BY <3>1, <3>2, <5>1, <5>2 DEF AtomicInv, LateHarmless
        <5>3. CASE r = Request(r.ctx)
          <6>1. pc[r.ctx] = "unlock"
            BY <3>2, <5>1, <5>3 DEF Request
          <6>2. QED
            BY <1>2, <3>1, <6>1 DEF DurableInv
        <5>4. QED
          BY <1>1, <5>2, <5>3 DEF Sent
      <4>2. r.ctx # q.ctx => Batch(q.ctx) \cap pending = {}
        <5>1. Alone(r.ctx)
          BY <1>2, LateAlone
        <5>2. pending \subseteq Batch(r.ctx)
          BY <1>2, <3>2, <5>1, AloneOwns DEF AtomicInv
        <5>3. QED
          BY <5>2 DEF Batch
      <4>3. committed \subseteq committed'
        BY <1>2 DEF Effect
      <4>4. QED
        BY <3>1, <4>1, <4>2, <4>3
    <3>3. CASE ~(r.op \in {"unlock", "force"} /\ owner = SessionOf[r.ctx])
      <4>1. pending \cup committed \subseteq pending' \cup committed'
        BY <1>2, <3>3 DEF Effect
      <4>2. QED
        BY <3>1, <4>1
    <3>4. QED
      BY <3>2, <3>3
  <2>2. committed \subseteq committed'
    BY <1>2 DEF Effect
  <2>3. QED
    BY <1>1, <1>4, <2>1, <2>2 DEF AtomicInv, LateHarmless, Batch
<1>6. mode' => \A v \in Ctx : Unpublished(v) => Batch(v) \cap committed' = {}
  <2> SUFFICES ASSUME mode', NEW v \in Ctx, Unpublished(v)
               PROVE  Batch(v) \cap committed' = {}
    OBVIOUS
  <2>1. mode /\ Batch(v) \cap committed = {}
    BY <1>2 DEF Effect, AtomicInv
  <2>2. CASE /\ r.op = "commit" /\ owner = SessionOf[r.ctx]
             /\ committed' = committed \cup pending
    <3>1. pending \subseteq Batch(r.ctx) /\ v # r.ctx
      BY <1>1, <2>2, CommitsOne
    <3>2. Batch(v) \cap Batch(r.ctx) = {}
      BY <3>1 DEF Batch
    <3>3. QED
      BY <2>1, <2>2, <3>1, <3>2
  <2>3. CASE committed' = committed
    BY <2>1, <2>3
  <2>4. QED
    BY <1>2, <2>1, <2>2, <2>3 DEF Effect
<1>7. QED
  BY <1>1, <1>3, <1>4, <1>5, <1>6 DEF AtomicInv, Batch

\* The invariant of the refinement.
LEMMA AtomicInductive == Disciplined /\ Told /\ Sole => (Spec => []AtomicInv)
<1> SUFFICES ASSUME Disciplined, Told, Sole
             PROVE  Spec => []AtomicInv
  OBVIOUS
<1>1. Init => AtomicInv
  BY DEF Init, ServerInit, AtomicInv, PendingOwned, LateHarmless, Unpublished, Holding
<1>2. IInv /\ ModeInv /\ DurableInv /\ AtomicInv /\ [Next]_vars => AtomicInv'
  <2> SUFFICES ASSUME IInv, ModeInv, DurableInv, AtomicInv, [Next]_vars
               PROVE  AtomicInv'
    OBVIOUS
  <2>1. CASE UNCHANGED vars
    BY <2>1 DEF vars, AtomicInv, PendingOwned, LateHarmless, Unpublished, Holding, Batch
  <2>2. QED
    BY <2>1, EndsAtomic, BeginsAtomic, ServesAtomic DEF Next
<1>3. QED
  BY <1>1, <1>2, Inductive, LeakInductive, DurableInductive, PTL DEF Spec

-----------------------------------------------------------------------------
(* WorkspaceLock implements AtomicBatches *)

\* A step of context w that FMG does not notice settles the outcome of w, or nothing.
LEMMA Settles ==
    ASSUME NEW w \in Ctx, UNCHANGED <<committed, mode>>, Active(w) \/ pc[w] = "idle",
           \A v \in Ctx \ {w} :
              pc'[v] = pc[v] /\ aborted'[v] = aborted[v] /\ failed'[v] = failed[v],
           DurableInv', AtomicInv'
    PROVE  [Promise!Next]_(Promise!vars)
<1> DEFINE out == [v \in Ctx |-> Outcome(v)]
<1> DEFINE store == IF mode THEN committed ELSE {}
<1>1. store' = store
  OBVIOUS
<1>2. \A v \in Ctx \ {w} : Outcome(v)' = Outcome(v)
  BY DEF Outcome
<1>3. out' = [out EXCEPT ![w] = Outcome(w)']
  BY <1>2
<1>4. out[w] = "open"
  BY DEF Outcome, Active, Ended
<1>5. Promise!Items(w) = Batch(w)
  BY DEF Promise!Items, Batch
<1>6. Outcome(w)' \in {"open", "succeeded", "aborted", "doubtful"}
  BY DEF Outcome
<1>7. Outcome(w)' # "open" => mode /\ store = committed
  BY DEF Outcome
<1>8. Outcome(w)' = "succeeded" => Batch(w) \subseteq committed
  BY DEF Outcome, DurableInv, Batch
<1>9. Outcome(w)' = "aborted" => Batch(w) \cap committed = {}
  BY DEF Outcome, AtomicInv, Unpublished, Batch
<1> HIDE DEF out, store
<1>10. CASE Outcome(w)' = "open"
  <2>1. out' = out
    BY <1>3, <1>4, <1>10 DEF out
  <2>2. QED
    BY <1>1, <2>1 DEF out, store, Promise!vars
<1>11. CASE Outcome(w)' # "open"
  <2>1. Promise!Settle(w, Outcome(w)')
    BY <1>1, <1>3, <1>4 DEF out, store, Promise!Settle
  <2>2. Promise!Succeed(w) \/ Promise!Abort(w) \/ Promise!Doubt(w)
    BY <1>5, <1>6, <1>7, <1>8, <1>9, <1>11, <2>1
       DEF store, Promise!Succeed, Promise!Abort, Promise!Doubt
  <2>3. QED
    BY <2>2 DEF Promise!Next
<1>12. QED
  BY <1>10, <1>11

\* A step of FMG publishes one batch, or changes nothing anybody sees.
LEMMA Publishes ==
    ASSUME IInv, ModeInv, DurableInv, AtomicInv, Disciplined,
           (\E w \in Ctx : Serve(w)) \/ (\E r \in late : ServeLate(r))
    PROVE  [Promise!Next]_(Promise!vars)
<1>1. PICK r, a : Sent(r) /\ Execute(r, a) /\ UNCHANGED <<pc, aborted, failed>>
  BY ServesStep DEF IInv
<1>2. Effect(r, a) /\ r.ctx \in Ctx
  BY <1>1, ExecuteEffect DEF Sent
<1>3. mode' = mode
  BY <1>2 DEF Effect
<1>4. [v \in Ctx |-> Outcome(v)]' = [v \in Ctx |-> Outcome(v)]
  BY <1>1, <1>3 DEF Outcome
<1>5. CASE ~mode \/ committed' = committed
  BY <1>3, <1>4, <1>5 DEF Promise!vars
<1>6. CASE mode /\ committed' # committed
  <2>1. r.op = "commit" /\ owner = SessionOf[r.ctx] /\ committed' = committed \cup pending
    BY <1>2, <1>6 DEF Effect
  <2>2. /\ pending \subseteq Batch(r.ctx) /\ Batch(r.ctx) \subseteq pending \cup committed
        /\ ~Unpublished(r.ctx) /\ pc[r.ctx] \in {"commit", "unlock"} \cup Ended
    BY <1>1, <2>1, CommitsOne
  <2>3. pc[r.ctx] # "returned"
    BY <1>2, <1>6, <2>1, <2>2 DEF DurableInv
  <2>4. Outcome(r.ctx) \in {"open", "doubtful"}
    BY <1>6, <2>2, <2>3 DEF Outcome, Unpublished, Ended
  <2>5. committed' = committed \cup Promise!Items(r.ctx)
    BY <2>1, <2>2 DEF Promise!Items, Batch
  <2>6. Promise!Publish(r.ctx)
    BY <1>2, <1>3, <1>4, <1>6, <2>4, <2>5 DEF Promise!Publish
  <2>7. QED
    BY <1>2, <2>6 DEF Promise!Next
<1>7. QED
  BY <1>5, <1>6

\* Under the usage rules the contexts of all workers together implement AtomicBatches:
\* a batch becomes visible as a whole and only by its own commit, and what an aborted
\* body left behind is never published.
THEOREM BatchesKept == Disciplined /\ Told /\ Sole => (Spec => BatchesAtomic)
<1> SUFFICES ASSUME Disciplined, Told, Sole
             PROVE  Spec => BatchesAtomic
  OBVIOUS
<1>1. Init => Promise!Init
  BY DEF Init, ServerInit, Promise!Init, Outcome
<1>2. /\ IInv /\ ModeInv /\ DurableInv /\ AtomicInv /\ DurableInv' /\ AtomicInv'
      /\ [Next]_vars
      => [Promise!Next]_(Promise!vars)
  <2> SUFFICES ASSUME IInv, ModeInv, DurableInv, AtomicInv, DurableInv', AtomicInv',
                      [Next]_vars
               PROVE  [Promise!Next]_(Promise!vars)
    OBVIOUS
  <2>1. CASE UNCHANGED vars
    BY <2>1 DEF vars, Promise!vars, Outcome
  <2>2. ASSUME NEW w \in Ctx, Returns(w) \/ Cancel(w) \/ Crash(w)
        PROVE  [Promise!Next]_(Promise!vars)
    <3>1. /\ UNCHANGED <<committed, mode>> /\ Active(w)
          /\ \A v \in Ctx \ {w} :
                pc'[v] = pc[v] /\ aborted'[v] = aborted[v] /\ failed'[v] = failed[v]
      BY <2>2, EndsStep DEF IInv, Keeps
    <3>2. QED
      BY <3>1, Settles
  <2>3. ASSUME NEW w \in Ctx, Enter(w) \/ ForceUnlock(w) \/ Body(w)
        PROVE  [Promise!Next]_(Promise!vars)
    <3>1. /\ UNCHANGED <<committed, mode>> /\ (Active(w) \/ pc[w] = "idle")
          /\ \A v \in Ctx \ {w} :
                pc'[v] = pc[v] /\ aborted'[v] = aborted[v] /\ failed'[v] = failed[v]
      BY <2>3, BeginsStep DEF IInv, Begins, Active, Ended
    <3>2. QED
      BY <3>1, Settles
  <2>4. ASSUME (\E w \in Ctx : Serve(w)) \/ (\E r \in late : ServeLate(r))
        PROVE  [Promise!Next]_(Promise!vars)
    BY <2>4, Publishes
  <2>5. QED
    BY <2>1, <2>2, <2>3, <2>4 DEF Next
<1>3. QED
  BY <1>1, <1>2, Inductive, LeakInductive, DurableInductive, AtomicInductive, PTL
     DEF Spec, BatchesAtomic, Promise!Spec
-----------------------------------------------------------------------------
(* What an aborted body wrote stays hidden, unless its unlock failed *)

\* The context of w cannot have given its lock back.
Stuck(w) == pc[w] = "crashed" \/ "unlock" \in failed[w]

\* Before the end of its body, or after an exception of it and a lock given back.
Quiet(w) ==
    \/ pc[w] \in {"idle", "lockinfo", "lock", "probe", "force", "body", "write"}
    \/ aborted[w] /\ ~Stuck(w)

\* Moreover w is not writing: before its body, or after an unlock that FMG executed.
Clean(w) ==
    \/ pc[w] \in {"idle", "lockinfo", "lock", "probe", "force"}
    \/ aborted[w] /\ ~Stuck(w) /\ pc[w] \in Ended
    \/ aborted[w] /\ pc[w] = "unlock" /\ reply[w] = "ok"

OwnersPending == \A x \in pending : SessionOf[x[1]] = owner

\* A request that its client gave up on may still write for a context that has ended,
\* but never commits for one that was aborted.
HiddenInv ==
    /\ OwnersPending
    /\ \A w \in Ctx : pc[w] \notin {"unlock"} \cup Ended => ~aborted[w]
    /\ \A r \in late : r.op = "commit" =>
          ~aborted[r.ctx] /\ pc[r.ctx] \in {"unlock"} \cup Ended
    /\ mode => \A w \in Ctx :
          /\ Quiet(w) => Batch(w) \cap committed = {}
          /\ ~LateProcessing /\ Clean(w) => Batch(w) \cap pending = {}

\* Nothing is pending for a context that runs without protection.
LEMMA Unprotected ==
    ASSUME IInv, ModeInv, OwnersPending, Told, mode, NEW w \in Ctx, ~enabled[w]
    PROVE  Batch(w) \cap pending = {}
<1>1. owner # SessionOf[w]
  BY LockAssumption DEF ModeInv, OwnerMayOwn, OffIsSafe, CannotLock
<1>2. \A x \in Batch(w) : x[1] = w
  BY DEF Batch
<1>3. QED
  BY <1>1, <1>2 DEF OwnersPending

\* What is pending stays with the owner.
LEMMA PendingStays ==
    ASSUME IInv, OwnersPending, NEW r, NEW a, Effect(r, a), r.ctx \in Ctx
    PROVE  OwnersPending'
<1>1. owner = NoSession => pending = {}
  BY LockAssumption DEF OwnersPending, Writes, IInv, TypeOK
<1>2. CASE /\ owner = SessionOf[r.ctx] /\ owner' = owner
           /\ pending' = pending \cup {<<r.ctx, r.nth>>}
  <2>1. \A x \in pending' : x \in pending \/ x[1] = r.ctx
    BY <1>2
  <2>2. QED
    BY <1>2, <2>1 DEF OwnersPending
<1>3. CASE pending' = {} \/ (pending' = pending /\ owner' = owner)
  BY <1>3 DEF OwnersPending
<1>4. QED
  BY <1>1, <1>2, <1>3 DEF Effect

\* A call that ends: an aborted body leaves nothing pending behind an unlock that worked.
LEMMA EndsHidden ==
    ASSUME IInv, ModeInv, HiddenInv, Told, NEW w \in Ctx,
           Returns(w) \/ Cancel(w) \/ Crash(w)
    PROVE  HiddenInv'
<1>1. /\ UNCHANGED <<owner, pending, committed, mode>>
      /\ \A v \in Ctx \ {w} :
            pc'[v] = pc[v] /\ reply'[v] = reply[v] /\ failed'[v] = failed[v] /\ Keeps(v)
      /\ Active(w) /\ reply'[w] = "none" /\ failed[w] \subseteq failed'[w] /\ Ends(w)
      /\ \/ late' = late
         \/ late' = late \cup {Request(w)} /\ LateProcessing /\ pc[w] \in Mutating
  BY EndsStep DEF IInv
<1>2. OwnersPending'
  BY <1>1 DEF HiddenInv, OwnersPending
<1>3. pc[w] # "unlock" => ~aborted[w]
  BY <1>1 DEF HiddenInv, Active
<1>4. \A v \in Ctx : pc'[v] \notin {"unlock"} \cup Ended => ~aborted'[v]
  <2>1. pc'[w] \notin {"unlock"} \cup Ended => ~aborted'[w]
    BY <1>1, <1>3 DEF Ends, Keeps, AfterException, Ended
  <2>2. QED
    BY <1>1, <2>1 DEF HiddenInv, Keeps
<1>5. \A r \in late' : r.op = "commit" =>
          ~aborted'[r.ctx] /\ pc'[r.ctx] \in {"unlock"} \cup Ended
  <2>1. ASSUME NEW r \in late, r.op = "commit"
        PROVE  ~aborted'[r.ctx] /\ pc'[r.ctx] \in {"unlock"} \cup Ended
    <3>1. r.ctx \in Ctx /\ ~aborted[r.ctx] /\ pc[r.ctx] \in {"unlock"} \cup Ended
      BY <2>1 DEF HiddenInv, IInv, TypeOK, Requests
    <3>2. CASE r.ctx = w
      BY <1>1, <3>1, <3>2 DEF Ends, Keeps, Active, Ended
    <3>3. CASE r.ctx # w
      BY <1>1, <3>1, <3>3 DEF Keeps
    <3>4. QED
      BY <3>2, <3>3
  <2>2. pc[w] = "commit" => ~aborted'[w] /\ pc'[w] \in {"unlock"} \cup Ended
    BY <1>1, <1>3 DEF Ends, Keeps, Ended
  <2>3. Request(w).ctx = w /\ Request(w).op = pc[w]
    BY DEF Request
  <2>4. QED
    BY <1>1, <2>1, <2>2, <2>3
<1>6. ASSUME mode, NEW v \in Ctx
      PROVE  /\ Quiet(v)' => Batch(v) \cap committed = {}
             /\ ~LateProcessing /\ Clean(v)' => Batch(v) \cap pending = {}
  <2>1. /\ Quiet(v) => Batch(v) \cap committed = {}
        /\ ~LateProcessing /\ Clean(v) => Batch(v) \cap pending = {}
    BY <1>6 DEF HiddenInv
  <2>2. CASE v # w
    BY <1>1, <2>1, <2>2 DEF Quiet, Clean, Stuck, Keeps
  <2>3. CASE v = w
    <3>1. Quiet(w)' => Quiet(w)
      BY <1>1, <1>3 DEF Quiet, Stuck, Ends, Keeps, AfterException, Ended
    <3>2. Clean(w)' => Clean(w) \/ ~enabled[w]
      <4>1. pc[w] \in {"body", "write"} /\ ~Protects(w) => ~enabled[w]
        BY DEF ModeInv, LockersEnabled, Protects
      <4>2. QED
        BY <1>1, <1>3, <4>1 DEF Clean, Stuck, Ends, Keeps, AfterException, Ended
    <3>3. QED
      BY <1>6, <2>1, <2>3, <3>1, <3>2, Unprotected DEF HiddenInv
  <2>4. QED
    BY <2>2, <2>3
<1>7. QED
  BY <1>1, <1>2, <1>4, <1>5, <1>6 DEF HiddenInv, Batch

\* A body that raises: under a lock an unlock follows, without one nothing is pending.
LEMMA BeginsHidden ==
    ASSUME IInv, ModeInv, HiddenInv, Told, NEW w \in Ctx,
           Enter(w) \/ ForceUnlock(w) \/ Body(w)
    PROVE  HiddenInv'
<1>1. /\ UNCHANGED <<owner, pending, committed, mode, reply, late, locked, enabled, failed>>
      /\ \A v \in Ctx \ {w} : pc'[v] = pc[v] /\ aborted'[v] = aborted[v]
      /\ Begins(w)
  BY BeginsStep DEF IInv
<1>2. pc[w] \in {"idle", "body"} /\ ~aborted[w] /\ reply[w] = "none"
  <2>1. pc[w] \in {"idle", "body"}
    BY <1>1 DEF Begins
  <2>2. QED
    BY <2>1 DEF HiddenInv, Ended, ModeInv, NoneUnasked, Calls
<1>3. OwnersPending'
  BY <1>1 DEF HiddenInv, OwnersPending
<1>4. \A v \in Ctx : pc'[v] \notin {"unlock"} \cup Ended => ~aborted'[v]
  <2>1. pc'[w] \notin {"unlock"} \cup Ended => ~aborted'[w]
    BY <1>1, <1>2 DEF Begins, AfterException, Ended
  <2>2. QED
    BY <1>1, <2>1 DEF HiddenInv
<1>5. \A r \in late' : r.op = "commit" =>
          ~aborted'[r.ctx] /\ pc'[r.ctx] \in {"unlock"} \cup Ended
  <2>1. \A r \in late : r.op = "commit" => r.ctx \in Ctx \ {w}
    BY <1>2 DEF HiddenInv, Ended, IInv, TypeOK, Requests
  <2>2. QED
    BY <1>1, <2>1 DEF HiddenInv
<1>6. ASSUME mode, NEW v \in Ctx
      PROVE  /\ Quiet(v)' => Batch(v) \cap committed = {}
             /\ ~LateProcessing /\ Clean(v)' => Batch(v) \cap pending = {}
  <2>1. /\ Quiet(v) => Batch(v) \cap committed = {}
        /\ ~LateProcessing /\ Clean(v) => Batch(v) \cap pending = {}
    BY <1>6 DEF HiddenInv
  <2>2. CASE v # w
    BY <1>1, <2>1, <2>2 DEF Quiet, Clean, Stuck
  <2>3. CASE v = w
    <3>1. Quiet(w)
      BY <1>2 DEF Quiet
    <3>2. Clean(w)' => Clean(w) \/ ~enabled[w]
      <4>1. pc[w] = "body" /\ ~Protects(w) => ~enabled[w]
        BY DEF ModeInv, LockersEnabled, Protects
      <4>2. QED
        BY <1>1, <1>2, <4>1 DEF Clean, Stuck, Begins, AfterException, Ended
    <3>3. QED
      BY <1>6, <2>1, <2>3, <3>1, <3>2, Unprotected DEF HiddenInv
  <2>4. QED
    BY <2>2, <2>3
<1>7. QED
  BY <1>1, <1>3, <1>4, <1>5, <1>6 DEF HiddenInv, Batch

\* A commit that FMG executes publishes nothing of a context that is quiet: the writes of
\* its session that are pending belong to the context that commits.
LEMMA CommitsOthers ==
    ASSUME IInv, ModeInv, HiddenInv, Disciplined, mode,
           NEW r, Sent(r), r.op = "commit", owner = SessionOf[r.ctx],
           NEW v \in Ctx, Quiet(v)
    PROVE  Batch(v) \cap pending = {}
<1>1. r.ctx \in Ctx
  BY DEF Sent
<1>2. SUFFICES ASSUME NEW x \in Batch(v), x \in pending
               PROVE  FALSE
  OBVIOUS
<1>3. SameSession(v, r.ctx)
  BY <1>2 DEF HiddenInv, OwnersPending, SameSession, Batch
<1>4. r = Request(r.ctx) => pc[r.ctx] = "commit" /\ ~aborted[r.ctx] /\ ~Quiet(r.ctx)
  BY <1>1 DEF Request, HiddenInv, Quiet, Ended
<1>5. CASE r \in late
  <2>1. v = r.ctx
    BY <1>1, <1>3, <1>5, LateAlone DEF Alone, SameSession
  <2>2. ~aborted[r.ctx] /\ pc[r.ctx] \in {"unlock"} \cup Ended
    BY <1>5 DEF HiddenInv
  <2>3. QED
    BY <2>1, <2>2 DEF Quiet, Ended
<1>6. CASE r = Request(r.ctx) /\ LateProcessing
  <2>1. v = r.ctx
    BY <1>1, <1>3, <1>6 DEF Disciplined
  <2>2. QED
    BY <1>4, <1>6, <2>1
<1>7. CASE r = Request(r.ctx) /\ ~LateProcessing
  <2>1. v # r.ctx /\ Active(r.ctx)
    BY <1>4, <1>7 DEF Active, Ended
  <2>2. ~Active(v)
    BY <1>1, <1>3, <2>1 DEF IInv, TakeTurns
  <2>3. pc[v] = "idle" \/ (pc[v] \in Ended /\ aborted[v] /\ ~Stuck(v))
    BY <2>2 DEF Active, Quiet, Ended
  <2>4. Clean(v)
    BY <2>3 DEF Clean
  <2>5. QED
    BY <1>2, <1>7, <2>4 DEF HiddenInv
<1>8. QED
  BY <1>5, <1>6, <1>7 DEF Sent

\* A step of FMG: a write adds to a batch that is being written, an unlock that succeeds
\* drops what is pending.
LEMMA ServesHidden ==
    ASSUME IInv, ModeInv, HiddenInv, Disciplined,
           (\E w \in Ctx : Serve(w)) \/ (\E r \in late : ServeLate(r))
    PROVE  HiddenInv'
<1>1. PICK r, a :
        /\ Sent(r) /\ Execute(r, a) /\ UNCHANGED <<pc, aborted, failed>>
        /\ late' \subseteq late
        /\ \/ UNCHANGED reply
           \/ /\ r = Request(r.ctx) /\ pc[r.ctx] \in Calls
              /\ reply'[r.ctx] = a
              /\ \A v \in Ctx \ {r.ctx} : reply'[v] = reply[v]
  BY ServesStep DEF IInv
<1>2. Effect(r, a) /\ r.ctx \in Ctx
  BY <1>1, ExecuteEffect DEF Sent
<1>3. OwnersPending'
  BY <1>2, PendingStays DEF HiddenInv
<1>4. \A v \in Ctx : Quiet(v)' <=> Quiet(v)
  BY <1>1 DEF Quiet, Stuck
<1>5. ASSUME mode, NEW v \in Ctx, Quiet(v)
      PROVE  Batch(v) \cap committed' = {}
  <2>1. Batch(v) \cap committed = {}
    BY <1>5 DEF HiddenInv
  <2>2. CASE /\ r.op = "commit" /\ owner = SessionOf[r.ctx]
             /\ committed' = committed \cup pending
    <3>1. Batch(v) \cap pending = {}
      BY <1>1, <1>5, <2>2, CommitsOthers
    <3>2. QED
      BY <2>1, <2>2, <3>1
  <2>3. CASE committed' = committed
    BY <2>1, <2>3
  <2>4. QED
    BY <1>2, <1>5, <2>2, <2>3 DEF Effect
<1>6. ASSUME mode, NEW v \in Ctx, ~LateProcessing, Clean(v)'
      PROVE  Batch(v) \cap pending' = {}
  <2>1. r = Request(r.ctx) /\ r.op = pc[r.ctx]
    BY <1>1, <1>6 DEF Sent, IInv, LateIsPast, Request
  <2>2. CASE pending' = {}
    BY <2>2
  <2>3. CASE pending' # {}
    <3>1. Clean(v)
      <4>1. CASE reply'[v] = reply[v]
        BY <1>1, <1>6, <4>1 DEF Clean, Stuck
      <4>2. CASE reply'[v] # reply[v]
        <5>1. v = r.ctx /\ reply'[v] = a
          BY <1>1, <4>2
        <5>2. r.op = "unlock" => a # "ok"
          BY <1>2, <2>3 DEF Effect
        <5>3. QED
          BY <1>1, <1>6, <2>1, <5>1, <5>2 DEF Clean, Stuck
      <4>3. QED
        BY <4>1, <4>2
    <3>2. Batch(v) \cap pending = {}
      BY <1>6, <3>1 DEF HiddenInv
    <3>3. CASE pending' = pending
      BY <3>2, <3>3
    <3>4. CASE r.op = "write" /\ pending' = pending \cup {<<r.ctx, r.nth>>}
      <4>1. v # r.ctx
        BY <2>1, <3>1, <3>4 DEF Clean, Ended
      <4>2. <<r.ctx, r.nth>> \notin Batch(v)
        BY <4>1 DEF Batch
      <4>3. QED
        BY <3>2, <3>4, <4>2
    <3>5. QED
      BY <1>2, <2>3, <3>3, <3>4 DEF Effect
  <2>4. QED
    BY <2>2, <2>3
<1>7. mode' = mode
  BY <1>2 DEF Effect
<1>8. QED
  BY <1>1, <1>3, <1>4, <1>5, <1>6, <1>7 DEF HiddenInv, Batch

\* The invariant behind it.
LEMMA HiddenInductive == Disciplined /\ Told => (Spec => []HiddenInv)
<1> SUFFICES ASSUME Disciplined, Told
             PROVE  Spec => []HiddenInv
  OBVIOUS
<1>1. Init => HiddenInv
  BY DEF Init, ServerInit, HiddenInv, OwnersPending, Quiet, Clean
<1>2. IInv /\ ModeInv /\ HiddenInv /\ [Next]_vars => HiddenInv'
  <2> SUFFICES ASSUME IInv, ModeInv, HiddenInv, [Next]_vars
               PROVE  HiddenInv'
    OBVIOUS
  <2>1. CASE UNCHANGED vars
    BY <2>1 DEF vars, HiddenInv, OwnersPending, Quiet, Clean, Stuck, Batch
  <2>2. QED
    BY <2>1, EndsHidden, BeginsHidden, ServesHidden DEF Next
<1>3. QED
  BY <1>1, <1>2, Inductive, LeakInductive, PTL DEF Spec

\* Under the usage rules a write of a body that raised is seen by others only if the
\* unlock behind it raised or the worker crashed; also where FMG grants its owner the
\* lock again, which lets a later context of that session commit what was left pending.
THEOREM AbortsHidden == Disciplined /\ Told => (Spec => []AbortedHidden)
<1> SUFFICES ASSUME Disciplined, Told
             PROVE  Spec => []AbortedHidden
  OBVIOUS
<1>1. HiddenInv => AbortedHidden
  BY DEF HiddenInv, AbortedHidden, Quiet, Stuck
<1>2. QED
  BY <1>1, HiddenInductive, PTL
-----------------------------------------------------------------------------
(* A with block runs down *)

\* The code of a context goes from await to await in one direction.
LEMMA OwnRunsDown ==
    ASSUME TypeOK, TypeOK', NEW w \in Ctx,
           \/ Returns(w) \/ Cancel(w) \/ Crash(w)
           \/ Enter(w) \/ ForceUnlock(w) \/ Body(w)
    PROVE  /\ Left(w)' <= Left(w)
           /\ (Returns(w) /\ pc[w] # "force") \/ Body(w) => Left(w)' < Left(w)
           /\ \A v \in Ctx \ {w} : pc'[v] = pc[v] /\ wrote'[v] = wrote[v]
<1>1. /\ BatchSize \in Nat /\ wrote[w] \in 0 .. BatchSize /\ wrote'[w] \in 0 .. BatchSize
      /\ pc[w] = "write" => wrote[w] < BatchSize
  BY LockAssumption DEF TypeOK
<1>2. CASE Returns(w) \/ Cancel(w) \/ Crash(w)
  <2>1. Ends(w) /\ Active(w) /\ \A v \in Ctx \ {w} : pc'[v] = pc[v] /\ Keeps(v)
    BY <1>2, EndsStep
  <2>2. CASE pc[w] # "force"
    <3>1. Left(w)' < Left(w)
      <4>1. CASE pc'[w] = "crashed"
        BY <1>1, <2>1, <4>1 DEF Left, Active, Ended, TypeOK, Labels, Calls
      <4>2. CASE pc[w] \in {"lockinfo", "lock", "probe"} /\ pc'[w] # "crashed"
        BY <1>1, <2>1, <4>2 DEF Left, Ends, Keeps
      <4>3. CASE pc[w] \in {"write", "commit", "unlock"} /\ pc'[w] # "crashed"
        BY <1>1, <2>1, <4>3 DEF Left, Ends, Keeps, AfterException
      <4>4. QED
        BY <2>1, <2>2, <4>1, <4>2, <4>3 DEF Ends
    <3>2. Left(w) \in Nat /\ Left(w)' \in Nat
      BY <1>1 DEF Left
    <3>3. QED
      BY <2>1, <3>1, <3>2 DEF Keeps
  <2>3. CASE pc[w] = "force"
    <3>1. pc'[w] \in {"crashed", "idle"}
      BY <2>1, <2>3 DEF Ends
    <3>2. Left(w)' <= Left(w) /\ ~Body(w)
      BY <1>1, <2>3, <3>1 DEF Left, Body, BeginWrite, BodyRaises, BodyCompletes
    <3>3. QED
      BY <2>1, <2>3, <3>2 DEF Keeps
  <2>4. QED
    BY <2>2, <2>3
<1>3. CASE Enter(w) \/ ForceUnlock(w) \/ Body(w)
  <2>1. /\ Begins(w) /\ wrote' = wrote
        /\ \A v \in Ctx \ {w} : pc'[v] = pc[v]
    BY <1>3, BeginsStep
  <2>2. CASE pc[w] = "idle"
    <3>1. pc'[w] \in {"force", "lockinfo", "body"}
      BY <2>1, <2>2 DEF Begins
    <3>2. Left(w)' <= Left(w)
      BY <1>1, <2>2, <3>1 DEF Left
    <3>3. ~Body(w) /\ ~Returns(w)
      BY <2>2 DEF Body, BeginWrite, BodyRaises, BodyCompletes, Returns, LockinfoReturns,
         LockReturns, ProbeReturns, WriteReturns, CommitReturns, UnlockReturns, ForceReturns
    <3>4. QED
      BY <2>1, <3>2, <3>3
  <2>3. CASE pc[w] = "body"
    <3>1. pc'[w] \in {"write", "unlock", "raised", "commit", "returned"}
      BY <2>1, <2>3 DEF Begins, AfterException
    <3>2. Left(w)' < Left(w)
      BY <1>1, <2>1, <2>3, <3>1 DEF Left
    <3>3. Left(w) \in Nat /\ Left(w)' \in Nat
      BY <1>1 DEF Left
    <3>4. QED
      BY <2>1, <3>2, <3>3
  <2>4. QED
    BY <2>1, <2>2, <2>3 DEF Begins
<1>4. QED
  BY <1>2, <1>3

\* The code of a with block never goes back to an earlier await, whatever it is answered
\* and whatever others do: what BlocksEnd says, short of fairness.
THEOREM RunDown == Spec => BlocksRunDown
<1>1. ASSUME TypeOK, TypeOK', [Next]_vars, NEW w \in Ctx
      PROVE  /\ Left(w)' <= Left(w)
             /\ (Returns(w) /\ pc[w] # "force") \/ Body(w) => Left(w)' < Left(w)
  <2> DEFINE Own(v) == \/ Returns(v) \/ Cancel(v) \/ Crash(v)
                       \/ Enter(v) \/ ForceUnlock(v) \/ Body(v)
  <2>1. CASE Own(w)
    BY <1>1, <2>1, OwnRunsDown
  <2>2. CASE ~Own(w)
    <3>1. pc'[w] = pc[w] /\ wrote'[w] = wrote[w]
      <4>1. CASE UNCHANGED vars
        BY <4>1 DEF vars
      <4>2. ASSUME NEW v \in Ctx, Own(v)
            PROVE  pc'[w] = pc[w] /\ wrote'[w] = wrote[w]
        <5>1. v # w
          BY <2>2, <4>2
        <5>2. QED
          BY <1>1, <4>2, <5>1, OwnRunsDown
      <4>3. ASSUME (\E v \in Ctx : Serve(v)) \/ (\E r \in late : ServeLate(r))
            PROVE  pc'[w] = pc[w] /\ wrote'[w] = wrote[w]
        BY <4>3 DEF Serve, ServeLate
      <4>4. QED
        BY <1>1, <4>1, <4>2, <4>3 DEF Next
    <3>2. Left(w)' = Left(w) /\ Left(w) \in Nat
      BY <1>1, <3>1, LockAssumption DEF Left, TypeOK
    <3>3. QED
      BY <2>2, <3>2
  <2>3. QED
    BY <2>1, <2>2
<1>2. TypeOK /\ TypeOK' /\ [Next]_vars =>
         [\A w \in Ctx :
             /\ Left(w)' <= Left(w)
             /\ (Returns(w) /\ pc[w] # "force") \/ Body(w) => Left(w)' < Left(w)]_vars
  BY <1>1
<1>3. IInv => TypeOK
  BY DEF IInv
<1>4. QED
  BY <1>2, <1>3, Inductive, PTL DEF Spec, BlocksRunDown
=============================================================================
