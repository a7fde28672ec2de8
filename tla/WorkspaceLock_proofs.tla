------------------------ MODULE WorkspaceLock_proofs ------------------------
(***************************************************************************)
(* Type correctness of WorkspaceLock, and: a context that believes to hold *)
(* the ADOM lock does, for any number of contexts, sessions, writes,       *)
(* retries, lost answers, cancellations and crashes.                       *)
(***************************************************************************)
EXTENDS WorkspaceLock, TLAPS

\* One request executed at FMG keeps the types of FMG's state.
LEMMA ExecuteType ==
    ASSUME TypeOK, NEW r, NEW a, r.ctx \in Ctx,
           r.op = "write" => r.nth \in 1 .. BatchSize,
           Execute(r, a)
    PROVE  /\ owner' \in Sessions \cup {NoSession}
           /\ pending' \subseteq Writes
           /\ committed' \subseteq Writes
           /\ mode' \in BOOLEAN
<1> USE LockAssumption
<1>1. SessionOf[r.ctx] \in Sessions
  OBVIOUS
<1>2. CASE UNCHANGED serverVars
  BY <1>2 DEF TypeOK, serverVars
<1>3. CASE r.op = "lock" /\ GrantLock(SessionOf[r.ctx], a)
  BY <1>1, <1>3 DEF TypeOK, GrantLock
<1>4. CASE r.op = "write" /\ ServeWrite(SessionOf[r.ctx], <<r.ctx, r.nth>>, a)
  <2>1. <<r.ctx, r.nth>> \in Writes
    BY <1>4 DEF Writes
  <2>2. QED
    BY <2>1, <1>4 DEF TypeOK, ServeWrite, serverVars
<1>5. CASE r.op = "commit" /\ ServeCommit(SessionOf[r.ctx], a)
  BY <1>5 DEF TypeOK, ServeCommit, serverVars
<1>6. CASE r.op \in {"unlock", "force"} /\ ServeUnlock(SessionOf[r.ctx], a)
  BY <1>6 DEF TypeOK, ServeUnlock, serverVars
<1>7. QED
  BY <1>2, <1>3, <1>4, <1>5, <1>6
     DEF Execute, ServeLockinfo, ServeLock, RelockOwn, RefuseLock,
         LockNotSupported, ServeProbe

\* Only two kinds of requests move the lock: a lock request while it is free, and
\* an unlock request (unlock() or force_unlock()) of the session that owns it.
LEMMA ExecuteOwner ==
    ASSUME NEW r, NEW a, Execute(r, a), owner' # owner
    PROVE  \/ /\ r.op = "lock"
              /\ owner = NoSession
              /\ owner' = SessionOf[r.ctx]
           \/ /\ r.op \in {"unlock", "force"}
              /\ owner = SessionOf[r.ctx]
              /\ owner' = NoSession
  BY DEF Execute, ServeLockinfo, ServeLock, GrantLock, RelockOwn, RefuseLock,
         LockNotSupported, ServeProbe, ServeWrite, ServeCommit, ServeUnlock,
         serverVars

\* FMG answers "ok" to a lock request only if the asking session owns the lock
\* once the request is executed.
LEMMA ExecuteGrant ==
    ASSUME NEW r, r.op = "lock", Execute(r, "ok")
    PROVE  owner' = SessionOf[r.ctx]
  BY DEF Execute, ServeLock, GrantLock, RelockOwn, RefuseLock,
         LockNotSupported, serverVars

\* The end of a call keeps the types of what it assigns.
LEMMA EndCallType ==
    ASSUME TypeOK, NEW w \in Ctx, NEW next \in Labels, EndCall(w, next)
    PROVE  /\ pc' \in [Ctx -> Labels]
           /\ reply' \in [Ctx -> ServerAnswers \cup {"none"}]
           /\ late' \subseteq Requests
           /\ \A r \in late' : r.op = "write" => r.nth <= BatchSize
<1> USE LockAssumption DEF TypeOK
<1>1. pc' \in [Ctx -> Labels] /\ reply' \in [Ctx -> ServerAnswers \cup {"none"}]
  BY DEF EndCall
<1>2. CASE late' = late
  BY <1>1, <1>2
<1>3. CASE late' = late \cup {Request(w)} /\ pc[w] \in Mutating
  <2>1. Request(w) \in Requests
    BY <1>3 DEF Request, Requests
  <2>2. Request(w).op = "write" => Request(w).nth <= BatchSize
    BY DEF Request
  <2>3. QED
    BY <1>1, <1>3, <2>1, <2>2
<1>4. QED
  BY <1>2, <1>3 DEF EndCall

-----------------------------------------------------------------------------
\* Every variable of the lock protocol keeps its type in every step.
THEOREM TypeCorrect == Spec => []TypeOK
<1>1. Init => TypeOK
  BY LockAssumption DEF Init, ServerInit, TypeOK, Labels
<1>2. TypeOK /\ [Next]_vars => TypeOK'
  <2> SUFFICES ASSUME TypeOK, [Next]_vars
               PROVE  TypeOK'
    OBVIOUS
  <2> USE LockAssumption
  <2>1. ASSUME NEW w \in Ctx, Enter(w) \/ ForceUnlock(w)
        PROVE  TypeOK'
    BY <2>1 DEF TypeOK, Enter, ForceUnlock, serverVars, Labels, Calls
  <2>2. ASSUME NEW w \in Ctx, Serve(w)
        PROVE  TypeOK'
    <3>1. PICK a \in ServerAnswers : Execute(Request(w), a)
                                     /\ reply' = [reply EXCEPT ![w] = a]
      BY <2>2 DEF Serve
    <3>2. Request(w).op = "write" => Request(w).nth \in 1 .. BatchSize
      BY DEF Request, TypeOK
    <3>3. /\ owner' \in Sessions \cup {NoSession}
          /\ pending' \subseteq Writes
          /\ committed' \subseteq Writes
          /\ mode' \in BOOLEAN
      BY <3>1, <3>2, ExecuteType DEF Request
    <3>4. QED
      BY <2>2, <3>1, <3>3 DEF TypeOK, Serve
  <2>3. ASSUME NEW w \in Ctx, Returns(w)
        PROVE  TypeOK'
    <3>1. UNCHANGED serverVars
      BY <2>3 DEF Returns, LockinfoReturns, LockReturns, ProbeReturns,
             WriteReturns, CommitReturns, UnlockReturns, ForceReturns, serverVars
    <3>2. PICK next \in Labels : EndCall(w, next) /\ next # "write"
      BY <2>3 DEF Returns, LockinfoReturns, LockReturns, ProbeReturns,
             WriteReturns, CommitReturns, UnlockReturns, ForceReturns,
             AfterException, Labels, Calls, Ended
    <3>3. /\ pc' \in [Ctx -> Labels]
          /\ reply' \in [Ctx -> ServerAnswers \cup {"none"}]
          /\ late' \subseteq Requests
          /\ \A r \in late' : r.op = "write" => r.nth <= BatchSize
      BY <3>2, EndCallType
    <3>4. /\ locked' \in [Ctx -> BOOLEAN]
          /\ enabled' \in [Ctx -> BOOLEAN]
          /\ aborted' \in [Ctx -> BOOLEAN]
      BY <2>3 DEF TypeOK, Returns, LockinfoReturns, LockReturns, ProbeReturns,
             WriteReturns, CommitReturns, UnlockReturns, ForceReturns
    <3>5. failed' \in [Ctx -> SUBSET Calls]
      <4>1. failed' = failed \/ (CallRaised(w) /\ pc[w] \in Calls)
        BY <2>3 DEF Returns, LockinfoReturns, LockReturns, ProbeReturns,
               WriteReturns, CommitReturns, UnlockReturns, ForceReturns, Calls
      <4>2. QED
        BY <4>1 DEF TypeOK, CallRaised
    <3>6. /\ wrote' \in [Ctx -> 0 .. BatchSize]
          /\ \A v \in Ctx : pc'[v] = "write" => wrote'[v] < BatchSize
      <4>1. CASE wrote' = wrote
        BY <4>1, <3>2 DEF TypeOK, EndCall
      <4>2. CASE pc[w] = "write" /\ wrote' = [wrote EXCEPT ![w] = @ + 1]
        BY <4>2, <3>2 DEF TypeOK, EndCall
      <4>3. QED
        BY <2>3, <4>1, <4>2 DEF Returns, LockinfoReturns, LockReturns,
               ProbeReturns, WriteReturns, CommitReturns, UnlockReturns,
               ForceReturns
    <3>7. QED
      BY <3>1, <3>3, <3>4, <3>5, <3>6 DEF TypeOK, serverVars
  <2>4. ASSUME NEW w \in Ctx, Body(w)
        PROVE  TypeOK'
    <3>1. CASE BeginWrite(w)
      BY <3>1 DEF TypeOK, BeginWrite, serverVars, Labels, Calls
    <3>2. CASE BodyRaises(w)
      <4>1. AfterException(w) \in Labels \ {"write"}
        BY DEF AfterException, Labels, Calls, Ended
      <4>2. QED
        BY <3>2, <4>1 DEF TypeOK, BodyRaises, serverVars
    <3>3. CASE BodyCompletes(w)
      BY <3>3 DEF TypeOK, BodyCompletes, serverVars, Labels, Calls, Ended
    <3>4. QED
      BY <2>4, <3>1, <3>2, <3>3 DEF Body
  <2>5. ASSUME NEW w \in Ctx, Cancel(w) \/ Crash(w)
        PROVE  TypeOK'
    <3>1. PICK next \in {"raised", "crashed"} : EndCall(w, next)
      BY <2>5 DEF Cancel, Crash
    <3>2. /\ pc' \in [Ctx -> Labels]
          /\ reply' \in [Ctx -> ServerAnswers \cup {"none"}]
          /\ late' \subseteq Requests
          /\ \A r \in late' : r.op = "write" => r.nth <= BatchSize
      BY <3>1, EndCallType DEF Labels, Ended
    <3>3. \A v \in Ctx : pc'[v] = "write" => wrote'[v] < BatchSize
      BY <2>5, <3>1 DEF TypeOK, EndCall, Cancel, Crash
    <3>4. failed' \in [Ctx -> SUBSET Calls] /\ locked' \in [Ctx -> BOOLEAN]
      <4>1. locked' \in [Ctx -> BOOLEAN]
        BY <2>5 DEF TypeOK, Cancel, Crash
      <4>2. failed' = failed \/ (CallRaised(w) /\ pc[w] \in Calls)
        BY <2>5 DEF Cancel, Crash, Calls
      <4>3. QED
        BY <4>1, <4>2 DEF TypeOK, CallRaised
    <3>5. QED
      BY <2>5, <3>2, <3>3, <3>4 DEF TypeOK, Cancel, Crash, serverVars
  <2>6. ASSUME NEW r \in late, ServeLate(r)
        PROVE  TypeOK'
    <3>1. PICK a \in ServerAnswers : Execute(r, a)
      BY <2>6 DEF ServeLate
    <3>2. r.ctx \in Ctx /\ (r.op = "write" => r.nth \in 1 .. BatchSize)
      BY DEF TypeOK, Requests
    <3>3. QED
      BY <2>6, <3>1, <3>2, ExecuteType DEF TypeOK, ServeLate
  <2>7. CASE UNCHANGED vars
    BY <2>7 DEF TypeOK, vars
  <2>8. QED
    BY <2>1, <2>2, <2>3, <2>4, <2>5, <2>6, <2>7 DEF Next
<1>3. QED
  BY <1>1, <1>2, PTL DEF Spec

-----------------------------------------------------------------------------
(* The lock is held where the client believes it is *)

\* How the lock can move: a context whose session owns it and that runs under it,
\* or waits for the grant, does not lose it to a request that FMG executes.
LEMMA OwnerStays ==
    ASSUME IInv, Disciplined, NEW w \in Ctx, owner = SessionOf[w],
           pc[w] \in {"lock", "body", "write", "commit"},
           NEW r, NEW a, r.ctx \in Ctx, Execute(r, a),
           \/ r = Request(r.ctx) /\ pc[r.ctx] \in Calls
           \/ r \in late
    PROVE  owner' = owner
<1> SUFFICES ASSUME owner' # owner
             PROVE  FALSE
  OBVIOUS
<1>1. owner # NoSession
  BY LockAssumption
<1>2. r.op \in {"unlock", "force"} /\ SameSession(r.ctx, w)
  BY <1>1, ExecuteOwner DEF SameSession
<1>3. Active(w)
  BY DEF Active, Ended
<1>4. CASE r = Request(r.ctx) /\ pc[r.ctx] \in Calls
  <2>1. pc[r.ctx] \in {"unlock", "force"}
    BY <1>2, <1>4 DEF Request
  <2>2. Active(r.ctx)
    BY <2>1 DEF Active, Ended
  <2>3. r.ctx = w
    BY <1>2, <1>3, <2>2 DEF IInv, TakeTurns
  <2>4. QED
    BY <2>1, <2>3
<1>5. CASE r \in late
  <2>1. LateProcessing /\ r.ctx = w /\ Forcing = {}
    BY <1>2, <1>5 DEF IInv, LateIsPast, Disciplined
  <2>2. pc[w] \in Ended
    BY <1>2, <1>5, <2>1 DEF IInv, LateIsPast
  <2>3. QED
    BY <2>2 DEF Ended
<1>6. QED
  BY <1>4, <1>5

\* FMG executing some request preserves the two claims about the lock, for the
\* contexts that do not get a new answer.
LEMMA ExecuteKeeps ==
    ASSUME IInv, Disciplined, NEW r, NEW a, r.ctx \in Ctx, Execute(r, a),
           \/ r = Request(r.ctx) /\ pc[r.ctx] \in Calls
           \/ r \in late
    PROVE  /\ \A w \in Ctx : pc[w] = "lock" /\ reply[w] = "ok" => owner' = SessionOf[w]
           /\ \A w \in Ctx : Holding(w) => owner' = SessionOf[w]
<1>1. ASSUME NEW w \in Ctx, pc[w] = "lock", reply[w] = "ok"
      PROVE  owner' = SessionOf[w]
  BY <1>1, OwnerStays DEF IInv, GrantIsCurrent
<1>2. ASSUME NEW w \in Ctx, Holding(w)
      PROVE  owner' = SessionOf[w]
  BY <1>2, OwnerStays DEF IInv, LockedImpliesOwner, Holding
<1>3. QED
  BY <1>1, <1>2

\* The inductive invariant holds before any context is opened.
LEMMA InitIInv == Init => IInv
  BY LockAssumption
     DEF Init, ServerInit, IInv, TypeOK, Labels, TakeTurns, Active, LateIsPast,
         LockedLate, GrantIsCurrent, LockedImpliesOwner, Holding

\* The steps of the client that end a call.
LEMMA EndsIInv ==
    ASSUME IInv, TypeOK', NEW w \in Ctx, Returns(w) \/ Cancel(w) \/ Crash(w)
    PROVE  IInv'
<1> USE DEF IInv
<1>1. PICK next \in Labels :
        /\ EndCall(w, next)
        /\ next = "idle" => pc[w] = "force"
        /\ next = "lock" => pc[w] = "lockinfo"
        /\ next = "probe" => pc[w] = "lock"
        /\ next = "body" => pc[w] \in {"lock", "probe", "write"}
        /\ next \notin {"lockinfo", "write", "commit", "force"}
        /\ pc[w] = "unlock" => next \in Ended
  BY DEF Returns, LockinfoReturns, LockReturns, ProbeReturns, WriteReturns,
         CommitReturns, UnlockReturns, ForceReturns, Cancel, Crash,
         AfterException, Labels, Calls, Ended
<1>2. owner' = owner /\ Active(w)
  BY DEF Returns, LockinfoReturns, LockReturns, ProbeReturns, WriteReturns,
         CommitReturns, UnlockReturns, ForceReturns, Cancel, Crash, serverVars,
         Active, Ended
<1>3. \A v \in Ctx \ {w} : pc'[v] = pc[v] /\ reply'[v] = reply[v] /\ locked'[v] = locked[v]
  BY <1>1 DEF TypeOK, EndCall, Returns, LockinfoReturns, LockReturns,
         ProbeReturns, WriteReturns, CommitReturns, UnlockReturns,
         ForceReturns, Cancel, Crash
<1>4. pc'[w] = next /\ reply'[w] = "none"
  BY <1>1 DEF TypeOK, EndCall
<1>5. locked'[w] => locked[w] \/ (pc[w] = "lock" /\ reply[w] = "ok")
  BY DEF TypeOK, Answers, Returns, LockinfoReturns, LockReturns, ProbeReturns,
         WriteReturns, CommitReturns, UnlockReturns, ForceReturns, Cancel, Crash
<1>6. pc[w] = "lock" /\ locked'[w] => next = "body"
  BY <1>4 DEF TypeOK, LockedLate, EndCall, Returns, LockinfoReturns, LockReturns,
         ProbeReturns, WriteReturns, CommitReturns, UnlockReturns, ForceReturns,
         Cancel, Crash
<1>7. TakeTurns'
  <2>1. \A v \in Ctx : Active(v)' => Active(v)
    BY <1>2, <1>3 DEF Active
  <2>2. QED
    BY <2>1 DEF TakeTurns, SameSession, Disciplined
<1>8. LateIsPast'
  <2>1. \A v \in Ctx : pc[v] \in Ended => pc'[v] \in Ended
    BY <1>2, <1>3 DEF Active
  <2>2. CASE late' = late
    BY <2>1, <2>2 DEF LateIsPast, TypeOK, Requests
  <2>3. CASE late' = late \cup {Request(w)} /\ LateProcessing
    <3>1. Request(w).ctx = w /\ Request(w).op = pc[w]
      BY DEF Request
    <3>2. pc[w] = "force" => w \in Forcing
      BY DEF LockedLate
    <3>3. QED
      BY <1>1, <1>4, <2>1, <2>3, <3>1, <3>2 DEF LateIsPast, TypeOK, Requests
  <2>4. QED
    BY <1>1, <2>2, <2>3 DEF EndCall
<1>9. LockedLate'
  BY <1>1, <1>3, <1>4, <1>5, <1>6 DEF LockedLate
<1>10. Disciplined => GrantIsCurrent'
  BY <1>2, <1>3, <1>4 DEF GrantIsCurrent
<1>11. Disciplined => LockedImpliesOwner'
  <2> SUFFICES ASSUME Disciplined, NEW v \in Ctx, Holding(v)'
               PROVE  owner = SessionOf[v]
    BY <1>2 DEF LockedImpliesOwner
  <2>1. CASE v # w
    BY <2>1, <1>3 DEF LockedImpliesOwner, Holding
  <2>2. CASE v = w
    <3>1. next = "body"
      BY <1>1, <1>4, <2>2 DEF Holding
    <3>2. CASE locked[w]
      BY <1>1, <2>2, <3>1, <3>2 DEF LockedLate, LockedImpliesOwner, Holding
    <3>3. CASE ~locked[w]
      BY <1>5, <2>2, <3>3 DEF Holding, GrantIsCurrent
    <3>4. QED
      BY <3>2, <3>3
  <2>3. QED
    BY <2>1, <2>2
<1>12. QED
  BY <1>7, <1>8, <1>9, <1>10, <1>11 DEF Disciplined, SameSession

\* The steps that begin a with block, a force_unlock() or the next await of a body.
LEMMA BeginsIInv ==
    ASSUME IInv, TypeOK', NEW w \in Ctx, Enter(w) \/ ForceUnlock(w) \/ Body(w)
    PROVE  IInv'
<1> USE DEF IInv
<1>1. /\ owner' = owner /\ late' = late
      /\ reply' = reply /\ locked' = locked
      /\ \A v \in Ctx \ {w} : pc'[v] = pc[v]
  BY DEF TypeOK, Enter, ForceUnlock, Body, BeginWrite, BodyRaises,
         BodyCompletes, serverVars
<1>2. /\ pc[w] \in {"idle", "body"}
      /\ pc'[w] \in Ended => pc[w] = "body"
      /\ pc'[w] \in {"lockinfo", "body", "force"} => pc[w] = "idle"
      /\ pc'[w] \notin {"idle", "lock", "probe"}
      /\ pc'[w] \in {"write", "commit", "unlock"} => pc[w] = "body"
      /\ pc'[w] = "force" => w \in Forcing
  BY DEF TypeOK, Enter, ForceUnlock, Body, BeginWrite, BodyRaises,
         BodyCompletes, AfterException, Ended
<1>3. TakeTurns'
  <2>1. CASE pc[w] = "body"
    <3>1. \A v \in Ctx : Active(v)' => Active(v)
      BY <1>1, <2>1 DEF Active, Ended
    <3>2. QED
      BY <3>1 DEF TakeTurns, SameSession, Disciplined
  <2>2. CASE pc[w] = "idle"
    <3>1. Overlap \/ \A v \in Ctx : SameSession(v, w) => ~Active(v)
      BY <2>2 DEF Enter, ForceUnlock, Body, BeginWrite, BodyRaises, BodyCompletes
    <3>2. \A v \in Ctx \ {w} : Active(v)' => Active(v)
      BY <1>1 DEF Active
    <3>3. QED
      BY <3>1, <3>2 DEF TakeTurns, SameSession, Disciplined
  <2>3. QED
    BY <1>2, <2>1, <2>2
<1>4. LateIsPast'
  <2>1. \A v \in Ctx : pc[v] \in Ended => pc'[v] \in Ended
    BY <1>1, <1>2 DEF Ended
  <2>2. QED
    BY <1>1, <2>1 DEF LateIsPast, TypeOK, Requests
<1>5. LockedLate'
  BY <1>1, <1>2 DEF LockedLate
<1>6. Disciplined => GrantIsCurrent'
  BY <1>1, <1>2 DEF GrantIsCurrent
<1>7. Disciplined => LockedImpliesOwner'
  BY <1>1, <1>2 DEF LockedImpliesOwner, Holding, LockedLate
<1>8. QED
  BY <1>3, <1>4, <1>5, <1>6, <1>7 DEF Disciplined, SameSession

\* FMG executes an attempt of a pending call.
LEMMA ServeIInv ==
    ASSUME IInv, TypeOK', NEW w \in Ctx, Serve(w)
    PROVE  IInv'
<1> USE DEF IInv
<1>1. PICK a \in ServerAnswers :
        Execute(Request(w), a) /\ reply' = [reply EXCEPT ![w] = a]
  BY DEF Serve
<1>2. /\ pc[w] \in Calls
      /\ pc' = pc /\ locked' = locked /\ late' = late
  BY DEF Serve
<1>3. Request(w).ctx = w /\ Request(w).op = pc[w]
  BY DEF Request
<1>4. Disciplined => /\ \A v \in Ctx : pc[v] = "lock" /\ reply[v] = "ok" => owner' = SessionOf[v]
                     /\ \A v \in Ctx : Holding(v) => owner' = SessionOf[v]
  BY <1>1, <1>2, <1>3, ExecuteKeeps
<1>5. TakeTurns' /\ LateIsPast' /\ LockedLate'
  BY <1>2 DEF TakeTurns, Active, LateIsPast, LockedLate, SameSession, Disciplined
<1>6. Disciplined => LockedImpliesOwner'
  BY <1>2, <1>4 DEF LockedImpliesOwner, Holding
<1>7. Disciplined => GrantIsCurrent'
  <2> SUFFICES ASSUME Disciplined, NEW v \in Ctx, pc[v] = "lock", reply'[v] = "ok"
               PROVE  owner' = SessionOf[v]
    BY <1>2 DEF GrantIsCurrent
  <2>1. CASE v = w
    <3>1. a = "ok"
      BY <1>1, <2>1 DEF TypeOK
    <3>2. QED
      BY <1>1, <1>3, <2>1, <3>1, ExecuteGrant
  <2>2. CASE v # w
    BY <1>1, <1>4, <2>2 DEF TypeOK
  <2>3. QED
    BY <2>1, <2>2
<1>8. QED
  BY <1>5, <1>6, <1>7 DEF Disciplined, SameSession

\* FMG executes a request whose client has given up on it.
LEMMA ServeLateIInv ==
    ASSUME IInv, TypeOK', NEW r \in late, ServeLate(r)
    PROVE  IInv'
<1> USE DEF IInv
<1>1. PICK a \in ServerAnswers : Execute(r, a)
  BY DEF ServeLate
<1>2. /\ pc' = pc /\ locked' = locked /\ reply' = reply
      /\ late' \subseteq late
  BY DEF ServeLate
<1>3. r.ctx \in Ctx
  BY DEF TypeOK, Requests
<1>4. Disciplined => /\ \A v \in Ctx : pc[v] = "lock" /\ reply[v] = "ok" => owner' = SessionOf[v]
                     /\ \A v \in Ctx : Holding(v) => owner' = SessionOf[v]
  BY <1>1, <1>3, ExecuteKeeps
<1>5. TakeTurns' /\ LateIsPast' /\ LockedLate'
  BY <1>2 DEF TakeTurns, Active, LateIsPast, LockedLate, SameSession, Disciplined
<1>6. Disciplined => LockedImpliesOwner' /\ GrantIsCurrent'
  BY <1>2, <1>4 DEF LockedImpliesOwner, GrantIsCurrent, Holding
<1>7. QED
  BY <1>5, <1>6 DEF Disciplined, SameSession

\* The inductive invariant behind the lock theorems.
THEOREM Inductive == Spec => []IInv
<1>1. IInv /\ TypeOK' /\ [Next]_vars => IInv'
  <2> SUFFICES ASSUME IInv, TypeOK', [Next]_vars
               PROVE  IInv'
    OBVIOUS
  <2>1. CASE UNCHANGED vars
    BY <2>1 DEF vars, IInv, TypeOK, TakeTurns, Active, LateIsPast, LockedLate,
           GrantIsCurrent, LockedImpliesOwner, Holding, SameSession, Disciplined
  <2>2. CASE Next
    BY <2>2, BeginsIInv, EndsIInv, ServeIInv, ServeLateIInv DEF Next
  <2>3. QED
    BY <2>1, <2>2
<1>2. QED
  BY <1>1, InitIInv, TypeCorrect, PTL DEF Spec

\* While its contexts are used as intended, a worker never runs its writes or its
\* commit under a lock it has lost: lock() sets _locked only for a lock that FMG
\* gave to this session, and nothing takes it away before unlock().
THEOREM LockHeld == Disciplined => (Spec => []LockedImpliesOwner)
<1>1. Disciplined /\ IInv => LockedImpliesOwner
  BY DEF IInv
<1>2. SUFFICES ASSUME Disciplined
               PROVE  Spec => []LockedImpliesOwner
  OBVIOUS
<1>3. IInv => LockedImpliesOwner
  BY <1>1, <1>2
<1>4. QED
  BY <1>3, Inductive, PTL

\* And no two workers do so at the same time.
THEOREM Exclusive == Disciplined => (Spec => []MutualExclusion)
<1> SUFFICES ASSUME Disciplined
             PROVE  Spec => []MutualExclusion
  OBVIOUS
<1>1. IInv => MutualExclusion
  <2> SUFFICES ASSUME IInv, NEW v \in Ctx, NEW w \in Ctx, Holding(v), Holding(w)
               PROVE  v = w
    BY DEF MutualExclusion
  <2>1. SameSession(v, w)
    BY DEF IInv, LockedImpliesOwner, SameSession
  <2>2. Active(v) /\ Active(w)
    BY DEF Holding, Active, Ended
  <2>3. QED
    BY <2>1, <2>2 DEF IInv, TakeTurns
<1>2. QED
  BY <1>1, Inductive, PTL
=============================================================================
