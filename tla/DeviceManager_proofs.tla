------------------------- MODULE DeviceManager_proofs -------------------------
(* Theorems about DeviceManager, for any workers and operations.           *)
EXTENDS DeviceManager, TLAPS

\* What one execution at FMG leaves true: nothing that was ensured is undone unless
\* a device has been deleted.
LEMMA ExecuteKeeps ==
  ASSUME TypeOK, NEW w \in Workers, NEW call, NEW a, Execute(w, call, a),
         device = "deleting" => deleted
  PROVE  /\ device' \in {"absent", "creating", "present", "deleting"}
         /\ group' \in BOOLEAN /\ member' \in BOOLEAN /\ deleted' \in BOOLEAN
         /\ makers' \subseteq Workers /\ makers \subseteq makers'
         /\ group => group'
         /\ deleted => deleted'
         /\ ~deleted' /\ member => member'
         /\ ~deleted' /\ device = "present" => device' = "present"
         /\ device' = "deleting" => deleted'
  BY DEF Execute, GetDevice, AddDevice, DeleteDevice, GetGroup, AddGroup,
         AddMember, ListMembers, fmgVars, TypeOK

\* What an answer says when it is given.
LEMMA AnswerIsTrue ==
  ASSUME TypeOK, NEW w \in Workers, NEW call, NEW a, Execute(w, call, a),
         device = "deleting" => deleted
  PROVE  /\ call \in {"lookup", "poll"} /\ a = "ok" /\ ~deleted' => device' = "present"
         /\ call = "create" /\ a = "ok" => w \in makers'
         /\ call \in {"getGroup", "addGroup"} /\ a = "ok" => group'
         /\ call = "addMember" /\ a \in {"ok", "duplicate"} => member'
         /\ call = "list" /\ a = "ok" => member'
  BY DEF Execute, GetDevice, AddDevice, DeleteDevice, GetGroup, AddGroup,
         AddMember, ListMembers, fmgVars, Visible, TypeOK

\* Facts about FMG carry over to a step in which one worker at most changes, and does
\* not end.
LEMMA OthersKeep ==
  ASSUME IInv,
         group => group', deleted => deleted',
         ~deleted' /\ member => member',
         ~deleted' /\ device = "present" => device' = "present",
         makers \subseteq makers',
         UNCHANGED <<op, pc, reply, result>>
  PROVE  /\ \A v \in Workers : AnswerIsCurrent(v)'
         /\ (EnsuredIsThere /\ CreatedByItself /\ AssignedIsMember /\ ListedIsMember)'
<1>1. \A v \in Workers : AnswerIsCurrent(v)'
  BY DEF IInv, AnswerIsCurrent, Active
<1>2. (EnsuredIsThere /\ CreatedByItself)'
  BY DEF IInv, EnsuredIsThere, CreatedByItself
<1>3. (AssignedIsMember /\ ListedIsMember)'
  BY DEF IInv, AssignedIsMember, ListedIsMember
<1>4. QED
  BY <1>1, <1>2, <1>3

\* A step at FMG that answers nobody.
LEMMA BackgroundIInv ==
  ASSUME IInv,
         \/ Materialise \/ Vanish \/ \E w \in Workers : Abandon(w)
         \/ \E w \in Workers, call \in Writes : ServeLate(w, call)
  PROVE  IInv'
<1> DEFINE Kept == /\ TypeOK' /\ (device = "deleting" => deleted)'
                   /\ group => group'
                   /\ deleted => deleted'
                   /\ ~deleted' /\ member => member'
                   /\ ~deleted' /\ device = "present" => device' = "present"
                   /\ makers \subseteq makers'
                   /\ UNCHANGED <<op, pc, reply, result>>
<1>1. Kept
  <2>1. CASE Materialise \/ Vanish
    BY <2>1 DEF Materialise, Vanish, IInv, TypeOK
  <2>2. ASSUME NEW w \in Workers, Abandon(w)
        PROVE  Kept
    <3>1. late' \subseteq Workers \X Writes /\ flawed' \in [Workers -> BOOLEAN]
      BY <2>2 DEF Abandon, IInv, TypeOK
    <3>2. QED
      BY <2>2, <3>1 DEF Abandon, fmgVars, IInv, TypeOK
  <2>3. ASSUME NEW w \in Workers, NEW call \in Writes, ServeLate(w, call)
        PROVE  Kept
    <3>1. PICK a \in ServerAnswers : Execute(w, call, a)
      BY <2>3 DEF ServeLate
    <3>2. QED
      BY <2>3, <3>1, ExecuteKeeps DEF ServeLate, IInv, TypeOK
  <2>4. QED
    BY <2>1, <2>2, <2>3
<1>2. QED
  BY <1>1, OthersKeep DEF IInv

\* A pending call is answered.
LEMMA ServeIInv ==
  ASSUME IInv, NEW w \in Workers, Serve(w)
  PROVE  IInv'
<1>1. PICK a \in ServerAnswers :
          Execute(w, pc[w], a) /\ reply' = [reply EXCEPT ![w] = a]
  BY DEF Serve
<1> DEFINE call == pc[w]
<1>2. TypeOK /\ (device = "deleting" => deleted)
  BY DEF IInv
<1>3. /\ device' \in {"absent", "creating", "present", "deleting"}
      /\ group' \in BOOLEAN /\ member' \in BOOLEAN /\ deleted' \in BOOLEAN
      /\ makers' \subseteq Workers /\ makers \subseteq makers'
      /\ group => group'
      /\ deleted => deleted'
      /\ ~deleted' /\ member => member'
      /\ ~deleted' /\ device = "present" => device' = "present"
      /\ device' = "deleting" => deleted'
  BY <1>1, <1>2, ExecuteKeeps
<1>4. /\ call \in {"lookup", "poll"} /\ a = "ok" /\ ~deleted' => device' = "present"
      /\ call = "create" /\ a = "ok" => w \in makers'
      /\ call \in {"getGroup", "addGroup"} /\ a = "ok" => group'
      /\ call = "addMember" /\ a \in {"ok", "duplicate"} => member'
      /\ call = "list" /\ a = "ok" => member'
  BY <1>1, <1>2, AnswerIsTrue
<1>5. TypeOK'
  BY <1>1, <1>2, <1>3 DEF TypeOK, Serve
<1>6. \A v \in Workers : AnswerIsCurrent(v)'
  <2> SUFFICES ASSUME NEW v \in Workers
               PROVE  AnswerIsCurrent(v)'
    OBVIOUS
  <2>1. AnswerIsCurrent(v) /\ UNCHANGED <<op, pc>>
    BY DEF IInv, Serve
  <2>2. CASE v = w
    <3>1. reply'[v] = a
      BY <1>1, <1>2, <2>2 DEF TypeOK
    <3>2. Active(v)
      BY <2>2 DEF Serve
    <3>3. QED
      BY <1>3, <1>4, <2>1, <2>2, <3>1, <3>2 DEF AnswerIsCurrent, Active
  <2>3. CASE v # w
    <3>1. reply'[v] = reply[v]
      BY <1>1, <1>2, <2>3 DEF TypeOK
    <3>2. QED
      BY <1>3, <2>1, <3>1 DEF AnswerIsCurrent, Active
  <2>4. QED
    BY <2>2, <2>3
<1>7. (EnsuredIsThere /\ CreatedByItself)'
  BY <1>3 DEF IInv, Serve, EnsuredIsThere, CreatedByItself
<1>8. (AssignedIsMember /\ ListedIsMember)'
  BY <1>3 DEF IInv, Serve, AssignedIsMember, ListedIsMember
<1>9. QED
  BY <1>3, <1>5, <1>6, <1>7, <1>8 DEF IInv

\* An operation goes on with its next call.
LEMMA ProceedIInv ==
  ASSUME IInv, NEW w \in Workers, NEW call \in Calls, Proceed(w, call),
         call \in CallsOf(op[w]),
         call = "poll" => w \in makers,
         call = "addMember" => group
  PROVE  IInv'
<1>1. TypeOK'
  BY DEF IInv, TypeOK, Proceed, fmgVars, Labels
<1>2. \A v \in Workers : AnswerIsCurrent(v)'
  BY DEF IInv, TypeOK, Proceed, fmgVars, AnswerIsCurrent, Active
<1>3. (EnsuredIsThere /\ CreatedByItself)'
  BY DEF IInv, TypeOK, Proceed, fmgVars, EnsuredIsThere, CreatedByItself
<1>4. (AssignedIsMember /\ ListedIsMember)'
  BY DEF IInv, TypeOK, Proceed, fmgVars, AssignedIsMember, ListedIsMember, Calls
<1>5. QED
  BY <1>1, <1>2, <1>3, <1>4 DEF IInv, Proceed, fmgVars

\* An operation ends, and what its result says is true.
LEMMA EndIInv ==
  ASSUME IInv, NEW w \in Workers, NEW label \in Ended, NEW r \in Results,
         Finish(w, label, r),
         flawed' \in [Workers -> BOOLEAN], late' \subseteq Workers \X Writes,
         UNCHANGED <<fmgVars, op, polls, contended>>,
         r \in {"created", "reused"} /\ ~deleted => device = "present",
         r = "created" => w \in makers,
         r = "member" /\ ~deleted => member,
         label = "returned" /\ op[w] \in {"ensureGroup", "assign"} => group,
         label = "returned" /\ op[w] = "assign" /\ ~deleted => member
  PROVE  IInv'
<1>1. TypeOK'
  BY DEF IInv, TypeOK, Finish, fmgVars, Labels
<1>2. \A v \in Workers : AnswerIsCurrent(v)'
  BY DEF IInv, TypeOK, Finish, fmgVars, AnswerIsCurrent, Active, Ended, Calls
<1>3. (EnsuredIsThere /\ CreatedByItself)'
  BY DEF IInv, TypeOK, Finish, fmgVars, EnsuredIsThere, CreatedByItself
<1>4. (AssignedIsMember /\ ListedIsMember)'
  BY DEF IInv, TypeOK, Finish, fmgVars, AssignedIsMember, ListedIsMember
<1>5. QED
  BY <1>1, <1>2, <1>3, <1>4 DEF IInv, fmgVars

\* An operation begins.
LEMMA StartIInv ==
  ASSUME IInv, NEW w \in Workers, Start(w)
  PROVE  IInv'
<1> USE DeviceAssumption
<1>1. PICK o \in Ops[w] : op' = [op EXCEPT ![w] = o]
                          /\ pc' = [pc EXCEPT ![w] = FirstCall(o)]
  BY DEF Start
<1>2. o \in OpNames
  OBVIOUS
<1>3. FirstCall(o) \in Calls /\ FirstCall(o) \in CallsOf(o)
      /\ FirstCall(o) \notin {"poll", "addMember"}
  BY <1>2 DEF OpNames, FirstCall, Calls, CallsOf
<1>4. UNCHANGED <<fmgVars, reply, polls, result, flawed, late>>
      /\ contended' \in [Workers -> BOOLEAN]
  BY DEF Start, IInv, TypeOK
<1>5. TypeOK'
  BY <1>1, <1>2, <1>3, <1>4 DEF IInv, TypeOK, fmgVars, Labels
<1>6. \A v \in Workers : AnswerIsCurrent(v)'
  <2>1. ASSUME NEW v \in Workers, v # w
        PROVE  AnswerIsCurrent(v)'
    <3>1. UNCHANGED <<op[v], pc[v], reply[v]>> /\ UNCHANGED fmgVars
      BY <1>1, <1>4, <2>1 DEF IInv, TypeOK
    <3>2. QED
      BY <3>1 DEF IInv, AnswerIsCurrent, Active, fmgVars
  <2>2. AnswerIsCurrent(w)'
    <3>1. pc'[w] = FirstCall(o) /\ op'[w] = o /\ reply'[w] = "none"
      BY <1>1, <1>4 DEF Start, IInv, TypeOK, AnswerIsCurrent, Active, Calls
    <3>2. QED
      BY <1>3, <3>1 DEF AnswerIsCurrent, Active
  <2>3. QED
    BY <2>1, <2>2
<1>7. (EnsuredIsThere /\ CreatedByItself)'
  BY <1>4 DEF IInv, fmgVars, EnsuredIsThere, CreatedByItself
<1>8. (AssignedIsMember /\ ListedIsMember)'
  BY <1>1, <1>3, <1>4 DEF IInv, TypeOK, fmgVars, AssignedIsMember, ListedIsMember, Calls
<1>9. QED
  BY <1>4, <1>5, <1>6, <1>7, <1>8 DEF IInv, fmgVars

\* An awaited call delivers its answer.
LEMMA ReturnsIInv ==
  ASSUME IInv, NEW w \in Workers, Returns(w)
  PROVE  IInv'
<1> USE DEF Awaits
<1>1. AnswerIsCurrent(w) /\ Active(w) /\ TypeOK
  BY DEF Returns, LookupReturns, CreateReturns, PollReturns, GetGroupReturns,
         AddGroupReturns, AddMemberReturns, DeleteReturns, VerifyReturns,
         ListReturns, IInv, Active, Calls
<1>2. op[w] \in OpNames \cup {"none"} /\ pc[w] \in CallsOf(op[w])
  BY <1>1 DEF AnswerIsCurrent, TypeOK
<1>3. ErrorOf(reply[w]) \in Errors \cap Results
  BY DEF ErrorOf, Errors, Results
<1>4. ASSUME NEW e \in Errors, Raise(w, e)
      PROVE  IInv'
  <2>1. /\ e \in Results /\ e \notin {"created", "reused", "member"}
        /\ flawed' \in [Workers -> BOOLEAN] /\ late' \subseteq Workers \X Writes
    BY <1>1, <1>4 DEF Errors, Results, Raise, TypeOK
  <2>2. QED
    BY <1>4, <2>1, EndIInv DEF Raise, Ended
<1>5. ASSUME NEW r \in Results, Return(w, r),
             r \in {"created", "reused"} /\ ~deleted => device = "present",
             r = "created" => w \in makers,
             r = "member" /\ ~deleted => member,
             op[w] \in {"ensureGroup", "assign"} => group,
             op[w] = "assign" /\ ~deleted => member
      PROVE  IInv'
  <2>1. flawed' \in [Workers -> BOOLEAN] /\ late' \subseteq Workers \X Writes
    BY <1>1, <1>5 DEF Return, TypeOK
  <2>2. QED
    BY <1>5, <2>1, EndIInv DEF Return, Ended
<1>6. ASSUME pc[w] \in {"lookup", "create", "poll"}
      PROVE  op[w] \in {"createDevice", "ensureDevice"}
             /\ (pc[w] = "lookup" => op[w] = "ensureDevice")
  BY <1>2, <1>6 DEF OpNames, CallsOf
<1>7. ASSUME pc[w] \in {"delete", "verify", "list"}
      PROVE  op[w] \notin {"ensureGroup", "assign"}
  BY <1>2, <1>7 DEF OpNames, CallsOf
<1>8. CASE LookupReturns(w)
  <2>1. CASE reply[w] = "ok" /\ Return(w, "reused")
    BY <1>1, <1>5, <1>6, <1>8, <2>1 DEF LookupReturns, AnswerIsCurrent, Results
  <2>2. CASE Proceed(w, "create")
    <3>1. "create" \in CallsOf(op[w])
      BY <1>6, <1>8 DEF LookupReturns, CallsOf
    <3>2. QED
      BY <2>2, <3>1, ProceedIInv DEF Calls
  <2>3. QED
    BY <1>8, <2>1, <2>2 DEF LookupReturns
<1>9. CASE CreateReturns(w)
  <2>1. CASE reply[w] = "ok" /\ Proceed(w, "poll")
    <3>1. "poll" \in CallsOf(op[w]) /\ w \in makers
      BY <1>1, <1>6, <1>9, <2>1 DEF CreateReturns, CallsOf, AnswerIsCurrent
    <3>2. QED
      BY <2>1, <3>1, ProceedIInv DEF Calls
  <2>2. CASE Propagate(w)
    BY <1>3, <1>4, <2>2 DEF Propagate
  <2>3. QED
    BY <1>9, <2>1, <2>2 DEF CreateReturns
<1>10. CASE PollReturns(w)
  <2>1. CASE reply[w] = "ok" /\ Return(w, "created")
    BY <1>1, <1>5, <1>6, <1>10, <2>1 DEF PollReturns, AnswerIsCurrent, Results
  <2>2. CASE Raise(w, "TimeoutError")
    BY <1>4, <2>2 DEF Errors
  <2>3. CASE /\ polls[w] < MaxPolls
             /\ polls' = [polls EXCEPT ![w] = @ + 1]
             /\ reply' = [reply EXCEPT ![w] = "none"]
             /\ UNCHANGED <<fmgVars, op, pc, result, flawed, contended, late>>
    <3>1. polls' \in [Workers -> 0 .. MaxPolls]
      BY <1>1, <2>3, DeviceAssumption DEF TypeOK
    <3>2. TypeOK'
      BY <1>1, <2>3, <3>1 DEF TypeOK, fmgVars
    <3>3. \A v \in Workers : AnswerIsCurrent(v)'
      BY <1>1, <2>3 DEF IInv, TypeOK, AnswerIsCurrent, Active, fmgVars
    <3>4. (EnsuredIsThere /\ CreatedByItself /\ AssignedIsMember /\ ListedIsMember)'
      BY <2>3 DEF IInv, EnsuredIsThere, CreatedByItself, AssignedIsMember,
             ListedIsMember, fmgVars
    <3>5. QED
      BY <2>3, <3>2, <3>3, <3>4 DEF IInv, fmgVars
  <2>4. QED
    BY <1>10, <2>1, <2>2, <2>3 DEF PollReturns
<1>11. ASSUME pc[w] \in {"getGroup", "addGroup"}, reply[w] = "ok", GroupEnsured(w)
       PROVE  IInv'
  <2>1. group /\ op[w] \in {"ensureGroup", "assign"}
    BY <1>1, <1>2, <1>11 DEF AnswerIsCurrent, OpNames, CallsOf
  <2>2. CASE op[w] = "assign"
    <3>1. "addMember" \in CallsOf(op[w])
      BY <2>2 DEF CallsOf
    <3>2. QED
      BY <1>11, <2>1, <2>2, <3>1, ProceedIInv DEF GroupEnsured, Calls
  <2>3. CASE op[w] # "assign"
    BY <1>5, <1>11, <2>1, <2>3 DEF GroupEnsured, Results
  <2>4. QED
    BY <2>2, <2>3
<1>12. CASE GetGroupReturns(w)
  <2>1. CASE Proceed(w, "addGroup")
    <3>1. "addGroup" \in CallsOf(op[w])
      BY <1>2, <1>12 DEF GetGroupReturns, OpNames, CallsOf
    <3>2. QED
      BY <2>1, <3>1, ProceedIInv DEF Calls
  <2>2. QED
    BY <1>11, <1>12, <2>1 DEF GetGroupReturns
<1>13. CASE AddGroupReturns(w)
  BY <1>3, <1>4, <1>11, <1>13 DEF AddGroupReturns, Propagate
<1>14. CASE AddMemberReturns(w)
  <2>1. CASE reply[w] \in {"ok", "duplicate"} /\ Return(w, "done")
    BY <1>1, <1>5, <1>14, <2>1 DEF AddMemberReturns, AnswerIsCurrent, Results
  <2>2. CASE Propagate(w)
    BY <1>3, <1>4, <2>2 DEF Propagate
  <2>3. QED
    BY <1>14, <2>1, <2>2 DEF AddMemberReturns
<1>15. CASE DeleteReturns(w)
  BY <1>5, <1>7, <1>15 DEF DeleteReturns, Results
<1>16. CASE VerifyReturns(w)
  BY <1>3, <1>4, <1>5, <1>7, <1>16 DEF VerifyReturns, Propagate, Results
<1>17. CASE ListReturns(w)
  BY <1>1, <1>5, <1>7, <1>17 DEF ListReturns, AnswerIsCurrent, Results
<1>18. QED
  BY <1>8, <1>9, <1>10, <1>12, <1>13, <1>14, <1>15, <1>16, <1>17 DEF Returns

\* The worker gives up: whatever it was doing, it has returned nothing.
LEMMA GiveUpIInv ==
  ASSUME IInv, NEW w \in Workers, GiveUp(w)
  PROVE  IInv'
<1>1. PICK e \in {"FMGError", "Cancelled"} : Finish(w, "raised", e)
  BY DEF GiveUp
<1>2. /\ flawed' \in [Workers -> BOOLEAN] /\ late' \subseteq Workers \X Writes
      /\ UNCHANGED <<fmgVars, op, polls, contended>>
  BY DEF GiveUp, IInv, TypeOK
<1>3. QED
  BY <1>1, <1>2, EndIInv DEF Results, Errors, Ended

-----------------------------------------------------------------------------
\* Every step of every worker and of FMG keeps the invariant.
THEOREM Inductive == Spec => []IInv
<1>1. ASSUME Init
      PROVE  IInv
  <2>1. TypeOK
    <3>1. group \in BOOLEAN /\ member \in BOOLEAN /\ deleted \in BOOLEAN
      BY <1>1 DEF Init
    <3>2. flawed \in [Workers -> BOOLEAN] /\ contended \in [Workers -> BOOLEAN]
      BY <1>1 DEF Init
    <3>3. polls \in [Workers -> 0 .. MaxPolls]
      BY <1>1, DeviceAssumption DEF Init
    <3>4. QED
      BY <1>1, <3>1, <3>2, <3>3 DEF Init, TypeOK, Labels, Results
  <2>2. /\ device = "absent"
        /\ \A w \in Workers : pc[w] = "idle" /\ reply[w] = "none" /\ result[w] = "none"
    BY <1>1 DEF Init
  <2>3. \A w \in Workers : AnswerIsCurrent(w)
    BY <2>2 DEF AnswerIsCurrent, Active, Calls
  <2>4. EnsuredIsThere /\ CreatedByItself /\ AssignedIsMember /\ ListedIsMember
    BY <2>2 DEF EnsuredIsThere, CreatedByItself, AssignedIsMember, ListedIsMember
  <2>5. QED
    BY <2>1, <2>2, <2>3, <2>4 DEF IInv
<1>2. IInv /\ [Next]_vars => IInv'
  <2> SUFFICES ASSUME IInv, [Next]_vars
               PROVE  IInv'
    OBVIOUS
  <2>1. CASE Next
    BY <2>1, BackgroundIInv, StartIInv, ServeIInv, ReturnsIInv, GiveUpIInv DEF Next
  <2>2. CASE UNCHANGED vars
    <3>1. TypeOK' /\ (device = "deleting" => deleted)'
      BY <2>2 DEF vars, IInv, TypeOK
    <3>2. QED
      BY <2>2, <3>1, OthersKeep DEF vars, IInv
  <2>3. QED
    BY <2>1, <2>2
<1>3. QED
  BY <1>1, <1>2, PTL DEF Spec

\* ensure_model_device and create_model_device return only a device that is there,
\* under any interleaving of workers, retries and late requests.
THEOREM DeviceEnsured == Spec => []EnsuredIsThere
<1>1. IInv => EnsuredIsThere
  BY DEF IInv
<1>2. QED
  BY <1>1, Inductive, PTL

\* The created flag of ensure_model_device is never set for another's device.
THEOREM CreationIsOwn == Spec => []CreatedByItself
<1>1. IInv => CreatedByItself
  BY DEF IInv
<1>2. QED
  BY <1>1, Inductive, PTL

\* ensure_device_group and assign_to_group leave what they promise.
THEOREM MembershipEnsured == Spec => []AssignedIsMember
<1>1. IInv => AssignedIsMember
  BY DEF IInv
<1>2. QED
  BY <1>1, Inductive, PTL

\* list_group_members names members only.
THEOREM ListTruthful == Spec => []ListedIsMember
<1>1. IInv => ListedIsMember
  BY DEF IInv
<1>2. QED
  BY <1>1, Inductive, PTL

-----------------------------------------------------------------------------
(* Errors *)

\* Nobody interferes with w, and its calls are answered at their first attempt.
Undisturbed(w) == ~flawed[w] /\ ~contended[w]

\* What the answer to an undisturbed call can be.
Expected(w) ==
    /\ pc[w] \in {"lookup", "poll", "verify", "getGroup"} =>
          reply[w] \in {"none", "ok", "notFound"}
    /\ pc[w] = "create" => reply[w] \in {"none", "ok", "refused"}
    /\ pc[w] = "getGroup" /\ reply[w] = "notFound" => ~group
    /\ pc[w] = "addGroup" => reply[w] \in {"none", "ok"} /\ (reply[w] = "none" => ~group)
    /\ pc[w] = "addMember" => reply[w] \in {"none", "ok", "duplicate", "notFound"}

\* An uncontended worker is the only one; undisturbed, nothing of its own is under way
\* behind its back either.
ReasonInv ==
    /\ \A v, w \in Workers : Active(v) /\ Active(w) /\ ~contended[w] => v = w
    /\ \A w \in Workers : Active(w) /\ Undisturbed(w) => late = {} /\ Expected(w)
    /\ ErrorsExplained

\* A step in which no worker's place, answer or result changes.
LEMMA ReasonKept ==
  ASSUME TypeOK, ReasonInv, UNCHANGED <<op, pc, reply, result>>,
         \A w \in Workers : Active(w) /\ Undisturbed(w)' => late' = {} /\ group' = group,
         \A w \in Workers : (flawed[w] => flawed'[w]) /\ (contended[w] => contended'[w])
  PROVE  ReasonInv'
<1>1. \A v, w \in Workers : Active(v)' /\ Active(w)' /\ ~contended'[w] => v = w
  BY DEF ReasonInv, Active
<1>2. \A w \in Workers : Active(w)' /\ Undisturbed(w)' => late' = {} /\ Expected(w)'
  BY DEF ReasonInv, Active, Undisturbed, Expected
<1>3. ErrorsExplained'
  BY DEF ReasonInv, ErrorsExplained
<1>4. QED
  BY <1>1, <1>2, <1>3 DEF ReasonInv

LEMMA ReasonBackground ==
  ASSUME TypeOK, ReasonInv,
         \/ Materialise \/ Vanish \/ UNCHANGED vars \/ \E w \in Workers : Abandon(w)
         \/ \E w \in Workers, call \in Writes : ServeLate(w, call)
  PROVE  ReasonInv'
<1>1. CASE Materialise \/ Vanish \/ UNCHANGED vars
  <2>1. UNCHANGED <<group, op, pc, reply, result, flawed, contended, late>>
    BY <1>1 DEF Materialise, Vanish, vars
  <2>2. QED
    BY <2>1, ReasonKept DEF ReasonInv, Undisturbed
<1>2. ASSUME NEW w \in Workers, Abandon(w) PROVE ReasonInv'
  <2>1. /\ UNCHANGED <<group, op, pc, reply, result, contended>>
        /\ Active(w) /\ flawed'[w]
        /\ \A v \in Workers : v # w => flawed'[v] = flawed[v]
    BY <1>2 DEF Abandon, fmgVars, TypeOK, Active, Writes, Calls
  <2>2. \A v \in Workers : ~(Active(v) /\ Undisturbed(v)')
    BY <2>1 DEF ReasonInv, Undisturbed
  <2>3. QED
    BY <2>1, <2>2, ReasonKept
<1>3. ASSUME NEW w \in Workers, NEW call \in Writes, ServeLate(w, call) PROVE ReasonInv'
  <2>1. /\ UNCHANGED <<op, pc, reply, result, flawed>>
        /\ \A v \in Workers : contended'[v] = (contended[v] \/ Active(v))
    BY <1>3 DEF ServeLate
  <2>2. \A v \in Workers : ~(Active(v) /\ Undisturbed(v)')
    BY <2>1 DEF Undisturbed
  <2>3. QED
    BY <2>1, <2>2, ReasonKept
<1>4. QED
  BY <1>1, <1>2, <1>3

LEMMA ReasonServe ==
  ASSUME TypeOK, ReasonInv, NEW w \in Workers, Serve(w)
  PROVE  ReasonInv'
<1>1. PICK a \in ServerAnswers :
          Execute(w, pc[w], a) /\ reply' = [reply EXCEPT ![w] = a]
  BY DEF Serve
<1>2. /\ Active(w) /\ reply'[w] = a
      /\ flawed'[w] = (flawed[w] \/ reply[w] # "none")
      /\ \A v \in Workers : v # w => flawed'[v] = flawed[v] /\ reply'[v] = reply[v]
      /\ UNCHANGED <<op, pc, polls, result, contended, late>>
  BY <1>1 DEF Serve, TypeOK
<1>3. \A v, u \in Workers : Active(v)' /\ Active(u)' /\ ~contended'[u] => v = u
  BY <1>2 DEF ReasonInv, Active
<1>4. ASSUME NEW v \in Workers, Active(v)', Undisturbed(v)'
      PROVE  late' = {} /\ Expected(v)'
  <2>1. v = w
    BY <1>2, <1>4 DEF ReasonInv, Active, Undisturbed
  <2>2. reply[w] = "none" /\ Undisturbed(w)
    BY <1>2, <1>4, <2>1 DEF Undisturbed
  <2>3. late' = {} /\ Expected(w)
    BY <1>2, <2>2 DEF ReasonInv
  <2>4. Expected(w)'
    BY <1>1, <1>2, <2>2, <2>3 DEF Expected, Execute, GetDevice, AddDevice, GetGroup, AddGroup,
       AddMember, DeleteDevice, ListMembers, fmgVars
  <2>5. QED
    BY <2>1, <2>3, <2>4
<1>5. ErrorsExplained'
  BY <1>2 DEF ReasonInv, ErrorsExplained
<1>6. QED
  BY <1>3, <1>4, <1>5 DEF ReasonInv

LEMMA ReasonStart ==
  ASSUME IInv, ReasonInv, NEW w \in Workers, Start(w)
  PROVE  ReasonInv'
<1> USE DeviceAssumption DEF IInv
<1>1. PICK o \in Ops[w] : op' = [op EXCEPT ![w] = o]
                          /\ pc' = [pc EXCEPT ![w] = FirstCall(o)]
  BY DEF Start
<1>2. /\ pc[w] = "idle" /\ UNCHANGED <<fmgVars, reply, polls, result, flawed, late>>
      /\ contended'[w] = (contended[w] \/ late # {} \/ \E u \in Workers : Active(u))
      /\ \A v \in Workers : v # w => contended'[v] = (contended[v] \/ Active(v))
  BY DEF Start
<1>3. /\ pc'[w] = FirstCall(o) /\ op'[w] = o
      /\ \A v \in Workers : v # w => pc'[v] = pc[v] /\ op'[v] = op[v]
  BY <1>1 DEF TypeOK
<1>4. reply[w] = "none" /\ ~Active(w)
  BY <1>2 DEF AnswerIsCurrent, Active, Calls
<1>5. FirstCall(o) \in Calls \ {"addGroup"}
  BY DEF OpNames, FirstCall, Calls
<1>6. ASSUME NEW v \in Workers, Active(v)', ~contended'[v]
      PROVE  v = w /\ late = {} /\ \A u \in Workers : ~Active(u)
  <2>1. v = w
    BY <1>2, <1>3, <1>6 DEF Active
  <2>2. QED
    BY <1>2, <1>6, <2>1
<1>7. \A v, u \in Workers : Active(v)' /\ Active(u)' /\ ~contended'[u] => v = u
  BY <1>3, <1>6 DEF Active
<1>8. \A v \in Workers : Active(v)' /\ Undisturbed(v)' => late' = {} /\ Expected(v)'
  BY <1>2, <1>3, <1>4, <1>5, <1>6 DEF Undisturbed, Expected
<1>9. ErrorsExplained'
  <2>1. pc'[w] # "raised"
    BY <1>3, <1>5 DEF Calls
  <2>2. \A v \in Workers : contended[v] => contended'[v]
    BY <1>2
  <2>3. QED
    BY <1>2, <1>3, <2>1, <2>2 DEF ReasonInv, ErrorsExplained
<1>10. QED
  BY <1>7, <1>8, <1>9 DEF ReasonInv

\* The steps in which w's call ends.
LEMMA ReasonReturns ==
  ASSUME IInv, ReasonInv, NEW w \in Workers, Returns(w) \/ GiveUp(w)
  PROVE  ReasonInv'
<1> USE DEF IInv, Awaits
<1>1. /\ UNCHANGED <<fmgVars, op, contended, late>>
      /\ Active(w) /\ AnswerIsCurrent(w)
      /\ reply'[w] = "none"
      /\ flawed[w] => flawed'[w]
      /\ \A v \in Workers : v # w => /\ pc'[v] = pc[v] /\ reply'[v] = reply[v]
                                     /\ result'[v] = result[v] /\ flawed'[v] = flawed[v]
  BY DEF Returns, LookupReturns, CreateReturns, PollReturns, GetGroupReturns,
     AddGroupReturns, AddMemberReturns, DeleteReturns, VerifyReturns, ListReturns, GiveUp,
     GroupEnsured, Proceed, Return, Propagate, Raise, Finish, Active, Calls, TypeOK
<1>2. op[w] \in OpNames \cup {"none"} /\ pc[w] \in CallsOf(op[w])
  BY <1>1 DEF AnswerIsCurrent, TypeOK
<1>3. \A v, u \in Workers : Active(v)' /\ Active(u)' /\ ~contended'[u] => v = u
  BY <1>1 DEF ReasonInv, Active
<1>4. ASSUME Active(w), Undisturbed(w)' PROVE late = {} /\ Expected(w) /\ Undisturbed(w)
  BY <1>1, <1>4 DEF ReasonInv, Undisturbed
<1>5. ASSUME NEW v \in Workers, Active(v)', Undisturbed(v)'
      PROVE  late' = {} /\ Expected(v)'
  <2>1. v = w
    BY <1>1, <1>5 DEF ReasonInv, Active, Undisturbed
  <2>2. late = {} /\ Expected(w)
    BY <1>1, <1>4, <1>5, <2>1
  <2>3. pc'[w] = "addGroup" => ~group
    BY <1>1, <1>5, <2>1, <2>2 DEF Returns, LookupReturns, CreateReturns, PollReturns,
       GetGroupReturns, AddGroupReturns, AddMemberReturns, DeleteReturns, VerifyReturns,
       ListReturns, GiveUp, GroupEnsured, Proceed, Return, Propagate, Raise, Finish, Expected,
       TypeOK
  <2>4. QED
    BY <1>1, <2>1, <2>2, <2>3 DEF Expected, fmgVars
<1>6. ASSUME pc'[w] = "raised", Undisturbed(w)'
      PROVE  \/ op[w] \in {"createDevice", "ensureDevice"}
                   /\ result'[w] \in {"FMGError", "TimeoutError"}
             \/ op[w] \in {"assign", "authorize"} /\ result'[w] = "NotFoundError"
  <2>1. Expected(w) /\ Undisturbed(w)
    BY <1>1, <1>4, <1>6
  <2>2. ~GiveUp(w)
    BY <1>6 DEF GiveUp, Undisturbed, TypeOK
  <2>3. \A r : Finish(w, "raised", r) => result'[w] = r
    BY DEF Finish, TypeOK
  <2>4. \A r : ~Return(w, r)
    BY <1>6 DEF Return, Finish, TypeOK
  <2>5. \A call \in Calls : ~Proceed(w, call)
    BY <1>6 DEF Proceed, TypeOK, Calls
  <2>6. ~GroupEnsured(w)
    BY <2>4, <2>5 DEF GroupEnsured, Calls
  <2>7. CASE CreateReturns(w)
    <3>1. reply[w] = "refused" /\ Propagate(w)
      BY <2>1, <2>5, <2>7 DEF CreateReturns, Expected, Calls
    <3>2. op[w] \in {"createDevice", "ensureDevice"}
      BY <1>2, <2>7 DEF CreateReturns, OpNames, CallsOf
    <3>3. QED
      BY <2>3, <3>1, <3>2 DEF Propagate, Raise, ErrorOf
  <2>8. CASE PollReturns(w)
    <3>1. Raise(w, "TimeoutError")
      BY <1>1, <1>6, <2>4, <2>8 DEF PollReturns, Active, Calls
    <3>2. op[w] \in {"createDevice", "ensureDevice"}
      BY <1>2, <2>8 DEF PollReturns, OpNames, CallsOf
    <3>3. QED
      BY <2>3, <3>1, <3>2 DEF Raise
  <2>9. CASE AddMemberReturns(w)
    <3>1. reply[w] = "notFound" /\ Propagate(w)
      BY <2>1, <2>4, <2>9 DEF AddMemberReturns, Expected
    <3>2. op[w] = "assign"
      BY <1>2, <2>9 DEF AddMemberReturns, OpNames, CallsOf
    <3>3. QED
      BY <2>3, <3>1, <3>2 DEF Propagate, Raise, ErrorOf
  <2>10. CASE VerifyReturns(w)
    <3>1. reply[w] = "notFound" /\ Propagate(w)
      BY <2>1, <2>4, <2>10 DEF VerifyReturns, Expected
    <3>2. op[w] = "authorize"
      BY <1>2, <2>10 DEF VerifyReturns, OpNames, CallsOf
    <3>3. QED
      BY <2>3, <3>1, <3>2 DEF Propagate, Raise, ErrorOf
  <2>11. ~AddGroupReturns(w)
    BY <2>1, <2>6 DEF AddGroupReturns, Expected
  <2>12. ~(LookupReturns(w) \/ GetGroupReturns(w) \/ DeleteReturns(w) \/ ListReturns(w))
    BY <2>4, <2>5, <2>6 DEF LookupReturns, GetGroupReturns, DeleteReturns, ListReturns, Calls
  <2>13. QED
    BY <2>2, <2>7, <2>8, <2>9, <2>10, <2>11, <2>12 DEF Returns
<1>7. ErrorsExplained'
  <2>1. ASSUME NEW v \in Workers, v # w, pc'[v] = "raised", Undisturbed(v)'
        PROVE  \/ op[v] \in {"createDevice", "ensureDevice"}
                     /\ result'[v] \in {"FMGError", "TimeoutError"}
               \/ op[v] \in {"assign", "authorize"} /\ result'[v] = "NotFoundError"
    BY <1>1, <2>1 DEF ReasonInv, ErrorsExplained, Undisturbed
  <2>2. QED
    BY <1>1, <1>6, <2>1 DEF ErrorsExplained, Undisturbed
<1>8. QED
  BY <1>3, <1>5, <1>7 DEF ReasonInv

\* Without a competitor, a retry or a late request, the operations of the device manager
\* raise only for reasons of their own: no DuplicateError, and NotFoundError only for a
\* device that is required and missing.
THEOREM ErrorsHaveReasons == Spec => []ErrorsExplained
<1>1. Init => ReasonInv
  BY DEF Init, ReasonInv, ErrorsExplained, Active, Calls
<1>2. IInv /\ ReasonInv /\ [Next]_vars => ReasonInv'
  BY ReasonBackground, ReasonServe, ReasonStart, ReasonReturns DEF Next, IInv
<1>3. ReasonInv => ErrorsExplained
  BY DEF ReasonInv
<1>4. QED
  BY <1>1, <1>2, <1>3, Inductive, PTL DEF Spec
-----------------------------------------------------------------------------
(* Operations run down *)

\* The steps of a worker go from call to call in one direction.
LEMMA OwnRunsDown ==
  ASSUME TypeOK, TypeOK', NEW w \in Workers, Start(w) \/ Returns(w) \/ GiveUp(w)
  PROVE  /\ Left(w)' < Left(w)
         /\ \A v \in Workers \ {w} : pc'[v] = pc[v] /\ polls'[v] = polls[v]
<1>1. /\ MaxPolls \in Nat /\ polls[w] \in 0 .. MaxPolls /\ polls'[w] \in 0 .. MaxPolls
  BY DeviceAssumption DEF TypeOK
<1>2. CASE Start(w)
  <2>1. PICK o \in Ops[w] : pc' = [pc EXCEPT ![w] = FirstCall(o)]
    BY <1>2 DEF Start
  <2>2. FirstCall(o) \in {"create", "lookup", "getGroup", "delete", "verify", "list"}
    BY <2>1, DeviceAssumption DEF FirstCall, OpNames
  <2>3. pc[w] = "idle" /\ pc'[w] = FirstCall(o) /\ polls' = polls
    BY <1>2, <2>1 DEF Start, TypeOK
  <2>4. QED
    BY <1>1, <2>1, <2>2, <2>3 DEF Left, TypeOK
<1>3. CASE GiveUp(w)
  <2>1. pc[w] \in Calls /\ pc'[w] = "raised" /\ polls' = polls
    BY <1>3 DEF GiveUp, Finish, Active, TypeOK
  <2>2. QED
    BY <1>1, <1>3, <2>1 DEF Left, Calls, GiveUp, Finish, TypeOK
<1>4. CASE Returns(w)
  <2>1. /\ \/ pc[w] \in Calls /\ pc'[w] \in {"returned", "raised"}
           \/ pc[w] = "lookup" /\ pc'[w] = "create"
           \/ pc[w] = "create" /\ pc'[w] = "poll"
           \/ pc[w] = "poll" /\ pc'[w] = "poll" /\ polls'[w] = polls[w] + 1
           \/ pc[w] = "getGroup" /\ pc'[w] \in {"addGroup", "addMember"}
           \/ pc[w] = "addGroup" /\ pc'[w] = "addMember"
        /\ \A v \in Workers \ {w} : pc'[v] = pc[v] /\ polls'[v] = polls[v]
    <3> USE DEF TypeOK, Awaits, Return, Propagate, Raise, Finish, Proceed, Calls
    <3>1. CASE LookupReturns(w)
      BY <3>1 DEF LookupReturns
    <3>2. CASE CreateReturns(w)
      BY <3>2 DEF CreateReturns
    <3>3. CASE PollReturns(w)
      BY <3>3 DEF PollReturns
    <3>4. CASE GetGroupReturns(w)
      BY <3>4 DEF GetGroupReturns, GroupEnsured
    <3>5. CASE AddGroupReturns(w)
      BY <3>5 DEF AddGroupReturns, GroupEnsured
    <3>6. CASE AddMemberReturns(w)
      BY <3>6 DEF AddMemberReturns
    <3>7. CASE DeleteReturns(w)
      BY <3>7 DEF DeleteReturns
    <3>8. CASE VerifyReturns(w)
      BY <3>8 DEF VerifyReturns
    <3>9. CASE ListReturns(w)
      BY <3>9 DEF ListReturns
    <3>10. QED
      BY <1>4, <3>1, <3>2, <3>3, <3>4, <3>5, <3>6, <3>7, <3>8, <3>9 DEF Returns
  <2>2. Left(w)' < Left(w)
    BY <1>1, <2>1 DEF Left, Calls
  <2>3. QED
    BY <2>1, <2>2
<1>5. QED
  BY <1>2, <1>3, <1>4

\* Every answer brings an operation closer to its end, and nothing puts it back, for any
\* number of workers and polls: what OperationsEnd says, short of fairness.
THEOREM RunDown == Spec => OperationsRunDown
<1>1. ASSUME TypeOK, TypeOK', [Next]_vars, NEW w \in Workers
      PROVE  /\ Left(w)' <= Left(w)
             /\ Start(w) \/ Returns(w) \/ GiveUp(w) => Left(w)' < Left(w)
  <2>1. Left(w) \in Nat /\ Left(w)' \in Nat
    BY <1>1, DeviceAssumption DEF TypeOK, Left
  <2>2. CASE Start(w) \/ Returns(w) \/ GiveUp(w)
    BY <1>1, <2>1, <2>2, OwnRunsDown
  <2>3. CASE ~(Start(w) \/ Returns(w) \/ GiveUp(w))
    <3>1. pc'[w] = pc[w] /\ polls'[w] = polls[w]
      <4>1. CASE Materialise \/ Vanish \/ UNCHANGED vars
        BY <4>1 DEF Materialise, Vanish, vars
      <4>2. ASSUME NEW v \in Workers, Start(v) \/ Returns(v) \/ GiveUp(v)
            PROVE  pc'[w] = pc[w] /\ polls'[w] = polls[w]
        <5>1. v # w
          BY <2>3, <4>2
        <5>2. QED
          BY <1>1, <4>2, <5>1, OwnRunsDown
      <4>3. ASSUME NEW v \in Workers, Serve(v) \/ Abandon(v)
            PROVE  pc'[w] = pc[w] /\ polls'[w] = polls[w]
        BY <4>3 DEF Serve, Abandon
      <4>4. ASSUME NEW v \in Workers, NEW call \in Writes, ServeLate(v, call)
            PROVE  pc'[w] = pc[w] /\ polls'[w] = polls[w]
        BY <4>4 DEF ServeLate
      <4>5. QED
        BY <1>1, <4>1, <4>2, <4>3, <4>4 DEF Next
    <3>2. Left(w)' = Left(w)
      BY <3>1 DEF Left
    <3>3. QED
      BY <2>1, <2>3, <3>2
  <2>4. QED
    BY <2>2, <2>3
<1>2. TypeOK /\ TypeOK' /\ [Next]_vars =>
         [\A w \in Workers :
             /\ Left(w)' <= Left(w)
             /\ Start(w) \/ Returns(w) \/ GiveUp(w) => Left(w)' < Left(w)]_vars
  BY <1>1
<1>3. IInv => TypeOK
  BY DEF IInv
<1>4. QED
  BY <1>2, <1>3, Inductive, PTL DEF Spec, OperationsRunDown
=============================================================================
