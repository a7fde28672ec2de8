---------------------------- MODULE DeviceManager ----------------------------
(***************************************************************************)
(* DeviceManager (managers/devices.py): workers that create, look up,      *)
(* group and delete one model device of an ADOM.                           *)
(*                                                                         *)
(* Each worker runs one operation.  Its pc names the client call it awaits *)
(* or how the operation ended.  A client call is what RpcContract          *)
(* promises: FMG may execute the request once per attempt, and an attempt  *)
(* the client has given up at any later time; the call delivers the answer *)
(* to the latest attempt or a transport error.                             *)
(*                                                                         *)
(* The device, its group and its membership are kept at FMG (external).    *)
(* The row of a new device shows up some time after FMG has accepted it,   *)
(* and a non-blocking delete takes effect some time after its answer.      *)
(***************************************************************************)
EXTENDS Naturals

CONSTANTS
    Workers,
    Ops,        \* [Workers -> SUBSET OpNames]: operations a worker may run
    Locked,     \* BOOLEAN: each operation runs in a workspace lock of its own
    Faulty,     \* workers whose calls are lost or retried, or who are cancelled
    MayRefuse,  \* BOOLEAN: FMG may refuse a new device (licence, platform, ...)
    MaxPolls    \* polls for the row before wait_timeout is over for certain

OpNames == {"createDevice", "ensureDevice", "ensureGroup", "assign",
            "delete", "authorize", "members"}

ASSUME DeviceAssumption ==
    /\ Ops \in [Workers -> SUBSET OpNames]
    /\ Locked \in BOOLEAN /\ MayRefuse \in BOOLEAN
    /\ Faulty \subseteq Workers
    /\ MaxPolls \in Nat

VARIABLES
    device,    \* row of the device: absent, creating, present or deleting
    group,     \* BOOLEAN: the device group exists
    member,    \* BOOLEAN: the device is in the group
    makers,    \* workers whose request created the device (history)
    deleted,   \* BOOLEAN: FMG has executed a delete (history)
    op,        \* [Workers -> operation, or "none"]
    pc,        \* [Workers -> Labels]
    reply,     \* [Workers -> answer FMG has given the pending call, or "none"]
    polls,     \* [Workers -> polls that did not find the row]
    result,    \* [Workers -> what the operation returned or raised]
    flawed,    \* [Workers -> BOOLEAN]: a call was lost, retried or cancelled (history)
    contended, \* [Workers -> BOOLEAN]: others were at work meanwhile (history)
    late       \* <<worker, write>> given up by the client, FMG may still execute it

fmgVars == <<device, group, member, makers, deleted>>
vars == <<device, group, member, makers, deleted, op, pc, reply, polls, result,
          flawed, contended, late>>

Calls == {"lookup", "create", "poll", "getGroup", "addGroup", "addMember",
          "delete", "verify", "list"}
\* Those that change something at FMG.
Writes == {"create", "addGroup", "addMember", "delete"}
Ended == {"returned", "raised"}
Labels == {"idle"} \cup Calls \cup Ended

\* "meta": an empty group's own record; "refused": any other status code.
ServerAnswers == {"ok", "meta", "notFound", "duplicate", "refused"}
Errors == {"NotFoundError", "DuplicateError", "FMGError", "TimeoutError", "Cancelled"}
Results == {"none", "done", "created", "reused", "member", "nobody"} \cup Errors

Active(w) == pc[w] \in Calls

TypeOK ==
    /\ device \in {"absent", "creating", "present", "deleting"}
    /\ group \in BOOLEAN /\ member \in BOOLEAN /\ deleted \in BOOLEAN
    /\ makers \subseteq Workers
    /\ op \in [Workers -> OpNames \cup {"none"}]
    /\ pc \in [Workers -> Labels]
    /\ reply \in [Workers -> ServerAnswers \cup {"none"}]
    /\ polls \in [Workers -> 0 .. MaxPolls]
    /\ result \in [Workers -> Results]
    /\ flawed \in [Workers -> BOOLEAN]
    /\ contended \in [Workers -> BOOLEAN]
    /\ late \subseteq Workers \X Writes

Init ==
    /\ device = "absent"
    /\ group = FALSE /\ member = FALSE /\ deleted = FALSE
    /\ makers = {}
    /\ op = [w \in Workers |-> "none"]
    /\ pc = [w \in Workers |-> "idle"]
    /\ reply = [w \in Workers |-> "none"]
    /\ polls = [w \in Workers |-> 0]
    /\ result = [w \in Workers |-> "none"]
    /\ flawed = [w \in Workers |-> FALSE]
    /\ contended = [w \in Workers |-> FALSE]
    /\ late = {}

-----------------------------------------------------------------------------
(* FMG *)

Visible == device \in {"present", "deleting"}

GetDevice(a) ==
    /\ a = IF Visible THEN "ok" ELSE "notFound"
    /\ UNCHANGED fmgVars

AddDevice(w, a) ==
    \/ /\ device = "absent"
       /\ device' = "creating"
       /\ makers' = makers \cup {w}
       /\ a = "ok"
       /\ UNCHANGED <<group, member, deleted>>
    \/ /\ device # "absent" \/ MayRefuse
       /\ a = "refused"
       /\ UNCHANGED fmgVars

\* Answered at once; what becomes of the task is not told.
DeleteDevice(a) ==
    /\ device' = IF device = "present" THEN "deleting" ELSE device
    /\ deleted' = TRUE
    /\ a = "ok"
    /\ UNCHANGED <<group, member, makers>>

GetGroup(a) ==
    /\ a = IF group THEN "ok" ELSE "notFound"
    /\ UNCHANGED fmgVars

AddGroup(a) ==
    /\ a = IF group THEN "duplicate" ELSE "ok"
    /\ group' = TRUE
    /\ UNCHANGED <<device, member, makers, deleted>>

AddMember(a) ==
    \/ /\ ~group \/ ~Visible
       /\ a = "notFound"
       /\ UNCHANGED fmgVars
    \/ /\ group /\ Visible
       /\ a = IF member THEN "duplicate" ELSE "ok"
       /\ member' = TRUE
       /\ UNCHANGED <<device, group, makers, deleted>>

ListMembers(a) ==
    /\ a = IF ~group THEN "notFound" ELSE IF member THEN "ok" ELSE "meta"
    /\ UNCHANGED fmgVars

Execute(w, call, a) ==
    \/ call \in {"lookup", "poll", "verify"} /\ GetDevice(a)
    \/ call = "create" /\ AddDevice(w, a)
    \/ call = "delete" /\ DeleteDevice(a)
    \/ call = "getGroup" /\ GetGroup(a)
    \/ call = "addGroup" /\ AddGroup(a)
    \/ call = "addMember" /\ AddMember(a)
    \/ call = "list" /\ ListMembers(a)

\* The row of an accepted device appears.
Materialise ==
    /\ device = "creating"
    /\ device' = "present"
    /\ UNCHANGED <<group, member, makers, deleted, op, pc, reply, polls, result,
                   flawed, contended, late>>

\* The row of a deleted device goes, and its memberships with it.
Vanish ==
    /\ device = "deleting"
    /\ device' = "absent"
    /\ member' = FALSE
    /\ UNCHANGED <<group, makers, deleted, op, pc, reply, polls, result, flawed,
                   contended, late>>

\* An attempt of w's call reaches FMG; a second one is a retry.
Serve(w) ==
    /\ Active(w)
    /\ reply[w] = "none" \/ w \in Faulty
    /\ \E a \in ServerAnswers :
          /\ Execute(w, pc[w], a)
          /\ reply' = [reply EXCEPT ![w] = a]
    /\ flawed' = [flawed EXCEPT ![w] = @ \/ reply[w] # "none"]
    /\ UNCHANGED <<op, pc, polls, result, contended, late>>

\* The client gives an attempt of a write up and tries again, or not; the request
\* is on its way all the same.
Abandon(w) ==
    /\ w \in Faulty
    /\ pc[w] \in Writes
    /\ late' = late \cup {<<w, pc[w]>>}
    /\ flawed' = [flawed EXCEPT ![w] = TRUE]
    /\ UNCHANGED <<fmgVars, op, pc, reply, polls, result, contended>>

\* It arrives, whatever the worker is doing by then.
ServeLate(w, call) ==
    /\ <<w, call>> \in late
    /\ \E a \in ServerAnswers : Execute(w, call, a)
    /\ late' = late \ {<<w, call>>}
    /\ contended' = [v \in Workers |-> contended[v] \/ Active(v)]
    /\ UNCHANGED <<op, pc, reply, polls, result, flawed>>

-----------------------------------------------------------------------------
(* The end of a call *)

\* The operation goes on with another call, which is what pc says next.
Proceed(w, call) ==
    /\ pc' = [pc EXCEPT ![w] = call]
    /\ reply' = [reply EXCEPT ![w] = "none"]
    /\ UNCHANGED <<fmgVars, op, polls, result, flawed, contended, late>>

Finish(w, label, r) ==
    /\ pc' = [pc EXCEPT ![w] = label]
    /\ result' = [result EXCEPT ![w] = r]
    /\ reply' = [reply EXCEPT ![w] = "none"]

Return(w, r) ==
    /\ Finish(w, "returned", r)
    /\ UNCHANGED <<fmgVars, op, polls, flawed, contended, late>>

\* FMGClient._check_status
ErrorOf(a) ==
    CASE a = "notFound" -> "NotFoundError"
      [] a = "duplicate" -> "DuplicateError"
      [] OTHER -> "FMGError"

Raise(w, e) ==
    /\ Finish(w, "raised", e)
    /\ UNCHANGED <<fmgVars, op, polls, flawed, contended, late>>

\* An exception that no handler of the operation is there for.
Propagate(w) == Raise(w, ErrorOf(reply[w]))

Awaits(w, call) == pc[w] = call /\ reply[w] # "none"

\* At any await: every attempt failed, or the worker is cancelled.
GiveUp(w) ==
    /\ w \in Faulty
    /\ Active(w)
    /\ \E e \in {"FMGError", "Cancelled"} : Finish(w, "raised", e)
    /\ flawed' = [flawed EXCEPT ![w] = TRUE]
    /\ UNCHANGED <<fmgVars, op, polls, contended, late>>

-----------------------------------------------------------------------------
(* The operations *)

FirstCall(o) ==
    CASE o = "createDevice" -> "create"
      [] o = "ensureDevice" -> "lookup"
      [] o \in {"ensureGroup", "assign"} -> "getGroup"
      [] o = "delete" -> "delete"
      [] o = "authorize" -> "verify"
      [] o = "members" -> "list"

Start(w) ==
    /\ pc[w] = "idle"
    /\ Locked => \A v \in Workers : ~Active(v)
    /\ \E o \in Ops[w] :
          /\ op' = [op EXCEPT ![w] = o]
          /\ pc' = [pc EXCEPT ![w] = FirstCall(o)]
    /\ contended' = [v \in Workers |->
                        contended[v] \/ (v # w /\ Active(v))
                          \/ (v = w /\ (late # {} \/ \E u \in Workers : Active(u)))]
    /\ UNCHANGED <<fmgVars, reply, polls, result, flawed, late>>

\* ensure_model_device: reuse the device, or create it if it is not found.
LookupReturns(w) ==
    /\ Awaits(w, "lookup")
    /\ \/ reply[w] = "ok" /\ Return(w, "reused")
       \/ reply[w] = "notFound" /\ Proceed(w, "create")

\* Wrong variant (for testing the properties): a refusal is taken for "exists".
CreateReturnsTolerant(w) == Awaits(w, "create") /\ Proceed(w, "poll")

\* Wrong variant: the row is not waited for.
CreateReturnsAtOnce(w) ==
    /\ Awaits(w, "create")
    /\ \/ reply[w] = "ok" /\ Return(w, "created")
       \/ reply[w] # "ok" /\ Propagate(w)

\* create_model_device: /dvm/cmd/add/device, then poll for the row.
CreateReturns(w) ==
    /\ Awaits(w, "create")
    /\ \/ reply[w] = "ok" /\ Proceed(w, "poll")
       \/ reply[w] # "ok" /\ Propagate(w)

\* Wrong variant: the deadline is never looked at.
PollReturnsForEver(w) ==
    /\ Awaits(w, "poll")
    /\ \/ reply[w] = "ok" /\ Return(w, "created")
       \/ reply[w] = "notFound" /\ Proceed(w, "poll")

\* Not there: TimeoutError when the deadline is over, which one slow GET may be
\* enough for, otherwise sleep and poll again.
PollReturns(w) ==
    /\ Awaits(w, "poll")
    /\ \/ reply[w] = "ok" /\ Return(w, "created")
       \/ reply[w] = "notFound" /\ Raise(w, "TimeoutError")
       \/ /\ reply[w] = "notFound"
          /\ polls[w] < MaxPolls
          /\ polls' = [polls EXCEPT ![w] = @ + 1]
          /\ reply' = [reply EXCEPT ![w] = "none"]
          /\ UNCHANGED <<fmgVars, op, pc, result, flawed, contended, late>>

\* The group is there: ensure_device_group is through, assign_to_group goes on.
GroupEnsured(w) ==
    IF op[w] = "assign" THEN Proceed(w, "addMember") ELSE Return(w, "done")

\* Wrong variant: the group is added without a look.
GetGroupReturnsBlind(w) == Awaits(w, "getGroup") /\ Proceed(w, "addGroup")

\* ensure_device_group: get_device_group(), then add it if there is none.
GetGroupReturns(w) ==
    /\ Awaits(w, "getGroup")
    /\ \/ reply[w] = "ok" /\ GroupEnsured(w)
       \/ reply[w] = "notFound" /\ Proceed(w, "addGroup")

AddGroupReturns(w) ==
    /\ Awaits(w, "addGroup")
    /\ \/ reply[w] = "ok" /\ GroupEnsured(w)
       \/ reply[w] # "ok" /\ Propagate(w)

\* Wrong variant: every FMGError passes for "already a member".
AddMemberReturnsTolerant(w) == Awaits(w, "addMember") /\ Return(w, "done")

\* assign_to_group: DuplicateError means that the device is a member already.
AddMemberReturns(w) ==
    /\ Awaits(w, "addMember")
    /\ \/ reply[w] \in {"ok", "duplicate"} /\ Return(w, "done")
       \/ reply[w] \notin {"ok", "duplicate"} /\ Propagate(w)

\* delete_device: non-blocking, the answer is all there is.
DeleteReturns(w) == Awaits(w, "delete") /\ Return(w, "done")

\* authorize_device: the device must be there.
VerifyReturns(w) ==
    /\ Awaits(w, "verify")
    /\ \/ reply[w] = "ok" /\ Return(w, "done")
       \/ reply[w] # "ok" /\ Propagate(w)

\* Wrong variant: an empty group's own record counts as a member.
ListReturnsUnfiltered(w) ==
    /\ Awaits(w, "list")
    /\ Return(w, IF reply[w] = "notFound" THEN "nobody" ELSE "member")

\* list_group_members: only records with a vdom are members.
ListReturns(w) ==
    /\ Awaits(w, "list")
    /\ Return(w, IF reply[w] = "ok" THEN "member" ELSE "nobody")

-----------------------------------------------------------------------------
(* The specification *)

Returns(w) ==
    \/ LookupReturns(w) \/ CreateReturns(w) \/ PollReturns(w)
    \/ GetGroupReturns(w) \/ AddGroupReturns(w) \/ AddMemberReturns(w)
    \/ DeleteReturns(w) \/ VerifyReturns(w) \/ ListReturns(w)

Next ==
    \/ Materialise \/ Vanish
    \/ \E w \in Workers : Start(w) \/ Serve(w) \/ Returns(w)
                            \/ Abandon(w) \/ GiveUp(w)
    \/ \E w \in Workers, call \in Writes : ServeLate(w, call)

Spec == Init /\ [][Next]_vars

\* Calls end (FmgClient).  FMG is not assumed ever to show a row.
Fairness ==
    \A w \in Workers :
        /\ WF_vars(reply[w] = "none" /\ Serve(w))
        /\ WF_vars(Returns(w))

FairSpec == Spec /\ Fairness

-----------------------------------------------------------------------------
(* Properties *)

\* A device that ensure_model_device or create_model_device has returned is there
\* for whoever reads next, as long as nobody deletes it.
EnsuredIsThere ==
    \A w \in Workers :
        result[w] \in {"created", "reused"} /\ ~deleted => device = "present"

\* "Created" is said only to a worker whose own request created the device, however
\* many others tried and however often its request was repeated.
CreatedByItself == \A w \in Workers : result[w] = "created" => w \in makers

\* After ensure_device_group or assign_to_group the group is there; after
\* assign_to_group the device is in it, as long as nobody deletes the device.
AssignedIsMember ==
    \A w \in Workers :
        /\ pc[w] = "returned" /\ op[w] \in {"ensureGroup", "assign"} => group
        /\ pc[w] = "returned" /\ op[w] = "assign" /\ ~deleted => member

\* What list_group_members names is a member, and not the group itself.
ListedIsMember ==
    \A w \in Workers : result[w] = "member" /\ ~deleted => member

\* An operation that nobody interferes with, and whose calls are answered at their
\* first attempt, raises only for a reason of its own: a device that FMG refuses or
\* does not show in time, or one that is required and missing.
ErrorsExplained ==
    \A w \in Workers :
        pc[w] = "raised" /\ ~flawed[w] /\ ~contended[w] =>
            \/ op[w] \in {"createDevice", "ensureDevice"}
                  /\ result[w] \in {"FMGError", "TimeoutError"}
            \/ op[w] \in {"assign", "authorize"} /\ result[w] = "NotFoundError"

\* The calls an operation may be waiting for.
CallsOf(o) ==
    CASE o = "createDevice" -> {"create", "poll"}
      [] o = "ensureDevice" -> {"lookup", "create", "poll"}
      [] o = "ensureGroup" -> {"getGroup", "addGroup"}
      [] o = "assign" -> {"getGroup", "addGroup", "addMember"}
      [] o = "delete" -> {"delete"}
      [] o = "authorize" -> {"verify"}
      [] o = "members" -> {"list"}
      [] OTHER -> {}

\* What a call still under way can rely on: an answer that is still true, and what
\* the calls before it have brought about.
AnswerIsCurrent(w) ==
    /\ Active(w) => pc[w] \in CallsOf(op[w])
    /\ ~Active(w) => reply[w] = "none"
    /\ pc[w] \in {"lookup", "poll"} /\ reply[w] = "ok" /\ ~deleted => device = "present"
    /\ pc[w] = "create" /\ reply[w] = "ok" => w \in makers
    /\ pc[w] = "poll" => w \in makers
    /\ pc[w] \in {"getGroup", "addGroup"} /\ reply[w] = "ok" => group
    /\ pc[w] = "addMember" => group
    /\ pc[w] = "addMember" /\ reply[w] \in {"ok", "duplicate"} /\ ~deleted => member
    /\ pc[w] = "list" /\ reply[w] = "ok" /\ ~deleted => member

IInv ==
    /\ TypeOK
    /\ device = "deleting" => deleted
    /\ \A w \in Workers : AnswerIsCurrent(w)
    /\ EnsuredIsThere
    /\ CreatedByItself
    /\ AssignedIsMember
    /\ ListedIsMember

\* "Create the device group if missing. Idempotent.": that the group is there
\* already is no error.
GroupIsIdempotent ==
    \A w \in Workers :
        op[w] \in {"ensureGroup", "assign"} => result[w] # "DuplicateError"

\* The calls that w still has to make, at most: a poll may be repeated up to the deadline.
Left(w) ==
    CASE pc[w] = "idle" -> MaxPolls + 4
      [] pc[w] = "lookup" -> MaxPolls + 3
      [] pc[w] = "create" -> MaxPolls + 2
      [] pc[w] = "poll" -> MaxPolls - polls[w] + 1
      [] pc[w] = "getGroup" -> 3
      [] pc[w] = "addGroup" -> 2
      [] pc[w] \in {"addMember", "delete", "verify", "list"} -> 1
      [] OTHER -> 0

\* An answer to a call brings its operation closer to the end, whatever it says: no
\* operation starts over when another worker was faster, and nothing that happens at FMG
\* or in another worker puts one back.
OperationsRunDown ==
    [][\A w \in Workers :
          /\ Left(w)' <= Left(w)
          /\ Start(w) \/ Returns(w) \/ GiveUp(w) => Left(w)' < Left(w)]_vars

\* An operation that was started ends, even if the row never shows up.
OperationsEnd == \A w \in Workers : Active(w) ~> pc[w] \in Ended
=============================================================================
