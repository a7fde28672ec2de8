---------------------------- MODULE ConfigManagers ----------------------------
(***************************************************************************)
(* The managers that write an ADOM's configuration (managers/): variables  *)
(* and their per-device overrides, policy packages, templates, blueprints  *)
(* and firewall objects, through the adapter that detect_version chose.    *)
(*                                                                         *)
(* A worker detects the version and then runs the operations of a program  *)
(* one after the other.  An operation is a sequence of requests, each a    *)
(* client call as RpcContract promises it: FMG may execute it once per     *)
(* attempt, and an attempt the client has given up at any later time; the  *)
(* call delivers the answer to the latest attempt or a transport error.    *)
(*                                                                         *)
(* FMG is external: a table of rows, and a release that an upgrade may     *)
(* change under the adapters chosen before it.                             *)
(***************************************************************************)
EXTENDS Versions, FiniteSets

CONSTANTS
    Workers,
    Programs,   \* [Workers -> sets of sequences of operations]
    Faulty,     \* workers whose calls are lost or retried, or who are cancelled
    Names,      \* SUBSET Nat: names of variables and objects, in their order
    Values,     \* contents of a row
    Empty,      \* the empty text, a value as well
    Absent,     \* no row
    Releases,   \* releases FMG may run at the start
    Upgrades,   \* <<release, later release>>: upgrades that may happen
    Defaults,   \* what the variables may hold at the start, Absent or a value
    MayRefuse   \* BOOLEAN: FMG may refuse a request (lock, permission, validation)

\* Variables and their overrides; objects: packages, CLI templates and their groups,
\* blueprints, addresses, services; the rules and scope members of an object; and
\* provisioning templates.
Tables == {"variable", "mapping", "object", "child", "template"}
Rows == Tables \X Names

MetaKinds == {"ensureVariables", "createIfMissing", "setPerDevice", "getVariable"}
ObjectKinds == {"get", "upsert", "delete", "addMember"}
Operations ==
    [kind : MetaKinds \cup ObjectKinds, table : Tables, items : Seq(Names \X Values)]

\* What each manager offers: <<kind, table>>.  Firewall objects, blueprints, CLI templates
\* and packages are rows of one table; only groups and packages have scope members, and
\* only packages have rules.
MetafieldManager ==
    ({"ensureVariables", "createIfMissing", "getVariable"} \X {"variable"})
    \cup {<<"setPerDevice", "mapping">>}
FirewallObjectManagers == {"get", "upsert", "delete"} \X {"object"}
BlueprintManager == {"get", "upsert", "delete"} \X {"object"}
CLITemplateManagers ==
    ({"get", "upsert", "delete"} \X {"object"}) \cup {<<"addMember", "child">>}
PolicyPackageManager ==
    ({"get", "upsert", "delete"} \X {"object"})
    \cup ({"addMember", "upsert", "delete"} \X {"child"})
ProvisioningTemplateManager == {"get", "upsert", "delete"} \X {"template"}

Offered ==
    MetafieldManager \cup FirewallObjectManagers \cup BlueprintManager
    \cup CLITemplateManagers \cup PolicyPackageManager \cup ProvisioningTemplateManager

\* A manager offers it, there is something to do, a dict has every key once, and the
\* operations that are no bulk operations write one row.
WellFormed(o) ==
    /\ <<o.kind, o.table>> \in Offered
    /\ o.items # <<>>
    /\ o.kind = "setPerDevice" =>
          \A i, j \in DOMAIN o.items : o.items[i][1] = o.items[j][1] => i = j
    /\ o.kind \notin {"ensureVariables", "setPerDevice"} => Len(o.items) = 1

ASSUME ConfigAssumption ==
    /\ Names \subseteq Nat
    /\ Empty \in Values /\ Absent \notin Values
    /\ Programs \in [Workers -> SUBSET Seq(Operations)]
    /\ \A w \in Workers : \A p \in Programs[w] : \A k \in DOMAIN p : WellFormed(p[k])
    /\ \A w \in Workers : \A p \in Programs[w] : p # <<>>
    /\ Faulty \subseteq Workers
    /\ Defaults \subseteq Values \cup {Absent}
    /\ Releases \subseteq Nat \X Nat
    /\ Upgrades \subseteq (Nat \X Nat) \X (Nat \X Nat)
    /\ \A x \in Upgrades : x[1] # x[2]
    /\ \A x, y \in Upgrades : x[2] = y[1] => <<x[1], y[2]>> \in Upgrades
    /\ MayRefuse \in BOOLEAN

VARIABLES
    release, \* what FMG runs
    device,  \* BOOLEAN: the device of the overrides exists
    store,   \* [Rows -> value or Absent]
    last,    \* [Rows -> <<worker, operation>> that wrote it last, or <<>>] (history)
    program, \* [Workers -> the operations it runs]
    pc,      \* [Workers -> Labels]
    at,      \* [Workers -> index of the current operation]
    nth,     \* [Workers -> index of its current request]
    told,    \* [Workers -> release the latest answer to its status call stated, or <<>>]
    adapter, \* [Workers -> adapter, or NoAdapter]
    reply,   \* [Workers -> answer FMG has given the pending call, or "none"]
    result,  \* [Workers -> "none", "done" or the error that was raised]
    late     \* <<worker, operation, request>> given up, FMG may still execute it

fmgVars == <<release, device, store, last>>
vars == <<release, device, store, last, program, pc, at, nth, told, adapter,
          reply, result, late>>

Labels == {"idle", "detect", "call", "returned", "raised"}
Ended == {"returned", "raised"}
ServerAnswers == {"ok", "notFound", "duplicate", "refused"}
Errors == {"NotFoundError", "DuplicateError", "FMGError", "VersionError", "Transport"}
NoAdapter == [label |-> <<>>, dialect |-> BaseDialect]

Active(w) == pc[w] \in {"detect", "call"}
Current(w) == program[w][at[w]]

-----------------------------------------------------------------------------
(* The requests of an operation *)

Ask(verb, table, item, space, field) ==
    [verb |-> verb, row |-> <<table, item[1]>>, space |-> space, field |-> field,
     value |-> item[2]]

\* Wrong variant: a definition is added.
AddVariable(d, item) == Ask("add", "variable", item, d.space, d.default)

\* create_if_missing: an upsert of the definition.
SetVariable(d, item) == Ask("set", "variable", item, d.space, d.default)

\* Wrong variant: the overrides in another order than the caller's.
SetMappingsReversed(d, items) ==
    [i \in DOMAIN items |->
        Ask("set", "mapping", items[Len(items) + 1 - i], d.space, d.mapping)]

\* set_per_device: an upsert per override, in the order of the dict.
SetMappings(d, items) ==
    [i \in DOMAIN items |-> Ask("set", "mapping", items[i], d.space, d.mapping)]

\* sorted(set(names))
Ascending(names) ==
    CHOOSE s \in [1 .. Cardinality(names) -> names] :
        \A i, j \in DOMAIN s : i < j => s[i] < s[j]

NamesOf(o) == {o.items[i][1] : i \in DOMAIN o.items}

\* ensure_variables: create_if_missing for every name, with the empty default.
EnsureVariables(d, o) ==
    LET names == Ascending(NamesOf(o))
    IN [i \in DOMAIN names |-> SetVariable(d, <<names[i], Empty>>)]

\* The URLs that no adapter overrides: those of packages, templates and blueprints.
SharedSpace == "any"

\* Everything but variables; "type" goes into the payload of a provisioning template.
ObjectRequest(verb, o) ==
    Ask(verb, o.table, o.items[1], SharedSpace,
        IF o.table = "template" THEN "typed" ELSE "plain")

Requests(d, o) ==
    CASE o.kind = "ensureVariables" -> EnsureVariables(d, o)
      [] o.kind = "createIfMissing" -> <<SetVariable(d, o.items[1])>>
      [] o.kind = "setPerDevice" -> SetMappings(d, o.items)
      [] o.kind = "getVariable" -> <<Ask("get", "variable", o.items[1], d.space, "")>>
      [] o.kind = "get" -> <<ObjectRequest("get", o)>>
      [] o.kind = "upsert" -> <<ObjectRequest("set", o)>>
      [] o.kind = "delete" -> <<ObjectRequest("delete", o)>>
      [] o.kind = "addMember" -> <<ObjectRequest("add", o)>>

RequestsOf(w) == Requests(adapter[w].dialect, Current(w))

TypeOK ==
    /\ release \in Nat \X Nat
    /\ device \in BOOLEAN
    /\ store \in [Rows -> Values \cup {Absent}]
    /\ last \in [Rows -> (Workers \X (Nat \ {0})) \cup {<<>>}]
    /\ program \in [Workers -> Seq(Operations)]
    /\ pc \in [Workers -> Labels]
    /\ at \in [Workers -> Nat \ {0}]
    /\ nth \in [Workers -> Nat \ {0}]
    /\ told \in [Workers -> (Nat \X Nat) \cup {<<>>}]
    /\ adapter \in [Workers -> {NoAdapter} \cup {Adapter(k) : k \in Registered}]
    /\ reply \in [Workers -> ServerAnswers \cup {"none"}]
    /\ result \in [Workers -> {"none", "done"} \cup Errors]
    /\ late \subseteq Workers \X (Nat \ {0}) \X (Nat \ {0})
    /\ \A w \in Workers :
          pc[w] \in {"call", "returned"} =>
              at[w] \in DOMAIN program[w] /\ nth[w] \in DOMAIN RequestsOf(w)

Init ==
    /\ release \in Releases
    /\ device \in BOOLEAN
    /\ \E v \in Defaults :
          store = [r \in Rows |-> IF r[1] = "variable" THEN v ELSE Absent]
    /\ last = [r \in Rows |-> <<>>]
    /\ program = [w \in Workers |-> <<>>]
    /\ pc = [w \in Workers |-> "idle"]
    /\ at = [w \in Workers |-> 1]
    /\ nth = [w \in Workers |-> 1]
    /\ told = [w \in Workers |-> <<>>]
    /\ adapter = [w \in Workers |-> NoAdapter]
    /\ reply = [w \in Workers |-> "none"]
    /\ result = [w \in Workers |-> "none"]
    /\ late = {}

-----------------------------------------------------------------------------
(* FMG *)

\* What the releases understand: 7.6 moved the variables and renamed the fields.
Native(r) ==
    IF r[2] >= 6 THEN [space |-> "fmg", default |-> "value", mapping |-> "value"]
    ELSE [space |-> "dynamic", default |-> "default-value", mapping |-> "local-value"]

\* A row can only be where its parent is.
Parent(r) ==
    CASE r[1] = "mapping" -> <<"variable", r[2]>>
      [] r[1] = "child" -> <<"object", r[2]>>
      [] OTHER -> r

Misses(q) ==
    \/ q.row[1] \in {"variable", "mapping"} /\ q.space # Native(release).space
    \/ Parent(q.row) # q.row /\ store[Parent(q.row)] = Absent
    \/ q.row[1] = "mapping" /\ ~device

Field(r) ==
    CASE r[1] = "variable" -> Native(release).default
      [] r[1] = "mapping" -> Native(release).mapping
      [] r[1] = "template" -> "typed"
      [] OTHER -> "plain"

\* A field FMG does not know is ignored: the row is there, and says nothing new.
Put(q) ==
    IF q.field = Field(q.row) THEN q.value
    ELSE IF store[q.row] = Absent THEN Empty ELSE store[q.row]

\* The rows a request writes: a row goes with those it is the parent of.
Written(q) ==
    IF q.verb = "get" THEN {}
    ELSE IF q.verb = "delete" THEN {r \in Rows : q.row \in {r, Parent(r)}}
    ELSE {q.row}

\* FMG executes request q of operation k of worker w.
Execute(w, k, q, a) ==
    \/ /\ a = "notFound"
       /\ Misses(q) \/ (q.verb \in {"get", "delete"} /\ store[q.row] = Absent)
       /\ UNCHANGED fmgVars
    \/ /\ a = "duplicate"
       /\ ~Misses(q) /\ q.verb = "add" /\ store[q.row] # Absent
       /\ UNCHANGED fmgVars
    \/ /\ a = "refused"
       /\ MayRefuse
       /\ UNCHANGED fmgVars
    \/ /\ a = "ok"
       /\ ~Misses(q)
       /\ q.verb \in {"get", "delete"} => store[q.row] # Absent
       /\ q.verb = "add" => store[q.row] = Absent
       /\ store' = [r \in Rows |->
                      IF r \notin Written(q) THEN store[r]
                      ELSE IF q.verb = "delete" THEN Absent ELSE Put(q)]
       /\ last' = [r \in Rows |-> IF r \in Written(q) THEN <<w, k>> ELSE last[r]]
       /\ UNCHANGED <<release, device>>

\* FMG is upgraded; the configuration moves along, the adapters do not.
Upgrade ==
    /\ \E up \in Upgrades : release = up[1] /\ release' = up[2]
    /\ UNCHANGED <<device, store, last, program, pc, at, nth, told, adapter,
                   reply, result, late>>

\* An attempt of the status call is answered: with the release, with something that
\* states none (no dict, or no Version in it), or with an error.
ServeStatus(w) ==
    /\ pc[w] = "detect"
    /\ reply[w] = "none" \/ w \in Faulty
    /\ \E a \in {"ok", "refused"}, stated \in {release, <<>>} :
          /\ a = "refused" => MayRefuse /\ stated = <<>>
          /\ reply' = [reply EXCEPT ![w] = a]
          /\ told' = [told EXCEPT ![w] = stated]
    /\ UNCHANGED <<fmgVars, program, pc, at, nth, adapter, result, late>>

\* An attempt of w's request reaches FMG; a second one is a retry.
ServeRequest(w) ==
    /\ pc[w] = "call"
    /\ reply[w] = "none" \/ w \in Faulty
    /\ \E a \in ServerAnswers :
          /\ reply' = [reply EXCEPT ![w] = a]
          /\ Execute(w, at[w], RequestsOf(w)[nth[w]], a)
    /\ UNCHANGED <<program, pc, at, nth, told, adapter, result, late>>

Serve(w) == ServeStatus(w) \/ ServeRequest(w)

\* The client gives an attempt up and tries again, or not; the request is on its
\* way all the same.
Abandon(w) ==
    /\ w \in Faulty
    /\ pc[w] = "call"
    /\ RequestsOf(w)[nth[w]].verb # "get"
    /\ late' = late \cup {<<w, at[w], nth[w]>>}
    /\ UNCHANGED <<fmgVars, program, pc, at, nth, told, adapter, reply, result>>

\* It arrives, whatever the worker is doing by then.
ServeLate(l) ==
    /\ l \in late
    /\ \E a \in ServerAnswers :
          Execute(l[1], l[2], Requests(adapter[l[1]].dialect, program[l[1]][l[2]])[l[3]], a)
    /\ late' = late \ {l}
    /\ UNCHANGED <<program, pc, at, nth, told, adapter, reply, result>>

-----------------------------------------------------------------------------
(* The workers *)

Start(w) ==
    /\ pc[w] = "idle"
    /\ \E p \in Programs[w] : program' = [program EXCEPT ![w] = p]
    /\ pc' = [pc EXCEPT ![w] = "detect"]
    /\ UNCHANGED <<fmgVars, at, nth, told, adapter, reply, result, late>>

Finish(w, label, r) ==
    /\ pc' = [pc EXCEPT ![w] = label]
    /\ result' = [result EXCEPT ![w] = r]
    /\ UNCHANGED <<at, nth>>

\* FMGClient._check_status; FMGError stands for AuthError, too.
ErrorOf(a) ==
    CASE a = "notFound" -> "NotFoundError"
      [] a = "duplicate" -> "DuplicateError"
      [] OTHER -> "FMGError"

\* detect_version: the error of the status call, or the adapter of the version that FMG
\* states, or VersionError.  An answer without a version is taken for the empty one.
DetectReturns(w) ==
    /\ pc[w] = "detect" /\ reply[w] # "none"
    /\ \/ /\ reply[w] # "ok"
          /\ Finish(w, "raised", ErrorOf(reply[w]))
          /\ UNCHANGED adapter
       \/ /\ reply[w] = "ok"
          /\ \E text \in IF told[w] = <<>> THEN {NoText} ELSE Spellings(told[w]) :
                LET key == Normalize(MajorMinor(text)) IN
                \/ /\ key \in Registered
                   /\ adapter' = [adapter EXCEPT ![w] = Adapter(key)]
                   /\ pc' = [pc EXCEPT ![w] = "call"]
                   /\ UNCHANGED <<at, nth, result>>
                \/ /\ key \notin Registered
                   /\ Finish(w, "raised", "VersionError")
                   /\ UNCHANGED adapter
    /\ reply' = [reply EXCEPT ![w] = "none"]
    /\ UNCHANGED <<fmgVars, program, told, late>>

\* Wrong variant: one request too many.
GoOnOnceMore(w) ==
    /\ nth[w] <= Len(RequestsOf(w))
    /\ nth' = [nth EXCEPT ![w] = @ + 1]
    /\ UNCHANGED <<pc, at, result>>

\* The next request of the operation, the next operation, or the end.
GoOn(w) ==
    \/ /\ nth[w] < Len(RequestsOf(w))
       /\ nth' = [nth EXCEPT ![w] = @ + 1]
       /\ UNCHANGED <<pc, at, result>>
    \/ /\ nth[w] = Len(RequestsOf(w))
       /\ at[w] < Len(program[w])
       /\ at' = [at EXCEPT ![w] = @ + 1]
       /\ nth' = [nth EXCEPT ![w] = 1]
       /\ UNCHANGED <<pc, result>>
    \/ /\ nth[w] = Len(RequestsOf(w))
       /\ at[w] = Len(program[w])
       /\ Finish(w, "returned", "done")

\* get() takes NotFoundError for None; every other error leaves the operation.
Passes(o, a) == a = "ok" \/ (o.kind = "get" /\ a = "notFound")

\* Wrong variant: a refused request is repeated.
CallReturnsInsists(w) ==
    /\ pc[w] = "call" /\ reply[w] # "none"
    /\ \/ Passes(Current(w), reply[w]) /\ GoOn(w)
       \/ ~Passes(Current(w), reply[w]) /\ UNCHANGED <<pc, at, nth, result>>
    /\ reply' = [reply EXCEPT ![w] = "none"]
    /\ UNCHANGED <<fmgVars, program, told, adapter, late>>

CallReturns(w) ==
    /\ pc[w] = "call" /\ reply[w] # "none"
    /\ reply' = [reply EXCEPT ![w] = "none"]
    /\ \/ Passes(Current(w), reply[w]) /\ GoOn(w)
       \/ ~Passes(Current(w), reply[w]) /\ Finish(w, "raised", ErrorOf(reply[w]))
    /\ UNCHANGED <<fmgVars, program, told, adapter, late>>

\* At any await: every attempt failed, or the worker is cancelled.
GiveUp(w) ==
    /\ w \in Faulty
    /\ Active(w)
    /\ Finish(w, "raised", "Transport")
    /\ reply' = [reply EXCEPT ![w] = "none"]
    /\ UNCHANGED <<fmgVars, program, told, adapter, late>>

Returns(w) == DetectReturns(w) \/ CallReturns(w)

Next ==
    \/ Upgrade
    \/ \E w \in Workers : Start(w) \/ Serve(w) \/ Returns(w) \/ Abandon(w) \/ GiveUp(w)
    \/ \E l \in late : ServeLate(l)

Spec == Init /\ [][Next]_vars

\* Calls end (FmgClient).  Every step named here changes reply.
Fairness ==
    \A w \in Workers :
        /\ WF_reply(reply[w] = "none" /\ Serve(w))
        /\ WF_reply(Returns(w))

FairSpec == Spec /\ Fairness

-----------------------------------------------------------------------------
(* Properties *)

\* What a caller asks of operation o: the rows it is to write, with what they are to
\* hold.  ensure_variables and create_if_missing are asked for the definition only.
Asked(o) ==
    CASE o.kind \in {"upsert", "addMember"} ->
            {<<<<o.table, o.items[1][1]>>, {o.items[1][2]}>>}
      [] o.kind = "delete" -> {<<<<o.table, o.items[1][1]>>, {Absent}>>}
      [] o.kind = "setPerDevice" ->
            {<<<<"mapping", o.items[i][1]>>, {o.items[i][2]}>> : i \in DOMAIN o.items}
      [] o.kind \in {"ensureVariables", "createIfMissing"} ->
            {<<<<"variable", n>>, Values>> : n \in NamesOf(o)}
      [] OTHER -> {}

\* Operation k of w has come to its end.
Through(w, k) == k < at[w] \/ (k = at[w] /\ pc[w] = "returned")

\* An operation that has not raised has had its effect: each row it was to write was
\* written, and holds what was asked for unless somebody wrote it since.  No adapter,
\* be it that of a release FMG has left behind, makes a write disappear silently.
WritesTakeEffect ==
    \A w \in Workers : \A k \in DOMAIN program[w] :
        Through(w, k) =>
            \A x \in Asked(program[w][k]) :
                /\ last[x[1]] # <<>>
                /\ last[x[1]] = <<w, k>> => store[x[1]] \in x[2]

\* A set_per_device that raised has written the overrides before the one it raised
\* at, in the caller's order, and none behind it.
RaisedIsPrefix ==
    \A w \in Workers :
        pc[w] = "raised" /\ adapter[w] # NoAdapter /\ Current(w).kind = "setPerDevice" =>
            \A i \in DOMAIN Current(w).items :
                LET row == <<"mapping", Current(w).items[i][1]>> IN
                /\ i < nth[w] => last[row] # <<>>
                /\ i > nth[w] => last[row] # <<w, at[w]>>

\* The variables that an earlier ensure_variables or create_if_missing of w's program
\* has taken care of.
Ensured(w) ==
    UNION {NamesOf(program[w][k]) : k \in {k \in 1 .. at[w] - 1 :
              program[w][k].kind \in {"ensureVariables", "createIfMissing"}}}

Stale(w) == adapter[w].label # release

\* FMG runs release r, or has been upgraded from it.
HasRun(r) == release = r \/ <<r, release>> \in Upgrades

\* Why w's current operation may miss something: it deletes, reads, or writes below an
\* object; it sets an override of a device or a variable nobody ensured; or its adapter
\* is one that an upgrade has left behind.
MayMiss(w) ==
    \/ Stale(w)
    \/ Current(w).kind \in {"delete", "getVariable"} \/ Current(w).table = "child"
    \/ /\ Current(w).kind = "setPerDevice"
       /\ ~device \/ ~(NamesOf(Current(w)) \subseteq Ensured(w))

\* Whatever is lost and retried: detect_version raises VersionError only if FMG stated no
\* version, or that of a release without an adapter that it really ran, however it
\* spelled it; only adding a member can find it there already; and something is missing
\* only for a reason.
ErrorsExplained ==
    \A w \in Workers :
        /\ result[w] = "VersionError" /\ told[w] # <<>> =>
              told[w] \notin Registered /\ HasRun(told[w])
        /\ result[w] = "DuplicateError" => Current(w).kind = "addMember"
        /\ result[w] = "NotFoundError" => MayMiss(w)

\* However FMG spells its version, the adapter is that of the release it runs, or of
\* one it has been upgraded from since.
AdapterFits ==
    \A w \in Workers : adapter[w] # NoAdapter => HasRun(adapter[w].label)

\* A program that was started ends.
ProgramsEnd == \A w \in Workers : Active(w) ~> pc[w] \in Ended

\* "Create the listed variables in bulk if not already present.": a variable that is
\* present keeps its default.
DefaultsKept ==
    [][\A w \in Workers :
          ServeRequest(w) /\ Current(w).kind = "ensureVariables" =>
              \A n \in Names :
                  LET row == <<"variable", n>> IN
                  store[row] # Absent => store'[row] = store[row]]_vars
=============================================================================
