------------------------------ MODULE FmgClient ------------------------------
(***************************************************************************)
(* FMGClient (core/client.py) with its SessionManager (core/session.py):    *)
(* one coroutine connects and disconnects the client while others make      *)
(* calls through it.  A call is _call or multiplex around _post_payload:    *)
(* the payload, with the session token of that moment, is built once and    *)
(* posted up to MaxRetries times.                                           *)
(*                                                                         *)
(* The network and FMG are external: an attempt that was sent may be        *)
(* executed at once, after its client timed out on it, or never.            *)
(***************************************************************************)
EXTENDS Integers

CONSTANTS
    Calls,        \* calls made through the client
    Objects,      \* configuration objects at FMG
    Verb,         \* [Calls -> Verbs]
    Target,       \* [Calls -> Objects]
    MaxRetries,   \* max_retries
    AuthMode,     \* "password", "token", or "emptyToken" (api_token is "")
    MaxConnects,  \* bound: connect() calls
    Faults        \* BOOLEAN: the network and the peer may fail

Verbs == {"get", "set", "add", "delete", "multiplex"}

ASSUME ClientAssumption ==
    /\ Verb \in [Calls -> Verbs]
    /\ Target \in [Calls -> Objects]
    /\ MaxRetries \in Nat
    /\ AuthMode \in {"password", "token", "emptyToken"}
    /\ MaxConnects \in Nat
    /\ Faults \in BOOLEAN

VARIABLES
    life,      \* where connect() and disconnect() stand
    conns,     \* connect() calls so far; the current httpx client and login bear it
    http,      \* _http: 0 for None, or the number of the connect() it is from
    token,     \* _session_token: 0 for None, or the number of the login
    sessions,  \* logins that are live at FMG
    objects,   \* objects present at FMG
    phase,     \* [Calls -> Phases]
    attempt,   \* [Calls -> attempts sent]
    sess,      \* [Calls -> token in the payload]
    served,    \* [Calls -> attempts FMG has answered]
    executed,  \* [Calls -> attempts FMG has executed: those it authorised]
    effect,    \* [Calls -> attempts that created or removed the object]
    reply,     \* [Calls -> status code on its way to the current attempt]
    result,    \* [Calls -> how the call ended]
    calm       \* [Calls -> BOOLEAN]: the client was up from its start on (history)

lifeVars == <<life, conns, http, token, sessions>>
callVars == <<phase, attempt, sess, reply, result>>
fmgVars == <<objects, served, executed, effect>>
vars == <<life, conns, http, token, sessions, objects, phase, attempt,
          sess, served, executed, effect, reply, result, calm>>

\* FMGStatusCode, and one more code for every other failure.
OK == 0
OBJECT_NOT_FOUND == -3
OBJECT_ALREADY_EXISTS == -6
NO_PERMISSION == -11
OTHER_ERROR == -1
Codes == {OK, OBJECT_NOT_FOUND, OBJECT_ALREADY_EXISTS, NO_PERMISSION, OTHER_ERROR}
NoReply == 1

Lives == {"down", "login", "status", "up", "failed", "logout", "closing"}
Phases == {"idle", "inflight", "backoff", "done"}
Results == {"ok", "data", "NotFoundError", "DuplicateError", "AuthError",
            "FMGError", "NotConnected", "Broken", "Raw", "Cancelled"}
Logins == 1 .. MaxConnects

TypeOK ==
    /\ life \in Lives
    /\ conns \in 0 .. MaxConnects
    /\ life = "down" \/ conns # 0
    /\ http \in 0 .. MaxConnects
    /\ token \in 0 .. MaxConnects
    /\ sessions \subseteq Logins
    /\ objects \subseteq Objects
    /\ phase \in [Calls -> Phases]
    /\ attempt \in [Calls -> 0 .. MaxRetries]
    /\ sess \in [Calls -> 0 .. MaxConnects]
    /\ served \in [Calls -> SUBSET (1 .. MaxRetries)]
    /\ executed \in [Calls -> SUBSET (1 .. MaxRetries)]
    /\ effect \in [Calls -> SUBSET (1 .. MaxRetries)]
    /\ reply \in [Calls -> Codes \cup {NoReply}]
    /\ result \in [Calls -> Results \cup {"none"}]
    /\ calm \in [Calls -> BOOLEAN]

Init ==
    /\ life = "down" /\ conns = 0 /\ http = 0 /\ token = 0
    /\ sessions = {}
    /\ objects = {}
    /\ phase = [c \in Calls |-> "idle"]
    /\ attempt = [c \in Calls |-> 0]
    /\ sess = [c \in Calls |-> 0]
    /\ served = [c \in Calls |-> {}]
    /\ executed = [c \in Calls |-> {}]
    /\ effect = [c \in Calls |-> {}]
    /\ reply = [c \in Calls |-> NoReply]
    /\ result = [c \in Calls |-> "none"]
    /\ calm = [c \in Calls |-> FALSE]

-----------------------------------------------------------------------------
(* connect() and disconnect() *)

\* SessionManager.login: nothing to do with an API token, even an empty one.
LoginSkipped == AuthMode # "password"

\* auth_headers() and inject_session(): what FMG sees of a request whose payload
\* carries session s.
Authorised(s) ==
    \/ AuthMode = "token"
    \/ AuthMode = "password" /\ s \in sessions

\* No call that is under way can count on the client any more.
Disturb == calm' = [c \in Calls |-> FALSE]

\* connect() replaces the httpx client, whatever the client was doing before.
Connect ==
    /\ life \in {"down", "up", "failed"}
    /\ conns < MaxConnects
    /\ conns' = conns + 1
    /\ http' = conns + 1
    /\ life' = IF LoginSkipped THEN "status" ELSE "login"
    /\ Disturb
    /\ UNCHANGED <<token, sessions, callVars, fmgVars>>

\* FMG accepts /sys/login/user.
LoginServed ==
    /\ life = "login"
    /\ conns \notin sessions
    /\ sessions' = sessions \cup {conns}
    /\ UNCHANGED <<life, conns, http, token, callVars, fmgVars, calm>>

\* login() stores the new token over the one it may have had.
LoginReturns ==
    /\ life = "login"
    /\ conns \in sessions
    /\ token' = conns
    /\ life' = "status"
    /\ UNCHANGED <<conns, http, sessions, callVars, fmgVars, calm>>

\* The single attempt of login() raises: connect() raises and leaves _http set.
\* FMG may have opened a session all the same, or still do so.
LoginFails ==
    /\ life = "login"
    /\ \/ /\ Faults
          /\ sessions' \in {sessions, sessions \cup {conns}}
       \/ /\ conns \notin sessions
          /\ UNCHANGED sessions
    /\ life' = "failed"
    /\ UNCHANGED <<conns, http, token, callVars, fmgVars, calm>>

\* get("/sys/status") of connect(), a call like any other: it succeeds only for an
\* authorised client.
StatusReturns ==
    /\ life = "status"
    /\ Authorised(token)
    /\ life' = "up"
    /\ UNCHANGED <<conns, http, token, sessions, callVars, fmgVars, calm>>

\* It raises: connect() raises, with the client open and logged in.
StatusFails ==
    /\ life = "status"
    /\ Faults \/ ~Authorised(token)
    /\ life' = "failed"
    /\ UNCHANGED <<conns, http, token, sessions, callVars, fmgVars, calm>>

\* Wrong variant: the token is dropped without a logout.
DisconnectOnly ==
    /\ life \in {"up", "failed"}
    /\ life' = "closing"
    /\ token' = 0
    /\ Disturb
    /\ UNCHANGED <<conns, http, sessions, callVars, fmgVars>>

\* disconnect(): a logout request when there is a session to end, then aclose().
Disconnect ==
    /\ life \in {"up", "failed"}
    /\ life' = IF LoginSkipped \/ token = 0 THEN "closing" ELSE "logout"
    /\ Disturb
    /\ UNCHANGED <<conns, http, token, sessions, callVars, fmgVars>>

LogoutServed ==
    /\ life = "logout"
    /\ token \in sessions
    /\ sessions' = sessions \ {token}
    /\ UNCHANGED <<life, conns, http, token, callVars, fmgVars, calm>>

\* Wrong variant: the token is dropped only when FMG has answered.
LogoutReturnsNoFinally ==
    /\ life = "logout"
    /\ Faults \/ token \notin sessions
    /\ token' = IF token \in sessions THEN token ELSE 0
    /\ life' = "closing"
    /\ UNCHANGED <<conns, http, sessions, callVars, fmgVars, calm>>

\* logout() returns: answered, or an httpx.HTTPError that it swallows.
LogoutReturns ==
    /\ life = "logout"
    /\ Faults \/ token \notin sessions
    /\ token' = 0
    /\ life' = "closing"
    /\ UNCHANGED <<conns, http, sessions, callVars, fmgVars, calm>>

\* Cancelled in logout(): its finally clause drops the token, and disconnect()
\* does not get to aclose().
LogoutCancelled ==
    /\ life = "logout"
    /\ Faults
    /\ token' = 0
    /\ life' = "failed"
    /\ UNCHANGED <<conns, http, sessions, callVars, fmgVars, calm>>

\* aclose() is over.
Closed ==
    /\ life = "closing"
    /\ http' = 0
    /\ life' = "down"
    /\ UNCHANGED <<conns, token, sessions, callVars, fmgVars, calm>>

Lifecycle ==
    \/ Connect \/ LoginServed \/ LoginReturns \/ LoginFails
    \/ StatusReturns \/ StatusFails
    \/ Disconnect \/ LogoutServed \/ LogoutReturns \/ LogoutCancelled \/ Closed

-----------------------------------------------------------------------------
(* FMG *)

\* The status code FMG gives the request of call c when it executes it.
Outcome(c) ==
    CASE Verb[c] \in {"set", "multiplex"} -> OK
      [] Verb[c] = "add" -> IF Target[c] \in objects THEN OBJECT_ALREADY_EXISTS ELSE OK
      [] OTHER -> IF Target[c] \in objects THEN OK ELSE OBJECT_NOT_FOUND

ObjectsAfter(c) ==
    CASE Verb[c] \in {"set", "add", "multiplex"} -> objects \cup {Target[c]}
      [] Verb[c] = "delete" -> objects \ {Target[c]}
      [] OTHER -> objects

\* FMG gets to attempt k of call c, while its client waits for it or later.  Only
\* the answer to the current attempt finds somebody listening.
Serve(c, k) ==
    /\ k \in (1 .. attempt[c]) \ served[c]
    /\ served' = [served EXCEPT ![c] = @ \cup {k}]
    /\ \E code \in Codes :
          /\ \/ /\ Authorised(sess[c])
                /\ code = Outcome(c)
                /\ executed' = [executed EXCEPT ![c] = @ \cup {k}]
                /\ objects' = ObjectsAfter(c)
                /\ effect' = IF objects' = objects THEN effect
                             ELSE [effect EXCEPT ![c] = @ \cup {k}]
             \/ /\ code = IF Authorised(sess[c]) THEN OTHER_ERROR ELSE NO_PERMISSION
                /\ Faults \/ ~Authorised(sess[c])
                /\ UNCHANGED <<executed, objects, effect>>
          /\ reply' = IF phase[c] = "inflight" /\ k = attempt[c]
                      THEN [reply EXCEPT ![c] = code] ELSE reply
    /\ UNCHANGED <<lifeVars, phase, attempt, sess, result, calm>>

-----------------------------------------------------------------------------
(* A call *)

\* _check_status; multiplex does not come here and returns data only.
CheckStatus(c, code) ==
    CASE Verb[c] = "multiplex" -> "data"
      [] code = OK -> "ok"
      [] code = OBJECT_NOT_FOUND -> "NotFoundError"
      [] code = OBJECT_ALREADY_EXISTS -> "DuplicateError"
      [] code = NO_PERMISSION -> "AuthError"
      [] OTHER -> "FMGError"

End(c, r) ==
    /\ phase' = [phase EXCEPT ![c] = "done"]
    /\ result' = [result EXCEPT ![c] = r]
    /\ reply' = [reply EXCEPT ![c] = NoReply]

\* Wrong variant: attempts are not counted.
PostUncounted(c) ==
    IF http = 0 \/ life = "closing"
    THEN End(c, "Broken") /\ UNCHANGED attempt
    ELSE /\ phase' = [phase EXCEPT ![c] = "inflight"]
         /\ UNCHANGED <<attempt, reply, result>>

\* self._http.post: an attribute of None after a disconnect, a closed httpx client
\* during one; neither exception is one that _post_payload handles.
Post(c) ==
    IF http = 0 \/ life = "closing"
    THEN End(c, "Broken") /\ UNCHANGED attempt
    ELSE /\ phase' = [phase EXCEPT ![c] = "inflight"]
         /\ attempt' = [attempt EXCEPT ![c] = @ + 1]
         /\ UNCHANGED <<reply, result>>

\* Wrong variant: inject_session() is forgotten.
StartWithoutSession(c) ==
    /\ phase[c] = "idle"
    /\ sess' = [sess EXCEPT ![c] = 0]
    /\ calm' = [calm EXCEPT ![c] = life = "up"]
    /\ IF http = 0 THEN End(c, "NotConnected") /\ UNCHANGED attempt ELSE Post(c)
    /\ UNCHANGED <<lifeVars, fmgVars>>

\* _call and multiplex up to the first await: build the payload, check that the
\* client is connected, post it.
Start(c) ==
    /\ phase[c] = "idle"
    /\ sess' = [sess EXCEPT ![c] = IF LoginSkipped THEN 0 ELSE token]
    /\ calm' = [calm EXCEPT ![c] = life = "up"]
    /\ \/ /\ http = 0 \/ MaxRetries = 0
          /\ End(c, IF http = 0 THEN "NotConnected" ELSE "FMGError")
          /\ UNCHANGED attempt
       \/ /\ http # 0 /\ MaxRetries > 0
          /\ Post(c)
    /\ UNCHANGED <<lifeVars, fmgVars>>

\* The answer to the current attempt is there.
AnswerArrives(c) ==
    /\ phase[c] = "inflight"
    /\ reply[c] # NoReply
    /\ End(c, CheckStatus(c, reply[c]))
    /\ UNCHANGED <<lifeVars, fmgVars, attempt, sess, calm>>

\* Wrong variant: the last attempt is followed by one more.
TransientFailureOnceMore(c) ==
    /\ Faults
    /\ phase[c] = "inflight"
    /\ IF attempt[c] <= MaxRetries
       THEN /\ phase' = [phase EXCEPT ![c] = "backoff"]
            /\ reply' = [reply EXCEPT ![c] = NoReply]
            /\ UNCHANGED result
       ELSE End(c, "FMGError")
    /\ UNCHANGED <<lifeVars, fmgVars, attempt, sess, calm>>

\* Wrong variant: the answer of a failed attempt is kept for the next one.
TransientFailureKeepsAnswer(c) ==
    /\ Faults
    /\ phase[c] = "inflight"
    /\ IF attempt[c] < MaxRetries
       THEN phase' = [phase EXCEPT ![c] = "backoff"] /\ UNCHANGED <<reply, result>>
       ELSE End(c, "FMGError")
    /\ UNCHANGED <<lifeVars, fmgVars, attempt, sess, calm>>

\* A retriable exception or HTTP status: back off, or FMGError after the last
\* attempt.
TransientFailure(c) ==
    /\ Faults
    /\ phase[c] = "inflight"
    /\ IF attempt[c] < MaxRetries
       THEN /\ phase' = [phase EXCEPT ![c] = "backoff"]
            /\ reply' = [reply EXCEPT ![c] = NoReply]
            /\ UNCHANGED result
       ELSE End(c, "FMGError")
    /\ UNCHANGED <<lifeVars, fmgVars, attempt, sess, calm>>

\* Wrong variant: without raise_for_status() an error page passes for an answer.
PermanentFailureIgnored(c) ==
    /\ Faults
    /\ phase[c] = "inflight"
    /\ End(c, "ok")
    /\ UNCHANGED <<lifeVars, fmgVars, attempt, sess, calm>>

\* Any other HTTP status is an FMGError at once; an answer that is no JSON-RPC
\* response and any other exception pass through as they are.
PermanentFailure(c) ==
    /\ Faults
    /\ phase[c] = "inflight"
    /\ \E r \in {"FMGError", "Raw"} : End(c, r)
    /\ UNCHANGED <<lifeVars, fmgVars, attempt, sess, calm>>

\* The sleep is over: the same payload is posted through whatever _http is now.
Wake(c) ==
    /\ phase[c] = "backoff"
    /\ Post(c)
    /\ UNCHANGED <<lifeVars, fmgVars, sess, calm>>

\* The caller's task is cancelled.
Cancel(c) ==
    /\ Faults
    /\ phase[c] \in {"inflight", "backoff"}
    /\ End(c, "Cancelled")
    /\ UNCHANGED <<lifeVars, fmgVars, attempt, sess, calm>>

-----------------------------------------------------------------------------
(* The specification *)

Call(c) ==
    \/ Start(c) \/ AnswerArrives(c) \/ TransientFailure(c)
    \/ PermanentFailure(c) \/ Wake(c) \/ Cancel(c)

Next ==
    \/ Lifecycle
    \/ \E c \in Calls : Call(c) \/ \E k \in 1 .. MaxRetries : Serve(c, k)

Spec == Init /\ [][Next]_vars

\* Every attempt ends: httpx's connect, read, write and pool timeouts bound it, and
\* a backoff is a bounded sleep.
Fairness ==
    \A c \in Calls :
        WF_vars(AnswerArrives(c) \/ TransientFailure(c) \/ PermanentFailure(c) \/ Wake(c))

FairSpec == Spec /\ Fairness

-----------------------------------------------------------------------------
(* Properties *)

\* The client keeps the contract that its users are built on: no more executions
\* than attempts, none of a call rejected up front, no result made up.
Contract == INSTANCE RpcContract WITH
    phase <- [c \in Calls |->
                CASE phase[c] = "idle" -> "idle"
                  [] phase[c] = "done" -> IF attempt[c] = 0 THEN "rejected" ELSE "done"
                  [] OTHER -> "running"]

KeepsContract == Contract!Spec

\* The bookkeeping behind the contract: FMG has seen only attempts that were sent,
\* executed only attempts it has seen, and an answer under way that takes an
\* execution has one behind it.
AttemptsAccountedFor ==
    \A c \in Calls :
        /\ executed[c] \subseteq served[c]
        /\ served[c] \subseteq 1 .. attempt[c]
        /\ phase[c] = "idle" => attempt[c] = 0
        /\ phase[c] \in {"inflight", "backoff"} => attempt[c] > 0
        /\ reply[c] \in {OK, OBJECT_NOT_FOUND, OBJECT_ALREADY_EXISTS} => executed[c] # {}

\* A result speaks of the last attempt: "ok" for an add or a delete means that this one
\* did it, an error that denies it that this one found it done or undone.  So only a call
\* that was retried can deny what it has done itself.
AnswersAreOwn ==
    \A c \in Calls :
        /\ result[c] = "ok" /\ Verb[c] \in {"add", "delete"} => attempt[c] \in effect[c]
        /\ result[c] \in {"NotFoundError", "DuplicateError"} =>
              attempt[c] \in executed[c] \ effect[c]

\* A call made on a client that is up, and stays so, is never denied for lack of a
\* session and never trips over a missing or closed httpx client.
CalmCalls ==
    \A c \in Calls :
        calm[c] => result[c] \notin {"AuthError", "NotConnected", "Broken"}

\* Sessions open at FMG that nobody will close: the client neither holds the token nor
\* is about to receive it.
Orphans == sessions \ ({token} \cup (IF life = "login" THEN {conns} ELSE {}))

\* A session is left to itself only by connecting over it, or because the network failed
\* while FMG was asked to open it (and then connect() raises) or to close it.  Nothing
\* else drops a live session: not a failing status check, not a close that goes well,
\* and no call.
OrphansHaveCause ==
    [][\A s \in Orphans' \ Orphans :
          \/ life = "login" /\ s = token
          \/ Faults /\ life = "login" /\ s = conns /\ life' = "failed"
          \/ Faults /\ life = "logout" /\ s = token]_vars

\* A client that was closed holds no token of an earlier life.
ClosedForgets == http = 0 => token = 0

\* The comment on _RETRIABLE_HTTP calls every verb safe to retry: an error then
\* never reports as undone what the call itself has done.
RetryIsSafe ==
    \A c \in Calls :
        result[c] \in {"NotFoundError", "DuplicateError"} => effect[c] = {}

\* The steps call c can still take, at most: an answer or a failure of each attempt, and
\* a post for each.
Left(c) ==
    CASE phase[c] = "idle" -> 2 * MaxRetries + 1
      [] phase[c] = "inflight" -> 2 * (MaxRetries - attempt[c]) + 1
      [] phase[c] = "backoff" -> 2 * (MaxRetries - attempt[c])
      [] OTHER -> 0

\* Every step of a call brings it closer to its end, and nothing else, not a reconnect
\* nor an answer that comes late, puts it back.
CallsRunDown ==
    [][\A c \in Calls :
          /\ Left(c)' <= Left(c)
          /\ Call(c) => Left(c)' < Left(c)]_vars

\* No call waits for ever.
CallsEnd == \A c \in Calls : (phase[c] = "inflight") ~> (phase[c] = "done")
=============================================================================
