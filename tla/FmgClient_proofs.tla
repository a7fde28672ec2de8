-------------------------- MODULE FmgClient_proofs --------------------------
(***************************************************************************)
(* Type correctness of FmgClient, and: it implements RpcContract, whatever  *)
(* the number of calls and of retries and however calls, connects and       *)
(* disconnects interleave.                                                  *)
(***************************************************************************)
EXTENDS FmgClient, TLAPS

\* How a call can end keeps the types.
LEMMA EndType ==
    ASSUME TypeOK, NEW c \in Calls, NEW r \in Results, End(c, r)
    PROVE  /\ phase' \in [Calls -> Phases]
           /\ result' \in [Calls -> Results \cup {"none"}]
           /\ reply' \in [Calls -> Codes \cup {NoReply}]
  BY DEF TypeOK, End, Phases

\* So does a post, which sends one more attempt or fails at once.
LEMMA PostType ==
    ASSUME TypeOK, NEW c \in Calls, Post(c), attempt[c] < MaxRetries
    PROVE  /\ phase' \in [Calls -> Phases]
           /\ attempt' \in [Calls -> 0 .. MaxRetries]
           /\ result' \in [Calls -> Results \cup {"none"}]
           /\ reply' \in [Calls -> Codes \cup {NoReply}]
<1>1. CASE End(c, "Broken") /\ UNCHANGED attempt
  BY <1>1, EndType DEF TypeOK, Results
<1>2. CASE /\ phase' = [phase EXCEPT ![c] = "inflight"]
           /\ attempt' = [attempt EXCEPT ![c] = @ + 1]
           /\ UNCHANGED <<reply, result>>
  BY <1>2, ClientAssumption DEF TypeOK, Phases
<1>3. QED
  BY <1>1, <1>2 DEF Post

LEMMA CheckStatusType ==
    ASSUME NEW c, NEW code
    PROVE  CheckStatus(c, code) \in Results
  BY DEF CheckStatus, Results

-----------------------------------------------------------------------------
\* The variables keep their types; a call backs off only when it has attempts left.
IInv ==
    /\ TypeOK
    /\ \A c \in Calls : phase[c] = "backoff" => attempt[c] < MaxRetries
    /\ AttemptsAccountedFor

LifeType ==
    /\ life \in Lives
    /\ conns \in 0 .. MaxConnects
    /\ life = "down" \/ conns # 0
    /\ http \in 0 .. MaxConnects
    /\ token \in 0 .. MaxConnects
    /\ sessions \subseteq Logins

LEMMA LifecycleType ==
    ASSUME TypeOK, Lifecycle
    PROVE  /\ TypeOK'
           /\ UNCHANGED <<callVars, fmgVars>>
<1>1. UNCHANGED <<callVars, fmgVars>>
  BY DEF Lifecycle, Connect, LoginServed, LoginReturns, LoginFails,
         StatusReturns, StatusFails, Disconnect, LogoutServed, LogoutReturns,
         LogoutCancelled, Closed
<1>2. calm' \in [Calls -> BOOLEAN]
  BY DEF TypeOK, Lifecycle, Connect, LoginServed, LoginReturns, LoginFails,
         StatusReturns, StatusFails, Disconnect, LogoutServed, LogoutReturns,
         LogoutCancelled, Closed, Disturb
<1>3. LifeType'
  <2>1. LifeType
    BY DEF TypeOK, LifeType
  <2> USE <2>1, ClientAssumption DEF LifeType, Lives, Logins
  <2>2. CASE Connect
    BY <2>2 DEF Connect
  <2>3. CASE LoginServed
    BY <2>3 DEF LoginServed
  <2>4. CASE LoginReturns
    BY <2>4 DEF LoginReturns
  <2>5. CASE LoginFails
    <3>1. /\ UNCHANGED <<conns, http, token>>
          /\ life = "login" /\ life' = "failed"
          /\ sessions' \subseteq sessions \cup {conns}
      BY <2>5 DEF LoginFails
    <3>2. QED
      BY <3>1
  <2>6. CASE StatusReturns \/ StatusFails
    BY <2>6 DEF StatusReturns, StatusFails
  <2>7. CASE Disconnect
    BY <2>7 DEF Disconnect
  <2>8. CASE Closed
    BY <2>8 DEF Closed
  <2>9. CASE LogoutServed
    BY <2>9 DEF LogoutServed
  <2>10. CASE LogoutReturns \/ LogoutCancelled
    <3>1. /\ UNCHANGED <<conns, http, sessions>>
          /\ life = "logout" /\ life' \in {"closing", "failed"}
          /\ token' = 0
      BY <2>10 DEF LogoutReturns, LogoutCancelled
    <3>2. QED
      BY <3>1
  <2>11. QED
    BY <2>2, <2>3, <2>4, <2>5, <2>6, <2>7, <2>8, <2>9, <2>10 DEF Lifecycle
<1>4. QED
  BY <1>1, <1>2, <1>3 DEF TypeOK, LifeType, callVars, fmgVars

\* FMG executes an attempt, and tells its client only if that still listens.
LEMMA ServeIInv ==
    ASSUME IInv, NEW c \in Calls, NEW k \in 1 .. MaxRetries, Serve(c, k)
    PROVE  /\ IInv'
           /\ UNCHANGED <<phase, attempt, result>>
           /\ k \notin executed[c]
           /\ \/ executed' = executed
              \/ executed' = [executed EXCEPT ![c] = @ \cup {k}]
<1> USE ClientAssumption DEF IInv
<1>1. UNCHANGED <<lifeVars, phase, attempt, sess, result, calm>>
  BY DEF Serve
<1>2. PICK code \in Codes :
        /\ \/ executed' = [executed EXCEPT ![c] = @ \cup {k}]
           \/ executed' = executed /\ code \in {OTHER_ERROR, NO_PERMISSION}
        /\ objects' = objects \/ objects' = ObjectsAfter(c)
        /\ effect' = effect \/ effect' = [effect EXCEPT ![c] = @ \cup {k}]
        /\ reply' = reply \/ reply' = [reply EXCEPT ![c] = code]
  BY DEF Serve
<1>3. k \in 1 .. attempt[c] /\ k \notin served[c] /\ served' = [served EXCEPT ![c] = @ \cup {k}]
  BY DEF Serve
<1>4. objects' \subseteq Objects
  BY <1>2 DEF TypeOK, ObjectsAfter
<1>5. TypeOK'
  <2>1. /\ served' \in [Calls -> SUBSET (1 .. MaxRetries)]
        /\ executed' \in [Calls -> SUBSET (1 .. MaxRetries)]
        /\ effect' \in [Calls -> SUBSET (1 .. MaxRetries)]
    BY <1>2, <1>3 DEF TypeOK
  <2>2. reply' \in [Calls -> Codes \cup {NoReply}]
    BY <1>2 DEF TypeOK
  <2>3. QED
    BY <1>1, <1>4, <2>1, <2>2 DEF TypeOK, lifeVars
<1>6. AttemptsAccountedFor'
  <2> SUFFICES ASSUME NEW d \in Calls
               PROVE  /\ executed'[d] \subseteq served'[d]
                      /\ served'[d] \subseteq 1 .. attempt[d]
                      /\ reply'[d] \in {OK, OBJECT_NOT_FOUND, OBJECT_ALREADY_EXISTS}
                            => executed'[d] # {}
    BY <1>1 DEF AttemptsAccountedFor
  <2>1. /\ executed'[d] \subseteq served'[d]
        /\ served'[d] \subseteq 1 .. attempt[d]
    BY <1>2, <1>3 DEF TypeOK, AttemptsAccountedFor
  <2>2. CASE reply'[d] = reply[d]
    BY <1>2, <2>1, <2>2 DEF TypeOK, AttemptsAccountedFor
  <2>3. CASE d = c /\ reply'[c] = code
    <3>1. CASE executed' = [executed EXCEPT ![c] = @ \cup {k}]
      BY <2>1, <2>3, <3>1 DEF TypeOK
    <3>2. CASE code \in {OTHER_ERROR, NO_PERMISSION}
      BY <1>2, <2>1, <2>3, <3>2 DEF TypeOK, OK, OBJECT_NOT_FOUND, OBJECT_ALREADY_EXISTS,
         OTHER_ERROR, NO_PERMISSION
    <3>3. QED
      BY <1>2, <3>1, <3>2
  <2>4. QED
    BY <1>2, <2>1, <2>2, <2>3 DEF TypeOK
<1>7. QED
  BY <1>1, <1>2, <1>3, <1>5, <1>6 DEF AttemptsAccountedFor

\* The client's own steps of a call.
LEMMA CallIInv ==
    ASSUME IInv, NEW c \in Calls, Call(c)
    PROVE  IInv'
<1> USE ClientAssumption DEF IInv
<1>1. UNCHANGED <<lifeVars, fmgVars>>
  BY DEF Call, Start, AnswerArrives, TransientFailure, PermanentFailure, Wake,
         Cancel
<1>2. UNCHANGED <<life, conns, http, token, sessions, objects, served, executed,
                  effect>>
  BY <1>1 DEF lifeVars, fmgVars
<1>3. /\ sess' \in [Calls -> 0 .. MaxConnects]
      /\ calm' \in [Calls -> BOOLEAN]
  <2>1. CASE Start(c)
    <3>1. sess' \in [Calls -> 0 .. MaxConnects]
      BY <2>1 DEF TypeOK, Start
    <3>2. calm' = [calm EXCEPT ![c] = (life = "up")] /\ (life = "up") \in BOOLEAN
      BY <2>1 DEF Start
    <3>3. calm' \in [Calls -> BOOLEAN]
      BY <3>2, Zenon DEF TypeOK
    <3>4. QED
      BY <3>1, <3>3
  <2>2. CASE UNCHANGED <<sess, calm>>
    BY <2>2 DEF TypeOK
  <2>3. QED
    BY <2>1, <2>2 DEF Call, AnswerArrives, TransientFailure, PermanentFailure,
       Wake, Cancel
\* Each step ends the call, posts an attempt, or backs off.
<1>4. \/ (\E r \in Results : End(c, r)) /\ attempt' = attempt
      \/ Post(c) /\ attempt[c] < MaxRetries
      \/ /\ phase[c] = "inflight" /\ attempt[c] < MaxRetries
         /\ phase' = [phase EXCEPT ![c] = "backoff"]
         /\ reply' = [reply EXCEPT ![c] = NoReply]
         /\ UNCHANGED <<attempt, result>>
  <2>1. CASE Start(c)
    BY <2>1 DEF Start, Results, TypeOK, AttemptsAccountedFor
  <2>2. CASE AnswerArrives(c)
    BY <2>2, CheckStatusType DEF AnswerArrives
  <2>3. CASE TransientFailure(c)
    BY <2>3 DEF TransientFailure, Results
  <2>4. CASE PermanentFailure(c)
    BY <2>4 DEF PermanentFailure, Results
  <2>5. CASE Wake(c)
    BY <2>5 DEF Wake
  <2>6. CASE Cancel(c)
    BY <2>6 DEF Cancel, Results
  <2>7. QED
    BY <2>1, <2>2, <2>3, <2>4, <2>5, <2>6 DEF Call
<1>5. /\ phase' \in [Calls -> Phases]
      /\ attempt' \in [Calls -> 0 .. MaxRetries]
      /\ result' \in [Calls -> Results \cup {"none"}]
      /\ reply' \in [Calls -> Codes \cup {NoReply}]
  <2>1. CASE (\E r \in Results : End(c, r)) /\ attempt' = attempt
    BY <2>1, EndType DEF TypeOK
  <2>2. CASE Post(c) /\ attempt[c] < MaxRetries
    BY <2>2, PostType
  <2>3. CASE /\ phase' = [phase EXCEPT ![c] = "backoff"]
             /\ reply' = [reply EXCEPT ![c] = NoReply]
             /\ UNCHANGED <<attempt, result>>
    BY <2>3 DEF TypeOK, Phases
  <2>4. QED
    BY <1>4, <2>1, <2>2, <2>3
<1>6. TypeOK'
  BY <1>2, <1>3, <1>5 DEF TypeOK
<1>7. \A d \in Calls \ {c} : /\ phase'[d] = phase[d] /\ attempt'[d] = attempt[d]
                             /\ reply'[d] = reply[d]
  BY <1>4 DEF TypeOK, End, Post
<1>8. /\ attempt'[c] \in {attempt[c], attempt[c] + 1}
      /\ reply'[c] \in {reply[c], NoReply}
      /\ phase'[c] = "inflight" => attempt'[c] = attempt[c] + 1
      /\ phase'[c] = "backoff" => attempt'[c] = attempt[c] /\ phase[c] = "inflight"
                                  /\ attempt[c] < MaxRetries
      /\ phase'[c] # "idle"
  BY <1>4 DEF TypeOK, End, Post
<1>9. AttemptsAccountedFor'
  <2> SUFFICES ASSUME NEW d \in Calls
               PROVE  /\ executed[d] \subseteq served[d]
                      /\ served[d] \subseteq 1 .. attempt'[d]
                      /\ phase'[d] = "idle" => attempt'[d] = 0
                      /\ phase'[d] \in {"inflight", "backoff"} => attempt'[d] > 0
                      /\ reply'[d] \in {OK, OBJECT_NOT_FOUND, OBJECT_ALREADY_EXISTS}
                            => executed[d] # {}
    BY <1>2 DEF AttemptsAccountedFor
  <2>1. CASE d # c
    BY <1>7, <2>1 DEF AttemptsAccountedFor
  <2>2. CASE d = c
    <3>1. attempt[c] \in Nat
      BY DEF TypeOK
    <3>2. reply'[c] \in {OK, OBJECT_NOT_FOUND, OBJECT_ALREADY_EXISTS}
             => reply'[c] = reply[c]
      BY <1>8 DEF OK, OBJECT_NOT_FOUND, OBJECT_ALREADY_EXISTS, NoReply
    <3>3. QED
      BY <1>8, <2>2, <3>1, <3>2 DEF AttemptsAccountedFor
  <2>3. QED
    BY <2>1, <2>2
<1>10. \A d \in Calls : phase'[d] = "backoff" => attempt'[d] < MaxRetries
  BY <1>7, <1>8
<1>11. QED
  BY <1>6, <1>9, <1>10

\* A connect or disconnect leaves the calls as they are.
LEMMA LifecycleIInv ==
    ASSUME IInv, Lifecycle
    PROVE  IInv' /\ UNCHANGED <<callVars, fmgVars>>
<1>1. TypeOK' /\ UNCHANGED <<callVars, fmgVars>>
  BY LifecycleType DEF IInv
<1>2. QED
  BY <1>1 DEF IInv, AttemptsAccountedFor, callVars, fmgVars

\* Types, and attempts that add up, in every state of the client.
THEOREM Inductive == Spec => []IInv
<1>1. Init => IInv
  BY ClientAssumption
     DEF Init, IInv, TypeOK, AttemptsAccountedFor, Lives, Phases, Codes, Results,
         OK, OBJECT_NOT_FOUND, OBJECT_ALREADY_EXISTS, NoReply
<1>2. IInv /\ [Next]_vars => IInv'
  <2>1. ASSUME IInv, UNCHANGED vars
        PROVE  IInv'
    BY <2>1 DEF IInv, TypeOK, AttemptsAccountedFor, vars
  <2>2. QED
    BY <2>1, LifecycleIInv, CallIInv, ServeIInv DEF Next
<1>3. QED
  BY <1>1, <1>2, PTL DEF Spec

\* Every variable of the client keeps its type in every step.
THEOREM TypeCorrect == Spec => []TypeOK
<1>1. IInv => TypeOK
  BY DEF IInv
<1>2. QED
  BY <1>1, Inductive, PTL

\* FMG executes no attempt that was not sent, none twice, and no typed result is
\* made up: the inductive core of the contract.
THEOREM AttemptsCorrect == Spec => []AttemptsAccountedFor
<1>1. IInv => AttemptsAccountedFor
  BY DEF IInv
<1>2. QED
  BY <1>1, Inductive, PTL

-----------------------------------------------------------------------------
(* The refinement *)

\* The client implements the contract of a call: at most MaxRetries executions,
\* none for a call rejected up front, a typed answer only from an execution.
THEOREM ContractKept == Spec => KeepsContract
<1> USE DEF Contract!Results, Contract!Witnessed, Contract!Unwitnessed
<1>1. Init => Contract!Init
  BY DEF Init, Contract!Init
<1>2. ASSUME IInv, IInv', [Next]_vars
      PROVE  [Contract!Next]_(Contract!vars)
  <2>1. CASE UNCHANGED vars
    BY <2>1 DEF vars, Contract!vars
  <2>2. CASE Lifecycle
    <3>1. UNCHANGED <<phase, attempt, executed, result>>
      BY <1>2, <2>2, LifecycleType DEF IInv, callVars, fmgVars
    <3>2. QED
      BY <3>1 DEF Contract!vars
  <2>3. ASSUME NEW c \in Calls, NEW k \in 1 .. MaxRetries, Serve(c, k)
        PROVE  [Contract!Next]_(Contract!vars)
    <3>1. /\ UNCHANGED <<phase, attempt, result>>
          /\ k \notin executed[c]
          /\ \/ executed' = executed
             \/ executed' = [executed EXCEPT ![c] = @ \cup {k}]
      BY <1>2, <2>3, ServeIInv
    <3>2. phase[c] # "idle" /\ attempt[c] # 0
      BY <1>2, <2>3 DEF IInv, TypeOK, AttemptsAccountedFor, Serve
    <3>3. CASE executed' = executed
      BY <3>1, <3>3 DEF Contract!vars
    <3>4. CASE executed' = [executed EXCEPT ![c] = @ \cup {k}]
      <4>1. Contract!Execute(c, k)
        BY <3>1, <3>2, <3>4 DEF Contract!Execute
      <4>2. QED
        BY <4>1 DEF Contract!Next
    <3>5. QED
      BY <3>1, <3>3, <3>4
  <2>4. ASSUME NEW c \in Calls, Call(c)
        PROVE  [Contract!Next]_(Contract!vars)
    <3>1. executed' = executed
      BY <2>4 DEF Call, Start, AnswerArrives, TransientFailure,
         PermanentFailure, Wake, Cancel, fmgVars
    <3>2. TypeOK /\ attempt[c] \in Nat
      BY <1>2, ClientAssumption DEF IInv, TypeOK
    <3>3. ASSUME NEW r \in Results, End(c, r), UNCHANGED attempt,
                 phase[c] = "idle", r \in Contract!Unwitnessed
          PROVE  Contract!Reject(c, r)
      <4>1. attempt[c] = 0
        BY <1>2, <3>3 DEF IInv, AttemptsAccountedFor
      <4>2. QED
        BY <3>1, <3>2, <3>3, <4>1 DEF End, TypeOK, Contract!Reject
    <3>4. ASSUME NEW r \in Results, End(c, r), UNCHANGED attempt,
                 phase[c] \in {"inflight", "backoff"},
                 r \in Contract!Witnessed => executed[c] # {}
          PROVE  Contract!Return(c, r)
      <4>1. attempt[c] > 0
        BY <1>2, <3>2, <3>4 DEF IInv, AttemptsAccountedFor
      <4>2. attempt[c] # 0
        BY <3>2, <4>1
      <4>3. \A d \in Calls \ {c} : phase'[d] = phase[d] /\ attempt'[d] = attempt[d]
        BY <3>2, <3>4 DEF End, TypeOK
      <4>4. phase'[c] = "done" /\ attempt'[c] # 0
        BY <3>2, <3>4, <4>2 DEF End, TypeOK
      <4>5. result' = [result EXCEPT ![c] = r]
        BY <3>4 DEF End
      <4>6. QED
        BY <3>1, <3>4, <4>2, <4>3, <4>4, <4>5 DEF Contract!Return
    <3>5. ASSUME phase[c] = "idle",
                 phase' = [phase EXCEPT ![c] = "inflight"],
                 attempt' = [attempt EXCEPT ![c] = @ + 1], UNCHANGED result
          PROVE  Contract!Begin(c)
      BY <3>1, <3>2, <3>5 DEF TypeOK, Contract!Begin
    <3>6. ASSUME NEW next \in {"inflight", "backoff"},
                 phase[c] \in {"inflight", "backoff"},
                 phase' = [phase EXCEPT ![c] = next], UNCHANGED result,
                 \A d \in Calls \ {c} : attempt'[d] = attempt[d]
          PROVE  UNCHANGED Contract!vars
      BY <3>1, <3>2, <3>6 DEF TypeOK, Contract!vars
    <3>7. CASE Start(c)
      BY <3>3, <3>5, <3>7 DEF Start, Post, Results, Contract!Next
    <3>8. CASE AnswerArrives(c)
      <4>1. CheckStatus(c, reply[c]) \in Contract!Witnessed => executed[c] # {}
        BY <1>2, <3>8 DEF CheckStatus, IInv, AttemptsAccountedFor
      <4>2. QED
        BY <3>4, <3>8, <4>1, CheckStatusType DEF AnswerArrives, Results, Contract!Next
    <3>9. CASE TransientFailure(c)
      BY <3>4, <3>6, <3>9 DEF TransientFailure, Results, Contract!Next
    <3>10. CASE PermanentFailure(c) \/ Cancel(c)
      BY <3>4, <3>10 DEF PermanentFailure, Cancel, Results, Contract!Next
    <3>11. CASE Wake(c)
      <4>1. CASE End(c, "Broken") /\ UNCHANGED attempt
        BY <3>4, <3>11, <4>1 DEF Wake, Results, Contract!Next
      <4>2. CASE /\ phase' = [phase EXCEPT ![c] = "inflight"]
                 /\ attempt' = [attempt EXCEPT ![c] = @ + 1]
                 /\ UNCHANGED result
        BY <3>2, <3>6, <3>11, <4>2 DEF Wake, TypeOK
      <4>3. QED
        BY <3>11, <4>1, <4>2 DEF Wake, Post
    <3>12. QED
      BY <2>4, <3>7, <3>8, <3>9, <3>10, <3>11 DEF Call
  <2>5. QED
    BY <1>2, <2>1, <2>2, <2>3, <2>4 DEF Next
<1>3. QED
  BY <1>1, <1>2, Inductive, PTL DEF Spec, Contract!Spec, KeepsContract

-----------------------------------------------------------------------------
(* Sessions, and calls made in a calm *)

\* The token and the httpx client as connect() and disconnect() go along: a client that is
\* not down has an httpx client, one that is up has been authorised, and one that closes
\* has dropped its token.
SessionInv ==
    /\ ClosedForgets
    /\ life # "down" => http # 0
    /\ life = "closing" => token = 0
    /\ life = "login" => ~LoginSkipped
    /\ LoginSkipped => token = 0
    /\ life = "up" => Authorised(token)

\* A call that counts on the client carries its token.
CalmInv ==
    \A c \in Calls :
        /\ phase[c] = "idle" => reply[c] = NoReply /\ result[c] = "none"
        /\ calm[c] =>
              /\ result[c] \notin {"AuthError", "NotConnected", "Broken"}
              /\ phase[c] \in {"inflight", "backoff"} =>
                    life = "up" /\ sess[c] = token /\ reply[c] # NO_PERMISSION

\* connect() and disconnect() keep that, however they fail.
LEMMA LifecycleSessions ==
    ASSUME TypeOK, SessionInv, Lifecycle PROVE SessionInv'
<1> USE DEF SessionInv, ClosedForgets, LoginSkipped, Authorised
<1>1. CASE Connect
  BY <1>1, ClientAssumption DEF Connect, TypeOK, LoginSkipped
<1>2. CASE LoginServed
  BY <1>2 DEF LoginServed
<1>3. CASE LoginReturns
  BY <1>3 DEF LoginReturns
<1>4. CASE LoginFails
  BY <1>4 DEF LoginFails
<1>5. CASE StatusReturns
  BY <1>5 DEF StatusReturns
<1>6. CASE StatusFails
  BY <1>6 DEF StatusFails
<1>7. CASE Disconnect
  BY <1>7 DEF Disconnect
<1>8. CASE LogoutServed
  BY <1>8 DEF LogoutServed
<1>9. CASE LogoutReturns
  BY <1>9 DEF LogoutReturns
<1>10. CASE LogoutCancelled
  BY <1>10 DEF LogoutCancelled
<1>11. CASE Closed
  BY <1>11 DEF Closed
<1>12. QED
  BY <1>1, <1>2, <1>3, <1>4, <1>5, <1>6, <1>7, <1>8, <1>9, <1>10, <1>11 DEF Lifecycle

\* Whatever ends the session or closes the httpx client disturbs the calls first.
LEMMA LifecycleCalm ==
    ASSUME TypeOK, SessionInv, CalmInv, Lifecycle PROVE CalmInv'
<1>1. UNCHANGED <<phase, sess, reply, result>>
  BY LifecycleType DEF callVars, fmgVars
<1>2. CASE Connect \/ Disconnect
  <2>1. \A c \in Calls : ~calm'[c]
    BY <1>2 DEF Connect, Disconnect, Disturb
  <2>2. QED
    BY <1>1, <2>1 DEF CalmInv
<1>3. CASE ~(Connect \/ Disconnect)
  <2>1. life # "up" /\ calm' = calm
    BY <1>3 DEF Lifecycle, LoginServed, LoginReturns, LoginFails, StatusReturns,
       StatusFails, LogoutServed, LogoutReturns, LogoutCancelled, Closed
  <2>2. QED
    BY <1>1, <2>1 DEF CalmInv
<1>4. QED
  BY <1>2, <1>3

LEMMA ServeCalm ==
    ASSUME TypeOK, SessionInv, CalmInv, NEW c \in Calls, NEW k \in 1 .. MaxRetries, Serve(c, k)
    PROVE  CalmInv'
<1>1. UNCHANGED <<life, http, token, sessions, phase, sess, result, calm>>
  BY DEF Serve, lifeVars
<1>2. PICK code \in Codes :
        /\ Authorised(sess[c]) => code # NO_PERMISSION
        /\ reply' = IF phase[c] = "inflight" /\ k = attempt[c]
                    THEN [reply EXCEPT ![c] = code] ELSE reply
  BY DEF Serve, Outcome, OK, OBJECT_NOT_FOUND, OBJECT_ALREADY_EXISTS, NO_PERMISSION,
     OTHER_ERROR
<1>3. ASSUME NEW d \in Calls
      PROVE  \/ reply'[d] = reply[d]
             \/ d = c /\ phase[c] = "inflight" /\ reply'[c] = code
  BY <1>2 DEF TypeOK
<1>4. QED
  BY <1>1, <1>2, <1>3 DEF CalmInv, SessionInv

LEMMA CallCalm ==
    ASSUME IInv, SessionInv, CalmInv, NEW c \in Calls, Call(c)
    PROVE  CalmInv'
<1> USE DEF IInv
<1>1. UNCHANGED <<life, http, token, sessions>>
  BY DEF Call, Start, AnswerArrives, TransientFailure, PermanentFailure, Wake, Cancel,
     lifeVars
<1>2. \A d \in Calls \ {c} :
         /\ phase'[d] = phase[d] /\ reply'[d] = reply[d] /\ result'[d] = result[d]
         /\ sess'[d] = sess[d] /\ calm'[d] = calm[d]
  BY DEF TypeOK, Call, Start, AnswerArrives, TransientFailure, PermanentFailure, Wake,
     Cancel, End, Post
<1> SUFFICES /\ phase'[c] # "idle"
             /\ calm'[c] =>
                   /\ result'[c] \notin {"AuthError", "NotConnected", "Broken"}
                   /\ phase'[c] \in {"inflight", "backoff"} =>
                         life = "up" /\ sess'[c] = token /\ reply'[c] # NO_PERMISSION
  BY <1>1, <1>2 DEF CalmInv
<1>3. NoReply # NO_PERMISSION
  BY DEF NoReply, NO_PERMISSION
<1>4. ASSUME NEW r, End(c, r)
      PROVE  phase'[c] = "done" /\ result'[c] = r /\ reply'[c] = NoReply
  BY <1>4 DEF End, TypeOK
<1>5. CASE Start(c)
  <2>1. calm'[c] <=> life = "up"
    BY <1>5 DEF Start, TypeOK
  <2>2. sess'[c] = token
    BY <1>5 DEF Start, TypeOK, SessionInv
  <2>3. life = "up" => http # 0
    BY DEF SessionInv
  <2>4. reply[c] = NoReply /\ result[c] = "none"
    BY <1>5 DEF Start, CalmInv
  <2>5. QED
    BY <1>3, <1>4, <1>5, <2>1, <2>2, <2>3, <2>4 DEF Start, Post, TypeOK
<1>6. CASE AnswerArrives(c)
  <2>1. calm'[c] = calm[c] /\ phase[c] = "inflight" /\ End(c, CheckStatus(c, reply[c]))
    BY <1>6 DEF AnswerArrives
  <2>2. calm[c] => reply[c] # NO_PERMISSION
    BY <2>1 DEF CalmInv
  <2>3. calm[c] => CheckStatus(c, reply[c]) \notin {"AuthError", "NotConnected", "Broken"}
    BY <2>2 DEF CheckStatus
  <2>4. QED
    BY <1>4, <2>1, <2>3
<1>7. CASE TransientFailure(c)
  BY <1>3, <1>4, <1>7 DEF TransientFailure, CalmInv, TypeOK
<1>8. CASE PermanentFailure(c)
  BY <1>4, <1>8 DEF PermanentFailure
<1>9. CASE Wake(c)
  BY <1>4, <1>9 DEF Wake, Post, CalmInv, SessionInv, TypeOK
<1>10. CASE Cancel(c)
  BY <1>4, <1>10 DEF Cancel
<1>11. QED
  BY <1>5, <1>6, <1>7, <1>8, <1>9, <1>10 DEF Call

\* The token is where it belongs, and calm calls have it.
LEMMA SessionsInductive == Spec => [](SessionInv /\ CalmInv)
<1>1. Init => SessionInv /\ CalmInv
  BY DEF Init, SessionInv, ClosedForgets, CalmInv, NoReply
<1>2. IInv /\ SessionInv /\ CalmInv /\ [Next]_vars => (SessionInv /\ CalmInv)'
  <2> SUFFICES ASSUME IInv, SessionInv, CalmInv, [Next]_vars
               PROVE  SessionInv' /\ CalmInv'
    OBVIOUS
  <2>1. CASE Lifecycle
    BY <2>1, LifecycleSessions, LifecycleCalm DEF IInv
  <2>2. ASSUME NEW c \in Calls, Call(c) PROVE SessionInv' /\ CalmInv'
    <3>1. UNCHANGED lifeVars
      BY <2>2 DEF Call, Start, AnswerArrives, TransientFailure, PermanentFailure, Wake,
         Cancel
    <3>2. SessionInv'
      BY <3>1 DEF lifeVars, SessionInv, ClosedForgets, Authorised
    <3>3. QED
      BY <2>2, <3>2, CallCalm
  <2>3. ASSUME NEW c \in Calls, NEW k \in 1 .. MaxRetries, Serve(c, k)
        PROVE  SessionInv' /\ CalmInv'
    <3>1. UNCHANGED lifeVars
      BY <2>3 DEF Serve
    <3>2. SessionInv'
      BY <3>1 DEF lifeVars, SessionInv, ClosedForgets, Authorised
    <3>3. QED
      BY <2>3, <3>2, ServeCalm DEF IInv
  <2>4. CASE UNCHANGED vars
    BY <2>4 DEF vars, SessionInv, ClosedForgets, Authorised, CalmInv
  <2>5. QED
    BY <2>1, <2>2, <2>3, <2>4 DEF Next
<1>3. QED
  BY <1>1, <1>2, Inductive, PTL DEF Spec

\* A step that drops a live session is one of the three that may.
LEMMA DropHasCause ==
    ASSUME [Next]_vars, NEW s \in Orphans' \ Orphans
    PROVE  \/ life = "login" /\ s = token
           \/ Faults /\ life = "login" /\ s = conns /\ life' = "failed"
           \/ Faults /\ life = "logout" /\ s = token
<1> USE DEF Orphans
<1>1. CASE UNCHANGED <<life, conns, token, sessions>>
  BY <1>1
<1>2. CASE Connect \/ Disconnect
  BY <1>2 DEF Connect, Disconnect
<1>3. CASE LoginServed
  BY <1>3 DEF LoginServed
<1>4. CASE LoginReturns
  BY <1>4 DEF LoginReturns
<1>5. CASE LoginFails
  BY <1>5 DEF LoginFails
<1>6. CASE StatusReturns \/ StatusFails \/ Closed
  BY <1>6 DEF StatusReturns, StatusFails, Closed
<1>7. CASE LogoutServed
  BY <1>7 DEF LogoutServed
<1>8. CASE LogoutReturns \/ LogoutCancelled
  BY <1>8 DEF LogoutReturns, LogoutCancelled
<1>9. ASSUME NEW c \in Calls, Call(c) \/ \E k \in 1 .. MaxRetries : Serve(c, k)
      PROVE  UNCHANGED <<life, conns, token, sessions>>
  BY <1>9 DEF Call, Start, AnswerArrives, TransientFailure, PermanentFailure, Wake,
     Cancel, Serve, lifeVars
<1>10. QED
  BY <1>1, <1>2, <1>3, <1>4, <1>5, <1>6, <1>7, <1>8, <1>9 DEF Next, Lifecycle, vars

\* Whatever fails, a session is left open at FMG with nobody to close it only by
\* connecting over it, or because the network failed in its login or its logout; without
\* faults, only by connecting over it.
THEOREM OrphansExplained == Spec => OrphansHaveCause
<1>1. [Next]_vars =>
         [\A s \in Orphans' \ Orphans :
             \/ life = "login" /\ s = token
             \/ Faults /\ life = "login" /\ s = conns /\ life' = "failed"
             \/ Faults /\ life = "logout" /\ s = token]_vars
  BY DropHasCause
<1>2. QED
  BY <1>1, PTL DEF Spec, OrphansHaveCause

\* A client that is closed holds no token.
THEOREM ClosedHasNoToken == Spec => []ClosedForgets
<1>1. SessionInv => ClosedForgets
  BY DEF SessionInv
<1>2. QED
  BY <1>1, SessionsInductive, PTL

\* A call made on a client that is up, and stays so, is never denied for lack of a session
\* and finds the httpx client open, on each of its attempts.
THEOREM CalmCallsServed == Spec => []CalmCalls
<1>1. CalmInv => CalmCalls
  BY DEF CalmInv, CalmCalls
<1>2. QED
  BY <1>1, SessionsInductive, PTL

-----------------------------------------------------------------------------
(* Results and the attempts they speak of *)

\* What code tells of attempt k of call c.
Tells(c, k, code) ==
    /\ code = OK /\ Verb[c] \in {"add", "delete"} => k \in effect[c]
    /\ code \in {OBJECT_NOT_FOUND, OBJECT_ALREADY_EXISTS} => k \in executed[c] \ effect[c]

\* An answer under way is that to the last attempt, and a call has at most one result.
OwnInv ==
    \A c \in Calls :
        /\ effect[c] \subseteq executed[c]
        /\ phase[c] # "done" => result[c] = "none"
        /\ phase[c] # "inflight" => reply[c] = NoReply
        /\ Tells(c, attempt[c], reply[c])
        /\ result[c] = "ok" /\ Verb[c] \in {"add", "delete"} => attempt[c] \in effect[c]
        /\ result[c] \in {"NotFoundError", "DuplicateError"} =>
              attempt[c] \in executed[c] \ effect[c]

LEMMA NoReplyTells == ASSUME NEW c, NEW k PROVE Tells(c, k, NoReply)
  BY DEF Tells, NoReply, OK, OBJECT_NOT_FOUND, OBJECT_ALREADY_EXISTS

\* What FMG says of an attempt that it has just executed, or refused, is so.
LEMMA ServedTells ==
    ASSUME TypeOK, AttemptsAccountedFor, OwnInv, NEW c \in Calls, NEW k \in 1 .. MaxRetries,
           NEW code, k \notin served[c],
           \/ /\ code = Outcome(c)
              /\ executed' = [executed EXCEPT ![c] = @ \cup {k}]
              /\ objects' = ObjectsAfter(c)
              /\ effect' = IF objects' = objects THEN effect
                           ELSE [effect EXCEPT ![c] = @ \cup {k}]
           \/ /\ code \in {OTHER_ERROR, NO_PERMISSION}
              /\ UNCHANGED <<executed, objects, effect>>
    PROVE  Tells(c, k, code)' /\ effect'[c] \subseteq executed'[c]
<1>1. k \notin executed[c] /\ k \notin effect[c] /\ effect[c] \subseteq executed[c]
  BY DEF AttemptsAccountedFor, OwnInv
<1>2. CASE /\ code \in {OTHER_ERROR, NO_PERMISSION}
           /\ UNCHANGED <<executed, objects, effect>>
  BY <1>1, <1>2 DEF Tells, OK, OBJECT_NOT_FOUND, OBJECT_ALREADY_EXISTS, OTHER_ERROR,
                    NO_PERMISSION
<1>3. CASE /\ code = Outcome(c)
           /\ executed' = [executed EXCEPT ![c] = @ \cup {k}]
           /\ objects' = ObjectsAfter(c)
           /\ effect' = IF objects' = objects THEN effect
                        ELSE [effect EXCEPT ![c] = @ \cup {k}]
  <2>1. executed'[c] = executed[c] \cup {k}
    BY <1>3 DEF TypeOK
  <2>2. CASE objects' = objects
    <3>1. effect' = effect
      BY <1>3, <2>2
    <3>2. ~(code = OK /\ Verb[c] \in {"add", "delete"})
      BY <1>3, <2>2 DEF Outcome, ObjectsAfter, OK, OBJECT_NOT_FOUND, OBJECT_ALREADY_EXISTS
    <3>3. QED
      BY <1>1, <2>1, <3>1, <3>2 DEF Tells
  <2>3. CASE objects' # objects
    <3>1. effect'[c] = effect[c] \cup {k}
      BY <1>3, <2>3 DEF TypeOK
    <3>2. Verb[c] \in {"set", "add", "multiplex", "delete"}
      BY <1>3, <2>3 DEF ObjectsAfter
    <3>3. code = OK
      BY <1>3, <2>3, <3>2 DEF Outcome, ObjectsAfter
    <3>4. QED
      BY <1>1, <2>1, <3>1, <3>3
         DEF Tells, OK, OBJECT_NOT_FOUND, OBJECT_ALREADY_EXISTS
  <2>4. QED
    BY <2>2, <2>3
<1>4. QED
  BY <1>2, <1>3

LEMMA ServeOwn ==
    ASSUME IInv, OwnInv, NEW c \in Calls, NEW k \in 1 .. MaxRetries, Serve(c, k)
    PROVE  OwnInv'
<1> USE DEF IInv
<1>1. UNCHANGED <<phase, attempt, result>> /\ k \notin served[c]
  BY DEF Serve
<1>2. PICK code \in Codes :
        /\ \/ /\ code = Outcome(c)
              /\ executed' = [executed EXCEPT ![c] = @ \cup {k}]
              /\ objects' = ObjectsAfter(c)
              /\ effect' = IF objects' = objects THEN effect
                           ELSE [effect EXCEPT ![c] = @ \cup {k}]
           \/ /\ code \in {OTHER_ERROR, NO_PERMISSION}
              /\ UNCHANGED <<executed, objects, effect>>
        /\ reply' = IF phase[c] = "inflight" /\ k = attempt[c]
                    THEN [reply EXCEPT ![c] = code] ELSE reply
  BY DEF Serve
<1>3. Tells(c, k, code)' /\ effect'[c] \subseteq executed'[c]
  BY <1>1, <1>2, ServedTells
<1>4. ASSUME NEW d \in Calls
      PROVE  /\ d # c => executed'[d] = executed[d] /\ effect'[d] = effect[d]
             /\ executed[d] \subseteq executed'[d] /\ effect[d] \subseteq effect'[d]
             /\ effect'[d] \subseteq effect[d] \cup {k}
  BY <1>2 DEF TypeOK
<1>5. ASSUME NEW d \in Calls PROVE effect'[d] \subseteq executed'[d]
  BY <1>3, <1>4 DEF OwnInv
\* What was said of an attempt FMG has already seen stays true.
<1>6. ASSUME NEW d \in Calls, NEW j, j \in executed[d] \ effect[d]
      PROVE  j \in executed'[d] \ effect'[d]
  <2>1. CASE d = c
    <3>1. j # k
      BY <1>1, <1>6, <2>1 DEF AttemptsAccountedFor
    <3>2. QED
      BY <1>4, <1>6, <3>1
  <2>2. CASE d # c
    BY <1>4, <1>6, <2>2
  <2>3. QED
    BY <2>1, <2>2
<1>7. ASSUME NEW d \in Calls PROVE Tells(d, attempt[d], reply[d])'
  <2>1. CASE reply'[d] = reply[d]
    <3>1. Tells(d, attempt[d], reply[d])
      BY DEF OwnInv
    <3>2. QED
      BY <1>1, <1>4, <1>6, <2>1, <3>1 DEF Tells
  <2>2. CASE reply'[d] # reply[d]
    <3>1. d = c /\ k = attempt[c] /\ reply'[d] = code
      BY <1>2, <2>2 DEF TypeOK
    <3>2. QED
      BY <1>1, <1>3, <3>1 DEF Tells
  <2>3. QED
    BY <2>1, <2>2
<1>8. ASSUME NEW d \in Calls, phase[d] # "inflight" PROVE reply'[d] = NoReply
  BY <1>2, <1>8 DEF OwnInv, TypeOK
<1>9. ASSUME NEW d \in Calls
      PROVE  /\ effect'[d] \subseteq executed'[d]
             /\ phase'[d] # "done" => result'[d] = "none"
             /\ phase'[d] # "inflight" => reply'[d] = NoReply
             /\ Tells(d, attempt[d], reply[d])'
             /\ result'[d] = "ok" /\ Verb[d] \in {"add", "delete"} =>
                   attempt'[d] \in effect'[d]
             /\ result'[d] \in {"NotFoundError", "DuplicateError"} =>
                   attempt'[d] \in executed'[d] \ effect'[d]
  <2>1. /\ phase[d] # "done" => result[d] = "none"
        /\ result[d] = "ok" /\ Verb[d] \in {"add", "delete"} => attempt[d] \in effect[d]
        /\ result[d] \in {"NotFoundError", "DuplicateError"} =>
              attempt[d] \in executed[d] \ effect[d]
    BY DEF OwnInv
  <2>2. Tells(d, attempt[d], reply[d])'
    BY <1>7
  <2>3. result[d] = "ok" /\ Verb[d] \in {"add", "delete"} => attempt[d] \in effect'[d]
    BY <1>4, <2>1
  <2>4. result[d] \in {"NotFoundError", "DuplicateError"} =>
           attempt[d] \in executed'[d] \ effect'[d]
    BY <1>6, <2>1
  <2>5. QED
    BY <1>1, <1>5, <1>8, <2>1, <2>2, <2>3, <2>4
<1>10. QED
  BY <1>9 DEF OwnInv

LEMMA CallOwn ==
    ASSUME IInv, OwnInv, NEW c \in Calls, Call(c) PROVE OwnInv'
<1> USE DEF IInv
<1>1. UNCHANGED <<executed, effect>>
  BY DEF Call, Start, AnswerArrives, TransientFailure, PermanentFailure, Wake, Cancel,
         fmgVars
<1>2. \A d \in Calls \ {c} : /\ phase'[d] = phase[d] /\ attempt'[d] = attempt[d]
                             /\ reply'[d] = reply[d] /\ result'[d] = result[d]
  BY DEF TypeOK, Call, Start, AnswerArrives, TransientFailure, PermanentFailure, Wake,
     Cancel, End, Post
<1>3. Tells(c, attempt[c], reply[c]) /\ (phase[c] # "inflight" => reply[c] = NoReply)
  BY DEF OwnInv
<1>4. \/ phase'[c] = "inflight" /\ phase[c] # "inflight" /\ UNCHANGED <<reply, result>>
      \/ phase'[c] = "backoff" /\ reply'[c] = NoReply /\ UNCHANGED result
      \/ /\ phase'[c] = "done" /\ reply'[c] = NoReply /\ attempt'[c] = attempt[c]
         /\ \/ result'[c] \notin {"ok", "NotFoundError", "DuplicateError"}
            \/ result'[c] = CheckStatus(c, reply[c])
  BY DEF TypeOK, Call, Start, AnswerArrives, TransientFailure, PermanentFailure, Wake,
     Cancel, End, Post
<1>5. phase[c] # "done" /\ result[c] = "none"
  BY DEF OwnInv, Call, Start, AnswerArrives, TransientFailure, PermanentFailure, Wake, Cancel
<1>6. /\ CheckStatus(c, reply[c]) = "ok" => reply[c] = OK
      /\ CheckStatus(c, reply[c]) \in {"NotFoundError", "DuplicateError"} =>
            reply[c] \in {OBJECT_NOT_FOUND, OBJECT_ALREADY_EXISTS}
  BY DEF CheckStatus
<1>7. /\ phase'[c] # "done" => result'[c] = "none"
      /\ phase'[c] # "inflight" => reply'[c] = NoReply
      /\ reply'[c] = NoReply
      /\ result'[c] = "ok" /\ Verb[c] \in {"add", "delete"} => attempt'[c] \in effect[c]
      /\ result'[c] \in {"NotFoundError", "DuplicateError"} =>
            attempt'[c] \in executed[c] \ effect[c]
  BY <1>3, <1>4, <1>5, <1>6 DEF Tells
<1>8. Tells(c, attempt[c], reply[c])'
  BY <1>7, NoReplyTells, <1>1 DEF Tells, NoReply, OK, OBJECT_NOT_FOUND, OBJECT_ALREADY_EXISTS
<1>9. \A d \in Calls \ {c} : Tells(d, attempt[d], reply[d])'
  BY <1>1, <1>2 DEF OwnInv, Tells
<1>10. QED
  BY <1>1, <1>2, <1>7, <1>8, <1>9 DEF OwnInv

\* "ok" for an add or a delete means that the last attempt did it; NotFoundError and
\* DuplicateError that it found it done, or undone: by somebody else, or by an attempt
\* that this call made before (_post_payload's loop, core/client.py).
THEOREM OwnAnswers == Spec => []AnswersAreOwn
<1>1. Init => OwnInv
  <2> SUFFICES ASSUME Init, NEW c \in Calls
               PROVE  /\ effect[c] = {} /\ phase[c] = "idle" /\ result[c] = "none"
                      /\ reply[c] = NoReply
    BY NoReplyTells DEF OwnInv
  <2>1. QED
    BY DEF Init
<1>2. IInv /\ OwnInv /\ [Next]_vars => OwnInv'
  <2> SUFFICES ASSUME IInv, OwnInv, [Next]_vars PROVE OwnInv'
    OBVIOUS
  <2>1. CASE Lifecycle
    BY <2>1, LifecycleType DEF IInv, OwnInv, Tells, callVars, fmgVars
  <2>2. CASE UNCHANGED vars
    BY <2>2 DEF vars, OwnInv, Tells
  <2>3. QED
    BY <2>1, <2>2, ServeOwn, CallOwn DEF Next
<1>3. OwnInv => AnswersAreOwn
  BY DEF OwnInv, AnswersAreOwn
<1>4. QED
  BY <1>1, <1>2, <1>3, Inductive, PTL DEF Spec

\* Each step of a call brings it closer to its end, for any max_retries; no reconnect,
\* disconnect or late answer puts it back.  What is missing to CallsEnd is fairness.
THEOREM RunDown == Spec => CallsRunDown
<1>1. ASSUME IInv, IInv', [Next]_vars, NEW c \in Calls
      PROVE  Left(c)' <= Left(c) /\ (Call(c) => Left(c)' < Left(c))
  <2>1. /\ MaxRetries \in Nat /\ attempt[c] \in 0 .. MaxRetries
        /\ attempt'[c] \in 0 .. MaxRetries
        /\ phase[c] = "backoff" => attempt[c] < MaxRetries
        /\ phase'[c] = "backoff" => attempt'[c] < MaxRetries
        /\ phase[c] = "idle" => attempt[c] = 0
    BY <1>1, ClientAssumption DEF IInv, TypeOK, AttemptsAccountedFor
  <2>2. CASE phase'[c] = phase[c] /\ attempt'[c] = attempt[c] /\ ~Call(c)
    BY <2>1, <2>2 DEF Left
  <2>3. CASE Call(c)
    <3>1. \/ phase[c] # "done" /\ phase'[c] = "done" /\ attempt'[c] = attempt[c]
          \/ /\ phase[c] \in {"idle", "backoff"} /\ phase'[c] = "inflight"
             /\ attempt'[c] = attempt[c] + 1
          \/ /\ phase[c] = "inflight" /\ phase'[c] = "backoff" /\ attempt'[c] = attempt[c]
      BY <1>1, <2>3 DEF IInv, TypeOK, Call, Start, AnswerArrives, TransientFailure,
         PermanentFailure, Wake, Cancel, End, Post
    <3>2. phase[c] \in {"idle", "inflight", "backoff", "done"}
      BY <1>1 DEF IInv, TypeOK, Phases
    <3>3. QED
      BY <2>1, <3>1, <3>2 DEF Left
  <2>4. CASE ~Call(c)
    <3>1. phase'[c] = phase[c] /\ attempt'[c] = attempt[c]
      <4>1. CASE Lifecycle
        BY <1>1, <4>1, LifecycleType DEF IInv, callVars
      <4>2. ASSUME NEW d \in Calls, Call(d), d # c
            PROVE  phase'[c] = phase[c] /\ attempt'[c] = attempt[c]
        BY <1>1, <4>2 DEF IInv, TypeOK, Call, Start, AnswerArrives, TransientFailure,
           PermanentFailure, Wake, Cancel, End, Post
      <4>3. ASSUME NEW d \in Calls, NEW k \in 1 .. MaxRetries, Serve(d, k)
            PROVE  phase'[c] = phase[c] /\ attempt'[c] = attempt[c]
        BY <4>3 DEF Serve
      <4>4. CASE UNCHANGED vars
        BY <4>4 DEF vars
      <4>5. QED
        BY <1>1, <2>4, <4>1, <4>2, <4>3, <4>4 DEF Next
    <3>2. QED
      BY <2>2, <2>4, <3>1
  <2>5. QED
    BY <2>3, <2>4
<1>2. IInv /\ IInv' /\ [Next]_vars =>
         [\A c \in Calls : /\ Left(c)' <= Left(c)
                           /\ Call(c) => Left(c)' < Left(c)]_vars
  BY <1>1
<1>3. QED
  BY <1>2, Inductive, PTL DEF Spec, CallsRunDown
=============================================================================
