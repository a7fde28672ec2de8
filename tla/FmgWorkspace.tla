---------------------------- MODULE FmgWorkspace ----------------------------
(***************************************************************************)
(* The FortiManager side of one ADOM's workspace, as src/ relies on it.    *)
(* Nothing here is in the repository: the module is external and keeps     *)
(* only what core/locking.py and its tests take for granted.               *)
(*                                                                         *)
(* With workspace mode on, a session must own the ADOM lock to write; its  *)
(* writes stay pending until it commits, and unlocking drops what it did   *)
(* not commit.  With workspace mode off the lock endpoints answer -9 and   *)
(* every write takes effect at once.                                       *)
(*                                                                         *)
(* Each operator below is one request being executed: `s' is the session   *)
(* the request carries and `a' the answer it gets.                         *)
(***************************************************************************)

CONSTANTS
    NoSession,       \* nobody owns the lock
    WorkspaceModes,  \* SUBSET BOOLEAN: may the ADOM have workspace mode enabled?
    LockinfoExposed, \* BOOLEAN: this release serves the lockinfo endpoint
    RelockOutcomes,  \* SUBSET BOOLEAN: may the owner be granted its own lock again?
    Denied,          \* sessions without the permission to lock, answered -9
    CommitMayFail    \* BOOLEAN: FMG may refuse the owner's commit (validation)

VARIABLES
    owner,     \* session that owns the ADOM lock, or NoSession
    pending,   \* writes of the owner not committed yet
    committed, \* writes every session sees
    mode       \* BOOLEAN: workspace mode is enabled, which no request changes

serverVars == <<owner, pending, committed, mode>>

\* What a request can be answered.  "held" and "free" are lockinfo with
\* lock_state 1 and 0, "minus9" is FMG error -9, "refused" any other error.
ServerAnswers == {"ok", "free", "held", "minus9", "refused"}

ServerInit ==
    /\ owner = NoSession
    /\ pending = {}
    /\ committed = {}
    /\ mode \in WorkspaceModes

ServeLockinfo(a) ==
    /\ a = IF ~LockinfoExposed THEN "minus9"
           ELSE IF owner = NoSession THEN "free" ELSE "held"
    /\ UNCHANGED serverVars

\* The lock goes to whoever asks while it is free, and may ask.
GrantLock(s, a) ==
    /\ mode
    /\ s \notin Denied
    /\ owner = NoSession
    /\ owner' = s
    /\ a = "ok"
    /\ UNCHANGED <<pending, committed, mode>>

\* The owner asks again (a retry, or a later context of the same session).
RelockOwn(s, a) ==
    /\ mode
    /\ owner = s
    /\ \E granted \in RelockOutcomes : a = IF granted THEN "ok" ELSE "refused"
    /\ UNCHANGED serverVars

RefuseLock(s, a) ==
    /\ mode
    /\ s \notin Denied
    /\ owner \notin {s, NoSession}
    /\ a = "refused"
    /\ UNCHANGED serverVars

\* -9 is overloaded: workspace mode is off, or permission is denied.
LockNotSupported(s, a) ==
    /\ ~mode \/ s \in Denied
    /\ a = "minus9"
    /\ UNCHANGED serverVars

ServeLock(s, a) ==
    \/ GrantLock(s, a)
    \/ RelockOwn(s, a)
    \/ RefuseLock(s, a)
    \/ LockNotSupported(s, a)

\* GET /dvmdb/adom/{adom}: there or not.
ServeProbe(a) ==
    /\ a \in {"ok", "refused"}
    /\ UNCHANGED serverVars

ServeWrite(s, x, a) ==
    \/ /\ mode /\ owner = s
       /\ pending' = pending \cup {x}
       /\ a = "ok"
       /\ UNCHANGED <<owner, committed, mode>>
    \/ /\ mode /\ owner # s
       /\ a = "refused"
       /\ UNCHANGED serverVars
    \/ /\ ~mode
       /\ committed' = committed \cup {x}
       /\ a = "ok"
       /\ UNCHANGED <<owner, pending, mode>>

ServeCommit(s, a) ==
    \/ /\ owner = s
       /\ committed' = committed \cup pending
       /\ pending' = {}
       /\ a = "ok"
       /\ UNCHANGED <<owner, mode>>
    \/ /\ owner # s \/ CommitMayFail
       /\ a = "refused"
       /\ UNCHANGED serverVars

ServeUnlock(s, a) ==
    \/ /\ owner = s
       /\ owner' = NoSession
       /\ pending' = {}
       /\ a = "ok"
       /\ UNCHANGED <<committed, mode>>
    \/ /\ owner # s
       /\ a = "refused"
       /\ UNCHANGED serverVars
=============================================================================
