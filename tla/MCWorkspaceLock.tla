--------------------------- MODULE MCWorkspaceLock ---------------------------
(* Small instances of WorkspaceLock for TLC.                               *)
EXTENDS WorkspaceLock, TLC

CONSTANTS a1, a2, b, c, s1, s2, s3  \* model values

\* Worker a opens two contexts, a1 and a2, on one session; worker b has another.
Shared == (a1 :> s1) @@ (a2 :> s1) @@ (b :> s2)

\* Every context has a session of its own; the user of c may not lock.
Distinct == (a1 :> s1) @@ (b :> s2) @@ (c :> s3)

\* The default of workspace_enabled.
AllEnabled == [w \in Ctx |-> {TRUE}]

\* The operator of b may know that workspace mode is off, and say so.
SomeEnabled == [w \in Ctx |-> IF w = b THEN {TRUE, FALSE} ELSE {TRUE}]
=============================================================================
