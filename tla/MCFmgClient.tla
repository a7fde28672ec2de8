----------------------------- MODULE MCFmgClient -----------------------------
(* Small instances of FmgClient for TLC.                                   *)
EXTENDS FmgClient

CONSTANTS c1, c2, o  \* model values

\* Calls on one object: c1 adds it, another call deletes it.
OneTarget == [c \in Calls |-> o]
AddDelete == [c \in Calls |-> IF c = c1 THEN "add" ELSE "delete"]
=============================================================================
