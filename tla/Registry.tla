------------------------------- MODULE Registry -------------------------------
(***************************************************************************)
(* AdapterRegistry (versions/registry.py) as a process keeps it: the       *)
(* adapters that importing versions/ registers, those that a caller adds,  *)
(* and lookups in between.                                                  *)
(*                                                                         *)
(* register() takes its key as it is written; only get() normalises.       *)
(***************************************************************************)
EXTENDS Versions, TLC

CONSTANTS
    Classes,  \* adapter classes a caller may register
    Keys,     \* SUBSET Texts: keys it may register them under
    Asked     \* SUBSET Texts: versions it may look up

VARIABLES
    registry, \* _registry: [texts -> adapter class]
    asked,    \* the text of the last lookup
    answer    \* what the last call returned or raised

vars == <<registry, asked, answer>>

\* The text a key is when it is written down.
Written(key) == [prefix |-> "", parts |-> key, build |-> FALSE]

\* What get() answers.
Lookup(t) ==
    LET key == Written(Normalize(t))
    IN IF key \in DOMAIN registry THEN registry[key] ELSE "VersionError"

Init ==
    /\ registry = Written(<<7, 2>>) :> "FMG72Adapter" @@ Written(<<7, 4>>) :> "FMG74Adapter"
                      @@ Written(<<7, 6>>) :> "FMG76Adapter"
    /\ asked = Written(<<>>)
    /\ answer = "none"

\* A key is registered once; another class for it is a ValueError.
Register(k, c) ==
    /\ IF k \in DOMAIN registry
       THEN answer' = "ValueError" /\ UNCHANGED registry
       ELSE answer' = "registered" /\ registry' = registry @@ (k :> c)
    /\ UNCHANGED asked

Get(t) ==
    /\ asked' = t
    /\ answer' = Lookup(t)
    /\ UNCHANGED registry

Next ==
    \/ \E k \in Keys, c \in Classes : Register(k, c)
    \/ \E t \in Asked : Get(t)

Spec == Init /\ [][Next]_vars

-----------------------------------------------------------------------------
(* Property *)

\* A lookup of a major release alone finds the highest registered minor of it, as
\* versions/registry.py:9-10 says ("7" returns the highest registered minor for
\* major 7); it does not: get() looks for the key "7" only.
MajorFindsHighest ==
    \A k \in DOMAIN registry :
        /\ Len(asked.parts) = 1 /\ Len(k.parts) = 2 /\ k.parts[1] = asked.parts[1]
        /\ \A j \in DOMAIN registry :
              Len(j.parts) = 2 /\ j.parts[1] = k.parts[1] => j.parts[2] <= k.parts[2]
        => answer \in {registry[k], "registered", "ValueError"}
=============================================================================
