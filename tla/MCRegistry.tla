------------------------------ MODULE MCRegistry ------------------------------
(* A small instance of Registry for TLC.                                   *)
EXTENDS Registry

CONSTANTS c1, c2  \* model values

T(prefix, parts, build) == [prefix |-> prefix, parts |-> parts, build |-> build]

\* A release that is there, a new one, and keys that no lookup arrives at.
SomeKeys ==
    {T("", <<7, 6>>, FALSE), T("", <<7, 8>>, FALSE), T("", <<8, 0>>, FALSE),
     T("", <<7, 6, 5>>, FALSE), T("v", <<7, 8>>, FALSE)}

SomeTexts ==
    {T("", <<7>>, FALSE), T("", <<7, 6>>, FALSE), T("v", <<7, 6, 5>>, TRUE),
     T("v", <<7, 8, 1>>, TRUE), T("", <<8, 0>>, FALSE)}
=============================================================================
