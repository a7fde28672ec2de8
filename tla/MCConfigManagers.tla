--------------------------- MODULE MCConfigManagers ---------------------------
(* Small instances of ConfigManagers for TLC.                              *)
EXTENDS ConfigManagers, TLC

CONSTANTS u, v  \* model values

Op(kind, table, items) == [kind |-> kind, table |-> table, items |-> items]

\* The documented order: definitions, overrides, and then what refers to them.
Rollout ==
    <<Op("ensureVariables", "variable", <<<<2, "">>, <<1, "">>, <<2, "">>>>),
      Op("setPerDevice", "mapping", <<<<2, "x">>, <<1, "y">>>>)>>

\* A set_per_device without the definitions.
Hasty == <<Op("setPerDevice", "mapping", <<<<1, "x">>, <<2, "x">>>>)>>

Packages ==
    <<Op("upsert", "object", <<<<1, "x">>>>),
      Op("addMember", "child", <<<<1, "x">>>>)>>

\* A template, a rule, a look at another package before this one goes.
Cleanup ==
    <<Op("upsert", "template", <<<<1, "y">>>>),
      Op("upsert", "child", <<<<1, "y">>>>),
      Op("get", "object", <<<<2, "">>>>),
      Op("delete", "object", <<<<1, "">>>>)>>

Override ==
    <<Op("createIfMissing", "variable", <<<<1, "d">>>>),
      Op("setPerDevice", "mapping", <<<<1, "z">>>>),
      Op("getVariable", "variable", <<<<2, "">>>>)>>

Mixed == (u :> {Rollout, Hasty, Packages}) @@ (v :> {Override, Packages, Cleanup})

Sequential == [w \in Workers |-> {Rollout}]

R(minor) == <<7, minor>>
AllReleases == {R(4), R(6), R(8)}
To76 == {<<R(4), R(6)>>}
NoUpgrade == {}
Only76 == {R(6)}
=============================================================================
