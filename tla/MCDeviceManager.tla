--------------------------- MODULE MCDeviceManager ---------------------------
(* Small instances of DeviceManager for TLC.                               *)
EXTENDS DeviceManager, TLC

CONSTANTS u, v, x  \* model values

\* u and v build the site up, x reads or tears it down.
SiteOps ==
    (u :> {"ensureDevice", "createDevice", "assign"}) @@
    (v :> {"ensureDevice", "ensureGroup", "assign"}) @@
    (x :> {"delete", "authorize", "members"})

\* Everybody sets up the group.
GroupOps == [w \in Workers |-> {"ensureGroup", "assign"}]
=============================================================================
