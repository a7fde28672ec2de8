---------------------------- MODULE AtomicBatches ----------------------------
(***************************************************************************)
(* What a with block around a batch of writes promises: all of the batch    *)
(* becomes visible at once or none of it ever does; a block that succeeded  *)
(* has published; a block that aborted has not and never will.  When the    *)
(* caller cannot know (the publishing call itself failed), the batch is     *)
(* doubtful and may still appear, as a whole.                               *)
(***************************************************************************)
EXTENDS Naturals

CONSTANTS
    Batches,  \* one per with block
    Size      \* writes in a batch

VARIABLES
    store,    \* the writes everyone sees
    outcome   \* [Batches -> Outcomes]

vars == <<store, outcome>>

Outcomes == {"open", "succeeded", "aborted", "doubtful"}
Items(b) == {b} \X (1 .. Size)

TypeOK ==
    /\ store \subseteq Batches \X (1 .. Size)
    /\ outcome \in [Batches -> Outcomes]

Init ==
    /\ store = {}
    /\ outcome = [b \in Batches |-> "open"]

\* The batch becomes visible, unless its block is known to have aborted.
Publish(b) ==
    /\ outcome[b] \in {"open", "doubtful"}
    /\ store' = store \cup Items(b)
    /\ UNCHANGED outcome

Settle(b, o) ==
    /\ outcome[b] = "open"
    /\ outcome' = [outcome EXCEPT ![b] = o]
    /\ UNCHANGED store

\* The block ends without an exception: its batch is there.
Succeed(b) == Items(b) \subseteq store /\ Settle(b, "succeeded")

\* The block ends with one and nothing of its batch is there.
Abort(b) == Items(b) \cap store = {} /\ Settle(b, "aborted")

\* The block ends without telling.
Doubt(b) == Settle(b, "doubtful")

Next == \E b \in Batches : Publish(b) \/ Succeed(b) \/ Abort(b) \/ Doubt(b)

Spec == Init /\ [][Next]_vars
=============================================================================
