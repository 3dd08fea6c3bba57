------------------------- MODULE GenerationTracking -------------------------
(***************************************************************************)
(* What status.observedGeneration promises to a user who waits for a       *)
(* change to be rolled out: the resource is reported reconciled for the    *)
(* generation it has at that moment, or not at all.  A report never names  *)
(* a generation the user has replaced, and never goes back.                *)
(***************************************************************************)
EXTENDS Integers

VARIABLES generation, observed

Init == generation = 1 /\ observed = 0

Change == generation' = generation + 1 /\ UNCHANGED observed

Report == observed' = generation /\ UNCHANGED generation

Next == Change \/ Report

Spec == Init /\ [][Next]_<<generation, observed>>
=============================================================================
