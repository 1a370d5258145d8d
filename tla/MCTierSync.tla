----------------------------- MODULE MCTierSync -----------------------------
(* One subscriber, whose events two workers process; a free and a paid tier. *)
EXTENDS TierSync

CONSTANTS w1, w2
=============================================================================
