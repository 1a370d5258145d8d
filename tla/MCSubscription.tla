--------------------------- MODULE MCSubscription ---------------------------
(* One customer, whose events two workers process. *)
EXTENDS Subscription

CONSTANTS w1, w2
=============================================================================
