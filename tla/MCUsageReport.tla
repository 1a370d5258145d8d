--------------------------- MODULE MCUsageReport ---------------------------
(* Four proxied calls and one look at the statistics. *)
EXTENDS UsageReport, TLC

CONSTANTS u1, u2, u3, u4, l1

\* The calls differ in nothing.
Symmetric == Permutations(Uses)
=============================================================================
