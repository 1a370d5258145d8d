--------------------------- MODULE MCIdempotency ---------------------------
(* Calls with one of two bodies, all under one key. *)
EXTENDS Idempotency

CONSTANTS a1, a2, a3, b1, b2, s1, k1, A, B, w1, w2

MCKeyOf == [r \in Requests |-> k1]
MCBodyOf == [r \in Requests |-> IF r \in {b1, b2} THEN B ELSE A]

\* With two workers the first call arrives at one, the others at the other.
MCHostOf == [r \in Requests |-> IF r = a1 \/ Workers = {w1} THEN w1 ELSE w2]
=============================================================================
