----------------------------- MODULE MCFreeTier -----------------------------
(* Callers of the free tier and small limits. *)
EXTENDS FreeTier

CONSTANTS w1, w2

\* All behind one address and with one key: anne asks with an idempotency key, sue for a
\* stream, bob over HTTP, bert in the plain way, each with an agent of its own.
MCAccount == [c \in Callers |-> "acct"]
MCIp == [c \in Callers |-> "ip1"]
MCSticky == [c \in Callers |-> c]
MCPrint == [c \in Callers |-> CASE c = "anne" -> "p1" [] c = "sue" -> "p2" [] c = "bob" -> "p3"
                                [] OTHER -> "p4"]
MCKind == [c \in Callers |-> CASE c = "anne" -> "keyed" [] c = "sue" -> "stream" [] OTHER -> "plain"]
MCRoute == [c \in Callers |-> IF c = "bob" THEN "http" ELSE "llm"]

MCLimit == [ip |-> 2, account |-> 1, burst |-> 1, sticky |-> 1]
MCLimitMixed == [ip |-> 1, account |-> 3, burst |-> 2, sticky |-> 3]
=============================================================================
