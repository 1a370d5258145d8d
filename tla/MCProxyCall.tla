----------------------------- MODULE MCProxyCall -----------------------------
(* Two keys, two clients of HTTP calls and two of LLM calls for TLC. *)
EXTENDS ProxyCall, TLC

CONSTANTS k1, k2, poster, getter, llm1, llm2, i1

MCRank == k1 :> 1 @@ k2 :> 2
MCLoadPerHit == k1 :> 1 @@ k2 :> 0
MCPenalty == [type \in ErrorTypes |-> IF type = "429" THEN 2 ELSE 1]
MCKindOf == [c \in Calls |-> CASE c = poster -> "POST"
                               [] c = getter -> "GET"
                               [] OTHER      -> "LLM"]
MCIdemOf == [c \in Calls |-> IF KindOf[c] = "LLM" THEN None ELSE i1]
MCAttempts == [class \in {"429", "5xx", "net", "timeout"} |-> 3]
=============================================================================
