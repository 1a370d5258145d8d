----------------------------- MODULE MCAdmission -----------------------------
(* A provider key, two tenants, a profile and three targets for TLC. *)
EXTENDS Admission, TLC

CONSTANTS key1, tenant1, tenant2

Caller(key, header, tenant) == [key |-> key, header |-> header, tenant |-> tenant]

\* A tenant with a profile of its own, a caller whose profile also lowers the
\* key's qps, another tenant with a header nobody knows, and one without a pool key.
MCCallers == {Caller(key1, None, tenant1), Caller(key1, "cursor", None),
              Caller(key1, "unknown", tenant2), Caller(None, "cursor", tenant1)}

Qps(key, tenant) == [key |-> key, tenant |-> tenant]
MCProfiles == "default" :> Qps(None, 2) @@ "small" :> Qps(None, 1) @@ "cursor" :> Qps(1, None)
MCTenantProfile == tenant1 :> "small" @@ tenant2 :> None
MCKeyLimit == key1 :> 2
MCNames == {key1, tenant1, tenant2, "cursor"}
MCLimit == key1 :> 2 @@ tenant1 :> 1 @@ tenant2 :> 2 @@ "cursor" :> 1
MCRequests == {AskOf(c) : c \in MCCallers} \union {HttpAskOf(c) : c \in MCCallers}

\* A target with both caps, one of Anthropic with a soft cap and no limit of its
\* own, one whose model has no price.
Target(provider, priced, max, soft, hard) ==
    [provider |-> provider, priced |-> priced, prompt |-> 1, completion |-> 2,
     max |-> max, soft |-> soft, hard |-> hard]
MCConfig == "gpt"    :> Target("openai", TRUE, 8, 16, 32)
         @@ "claude" :> Target("anthropic", TRUE, Unset, 8, Unset)
         @@ "local"  :> Target("mistral", FALSE, 4, 1, 2)
         @@ "odd"    :> Target(Unset, TRUE, 4, 1, 2)
MCLlmCalls == [target : {"gpt"}, prompt : {3}, asked : {1, 5, 9}]
              \union [target : {"claude"}, prompt : {3}, asked : {Unset, 1, 9}]
              \union [target : {"gpt", "local", "odd"}, prompt : {9}, asked : {1}]
=============================================================================
