------------------------------- MODULE Budget -------------------------------
(***************************************************************************)
(* The budget of an LLM call: the limit of the caller and of the target's  *)
(* configuration on the tokens of the completion, the estimate of          *)
(* CostEstimator, the hard and the soft cap, and the number of tokens the  *)
(* adapter asks the provider for.                                          *)
(*                                                                         *)
(* Money is in whole units of half a token's price, for an estimate        *)
(* without a limit counts half a completion token per token of the prompt. *)
(* Floats are taken as exact, so that int() is \div.                       *)
(***************************************************************************)
EXTENDS Integers

CONSTANTS
    Targets,       \* the LLM targets of the configuration
    Config,        \* provider, prices of the model, max_tokens, soft and hard cap
    DefaultTokens, \* what AnthropicAdapter asks for without a limit (1024)
    Unset          \* no such setting, no such price, no limit

\* A setting of the configuration: absent, or a number.
Setting == Nat \union {Unset}

ASSUME BudgetAssumption ==
    /\ Unset \notin Nat
    /\ Config \in [Targets -> [provider : {"openai", "anthropic", "mistral", Unset},
                               prompt : Nat, completion : Nat, priced : BOOLEAN,
                               max : Setting \ {0}, soft : Setting, hard : Setting]]
    /\ DefaultTokens \in Nat

-----------------------------------------------------------------------------
\* final_max_tokens: the lower of the two limits that are set.
Limited(t, asked) ==
    LET max == Config[t].max
    IN  CASE asked = Unset -> max
          [] max = Unset   -> asked
          [] OTHER         -> IF asked < max THEN asked ELSE max

\* A slip, no specification uses it: the estimate of a call without a limit for
\* every call.
EstimateUnlimited(t, prompt, tokens) ==
    2 * (prompt * Config[t].prompt) + prompt * Config[t].completion

\* CostEstimator.estimate_cost; a limit of 0 counts as none.
Estimate(t, prompt, tokens) ==
    2 * (prompt * Config[t].prompt)
    + (IF tokens \in {Unset, 0} THEN prompt * Config[t].completion
                                ELSE 2 * (tokens * Config[t].completion))

\* A cap of 0 counts as none, and so does an estimate of a model without a price.
Over(t, cap, estimate) == cap \notin {Unset, 0} /\ Config[t].priced /\ estimate > cap

\* A slip, no specification uses it: only the margin is taken off.
ReducedByMargin(tokens, soft, estimate) == (9 * tokens) \div 10

\* int(final_max_tokens * (soft / estimate) * 0.9)
Reduced(tokens, soft, estimate) == (9 * (tokens * soft)) \div (10 * estimate)

\* What the handler makes of a call: the limit it gives the adapter, or why it
\* goes no further.  The soft cap multiplies a limit there may not be.
Decision(t, prompt, asked) ==
    LET tokens   == Limited(t, asked)
        estimate == Estimate(t, prompt, tokens)
        over     == Over(t, Config[t].soft, estimate)
        Says(word, limit) == [says |-> word, tokens |-> limit]
    IN  IF Config[t].provider = Unset         THEN Says("no_provider", Unset)
        ELSE IF Over(t, Config[t].hard, estimate) THEN Says("over_budget", Unset)
        ELSE IF over /\ tokens = Unset        THEN Says("raises", Unset)
        ELSE IF over THEN Says("throttled", Reduced(tokens, Config[t].soft, estimate))
        ELSE Says("admitted", tokens)

\* prepare_request: the tokens the provider is asked for.  Anthropic's API
\* demands a limit, and "or" takes 0 for none.
Requested(t, tokens) ==
    IF Config[t].provider = "anthropic" /\ tokens \in {Unset, 0} THEN DefaultTokens ELSE tokens

\* What a completion, and a call, of that many tokens cost at most.
Completion(t, tokens) == 2 * (tokens * Config[t].completion)
Worst(t, prompt, tokens) == 2 * (prompt * Config[t].prompt) + Completion(t, tokens)
=============================================================================
