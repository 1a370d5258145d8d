------------------------------ MODULE Admission ------------------------------
(***************************************************************************)
(* What a call must pass before it is sent to the upstream.  An LLM call   *)
(* passes the budget of its target and, if it has a key of the pool, the   *)
(* token buckets of the key, the tenant and the client profile, with the   *)
(* limits of the caller's profile; a stream passes the budget only, and an *)
(* HTTP call the bucket of its key only, with the key's own limit.         *)
(*                                                                         *)
(* Between the two the handlers look into the cache and the idempotency    *)
(* store; nothing the budget has read can change in the meantime, so both  *)
(* are one step.                                                           *)
(***************************************************************************)
EXTENDS RateScheduler, Budget

CONSTANTS
    Callers,       \* [key, header, tenant]: pool key, X-Client header, tenant, or None
    KeyLimit,      \* qps_limit of a pool key, or None
    Profiles,      \* max_qps_per_provider_key and max_qps_per_tenant by profile, or None
    TenantProfile, \* the profile of a tenant in the configuration, or None
    LlmCalls       \* [target, prompt, asked]: estimated tokens of the prompt, max_tokens

\* detect_client_profile and get_profile: the header, then the tenant's, then the
\* default; names that are not configured are passed over.
ProfileName(c) ==
    CASE c.header \in DOMAIN Profiles -> c.header
      [] /\ c.header \notin DOMAIN Profiles
         /\ c.tenant # None /\ TenantProfile[c.tenant] \in DOMAIN Profiles -> TenantProfile[c.tenant]
      [] OTHER -> "default"

Lower(p, q) == IF p = None THEN q ELSE IF q = None \/ p < q THEN p ELSE q

\* check_rate_limit asks a bucket that it is given a name and a qps for.
Ask(bucket, qps) ==
    IF bucket = None \/ qps = None THEN [bucket |-> None, qps |-> 0]
                                   ELSE [bucket |-> bucket, qps |-> qps]

\* What handle_llm_proxy gives it for the three buckets of a caller.
AskOf(c) ==
    LET name    == ProfileName(c)
        profile == Profiles[name]
    IN  [kind \in Kinds |->
            CASE c.key = None     -> Ask(None, None)
              [] kind = "key"     -> Ask(c.key, Lower(KeyLimit[c.key], profile.key))
              [] kind = "tenant"  -> Ask(c.tenant, profile.tenant)
              [] kind = "profile" -> Ask(name, profile.key)]

\* What handle_http_proxy gives it: no qps of the tenant, and no profile.
HttpAskOf(c) ==
    [kind \in Kinds |-> IF kind = "key" /\ c.key # None THEN Ask(c.key, KeyLimit[c.key])
                                                      ELSE Ask(None, None)]

ASSUME AdmissionAssumption ==
    /\ Requests = {AskOf(c) : c \in Callers} \union {HttpAskOf(c) : c \in Callers}
    /\ "default" \in DOMAIN Profiles
    /\ LlmCalls \subseteq [target : Targets, prompt : Nat, asked : Setting \ {0}]
    /\ None \notin [call : LlmCalls, tokens : Setting, says : STRING, sent : BOOLEAN]

\* The last LLM call that the budget has decided, the decision, and whether the
\* call was sent (ghost).
VARIABLE last

AInit == Init /\ last = None

-----------------------------------------------------------------------------
DecisionOn == [l \in LlmCalls |-> Decision(l.target, l.prompt, l.asked)]

Going == {l \in LlmCalls : DecisionOn[l].says \in {"admitted", "throttled"}}

Decides(l, sent) ==
    last' = [call |-> l, tokens |-> DecisionOn[l].tokens, says |-> DecisionOn[l].says,
             sent |-> sent]

\* handle_llm_proxy ends a call over its hard cap, one whose soft cap has no limit
\* to lower, and one without a provider; another it may answer with what is stored.
LlmAnswered(l) == Decides(l, FALSE) /\ UNCHANGED vars

\* It asks the buckets, and sends what they allow.
LlmAsks(c) ==
    /\ CheckRateLimit(AskOf(c))
    /\ \E ok \in {Checked(AskOf(c)).ok} : \E l \in Going : Decides(l, ok)

\* handle_llm_stream_generator asks the budget, and no bucket.
Stream(l) == l \in Going /\ Decides(l, TRUE) /\ UNCHANGED vars

\* handle_http_proxy has no budget.
HttpAsks(c) == CheckRateLimit(HttpAskOf(c)) /\ UNCHANGED last

Passes == (Cleanup \/ Tick) /\ UNCHANGED last

ANext ==
    \/ \E l \in LlmCalls : LlmAnswered(l) \/ Stream(l)
    \/ \E c \in Callers : LlmAsks(c) \/ HttpAsks(c)
    \/ Passes

ASpec == AInit /\ [][ANext]_<<vars, last>>

-----------------------------------------------------------------------------
\* What is sent asks for no more than its caller and its target allow and costs no
\* more than the hard cap, for every call that is sent with a limit: a call without
\* one, and one whose limit the soft cap lowered to 0, are not bound by either.
CapsBind ==
    last # None /\ last.sent /\ last.tokens \notin {Unset, 0} =>
        LET l == last.call
            t == l.target
            n == Requested(t, last.tokens)
            Binds(limit, value) == limit \in {Unset, 0} \/ value <= limit
        IN  /\ Binds(l.asked, n) /\ Binds(Config[t].max, n)
            /\ Config[t].priced => Binds(Config[t].hard, Worst(t, l.prompt, n))

\* The completion that a throttled call asks the provider for costs at most nine
\* tenths of the soft cap, for a call the soft cap left a token.  The prompt's cost
\* does not shrink with it, and may alone exceed the cap.
ThrottledCompletionFits ==
    last # None /\ last.sent /\ last.says = "throttled" /\ last.tokens # 0
    => LET t == last.call.target
       IN  10 * Completion(t, Requested(t, last.tokens)) <= 9 * Config[t].soft

\* "Auto-reduce max_tokens to fit soft cap": the completion that any throttled call
\* asks the provider for costs no more than the soft cap.  The code does not keep
\* to it: of a limit lowered to 0 the adapter makes its default.
ThrottledFitsSoftCap ==
    last # None /\ last.sent /\ last.says = "throttled"
    => LET t == last.call.target
       IN  Completion(t, Requested(t, last.tokens)) <= Config[t].soft
=============================================================================
