----------------------------- MODULE ProxyCall -----------------------------
(***************************************************************************)
(* Calls of handle_http_proxy and handle_llm_proxy in one worker: a key of *)
(* the pool, the HTTP client with its own circuit breaker and retries, the *)
(* switch to a second key, and what the pool is told of the outcome.       *)
(*                                                                         *)
(* The handlers await only the exchanges with the upstream and the sleeps  *)
(* between retries, so everything from one to the next is one action.  Of  *)
(* the cache and the idempotency keys an HTTP call decides here whether it *)
(* is executed; those of LLM calls, and the waiting for an earlier call    *)
(* with a key, are the subject of Idempotency.                             *)
(***************************************************************************)
EXTENDS KeyPool, FiniteSets

CONSTANTS
    Calls,          \* clients, each with one call at a time
    IdemKeys,       \* Idempotency-Key values of HTTP calls
    KindOf,         \* "GET" and "POST" to handle_http_proxy, "LLM" to the other
    IdemOf,         \* the key a client's HTTP calls carry, or none
    None,           \* no idempotency key; no pool key (the target's own auth)
    Attempts,       \* attempts of the retry policy of each error class; 0: no policy
    MaxAttempts,    \* range(1, 10): attempts over all policies (9)
    FailuresToOpen, \* circuit.error_threshold
    CacheOn,        \* the target's cache is enabled
    Limits,         \* the rate scheduler may refuse a request
    MaxAtOnce       \* bound: calls under way at once; the code has none

ASSUME ProxyAssumption ==
    /\ KindOf \in [Calls -> {"GET", "POST", "LLM"}]
    /\ IdemOf \in [Calls -> IdemKeys \union {None}]
    /\ None \notin IdemKeys \union Keys
    /\ Attempts \in [{"429", "5xx", "net", "timeout"} -> Nat]
    /\ {MaxAttempts, FailuresToOpen} \subseteq Nat \ {0} /\ MaxAtOnce \in Nat
    /\ {CacheOn, Limits} \subseteq BOOLEAN

VARIABLES
    call,      \* what each client's call is doing
    cached,    \* the response to the GET is in the cache
    reg,       \* the idempotency keys that are registered
    res,       \* the idempotency keys with a stored result
    failed     \* requests in a row that did not end well with each pool key

store == <<cached, reg, res>>
vars  == <<pool, call, store, failed>>

\* What an exchange with the upstream ends in: "4xx" is any but 429, "connect" a
\* refused connection, "transport" one that breaks.
Replies == {"2xx", "3xx", "4xx", "429", "5xx", "timeout", "connect", "transport"}

\* What a call ends in.  An error is raised again while it is reported (the
\* counter errors_total lacks a label), whichever of these it is.
Answers == {"none", "cached", "replayed", "limited", "ok", "4xx", "429", "5xx",
            "network", "internal"}

Idle == [at |-> "idle", key |-> None, second |-> FALSE, attempt |-> 1,
         failures |-> 0, tries |-> 0, answer |-> "none"]

CallStates ==
    [at : {"idle", "calling", "asleep", "done"}, key : Keys \union {None},
     second : BOOLEAN, attempt : 1..MaxAttempts, failures : 0..FailuresToOpen,
     tries : 0..2 * MaxAttempts, answer : Answers]

TypeOK ==
    /\ PoolTypeOK
    /\ call \in [Calls -> CallStates]
    /\ cached \in BOOLEAN
    /\ reg \subseteq IdemKeys /\ res \subseteq IdemKeys
    /\ failed \in [Keys -> 0..ExhaustAt]

Init ==
    /\ PoolInit
    /\ call = [c \in Calls |-> Idle]
    /\ cached = FALSE
    /\ reg = {} /\ res = {}
    /\ failed = [k \in Keys |-> 0]

-----------------------------------------------------------------------------
Keyed(c) == KindOf[c] = "POST" /\ IdemOf[c] # None

Answered(answer) == [Idle EXCEPT !.at = "done", !.answer = answer]

\* The first exchange of client.request, with pool key k.  is_open lets it go:
\* the breaker is as new as the client.
Calling(k) == [Idle EXCEPT !.at = "calling", !.key = k, !.tries = 1]

\* The answers that need no upstream.
FromCache(c) ==
    /\ KindOf[c] = "GET" /\ CacheOn /\ cached
    /\ call' = [call EXCEPT ![c] = Answered("cached")]
    /\ UNCHANGED <<pool, store>>

Replay(c) ==
    /\ Keyed(c) /\ IdemOf[c] \in reg \intersect res
    /\ call' = [call EXCEPT ![c] = Answered("replayed")]
    /\ UNCHANGED <<pool, store>>

\* create_http_client takes a key, or the target's own auth when the pool has
\* none to offer; check_rate_limit follows, for a pool key only.
Execute(c) ==
    /\ ~(KindOf[c] = "GET" /\ CacheOn /\ cached)
    /\ ~(Keyed(c) /\ IdemOf[c] \in reg \intersect res)
    /\ reg' = IF Keyed(c) THEN reg \union {IdemOf[c]} ELSE reg
    /\ \/ /\ Candidates(pool, {}) = {}
          /\ call' = [call EXCEPT ![c] = Calling(None)]
          /\ UNCHANGED pool
       \/ \E k \in Keys : \E n \in Loads(pool[k]) :
             /\ Selects(pool, {}, k)
             /\ pool' = [pool EXCEPT ![k].load = n]
             /\ \/ call' = [call EXCEPT ![c] = Calling(k)]
                \/ Limits /\ call' = [call EXCEPT ![c] = Answered("limited")]
    /\ UNCHANGED <<cached, res>>

Arrive(c) ==
    /\ call[c].at = "idle"
    /\ Cardinality({d \in Calls : call[d].at # "idle"}) < MaxAtOnce
    /\ Keyed(c) => \A d \in Calls \ {c} :
          Keyed(d) /\ IdemOf[d] = IdemOf[c] => call[d].at \in {"idle", "done"}
    /\ FromCache(c) \/ Replay(c) \/ Execute(c)
    /\ UNCHANGED failed

-----------------------------------------------------------------------------
(* The breaker of one call's client, by its failure count: it is open from   *)
(* the threshold on, and nothing asks it again once open_ttl_s have passed.  *)

IsOpen(failures) == failures = FailuresToOpen

\* What it makes of a reply: 2xx is a success; the responses the client returns
\* to the handler and broken connections are not recorded.
Recorded(failures, reply) ==
    CASE reply = "2xx"                                  -> 0
      [] reply \in {"429", "5xx", "timeout", "connect"} -> AtMost(failures + 1, FailuresToOpen)
      [] OTHER                                          -> failures

\* A request with pool key k ended well, or did not.
Ended(k, well) ==
    failed' = IF k = None THEN failed
              ELSE [failed EXCEPT ![k] = IF well THEN 0 ELSE AtMost(@ + 1, ExhaustAt)]

Credited(k) == IF k = None THEN pool ELSE [pool EXCEPT ![k] = Succeeded(@)]
Blamed(k, type) == IF k = None THEN pool ELSE [pool EXCEPT ![k] = Failed(@, type)]

-----------------------------------------------------------------------------
(* The client returns a response. *)

\* handle_http_proxy: whatever the status, the key is credited and the result of
\* an idempotency key is stored, with the life of a cache entry, which only a
\* GET has looked up: a POST with a key raises there, with the first key to an
\* error of its own, with the second back to the error of the first.
DeliverHttp(c, reply) ==
    LET get  == KindOf[c] = "GET"
        idem == IdemOf[c]
    IN  /\ KindOf[c] \in {"GET", "POST"}
        /\ pool' = Credited(call[c].key)
        /\ cached' = (cached \/ (get /\ CacheOn /\ reply # "4xx"))
        /\ res' = IF get /\ idem # None THEN res \union {idem} ELSE res
        /\ call' = [call EXCEPT ![c] =
              Answered(CASE ~Keyed(c)       -> "ok"
                         [] call[c].second  -> call[c].answer
                         [] OTHER           -> "internal")]
        /\ Ended(call[c].key, TRUE)
        /\ UNCHANGED reg

\* handle_llm_proxy: a response below 400 credits the key when it has the fields
\* of a completion, and raises when it has not.
Parsed(c, reply) ==
    \/ /\ reply = "2xx"
       /\ pool' = Credited(call[c].key) /\ Ended(call[c].key, TRUE)
       /\ call' = [call EXCEPT ![c] = Answered("ok")]
    \/ /\ reply \in {"2xx", "3xx"}
       /\ Ended(call[c].key, FALSE) /\ UNCHANGED pool
       /\ call' = [call EXCEPT ![c] = Answered("internal")]

\* Any other 4xx is blamed on the key, except in a free tier call to a target with
\* fallbacks, which raises before (should_fallback has no value).  Of 429 and 5xx,
\* for which the fallbacks and the switch of keys are written, the client raises.
Rejected(c, reply) ==
    /\ reply = "4xx"
    /\ Ended(call[c].key, FALSE)
    /\ \/ pool' = Blamed(call[c].key, "other")
       \/ UNCHANGED pool
    /\ call' = [call EXCEPT ![c] = Answered("4xx")]

DeliverLlm(c, reply) ==
    /\ KindOf[c] = "LLM"
    /\ Parsed(c, reply) \/ Rejected(c, reply)
    /\ UNCHANGED store

Deliver(c, reply) ==
    /\ reply \in {"2xx", "3xx", "4xx"}
    /\ DeliverHttp(c, reply) \/ DeliverLlm(c, reply)

-----------------------------------------------------------------------------
(* The client retries, or raises. *)

\* _classify_error goes by the name of the exception's class: a timeout says so;
\* HTTPStatusError, ConnectError and the others match nothing, and carry no
\* status_code of their own.
Class(reply) == IF reply = "timeout" THEN "timeout" ELSE "no-retry"

\* RetryEngine.execute sleeps while the policy of the class has attempts left.
Retried(c, reply) ==
    Class(reply) # "no-retry" /\ call[c].attempt < Attempts[Class(reply)]

\* Slips a change could make, to be put in the place of what they are named
\* after; no specification uses them.

\* Every attempt is blamed on the key.
RetryBlamed(c, reply) ==
    /\ Retried(c, reply)
    /\ call' = [call EXCEPT ![c].at = "asleep", ![c].failures = Recorded(@, reply)]
    /\ pool' = Blamed(call[c].key, "network")
    /\ UNCHANGED <<store, failed>>

\* The key that failed is not excluded.
SwitchUnexcluded(c, reply) ==
    LET k == call[c].key
        P == Blamed(k, reply)
    IN  /\ KindOf[c] # "LLM" /\ k # None /\ ~call[c].second
        /\ \E j \in Keys :
              /\ Selects(P, {}, j)
              /\ pool' = P
              /\ call' = [call EXCEPT ![c] = [Calling(j) EXCEPT !.second = TRUE, !.answer = reply]]
        /\ Ended(k, FALSE)
        /\ UNCHANGED store

\* The attempts are not counted.
AgainUncounted(c) ==
    /\ call[c].at = "asleep"
    /\ call' = [call EXCEPT ![c].at = "calling", ![c].tries = @ + 1]
    /\ UNCHANGED <<pool, store, failed>>

Retry(c, reply) ==
    /\ Retried(c, reply)
    /\ call' = [call EXCEPT ![c].at = "asleep", ![c].failures = Recorded(@, reply)]
    /\ UNCHANGED <<pool, store, failed>>

\* The handler gives up.  handle_http_proxy blames the first key; what happens
\* with the second is swallowed, and the call ends in the error of the first.
\* To handle_llm_proxy an HTTPStatusError is an exception like any other, and
\* the key is not blamed.
GiveUp(c, type) ==
    LET k == call[c].key
        unheard == call[c].second \/ (KindOf[c] = "LLM" /\ type # "network")
    IN  /\ pool' = IF unheard THEN pool ELSE Blamed(k, type)
        /\ call' = [call EXCEPT ![c] =
                       Answered(IF call[c].second THEN call[c].answer ELSE type)]
        /\ Ended(k, FALSE)
        /\ UNCHANGED store

\* 429 and 5xx with the first key of an HTTP call: another key of the pool is
\* tried once, unless the client's own breaker is open by now.
Switch(c, reply) ==
    LET k == call[c].key
        P == Blamed(k, reply)
        f == Recorded(call[c].failures, reply)
    IN  /\ KindOf[c] # "LLM" /\ k # None /\ ~call[c].second
        /\ \E j \in Keys : \E n \in Loads(P[j]) :
              /\ Selects(P, {k}, j)
              /\ pool' = [P EXCEPT ![j].load = n]
              /\ call' = IF IsOpen(f) THEN [call EXCEPT ![c] = Answered(reply)]
                         ELSE [call EXCEPT ![c] =
                                 [Calling(j) EXCEPT !.second = TRUE, !.failures = f,
                                                    !.tries = call[c].tries + 1,
                                                    !.answer = reply]]
        /\ Ended(k, FALSE)
        /\ UNCHANGED store

\* There is nothing to switch to.
Stuck(c, reply) ==
    \/ KindOf[c] = "LLM" \/ call[c].key = None \/ call[c].second
    \/ Candidates(Blamed(call[c].key, reply), {call[c].key}) = {}

Fail(c, reply) ==
    \/ Retry(c, reply)
    \/ reply \in {"429", "5xx"} /\ Switch(c, reply)
    \/ reply \in {"429", "5xx"} /\ Stuck(c, reply) /\ GiveUp(c, reply)
    \/ /\ reply \in {"timeout", "connect", "transport"} /\ ~Retried(c, reply)
       /\ GiveUp(c, "network")

Reply(c) ==
    /\ call[c].at = "calling"
    /\ \E reply \in Replies : Deliver(c, reply) \/ Fail(c, reply)

\* The sleep before a retry is over.  The breaker is not asked again; after the
\* last round of the loop the timeout is raised all the same.
Again(c) ==
    /\ call[c].at = "asleep"
    /\ \/ /\ call[c].attempt < MaxAttempts
          /\ call' = [call EXCEPT ![c].at = "calling", ![c].attempt = @ + 1, ![c].tries = @ + 1]
          /\ UNCHANGED <<pool, store, failed>>
       \/ /\ call[c].attempt = MaxAttempts
          /\ GiveUp(c, "network")

\* The client has its answer, and may call again.
Leave(c) ==
    /\ call[c].at = "done"
    /\ call' = [call EXCEPT ![c] = Idle]
    /\ UNCHANGED <<pool, store, failed>>

\* Redis drops a cache entry, a registration or a result whose time is up.
Expire ==
    /\ \/ cached /\ cached' = FALSE /\ UNCHANGED <<reg, res>>
       \/ \E i \in reg : reg' = reg \ {i} /\ UNCHANGED <<cached, res>>
       \/ \E i \in res : res' = res \ {i} /\ UNCHANGED <<cached, reg>>
    /\ UNCHANGED <<pool, call, failed>>

Background ==
    /\ Decay
    /\ UNCHANGED <<call, store, failed>>

Next ==
    \/ \E c \in Calls : Arrive(c) \/ Reply(c) \/ Again(c) \/ Leave(c)
    \/ Expire \/ Background

Spec == Init /\ [][Next]_vars

-----------------------------------------------------------------------------
\* However retries and the switch of keys combine, one call costs the upstream
\* at most twice what the retry loop allows a single request.
CallsBounded == \A c \in Calls :
    call[c].tries <= 2 * (IF Attempts["timeout"] = 0 THEN 1
                          ELSE AtMost(Attempts["timeout"], MaxAttempts))

\* A key is blamed for no more requests in a row than really failed on it, also
\* when calls on it overlap and end in another order than they began.
BlameIsEarned == \A k \in Keys : pool[k].errors <= failed[k]

\* An exhausted key gets no new call, whatever calls still in flight on it bring
\* back, and it never returns to the pool.
ExhaustedStaysOut ==
    [][\A k \in Keys : pool[k].status = "exhausted" =>
          /\ pool'[k].status = "exhausted"
          /\ \A c \in Calls : call'[c].key = k => call[c].key = k]_vars

\* The second try goes to a key that this call has not just seen fail.
SwitchLeavesKey ==
    [][\A c \in Calls : ~call[c].second /\ call'[c].second
          => call'[c].key # call[c].key]_vars

\* "Open: Failures exceeded threshold, requests rejected": while a breaker that
\* guards the upstream is open, no new call goes to it.
BreakerShields ==
    [][\A c, d \in Calls :
          IsOpen(call[d].failures) => ~(call[c].at = "idle" /\ call'[c].at = "calling")]_vars

=============================================================================
