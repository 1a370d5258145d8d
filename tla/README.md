# ReliAPI in TLA+

TLA+ models of the parts of ReliAPI (`src/reliapi`) in which order, time and
failure decide whether the gateway is right, TLC configurations that check them
on small instances, and TLAPS proofs of the main safety properties for every
value of the constants.  `PROJECT.json` maps each definition to the lines it
stands for and lists the runs, the mutants that show that a property can fail,
the hazards and the theorems.

Check a run with `tlc -config <run>.cfg <MC module>`, a proof module with
`tlapm <module>.tla`.

## 1. The system

ReliAPI is a FastAPI gateway.  `Dockerfile` starts it as `uvicorn --workers 2`:
two processes, each with one asyncio event loop, a pool of provider keys, token
buckets and tenant tables of its own, over one Redis.  The Redis client is
synchronous, so inside a process the code between two `await`s is not
interleaved with other requests; the processes interleave command by command.

| Component | State | Operations | Talks to |
|---|---|---|---|
| Idempotency (`core/idempotency.py`) | three Redis keys per idempotency key: registration (3600 s), result (cache TTL), in-progress marker (300 s) | `register_request` (GET, SET NX, GET), `get_result`, `store_result`, `is_in_progress`, `mark_in_progress`, `clear_in_progress` | called by the three proxy handlers |
| LLM proxy (`services.py:1006-2070`) | locals of a call (`waited`, the key, the status) | cache, registration, wait loop, exchange, parsing, storing | all of the core components |
| HTTP proxy (`services.py:340-1003`) | as above, and one switch of keys | the same, with `record_error` / `record_success` and a second key for 429 and 5xx | all of the core components |
| LLM streaming (`services.py:2073-2719`) | as above | answers 409 instead of waiting, sends events, stores at the end, cancelled when the client leaves | idempotency, adapters |
| Key pool (`core/key_pool.py`) | per key: status, error score, consecutive errors, requests of the last window | `select_key`, `record_success`, `record_error`, the decay thread | handlers |
| Client, retries, breaker (`core/http_client.py`, `retry.py`, `circuit_breaker.py`) | one client, engine and breaker **per call** | `request`, `execute`, `is_open`, `record_*` | upstream |
| Rate scheduler (`core/rate_scheduler.py`) | an `OrderedDict` of token buckets; semaphores nobody takes | `check_rate_limit`, eviction, clean-up task | handlers |
| Cache (`core/cache.py`) | Redis entries by request body | `get`, `set` | handlers |
| Budgets (`core/cost_estimator.py`, `services.py:1090-1240`) | none | estimate, hard and soft caps before the call | LLM handlers, adapters |
| Client profiles (`core/client_profile.py`) | a table of profiles, one per process | `detect_client_profile`, `get_profile` | handlers, which ask the scheduler for the profile's limits |
| Rate limiter, abuse detection, free tier (`core/rate_limiter.py`, `security.py`, `free_tier_restrictions.py`, checks in `routes/proxy.py`) | Redis counters with an expiry, one stored fingerprint per account | `INCR` then `EXPIRE`, attempts and bans, bursts, anomalies, fingerprints | both proxy routes, before the handlers |
| RapidAPI client (`integrations/rapidapi.py`) | usage queue, breaker shared by all requests, tier cache | `record_usage`, `_flush`, `_api_call_with_retry`, tier look-up | RapidAPI, Redis, webhooks |
| Webhooks, tenants (`routes/rapidapi.py`, `integrations/rapidapi_tenant.py`) | delivery ids, tenant records | create, update, cancel | tier cache |
| Subscriptions (`business_services/subscription.py`, `routes/paddle.py`) | two copies of a subscription per account | activate, update, cancel, webhook | Redis |
| Onboarding, dashboard, analytics, calculators, adapters, configuration, metrics, CLI, GitHub action | little or none | pages, arithmetic, translation, parsing | |

What makes each of them hard, and what would make it right:

- *Idempotency*: one call per key at the upstream; a success is replayed, to its
  own body only; who waits is answered.  Several commands per decision, three
  lives of three keys, workers that die, Redis errors that are swallowed.
- *Handlers and pool*: overlapping calls on one key end in another order than
  they began, while a thread decays the scores; a key is blamed only for what
  failed on it, leaves the rotation in time, and stays out when exhausted.
- *Client*: attempts, policies and the switch of keys multiply; the cost of one
  call must stay bounded.
- *Scheduler*: several callers share buckets, each with its own idea of the
  limit; buckets are evicted and dropped; nobody may exceed its limit by that.
- *RapidAPI client*: a batch leaves the queue before anybody has received it; a lock
  is held through retries; overlapping calls move one breaker; each record has
  a place, and is submitted by one call.
- *Budgets and profiles*: two caps, two limits and an adapter's default meet in
  one number; whatever they make of a call that is sent must be within both caps.
- *Free tier*: two workers count one window with commands of their own, and a
  command that is lost must not shut a caller out, nor a refusal ban one that did
  nothing else.
- *Webhooks and tenants*: deliveries repeated, reordered and interrupted, over a
  record and a cache that are written apart; the last undisturbed one must decide.
- *Subscriptions*: read-modify-write over two copies of a record, in several workers.

## 2. Modules

| Module | What it is |
|---|---|
| `Coalescing` | abstract promise of an idempotency key: one call at a time, replay while stored |
| `Idempotency` | `handle_llm_proxy`, `handle_llm_stream_generator` and `IdempotencyManager`, one action per Redis command or `await`, several workers; `INSTANCE Coalescing` as its refinement |
| `KeyPool` | what the methods of `KeyPoolManager` do to a key and whom `select_key` chooses |
| `ProxyCall` | EXTENDS `KeyPool`: the calls of both handlers over one pool, client, breaker, retries, switch of keys |
| `RateScheduler` | token buckets: `check_rate_limit`, eviction, clean-up, time |
| `Budget` | limits, estimate, caps and what the adapter asks for: operators, no state |
| `Admission` | EXTENDS `RateScheduler` and `Budget`: what a call passes before it is sent, with the profile of its caller |
| `UsageReport` | the usage queue of the RapidAPI client: batches, retries, the shared breaker, the fall-back keys |
| `FreeTier` | the checks a free-tier request passes on either route, over counters in Redis |
| `TierSync` | RapidAPI webhooks, tenant records and the tier cache |
| `Subscription` | Paddle webhooks over the two copies of a subscription |
| `MCIdempotency`, `MCProxyCall`, `MCAdmission`, `MCUsageReport`, `MCFreeTier`, `MCTierSync`, `MCSubscription` | constants for TLC |
| `IdempotencyProofs`, `ProxyCallProofs`, `RateSchedulerProofs`, `BudgetProofs`, `UsageReportProofs`, `FreeTierProofs`, `TierSyncProofs`, `SubscriptionProofs` | theorems |

`Idempotency` and `ProxyCall` look at the same handlers from two sides.  The
first keeps every command to the shared store and reduces the exchange to
"succeeds or fails"; the second keeps the exchange and reduces the store.
`ProxyCall` admits one call at a time per idempotency key, which is what
`Idempotency` shows of a single worker.  `MaxAtOnce` is a bound of the model: so many calls are
under way together.

Operators under a heading that speaks of *slips* are mutated forms of actions.
No specification uses them; `PROJECT.json` names the property each one breaks.

### Idempotency

State: `reg`, `res`, `prog` (the three Redis keys of an idempotency key) and
`cached`, each absent or a record with a time to live in ticks; `loop[w]`, the
request a worker is running between two awaits; per request `pc`, the handler's
local `waited`, `age` of its exchange and `answer`.  `Goto`, `Resume`, `Await`
and `Answer` are the four ways a request moves: on to the next command, back onto
the event loop, off it, and out.  `ExpireKey` drops a key in its last tick, also
between two commands of one method.  `Crash(w)` ends a worker with all it serves
and leaves Redis as it is.  With `RedisFails` a command may raise; the manager
swallows the error and goes on as for a new request, and a SET NX whose reply is
lost has been carried out or not.

A request in `Streamed` is a stream.  It shares registration, marking and storing
with the others, but has no cache look-up and no rate limit, and where they replay
or wait it is told that the stream is completed or in progress.  Its exchange
ends with an event to the client (`Tell`); only when the client has taken it
does `StreamTold` go on to store the result or clear the marker.  `StreamLeft` is a
client that disconnects during the exchange or before it has taken that event: no
clause catches the cancellation, so nothing is stored and the marker stays.  The time
limit of a stream is one on its pauses; `MaxExec` is a bound of the model there.
The hash of a stream leaves out temperature, `top_p` and `stop`; it can equal that
of a call or not, and `BodyOf` may say either.  The cache entry of a stream is under a
payload nobody looks up, and is left out.

Not a slip of the model: `Admit` leaves the marker when the scheduler refuses
(`services.py:1479`), `ClearInProgress` deletes whoever's marker it finds, and a
rejected call clears twice, because `errors_total.labels` lacks the label `tenant`
and raises in the middle of reporting.  A client that leaves a non-streaming call
does not cancel it, so only the death of a worker does.

### KeyPool and ProxyCall

`pool[k]` holds status, score, consecutive errors (saturating at the threshold
that exhausts) and load.  Every method of the pool holds its lock throughout and
is one operator; a handler calls several without an `await`, so one action takes
them together.  `call[c]` is the call of a client: the key, whether it is the
second, attempts, failures of its own breaker, exchanges so far (`tries`).
`Reply` is the moment the exchange ends: `Deliver` when the client returns a
response, `Fail` when it raises, then `Retry`, `Switch` or `GiveUp`.  `failed`
is a ghost: requests in a row that did not end well on a key.

Three facts of the code shape it.  The client raises for 429 and 5xx and so only
returns 2xx, 3xx and the other 4xx.  `_classify_error` goes by the class name of
the exception, so only timeouts are ever retried; the shipped configuration has no
policy of that name, the runs give it one.  A new breaker is built for each
call; `is_open` is asked only at the start of `client.request`, that is right
after it was built or right after a failure, so the end of its cooldown cannot be
observed and its failure count is all its state.

A POST with an idempotency key is carried out and then ends in an error
(`cache_config` is assigned for GET and HEAD only, `services.py:653`), so its result
is never stored.  And the route that leads to `handle_http_proxy` passes a `tier`
the function does not take (`routes/proxy.py:394`): the handler is modelled as it is
written, and the runs that show a disagreement with the documentation use LLM
calls only.

### RateScheduler

The scheduler's lock is never held across an `await`, so `check_rate_limit` is one
step: `Checked` asks the key's bucket, the tenant's, the profile's, in that
order, until one refuses; what the earlier ones gave is not given back.  `Got` creates a bucket,
evicting the head of `order` when there is no room; an existing one keeps the
qps it was created with.  The refill, which the code computes when a bucket is
used, is carried out as time passes and comes to the same tokens.  `order` is the
`OrderedDict`: `MovedToEnd` is `move_to_end`, and the clean-up leaves the one sequence of the
names that stay, in the order they had (`Without`, said by what it leaves and not by
`SelectSeq`, of which the provers know nothing).  Two ghosts:
`ideal[n]`, a bucket that is never dropped and is filled at the highest limit
callers give for `n`, and `lost`, the names whose bucket was dropped before it was
full, until the loss is made good.

### Budget and Admission

`Decision` is the budget part of both LLM handlers: the lower of the caller's limit and
the target's (`Limited`), the estimate, the hard cap, the soft cap and what it makes of
the limit (`Reduced`).  `Requested` is the number of tokens that reaches the provider.
Floats are taken as exact, money as whole units of half a token's price.  Five turns of
the code are modelled as they are written and shape what `CapsBind` can say:

- `int(limit * ratio)` may be 0, and the adapter of Anthropic (`max_tokens or 1024`)
  then asks for 1024, whatever the caps (`ThrottledFitsSoftCap`);
- a call over its soft cap without any limit multiplies `None`: it raises before
  anything is registered;
- a model without a price escapes both caps, and a call without a limit is estimated at
  half a completion token per token of its prompt;
- the soft cap scales the completion by a ratio that has the prompt in it, so that the
  whole call may still cost more than the soft cap;
- a cap of 0 is no cap.

`Admission` adds the buckets.  `AskOf` is what the handlers make of a caller: the
profile of its `X-Client` header, else of its tenant, else the default, and the lower of the
profile's and the key's limit.  `LlmAnswered` is a call that ends before the buckets,
`LlmAsks` one that reaches them, `Stream` one that asks no bucket, `HttpAsks` one
without a budget: `handle_http_proxy` gives the scheduler the key and the key's own limit
only (`HttpAskOf`), so that HTTP calls pass neither the bucket of their tenant nor that of their profile.  Cache and idempotency store lie between the two and change
nothing that the budget has read.

### UsageReport

State: `queue`, `holder` (of `_usage_queue_lock`), `batch` (the holder's copy of the
queue), `idle` (seconds since the last flush), the breaker's `failures` and `opened`,
per caller `pc` and `attempt`, `kept` (the fall-back key of the current second and
those of earlier ones).  `received[u]` is how often RapidAPI has taken in the record
of `u`, and `lost` a ghost: the records nobody has any more.  A caller in `Uses` is a proxied
call that records its use (`Finished`, `RecordUsage`), one in `Looks` asks for the
statistics; both go through `_api_call_with_retry`, with one action per reply (`Accepted`,
`Garbled`, `Throttled`, `Failed`, `Refused`, `Broken`), each up to the next `await`.
`Ends` is what follows the call: keeping a batch that was not submitted, and giving the
lock back.  The age of the breaker and of the queue are saturating counts of seconds.

The module is of one process with an API key: the breaker and the queue are not
shared between workers, and the other worker can only add to what is kept, or
overwrite it.  The lock is given to any of those who wait (asyncio is first come,
first served: fewer behaviours).  Nobody in the code reads the fall-back keys, and
they lapse after a day; the model ends before that.  A use whose route
fails before `record_usage` is one that never leaves `new`: that is every successful
LLM call (`routes/proxy.py:544` reads an attribute of a dict), and every HTTP call
(`routes/proxy.py:394`), so that as shipped only failed LLM calls are reported.

### FreeTier

State: `count` and `ttl` of every counter (a family and whom it counts), the `print`
stored for an account, and per worker a `job`: the caller, the check it is at, the
commands still to be sent in the present `try` block (`todo`) and in the one after it
(`late`), where they lead (`next`), and the windows that have counted it (`by`).  An action
is one Redis command with the decision that follows its reply: `CountRequest` is the
INCR of a window, `Expires` the EXPIRE of its first request, `ReadTen`, `ReadDay` the two
reads of an anomaly check, `CheckBan`, `CheckPrint`, `CountMismatch` the rest.  `Checks`
gives the order on each route.  A refused check records attempts under the account and the
address, on the LLM route once more by the route itself; `MaxAttempts` of them ban.

`RedisFails` raises at a command, carried out or not: the rest of its block is skipped and
the check allows the request (every check of the code does).  `Crash` ends a
worker between two commands.  `Lapse` drops a counter; the clock is not modelled, but a
day's counter does not lapse before that of its ten minutes (`Outlived`), which is given its
life just before it.  Ghosts: `served`, `refused`, and `torn`: the counters a command was
lost for, each until it lapses while no worker has commands for it (`Pending`) or has
read it and not yet decided (`InHand`).

### TierSync

State: the events that `happened` at RapidAPI and those still `due`, the `cache`d tier
and the `tenant`'s record of a subscriber, which keys are `live`, the delivery's
`marked` and `stored` keys, and per worker the webhook it is at with its commands left.
`Deliver` looks the result up and begins; `Step` is the next command; `StepFails`
follows what the code swallows (`AfterError`: the cache and the idempotency store do, the
tenant's record ends in a 500), `LookUpFails` takes a known event for a new one, `Crash` leaves
the marker.  A delivery is repeated until it was told 200, and `MaxDrops` answers get
lost on the way.  `AccountTier` is `get_account_tier`.  Ghosts: `settled` (what the last
undisturbed webhook has set), `done`, `excused`, `torn`.  No command of the program
reads the marker of being processed.

### Subscription

State: `record[copy, user]` (by user and by subscription id), events and deliveries as in
`TierSync`, per worker the SETEX commands left.  A cancellation begins with the GET of the
user's record, and `Cancel` lists what it then writes: both copies of the free plan,
and the record read before over one of them.  `expected` is a ghost: what the user's
copy may be after undisturbed webhooks.  An activation leaves one possibility, a cancellation at the
end of the period the record with another status, and one at once any plan with the status cancelled
(`Outcome`): which plan it should be is said by `Downgraded` alone.  Copies lapse after 35 days, and no command reads
the one by id.

## 3. Runs

| Run | Configuration | Result |
|---|---|---|
| `coalesce_one_worker` | `IdempotencyOneWorker` | passes, 261 927 states |
| `coalesce_two_workers` | `IdempotencyTwoWorkers` | passes, 274 929 states |
| `proxy_calls` | `ProxyCalls` | passes, 599 968 states |
| `breaker_per_call` | `ProxyBreaker` | `BreakerShields` is violated |
| `admission` | `Admission` | passes, 74 760 states |
| `soft_cap_missed` | `SoftCap` | `ThrottledFitsSoftCap` is violated |
| `usage_reports` | `UsageReport` | passes, 1 315 571 states |
| `free_tier_one_worker` | `FreeTierOneWorker` | passes, 425 218 states |
| `free_tier_two_workers` | `FreeTierTwoWorkers` | passes, 2 051 891 states |
| `tier_webhooks` | `TierSync` | passes, 627 059 states |
| `paddle_webhooks` | `Subscription` | passes, 2 839 355 states |
| `downgrade_lost` | `SubscriptionDowngrade` | `Downgraded` is violated |

Deadlock is checked but where the environment has only so many requests or events
(`FreeTier`, `TierSync`, `Subscription`): a state in which they are all used up
and nothing is stored any more has no successor.

**coalesce_one_worker.**  Three calls and a stream with one body and a call with
another, one key, failures of the upstream, a client that may leave its stream,
results that lapse after a tick.  With one worker
and no failures of Redis the calls of a key go to the upstream one at a time
(`SingleFlight`), none goes there while a result is stored (`NoReplayExecutes`), a
result is replayed to its own body only (`HitMatchesBody`), a marker stands for a
call in progress or for a stream its client left (`MarkerHasOwner`), and the
handler implements `Coalescing` (`ImplementsCoalescing`).  Two bounds carry this:
`MarkTTL` 3 outlasts a call (`MaxExec` 1) as 300 s outlast the time limits of an
exchange, and `MaxWait` 16 outlasts all markers a waiter sits through: four other
requests, each with a marker's life of 3 and one tick more.  The second is
*not* so in the shipped configuration: the loop counts its wait over all calls it
waits for, and with time limits of 20 s and a wait of 30 s the third of three
calls whose first fails executes beside the second, in one worker.  The run
says what coalescing gives as long as the wait lasts; of a request and one duplicate
`SingleFlightOfPairs` proves it for a wait that is longer than a call, which the shipped one is.
Registrations do not lapse here and the scheduler refuses nothing (`RegLapses`, `Limits`), because
both break what the run checks: a result that outlives its registration, and a marker that a refusal
leaves behind, are part of the next run and not of this one.

**coalesce_two_workers.**  Everything at once: two workers, two calls and a stream, one crash, a client that leaves, Redis
errors, refusals, all keys lapse, a short wait.  Calls are duplicated here, and the
run shows what holds all the same: a live registration is not replaced
(`RegistrationStands`), a conflict is answered only to a key really used with another
body (`ConflictIsReal`), no failure is replayed (`NoFailureReplayed`), everybody
is answered (`Answered`).

Three things do *not* hold once there is more than one worker, registrations lapse or
the scheduler refuses, and are part of the models without a run of their own: a second
worker that comes between the registration and the marker executes beside the first;
a result stored late in the life of a registration outlives it and is replayed to
another body; a refused call leaves its marker, so that the calls with its key
wait for nobody until it lapses.  `README.md:214-217` of the repository says that
idempotency is not exactly-once execution.

**proxy_calls.**  A GET and a POST client of the HTTP proxy with one idempotency key and a client
of the LLM proxy, two of them at a time, over two keys with and
without a qps limit, every reply of the upstream, retried timeouts, expiry, decay.
Thresholds are small (a key degrades at one error and is exhausted at two,
the score goes to one) so that every status is reached on both keys by calls that
are in flight together; one success or one pass of the decay thread takes the score of an error back.  The proofs cover the
shipped 5 and 10 and every cap of the score.  A key in rotation
is below the threshold (`ActiveIsHealthy`), has no more consecutive errors than requests in a row
that did not end well on it, the client's own 4xx among them
(`BlameIsEarned`, an upper bound: nothing says that a key is blamed for what it did),
stays exhausted and gets no new call (`ExhaustedStaysOut`), a
second try uses another key (`SwitchLeavesKey`), and a call costs at most two
rounds of attempts (`CallsBounded`).

**breaker_per_call.**  What `docs/ARCHITECTURE.md:126` says of the open breaker, and what
an LLM call does: its timeouts open a breaker that nobody else sees.  Two more
promises of that document are visible in the same module and need no run: the failover to
another target stands behind a status the client never returns, and a 429, a 5xx or a
refused connection is never retried, because `_classify_error` knows them by no class name
(`Class`, `Retried`).  `README.md:24` of the repository calls retries and breaker experimental.

**admission.**  A provider key shared by two tenants and by a profile
that asks for less of it, room for three buckets and four names, so that buckets
are evicted, also one of the same request; four targets: with both caps, of Anthropic with
a soft cap and no limit, without a price, without a provider.  `WithinRate`: no name is
granted more than its limit and one second's burst, except after its bucket was dropped
before it was full.  `StaleBucketsAreFull`: the clean-up never is such a drop.
`OldestFirst`: the bucket evicted is the one unused for longest.  `CapsBind`: a call that is
sent with a limit is within both limits and the hard cap.  `ThrottledCompletionFits`: the
completion a throttled call asks for costs nine tenths of the soft cap at most, where the soft cap
left it a token.  A token is three
units and a second three ticks, so that partial tokens occur.  `WithinRate` is a promise about buckets,
with the highest limit each is asked with.  Streams ask none, HTTP calls that of their key only: no
property says that a tenant or a profile as a whole keeps to its limit, nor that a caller of
a lower limit is held to it at a key it shares with one of a higher.

**soft_cap_missed.**  The comment at `services.py:1177` says of the soft cap "Auto-reduce max_tokens to
fit soft cap".  A call over the cap with a small limit is left `int(limit * ratio * 0.9)` = 0
tokens, for which the adapter of Anthropic asks its default, and the completion costs more than
the cap it was reduced to fit.

**usage_reports.**  Four uses and one look at the statistics, batches of two, two
attempts per call, a breaker that two failures open for two seconds, Redis that may
fail, one stop at any moment; uses are interchangeable, and symmetry over them is
sound (no liveness, and no property tells them apart).  Four uses make two batches, so that one is
at work while the next collects and a second one may be kept within the second of the
first; the look shares the breaker with a batch in its retries.  `SubmittedOnce`: what
was sent or set aside is not in the queue, nor a batch at work already kept.
`Accounted`: a use that was answered is in one of the known places or was
lost by a stop, by Redis or by an overwritten key.  `BatchesAreSmall`, `OpenForCause`
(also when calls that overlap end in any order) and `LockHasWorker`: the lock every
proxied call needs is always with somebody at work.  None of these says that a record is
received at most once: an attempt that timed out after delivery is repeated, and
`received` goes up to `MaxRetries`.

**free_tier_two_workers.**  Two workers, three requests on both routes from one address
and account, one death, one error, a window that lapses in between; every window has a
limit of one or two, so that each is exceeded by interleaved INCRs.  `WithinWindow`: a
window lets through no more than its limit, requests still on their way included.
`StuckOnlyIfTorn`: a counter without a life is one whose EXPIRE was lost or is still to be
sent.  `AttemptsAreRefusals`: an account or an address has at most two attempts for each of
its refused requests, so that nobody is banned for requests within the limits.

**free_tier_one_worker.**  Four callers (plain on either route, with an idempotency key,
with a stream), a death, the ten minutes of both anomaly checks, a window and a print that
lapse.  `OneAboveAverage`: the usage check lets
ten minutes exceed three times the day's average by one request at most, as long as no
command was lost; with the shipped 144 windows a day that refuses the second request of
a quiet day.  `AnomalyNeedsTear`: the anomaly detector of the HTTP route compares ten minutes with a
day that contains them, and is an action property: a step reaches that verdict only while one of
the account's two counters is torn.  `WindowsReopen` (liveness): who is
above a limit gets a new window, unless its EXPIRE was lost.  Seven windows make a day, and
three times their average is passed within four requests.

**tier_webhooks.**  Two events of one subscriber, two workers, one failure at any
command, one answer lost, everything but the year of a tenant's record lapses.
`ProcessedOnce`: an event is processed again only after its result has lapsed, after a
failure, or because two workers were at it at once.  `CleanRunDecides`: a webhook that
nobody disturbed settles both the tenant's record and the cached tier.  `StaleEnds`
(liveness): a tier the tenant does not have goes away with the life of the cache, unless the
command that gives it a life was lost.  Two events suffice for creation and change, change and
cancellation, and either order of their deliveries.

**paddle_webhooks, downgrade_lost.**  Three events of one customer, two workers, one
failure, one lost answer.  `RecordFollowsEvents`: what undisturbed webhooks leave is what
they say one after the other (of a subscription ended at once, that it is cancelled), and a
disturbed record is set right by the next undisturbed activation.  It says nothing of the order in which Paddle delivers: a late
activation wins over a cancellation, for the code looks at no date.  `Downgraded` is the
comment at `subscription.py:140`; one activation and one cancellation at once refute it.

## 4. Fairness

`Idempotency`: `FairSpec` asks for weak fairness of each
request's steps (asyncio runs every ready task; a worker that died has no steps
left to take, its requests are `done`), of expiry (Redis drops due keys) and of
time.  `Step` includes the end of the exchange, which the client's time limit
enforces.

`FreeTier`: a worker goes on with the checks of its request, which are synchronous code with a
socket time limit on each command, and Redis drops a window whose time is over: only the first
request of a window sets its life, later ones do not renew it.  The counters whose life each request
renews are not in it.

`TierSync`: a worker goes on with its webhook, and Redis drops a cached tier ten minutes after
it was given its life.

Arrivals, events, deliveries, crashes and errors are not fair, and no safety property uses
fairness.

## 5. Proofs

**IdempotencyProofs.**  `TypeCorrect` and `RegistrationsStand` hold for all
constants: any number of workers, crashes, Redis errors.  The type invariant is
inductive together with `WaitBounded` (who sleeps has polls left).  A registration
is written only by SET NX, so the second is an action property of each step.
`HitsMatchTheirBody` assumes that registrations do not lapse and Redis answers
(without the first it is false: a result may outlive the registration it was stored under).  A hit matching its body
is not inductive: the invariant adds that a request past registration agrees with the
registered body (`KeyGoverned`) and that a stored result was made for it
(`ResultsGoverned`).  `NoReplayWithOneWorker` adds one worker: a request away from
an await holds the event loop (`LoopHeld`), so nothing is stored between its last look and
its call.

`ConflictsAreReal` and `FailuresNeverReplayed` hold for all constants again.  The first needs
that a registration was made by a request past its own (`RegHasMaker`), the second that a
request stores or replays only what a call has brought (`CallsRecorded`, `OnlySuccesses`).
`MarkersHaveOwners` holds for any number of workers if Redis answers, nothing is refused and nobody dies, although
`clear_in_progress` deletes whoever's marker it finds: a marker left behind is explained by a stream
that was left, a refusal or a crash (`MarkersExplained`, `DeparturesExplained`), and so is every
request that ended without clearing.

`SingleFlightWhilePatient` needs the clock.  A call is no older than `MaxExec` (`CallsYoung`) and the marker
it has set has aged with it (`CallsMarked`), so it outlives the call if `MarkTTL > MaxExec`, and a
second request of the key finds it, because the first holds the loop from its look at the marker to
setting it (`Alone`).  The one way past it is to give up waiting; `Patient` says that nobody does while a call of the key runs.
That is a condition on behaviours; three theorems replace it by one on the constants.

`SingleFlightOfPairs` is of a request and one duplicate per key (`Pairs`), with any number of keys,
refusals, clients that leave and deaths of the worker, and asks for a wait that is longer than a call.
That is less than the life of a marker, which a refusal or a death leaves standing: who gives up waiting
for such a marker meets no call.  `PairWaits` says it: a duplicate does not begin to wait before the other has
set its marker, and while the other's call runs it has made no more polls than the call has lasted ticks.
The shipped 30 s are longer than the time limits of a call (25 s at most).
`SingleFlightWhenCalm` is of any finite number of requests, allows no refusals, departures or
deaths and asks for `(requests - 1) * (MaxExec + 1)`: every tick a
duplicate has waited is a tick of some other request's marker, and `WaitsPaid` bounds the
time it has waited and what is left of the present marker by `Spent`, what the requests of its key
past their registration (`Past`) may cost.
For three requests of a key the shipped times satisfy neither, and section 3 says what happens.

`CoalescingWhilePatient` and `CoalescingOfPairs` are the refinement: under the same conditions,
without a crash and with no response cache in front, initial states and steps map to
those of `Coalescing` (`TurnRefines` for a request's step, `RestRefines` for expiry and time).

**ProxyCallProofs.**  `IInv` joins `PoolInv` (types, an active key below its
threshold, errors no more than failures), `CallsInv` (types of calls, the bound on
exchanges by the attempts so far and by the key in use) and `StoreInv`.  Lemmas say
what each method does to a key; one lemma per action says what it does to the pool
and to its call.  `CallsTypeCorrect`, `ActiveKeysAreHealthy`, `BlameIsAlwaysEarned`,
`CallsAreBounded`, `ExhaustedKeysStayOut` and `SwitchesLeaveTheKey` follow for any pool,
clients, thresholds, policies and penalties.

**RateSchedulerProofs.**  `RatesAreKept`: that the ideal bucket is never overdrawn is
not inductive, because the real one may have been created with less than the limit
and dropped when full.  `IInv` compares what is missing: the ideal bucket misses no
more of its fill than the real one of its own.  Each bucket of a request keeps this
(`EvictedGood`, `GotGood`, `TakenGood`), a refused request is charged for none
(`Uncharged`), and `CheckedGood` puts the three together.  The assumptions on the
constants are that callers ask within `Limit`, and that the three kinds of bucket
have different names (their prefixes).  `StaleAreFull` needs one more part of the same
invariant: a bucket that is not full holds at least what has come in since its last access
(`Rested`); since a bucket lives for a second at least (`Second <= TTL`), one that is
stale is full.  `TypeCorrect` and `OrderIsOfAccesses` need the order: it lists each bucket once
(`Listed`), by the time of its last access (`InOrder`).  Between `get_or_create_bucket` and `consume` the
second is false, since the bucket in the last place is still as old as it was: the lemmas of a request's
parts keep it for all places but the last (`Latest`) and `consume` restores it.

**BudgetProofs.**  `AdmissionSchedules`: every behaviour of `Admission` is one of `RateScheduler`, so
that the theorems above hold of the buckets as the handlers ask them (`CallsAreScheduled`): an LLM call
those of its key, tenant and profile, an HTTP call that of its key (`AsksAreRequests`).  Limits of tenants and
profiles are not kept for HTTP calls, which do not ask them.  `CapsAlwaysBind` and `ThrottledAlwaysFits` hold for any prices, caps and
calls of `Admission`.  The invariant is that `last` is a decision on a known call; what remains is
arithmetic: `Reduced` never exceeds the limit it lowers (the estimate is above the soft
cap), and nine tenths of the soft cap bound the completion because the estimate contains it.  Both are of calls with a limit the soft cap
has not lowered to 0.

**UsageReportProofs.**  `UsageTypeCorrect`, `RecordsAreSubmittedOnce`,
`RecordsAreAccounted`, `BatchesStaySmall`, `BreakerOpensForCause` and
`LockIsNeverOrphaned` hold for any number of callers, sizes and times.  `IInv` adds to
the six properties: a batch has a holder (`BatchHasHolder`), what is not recorded yet
is nowhere (`Fresh`, without which an appended record could be one already sent), an
attempt has told RapidAPI of its batch at most once (`Attempts`, which bounds `received`), an
open breaker has counted enough failures (`CountWhenOpened`), and queue and batch are finite
(`Sizes`, for the cardinalities).  `KeepKeeps`, `TakenInCounts` and `BreakerKeeps` say
what the pieces of a step do; one lemma per action follows.  Nothing is assumed of
the constants but their types, and that uses and looks are different callers.

**FreeTierProofs.**  `TypeCorrect`, `WindowsHold`, `StuckAlwaysTorn` and
`AttemptsAlwaysRefusals` hold for any finite set of workers, any callers, limits, crashes
and errors.  The inductive invariant adds to the types that in what is left of a block
each INCR is followed by its EXPIRE and no counter is raised twice (`Shape`),
that a window's value is at least what it has let through with what is on its way
(`Counted`), and that recorded attempts together with those still to be sent are covered by the
refusals (`Ledger`).

`OneAboveWithOneWorker` and `AnomaliesNeedTears` are of one worker: with two, one check may read the ten
minutes before and the day after the other's pair of INCRs.  `DayInv` stands beside that invariant: what
is left of the block of an anomaly check is one of five tails of INCR, EXPIRE, INCR, EXPIRE
(`Blocks`), the counter of ten minutes has counted what it let through and the day's what that one has
counted, INCRs still due included, and the last request let through found them within the average (`Fits`),
and what a check has read is still a bound of what it read (`ReadRight`).  A counter that is `torn` is
excepted, which is why it stays torn while its value is in hand.

**TierSyncProofs.**  `TypeCorrect`, `AlwaysProcessedOnce`, `CleanRunAlwaysDecides`.  The
`Shape` of a job says which commands may still be left of its event, in their order.  For the second,
an event not excused has been processed once and its result is stored, or is at one worker only
(`OnceOK`).  For the third, a clean job is alone at its subscriber, and what the commands
done so far have set is still there (`Decided`).

**SubscriptionProofs.**  `TypeCorrect`, `RecordAlwaysFollows`.  The invariant says that a
clean job is the only one of its user (`Alone`), that its writes are of that user (`Own`), and that
where they lead is the outcome of its event on what was expected (`Heading`).

**Only model-checked**: the liveness properties `Answered`, `WindowsReopen` and `StaleEnds`; fairness is
beyond the prover.  Every type invariant, safety invariant, action property and refinement that a passing
run checks is stated by one of the theorems, with the hypotheses named above.

## 6. What is left out

- The events of a stream before its last one, and the parsing of its chunks.
- Onboarding: two SETEX writes per account and e-mail, read by its own verification page only.
- Of the free tier: the counters of tiers and abuse patterns that only statistics read, a
  start with Redis unreachable (every check then allows), the lists of models (two kinds of
  request), `get_max_retries` and `validate_request` (no callers).  Paid callers pass none of the checks.
- Of the RapidAPI webhooks: signatures, malformed events and the refusals 401, 413 and 429, which
  change nothing; the header route to a tier (`dict(request.headers)` has lower-case names and never
  matches); the asynchronous look-up of a tier and `warm_cache` (no callers); the number of keys a
  SCAN of the cache finds.
- Of subscriptions: `check_usage_limit` and `track_usage` (no callers), an unknown plan
  (`ValueError`, so Paddle repeats it for ever), several subscriptions of one user, the check-out pages.
- Of client profiles: `max_parallel_requests`, `burst_size` and `default_timeout_s`, which no handler reads.
- The counter of uses in Redis (`rapidapi.py:648`) and the client without an API key, which clears its queue.
- Concurrency slots of the scheduler: no handler takes one.
- Parsing, formats, metrics, and adapters but for `max_tokens`: they decide no order of steps; a
  response without the fields of a completion is a choice in `DeliverLlm`.
- Delays, jitter and `Retry-After` of a proxied call: a sleep is one step of any length
  (`UsageReport` tells a delay of a second or more from one of none).
- The fallback chain and the switch of keys of `handle_llm_proxy`: behind a test of
  the status of a response that the client never returns.
- The derivation of cache and idempotency hashes, taken to be injective.
- Which of two keys is the better loaded: `Loads` lets any number of requests leave
  the window, and no property speaks of it.

## 7. Plan

Done: all modules of section 2, their runs and proofs.  What would add most from here:

1. An abstract ledger of uses (recorded, received, lost) that `UsageReport` implements.
2. The events of a stream before its last one, and the time limit on its pauses.
3. Onboarding, if its records come to be read by the rest of the gateway.
