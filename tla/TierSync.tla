------------------------------ MODULE TierSync ------------------------------
(***************************************************************************)
(* How a subscription bought at RapidAPI reaches the gateway: webhooks,     *)
(* delivered at least once and in any order, set the tier cached for the    *)
(* subscriber's key and the record of its tenant, both in Redis, and a      *)
(* request's tier is looked up in the cache.                                *)
(*                                                                         *)
(* After the body is read a webhook is processed without suspending: one    *)
(* worker runs one to its end, several interleave command by command, and   *)
(* a worker may die, or Redis fail, between any two commands.               *)
(***************************************************************************)
EXTENDS Naturals, Sequences, FiniteSets

CONSTANTS
    Workers,      \* processes of the gateway
    Subscribers,  \* users of RapidAPI, each with its key
    Tiers,        \* what SubscriptionTier names
    Free,         \* the tier of whoever is not known
    NoTier,       \* nothing stored
    Unsure,       \* ghost: nothing is promised
    Lapsing,      \* bound: what lapses, of "cache", "tenant", "marker" and "result"
    MaxEvents,    \* bound: events
    MaxFailures,  \* bound: deaths of workers and commands that raise
    MaxDrops      \* bound: answers that RapidAPI does not get

ASSUME ConstantsAssumption ==
    /\ Free \in Tiers
    /\ NoTier \notin Tiers /\ Unsure \notin Tiers \union {NoTier}
    /\ Lapsing \subseteq {"cache", "tenant", "marker", "result"}
    /\ {MaxEvents, MaxFailures, MaxDrops} \subseteq Nat

Kinds == {"created", "updated", "cancelled", "alert"}

\* An event: whom it is about, and the tier it brings.
Events == [of : Subscribers, kind : Kinds, tier : Tiers \union {NoTier}]

\* Events are known by their number, which is their id.
Ids == 1..MaxEvents

Keys == {"cache", "tenant"} \X Subscribers

\* The commands of a webhook.  The marker of being processed is written with the first and
\* deleted with the last, for no command of the program reads it.
TenantCommands == {"create_tenant", "expire_tenant", "update_tenant", "drop_tenant"}
Commands == {"drop_cache", "set_cache", "expire_cache", "store"} \union TenantCommands

VARIABLES
    happened,  \* the events of RapidAPI, in their order
    due,       \* events it still delivers, not having been told 200
    cache,     \* the tier cached for a subscriber's key
    tenant,    \* the tier in the record of its tenant
    live,      \* keys that have a time to live
    marked,    \* events with a marker of being processed
    stored,    \* events with a stored result
    job,       \* the webhook a worker is processing, the commands it has left
    settled,   \* ghost: what the last undisturbed webhook of a subscriber has set
    done,      \* ghost: how often an event was processed to its end
    excused,   \* ghost: events that may be processed again
    torn,      \* ghost: subscribers whose cache was set and not given a life
    failures, drops

redis == <<cache, tenant, live, marked, stored>>
ghosts == <<settled, done, excused, torn>>
bounds == <<failures, drops>>
vars == <<happened, due, redis, job, ghosts, bounds>>

\* clean: nobody else is at work on the subscriber and no command was lost.
Idle == [id |-> 0, todo |-> <<>>, clean |-> TRUE]

TypeOK ==
    /\ happened \in Seq(Events) /\ Len(happened) <= MaxEvents
    /\ due \subseteq DOMAIN happened
    /\ cache \in [Subscribers -> Tiers \union {NoTier}]
    /\ tenant \in [Subscribers -> Tiers \union {NoTier}]
    /\ live \subseteq Keys
    /\ \A s \in Subscribers :
          /\ <<"cache", s>> \in live => cache[s] # NoTier
          /\ <<"tenant", s>> \in live => tenant[s] # NoTier
    /\ marked \subseteq DOMAIN happened /\ stored \subseteq DOMAIN happened
    /\ job \in [Workers -> [id : {0} \union DOMAIN happened, todo : Seq(Commands),
                            clean : BOOLEAN]]
    /\ \A w \in Workers : job[w].id = 0 <=> job[w].todo = <<>>
    /\ settled \in [Subscribers -> Tiers \union {NoTier, Unsure}]
    /\ done \in [Ids -> Nat]
    /\ excused \subseteq DOMAIN happened
    /\ torn \subseteq Subscribers
    /\ failures \in 0..MaxFailures /\ drops \in 0..MaxDrops

Init ==
    /\ happened = <<>> /\ due = {}
    /\ cache = [s \in Subscribers |-> NoTier]
    /\ tenant = [s \in Subscribers |-> NoTier]
    /\ live = {} /\ marked = {} /\ stored = {}
    /\ job = [w \in Workers |-> Idle]
    /\ settled = [s \in Subscribers |-> Unsure]
    /\ done = [n \in Ids |-> 0]
    /\ excused = {} /\ torn = {}
    /\ failures = 0 /\ drops = 0
-----------------------------------------------------------------------------
(* RapidAPI. *)

\* Whether s has a subscription there: its last event that is not an alert tells.
Subscribed(s) ==
    \E n \in DOMAIN happened :
      /\ happened[n].of = s /\ happened[n].kind \in {"created", "updated"}
      /\ \A m \in DOMAIN happened : m > n /\ happened[m].of = s => happened[m].kind # "cancelled"

\* A subscription is bought, changed or given up, or its usage is high.
Happens(e) ==
    /\ Len(happened) < MaxEvents
    /\ (e.kind = "created") # Subscribed(e.of)
    /\ (e.kind \in {"created", "updated"}) <=> (e.tier # NoTier)
    /\ happened' = Append(happened, e)
    /\ due' = due \union {Len(happened) + 1}
    /\ UNCHANGED <<redis, job, ghosts, bounds>>

\* It is told 200 for event n, or the answer gets lost.
Answers(n) ==
    \/ due' = due \ {n} /\ UNCHANGED drops
    \/ drops < MaxDrops /\ drops' = drops + 1 /\ UNCHANGED due
-----------------------------------------------------------------------------
(* The webhook. *)

\* Slips, no specification uses them: a cancellation leaves the cache to itself; the cache
\* is given no life.
WorkUncached(kind) ==
    CASE kind = "created" -> <<"set_cache", "expire_cache", "create_tenant", "expire_tenant">>
      [] kind = "updated" -> <<"drop_cache", "set_cache", "expire_cache", "update_tenant">>
      [] kind = "cancelled" -> <<"drop_tenant">>
      [] OTHER -> <<>>

WorkUnexpired(kind) ==
    CASE kind = "created" -> <<"set_cache", "create_tenant", "expire_tenant">>
      [] kind = "updated" -> <<"drop_cache", "set_cache", "update_tenant">>
      [] kind = "cancelled" -> <<"drop_cache", "drop_tenant">>
      [] OTHER -> <<>>

\* What processing an event asks of Redis (_process_webhook_event).
Work(kind) ==
    CASE kind = "created" -> <<"set_cache", "expire_cache", "create_tenant", "expire_tenant">>
      [] kind = "updated" -> <<"drop_cache", "set_cache", "expire_cache", "update_tenant">>
      [] kind = "cancelled" -> <<"drop_cache", "drop_tenant">>
      [] OTHER -> <<>>

\* The other workers that are at work on subscriber s.
Others(w, s) == {v \in Workers \ {w} : job[v].id # 0 /\ happened[job[v].id].of = s}

\* Worker w starts on event n, which has no result that it could see.
Starts(w, n, clean) ==
    LET e == happened[n]
        rivals == Others(w, e.of)
    IN /\ marked' = marked \union {n}
       /\ job' = [v \in Workers |->
            CASE v = w -> [id |-> n, todo |-> Append(Work(e.kind), "store"),
                           clean |-> clean /\ rivals = {}]
              [] v \in rivals -> [job[v] EXCEPT !.clean = FALSE]
              [] OTHER -> job[v]]
       /\ settled' = IF Work(e.kind) = <<>> THEN settled ELSE [settled EXCEPT ![e.of] = Unsure]
       /\ excused' = IF ~clean \/ \E v \in rivals : job[v].id = n
                     THEN excused \union {n} ELSE excused

\* Slip, no specification uses it: the marker of being processed is asked, not the result.
DuplicateByMarker(n) == n \in marked

Duplicate(n) == n \in stored

\* A delivery: an event with a stored result is a duplicate and answered at once.
Deliver(w, n) ==
    /\ job[w].id = 0
    /\ n \in due
    /\ IF Duplicate(n)
       THEN Answers(n) /\ UNCHANGED <<marked, job, settled, excused>>
       ELSE Starts(w, n, TRUE) /\ UNCHANGED <<due, drops>>
    /\ UNCHANGED <<happened, cache, tenant, live, stored, done, torn, failures>>

\* Slip, no specification uses it: HDEL of the tier alone, so that what is left of the
\* cached hash keeps its life.
DroppedField(k) == IF k[1] = "cache" THEN live ELSE live \ {k}

Dropped(k) == live \ {k}

\* What a command does to Redis.
Does(op, n) ==
    LET s == happened[n].of
        t == happened[n].tier
    IN \/ /\ op = "store" /\ stored' = stored \union {n}
          /\ UNCHANGED <<cache, tenant, live>>
       \/ /\ op = "drop_cache"
          /\ cache' = [cache EXCEPT ![s] = NoTier] /\ live' = Dropped(<<"cache", s>>)
          /\ UNCHANGED <<tenant, stored>>
       \/ /\ op = "set_cache" /\ cache' = [cache EXCEPT ![s] = t]
          /\ UNCHANGED <<tenant, live, stored>>
       \/ /\ op = "expire_cache"
          /\ live' = IF cache[s] # NoTier THEN live \union {<<"cache", s>>} ELSE live
          /\ UNCHANGED <<cache, tenant, stored>>
       \/ /\ op \in {"create_tenant", "update_tenant"} /\ tenant' = [tenant EXCEPT ![s] = t]
          /\ UNCHANGED <<cache, live, stored>>
       \/ /\ op = "expire_tenant"
          /\ live' = IF tenant[s] # NoTier THEN live \union {<<"tenant", s>>} ELSE live
          /\ UNCHANGED <<cache, tenant, stored>>
       \/ /\ op = "drop_tenant"
          /\ tenant' = [tenant EXCEPT ![s] = NoTier] /\ live' = Dropped(<<"tenant", s>>)
          /\ UNCHANGED <<cache, stored>>

\* The cache of a subscriber is no longer torn when it is gone or has a life.
Mends(op, s) == torn' = IF op \in {"drop_cache", "expire_cache"} THEN torn \ {s} ELSE torn

\* Worker w goes on with what is left of its webhook after the command op: after the last
\* one the marker is deleted and RapidAPI answered, 200 if the webhook got as far as that.
GoesOn(w, op, todo, clean) ==
    LET n == job[w].id
        s == happened[n].of
    IN /\ job' = [job EXCEPT ![w] = IF todo = <<>> THEN Idle
                      ELSE [id |-> n, todo |-> todo, clean |-> job[w].clean /\ clean]]
       /\ marked' = IF todo = <<>> THEN marked \ {n} ELSE marked
       /\ IF op = "store" THEN Answers(n) ELSE UNCHANGED <<due, drops>>
       /\ done' = IF op = "store" THEN [done EXCEPT ![n] = @ + 1] ELSE done
       /\ settled' = IF op = "store" /\ Work(happened[n].kind) # <<>> /\ job[w].clean
                     THEN [settled EXCEPT ![s] = happened[n].tier] ELSE settled

\* The next command of a webhook.
Step(w) ==
    /\ job[w].id # 0
    /\ LET op == Head(job[w].todo)
       IN /\ Does(op, job[w].id)
          /\ Mends(op, happened[job[w].id].of)
          /\ GoesOn(w, op, Tail(job[w].todo), TRUE)
    /\ UNCHANGED <<happened, excused, failures>>

\* What is left of a webhook after op raised: _cache_tier and invalidate_tier_cache swallow
\* it, and so does the idempotency manager; from the tenant's record it ends in a 500.
AfterError(op, todo) ==
    CASE op = "set_cache" -> Tail(todo)
      [] op \in TenantCommands -> <<>>
      [] OTHER -> todo

\* A command raises, carried out or not.
StepFails(w) ==
    /\ job[w].id # 0
    /\ LET op == Head(job[w].todo)
           n == job[w].id
       IN /\ Does(op, n) \/ UNCHANGED <<cache, tenant, live, stored>>
          /\ GoesOn(w, op, AfterError(op, Tail(job[w].todo)), FALSE)
          /\ excused' = IF op = "store" THEN excused \union {n} ELSE excused
          /\ torn' = IF op \in {"set_cache", "expire_cache"}
                     THEN torn \union {happened[n].of} ELSE torn

\* The look-up of a stored result raises: the event is taken for a new one.
LookUpFails(w) ==
    \E n \in due :
      /\ job[w].id = 0
      /\ Starts(w, n, FALSE)
      /\ UNCHANGED <<cache, tenant, live, stored, due, done, torn, drops>>

RedisFails(w) ==
    /\ failures < MaxFailures
    /\ failures' = failures + 1
    /\ StepFails(w) \/ LookUpFails(w)
    /\ UNCHANGED happened

\* The process dies: no answer, and the marker stays.
Crash(w) ==
    /\ failures < MaxFailures
    /\ job[w].id # 0
    /\ failures' = failures + 1
    /\ job' = [job EXCEPT ![w] = Idle]
    /\ LET n == job[w].id
       IN torn' = IF Head(job[w].todo) = "expire_cache" THEN torn \union {happened[n].of} ELSE torn
    /\ UNCHANGED <<happened, due, redis, settled, done, excused, drops>>
-----------------------------------------------------------------------------
(* Time. *)

\* The ten minutes of a cached tier are over, or the year of a tenant's record.
LapseKey(k) ==
    /\ k \in live /\ k[1] \in Lapsing
    /\ live' = live \ {k}
    /\ IF k[1] = "cache"
       THEN cache' = [cache EXCEPT ![k[2]] = NoTier] /\ UNCHANGED <<tenant, job, settled>>
       ELSE /\ tenant' = [tenant EXCEPT ![k[2]] = NoTier] /\ UNCHANGED cache
            /\ settled' = [settled EXCEPT ![k[2]] = Unsure]
            /\ job' = [w \in Workers |->
                  [job[w] EXCEPT !.clean = @ /\ (job[w].id = 0 \/ happened[job[w].id].of # k[2])]]
    /\ torn' = IF k[1] = "cache" THEN torn \ {k[2]} ELSE torn
    /\ UNCHANGED <<happened, due, marked, stored, done, excused, bounds>>

\* The minute of a marker.
LapseMarker(n) ==
    /\ n \in marked /\ "marker" \in Lapsing
    /\ marked' = marked \ {n}
    /\ UNCHANGED <<happened, due, cache, tenant, live, stored, job, ghosts, bounds>>

\* The day of a stored result.
LapseResult(n) ==
    /\ n \in stored /\ "result" \in Lapsing
    /\ stored' = stored \ {n}
    /\ excused' = excused \union {n}
    /\ UNCHANGED <<happened, due, cache, tenant, live, marked, job, settled, done, torn, bounds>>

Next ==
    \/ \E e \in Events : Happens(e)
    \/ \E w \in Workers :
          Step(w) \/ RedisFails(w) \/ Crash(w) \/ \E n \in due : Deliver(w, n)
    \/ \E k \in Keys : LapseKey(k)
    \/ \E n \in Ids : LapseMarker(n) \/ LapseResult(n)

Spec == Init /\ [][Next]_vars

\* A worker goes on with its webhook, and Redis drops a cached tier whose time is over.
FairSpec ==
    /\ Spec
    /\ \A w \in Workers : WF_vars(Step(w))
    /\ \A s \in Subscribers : WF_vars(LapseKey(<<"cache", s>>))
-----------------------------------------------------------------------------
(* Properties. *)

\* The tier of a request with the key of s (get_account_tier): what the cache says.
AccountTier(s) == IF cache[s] # NoTier THEN cache[s] ELSE Free

\* An event is processed a second time only after its result has lapsed, after a failure
\* of Redis, or because two workers were at it at once.
ProcessedOnce == \A n \in Ids : done[n] > 1 => n \in excused

\* A webhook that nobody disturbed settles both copies, whatever the disturbed ones before
\* it have left: the tenant's record has its tier, and the cache has it or has lapsed.
CleanRunDecides ==
    \A s \in Subscribers : settled[s] # Unsure =>
        tenant[s] = settled[s] /\ cache[s] \in {NoTier, settled[s]}

\* A key is given a tier that its tenant does not have, because a command was lost or
\* events got mixed.
Astray(s) == AccountTier(s) \notin {Free, tenant[s]}

\* That ends with the life of the cached tier at the latest, unless the command that gives
\* it a life was lost.
StaleEnds == \A s \in Subscribers : Astray(s) ~> ~Astray(s) \/ s \in torn
=============================================================================
