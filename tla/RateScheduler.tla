---------------------------- MODULE RateScheduler ----------------------------
(***************************************************************************)
(* The token buckets of RateScheduler: check_rate_limit over the buckets   *)
(* of a provider key, a tenant and a client profile, the eviction of the   *)
(* least recently used bucket, and the clean-up task.  Each runs under the *)
(* scheduler's lock without an await, so each is one step.                 *)
(*                                                                         *)
(* Time passes in ticks.  Tokens are counted in whole units; the refill,   *)
(* which the code puts off until a bucket is used, is carried out as time  *)
(* passes and comes to the same tokens.                                    *)
(***************************************************************************)
EXTENDS Integers, Sequences

CONSTANTS
    Names,      \* bucket keys: "provider_key:...", "tenant:...", "profile:..."
    Requests,   \* what callers ask: for each kind the bucket and its qps, or none
    Limit,      \* the highest qps that callers give for a bucket
    None,       \* no bucket is asked; the bucket does not exist
    Cost,       \* units of one token
    Second,     \* ticks of a second; qps is in units per tick
    MaxBuckets, \* max_buckets (1000)
    TTL         \* bucket_ttl_seconds (3600), in ticks

Kinds == {"key", "tenant", "profile"}

Asks == [bucket : Names \union {None}, qps : Nat]

\* A bucket: the max_qps it was created with, its tokens, and the ticks since it
\* was last accessed, which saturate.
Buckets == [qps : Nat, tokens : Nat, age : 0..TTL + 1]

\* The most a bucket holds: max_qps tokens, what one second brings.
Full(qps) == qps * Second

ASSUME SchedulerAssumption ==
    /\ Requests \subseteq [Kinds -> Asks]
    /\ Limit \in [Names -> Nat]
    /\ \A r \in Requests : \A kind \in Kinds :
          r[kind].bucket # None => r[kind].qps <= Limit[r[kind].bucket]
    /\ \A r \in Requests : \A k, l \in Kinds :
          k # l /\ r[k].bucket # None => r[k].bucket # r[l].bucket
    /\ None \notin Names \union Buckets
    /\ {Cost, Second, MaxBuckets, TTL} \subseteq Nat \ {0}
    /\ Second <= TTL

VARIABLES
    buckets,  \* the bucket of each name, or none
    order,    \* the names by their last use (OrderedDict)
    ideal,    \* what a bucket that is never dropped would hold (ghost)
    lost      \* names whose bucket was dropped before it was full (ghost)

vars == <<buckets, order, ideal, lost>>

Present == {n \in Names : buckets[n] # None}

TypeOK ==
    /\ buckets \in [Names -> Buckets \union {None}]
    /\ \A n \in Present : buckets[n].tokens <= Full(buckets[n].qps)
    /\ Len(order) <= MaxBuckets
    /\ order \in Seq(Names) /\ {order[i] : i \in DOMAIN order} = Present
    /\ \A i, j \in DOMAIN order : order[i] = order[j] => i = j
    /\ ideal \in [Names -> Int]
    /\ lost \subseteq Names

Init ==
    /\ buckets = [n \in Names |-> None]
    /\ order = << >>
    /\ ideal = [n \in Names |-> Full(Limit[n])]
    /\ lost = {}

AtMost(n, cap) == IF n < cap THEN n ELSE cap

\* The order without some names, the rest as they were among each other: there is one.
Without(names) ==
    {s \in UNION {[1..l -> Present \ names] : l \in 0..Len(order)} :
        /\ {s[i] : i \in DOMAIN s} = Present \ names
        /\ \A i, j \in DOMAIN s : i < j =>
              \E k, l \in DOMAIN order : k < l /\ order[k] = s[i] /\ order[l] = s[j]}

\* move_to_end of a name that is in the order s.
MovedToEnd(s, n) ==
    LET k == CHOOSE i \in DOMAIN s : s[i] = n
    IN  [i \in DOMAIN s |-> IF i < k THEN s[i] ELSE IF i < Len(s) THEN s[i + 1] ELSE n]

-----------------------------------------------------------------------------
(* One request, bucket by bucket.  S is the state so far: the buckets, their *)
(* order, the names lost, and whether the request is still allowed.          *)

\* A slip a change could make, to be put in the place of Evicted: one bucket more
\* than there is room for.
EvictedLate(S) ==
    IF Len(S.order) <= MaxBuckets THEN S
    ELSE LET n == Head(S.order)
             b == S.buckets[n]
         IN  [S EXCEPT !.order = Tail(@), !.buckets[n] = None,
                       !.lost = IF b.tokens < Full(b.qps) THEN @ \union {n} ELSE @]

\* _evict_lru_bucket, while there is no room for another bucket.
Evicted(S) ==
    IF Len(S.order) < MaxBuckets THEN S
    ELSE LET n == Head(S.order)
             b == S.buckets[n]
         IN  [S EXCEPT !.order = Tail(@), !.buckets[n] = None,
                       !.lost = IF b.tokens < Full(b.qps) THEN @ \union {n} ELSE @]

\* Two more, for Got and for Taken: a bucket in use keeps its place in the order,
\* and a refused request does not count as an access.
GotUnmoved(S, ask) ==
    LET n == ask.bucket
        E == Evicted(S)
    IN  IF S.buckets[n] # None THEN S
        ELSE [E EXCEPT !.order = Append(@, n),
                       !.buckets[n] = [qps |-> ask.qps, tokens |-> Full(ask.qps), age |-> 0]]

TakenUntouched(S, ask) ==
    LET n == ask.bucket
        enough == S.buckets[n].tokens >= Cost
    IN  IF enough THEN [S EXCEPT !.buckets[n].tokens = @ - Cost] ELSE [S EXCEPT !.ok = FALSE]

\* get_or_create_bucket: a bucket that exists keeps the max_qps it has.
Got(S, ask) ==
    LET n == ask.bucket
        E == Evicted(S)
    IN  IF S.buckets[n] # None
        THEN [S EXCEPT !.order = MovedToEnd(@, n)]
        ELSE [E EXCEPT !.order = Append(@, n),
                       !.buckets[n] = [qps |-> ask.qps, tokens |-> Full(ask.qps), age |-> 0]]

\* consume
Taken(S, ask) ==
    LET b == S.buckets[ask.bucket]
        enough == b.tokens >= Cost
    IN  [S EXCEPT !.ok = enough,
                  !.buckets[ask.bucket] =
                      [b EXCEPT !.age = 0, !.tokens = IF enough THEN @ - Cost ELSE @]]

\* A bucket is asked unless an earlier one has refused.
Asked(S, ask) ==
    IF S.ok /\ ask.bucket # None THEN Taken(Got(S, ask), ask) ELSE S

\* check_rate_limit
Checked(r) ==
    Asked(Asked(Asked([buckets |-> buckets, order |-> order, lost |-> lost, ok |-> TRUE],
                      r["key"]), r["tenant"]), r["profile"])

\* The ideal bucket of each name the request asked, once it is allowed; that of a
\* name whose bucket was lost just stops at zero.
Charged(r, S) ==
    [n \in Names |->
        IF ~S.ok \/ \A kind \in Kinds : r[kind].bucket # n THEN ideal[n]
        ELSE IF n \in S.lost /\ ideal[n] < Cost THEN 0
        ELSE ideal[n] - Cost]

CheckRateLimit(r) ==
    LET S == Checked(r)
    IN  /\ buckets' = S.buckets /\ order' = S.order /\ lost' = S.lost
        /\ ideal' = Charged(r, S)

-----------------------------------------------------------------------------
\* _cleanup_expired_buckets
Cleanup ==
    LET expired == {n \in Present : buckets[n].age > TTL}
    IN  /\ expired # {}
        /\ buckets' = [n \in Names |-> IF n \in expired THEN None ELSE buckets[n]]
        /\ order' \in Without(expired)
        /\ lost' = lost \union {n \in expired : buckets[n].tokens < Full(buckets[n].qps)}
        /\ UNCHANGED ideal

\* A slip in the place of Refilled: the bucket fills up to its burst_size.
RefilledToBurst(b) == [b EXCEPT !.tokens = AtMost(@ + b.qps, 2 * Full(b.qps)),
                                !.age    = AtMost(@ + 1, TTL + 1)]

\* The refill of one tick.
Refilled(b) == [b EXCEPT !.tokens = AtMost(@ + b.qps, Full(b.qps)),
                         !.age    = AtMost(@ + 1, TTL + 1)]

\* Time passes.  Once the ideal bucket is full, a loss is made good.
Tick ==
    /\ buckets' = [n \in Names |-> IF n \in Present THEN Refilled(buckets[n]) ELSE None]
    /\ ideal' = [n \in Names |-> AtMost(ideal[n] + Limit[n], Full(Limit[n]))]
    /\ lost' = {n \in lost : ideal'[n] < Full(Limit[n])}
    /\ UNCHANGED order

Next ==
    \/ \E r \in Requests : CheckRateLimit(r)
    \/ Cleanup
    \/ Tick

Spec == Init /\ [][Next]_vars

-----------------------------------------------------------------------------
\* Whatever the qps its bucket was created with and however the requests that ask it
\* share it, a name is granted no more than its highest limit allows over any stretch
\* of time, unless its bucket was dropped before it was full.  A request that gives a
\* lower limit than another has no claim of its own on the bucket they share.
WithinRate == \A n \in Names \ lost : ideal[n] >= 0

\* The clean-up task finds only full buckets to drop, so that it lets nobody
\* exceed a limit.
StaleBucketsAreFull ==
    \A n \in Present : buckets[n].age > TTL => buckets[n].tokens = Full(buckets[n].qps)

\* The bucket that is evicted is one that nobody has asked for longer than any
\* other: the order of the dictionary is that of the last accesses.
OldestFirst ==
    \A i, j \in DOMAIN order : i < j => buckets[order[i]].age >= buckets[order[j]].age

=============================================================================
