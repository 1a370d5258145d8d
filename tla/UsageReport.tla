---------------------------- MODULE UsageReport ----------------------------
(***************************************************************************)
(* How RapidAPIClient reports usage: record_usage puts a record into a      *)
(* queue in memory, and the call that finds the queue full or old submits   *)
(* it as one batch, holding the lock of the queue.  _api_call_with_retry    *)
(* retries with a circuit breaker that all calls of RapidAPI in the process *)
(* share; a batch that cannot be submitted goes to a key of Redis.          *)
(*                                                                         *)
(* One process.  Its event loop runs a caller from one await to the next:  *)
(* waiting for the lock, for a reply, or for the end of a delay.  The       *)
(* breaker's own lock is never held across an await, so nobody waits for it. *)
(* A tick is a second, the resolution of the name of the fall-back key.     *)
(***************************************************************************)
EXTENDS Naturals, FiniteSets

CONSTANTS
    Uses,            \* proxied calls; each records one use
    Looks,           \* calls of /rapidapi/status, which ask RapidAPI for the statistics
    Nobody,          \* holds a free lock
    Never,           \* the time a closed breaker opened
    FlushAt,         \* records that make a batch (100)
    FlushAfter,      \* seconds after which the next record flushes (300)
    MaxRetries,      \* attempts of a call (3)
    FailuresToOpen,  \* failures that open the breaker (3)
    OpenTTL,         \* seconds it stays open (60)
    RedisFails,      \* writing the fall-back key may raise
    MaxStops         \* bound: how often the process stops and starts again

Callers == Uses \union Looks

ASSUME ConstantsAssumption ==
    /\ Uses \intersect Looks = {}
    /\ Nobody \notin Uses
    /\ Never \notin Nat
    /\ {FlushAt, FlushAfter, MaxRetries, FailuresToOpen, OpenTTL} \subseteq Nat \ {0}
    /\ RedisFails \in BOOLEAN
    /\ MaxStops \in Nat

VARIABLES
    queue,     \* _usage_queue
    holder,    \* who holds _usage_queue_lock across an await
    batch,     \* queue_copy of the holder
    idle,      \* seconds since _last_usage_flush, up to FlushAfter
    failures,  \* failure_count of the breaker, up to FailuresToOpen
    opened,    \* seconds since opened_at, up to OpenTTL
    pc,        \* where a caller is
    attempt,   \* the attempt of its call of RapidAPI
    kept,      \* what the fall-back keys hold: the key of this second, the others
    received,  \* how often RapidAPI has taken in a record
    lost,      \* records nobody has any more (a ghost: the code keeps no account)
    stops      \* how often the process has stopped

account == <<kept, received, lost>>
breaker == <<failures, opened>>
vars == <<queue, holder, batch, idle, breaker, pc, attempt, account, stops>>

Places == {"new", "lock", "calling", "delay", "rested", "done", "gone"}

TypeOK ==
    /\ queue \subseteq Uses
    /\ holder \in Uses \union {Nobody}
    /\ batch \subseteq Uses
    /\ idle \in 0..FlushAfter
    /\ failures \in 0..FailuresToOpen
    /\ opened \in {Never} \union 0..OpenTTL
    /\ pc \in [Callers -> Places]
    /\ attempt \in [Callers -> 0..MaxRetries]
    /\ kept \in [now : SUBSET Uses, before : SUBSET Uses]
    /\ received \in [Uses -> 0..MaxRetries]
    /\ lost \subseteq Uses
    /\ stops \in 0..MaxStops

Init ==
    /\ queue = {} /\ holder = Nobody /\ batch = {} /\ idle = 0
    /\ failures = 0 /\ opened = Never
    /\ pc = [c \in Callers |-> "new"]
    /\ attempt = [c \in Callers |-> 0]
    /\ kept = [now |-> {}, before |-> {}]
    /\ received = [u \in Uses |-> 0]
    /\ lost = {}
    /\ stops = 0

Moves(c, place) == pc' = [pc EXCEPT ![c] = place]
-----------------------------------------------------------------------------
(* The breaker. *)

\* is_open answers TRUE.
Open == opened # Never /\ opened < OpenTTL

\* is_open answers FALSE; a breaker whose time is over closes.
FoundClosed ==
    /\ ~Open
    /\ opened' = Never
    /\ failures' = IF opened = Never THEN failures ELSE 0

\* A slip of the kind a change to the code could make; no specification uses it.  A
\* success resets the count only.
SuccessResetsCount == failures' = 0 /\ UNCHANGED opened

RecordSuccess == failures' = 0 /\ opened' = Never

\* The failure after n earlier ones; a late failure opens the breaker afresh.
FailsAfter(n, since) ==
    IF n + 1 >= FailuresToOpen THEN failures' = FailuresToOpen /\ opened' = 0
                               ELSE failures' = n + 1 /\ opened' = since

RecordFailure == FailsAfter(failures, opened)

-----------------------------------------------------------------------------
(* The fall-back key usage_pending:<second>. *)

\* SET: what the key of this second held before is gone.
Keep(b) ==
    \/ /\ kept' = [kept EXCEPT !.now = b]
       /\ lost' = lost \union (kept.now \ b)
    \/ /\ RedisFails
       /\ lost' = lost \union b
       /\ UNCHANGED kept

\* Another slip: the lock is not given back when a call fails.
EndsHolding(c, success) ==
    /\ Moves(c, "done")
    /\ attempt' = [attempt EXCEPT ![c] = 0]
    /\ \/ c \in Looks /\ UNCHANGED <<holder, batch, kept, lost>>
       \/ /\ c \in Uses /\ batch' = {}
          /\ IF success THEN holder' = Nobody /\ UNCHANGED <<kept, lost>>
                        ELSE Keep(batch) /\ UNCHANGED holder
    /\ UNCHANGED <<queue, idle, stops>>

\* What follows a call of RapidAPI: _flush_usage_queue keeps a batch that was not
\* submitted, and record_usage gives the lock back.
Ends(c, success) ==
    /\ Moves(c, "done")
    /\ attempt' = [attempt EXCEPT ![c] = 0]
    /\ \/ c \in Looks /\ UNCHANGED <<holder, batch, kept, lost>>
       \/ /\ c \in Uses
          /\ holder' = Nobody /\ batch' = {}
          /\ IF success THEN UNCHANGED <<kept, lost>> ELSE Keep(batch)
    /\ UNCHANGED <<queue, idle, stops>>

\* An await of at least a second ("delay") or of none ("rested") before the next
\* attempt, or before giving up.
Delays(c, place) ==
    /\ Moves(c, place)
    /\ UNCHANGED <<queue, holder, batch, idle, attempt, kept, lost, stops>>

\* RapidAPI has taken in what c sent.
TakenIn(c) ==
    received' = IF c \in Looks THEN received
                ELSE [u \in Uses |-> IF u \in batch THEN received[u] + 1 ELSE received[u]]

\* Whether it did before the call failed is not known here.
PerhapsTakenIn(c) == TakenIn(c) \/ UNCHANGED received

-----------------------------------------------------------------------------
(* Three slips more. *)

\* The queue is copied and not cleared.
SubmitUncleared(u) ==
    /\ FoundClosed
    /\ Moves(u, "calling") /\ attempt' = [attempt EXCEPT ![u] = 1]
    /\ holder' = u /\ batch' = queue \union {u} /\ queue' = queue \union {u} /\ idle' = 0
    /\ UNCHANGED <<account, stops>>

\* The lock is not held while the batch is submitted.
SubmitUnlocked(u) ==
    /\ FoundClosed
    /\ Moves(u, "calling") /\ attempt' = [attempt EXCEPT ![u] = 1]
    /\ batch' = queue \union {u} /\ queue' = {} /\ idle' = 0
    /\ UNCHANGED <<holder, account, stops>>

\* range(1, MAX_RETRIES + 2)
RetryOnceMore(c) ==
    /\ pc[c] = "rested"
    /\ \/ /\ attempt[c] <= MaxRetries
          /\ Moves(c, "calling")
          /\ attempt' = [attempt EXCEPT ![c] = @ + 1]
          /\ UNCHANGED <<queue, holder, batch, idle, breaker, account, stops>>
       \/ /\ attempt[c] > MaxRetries
          /\ Ends(c, FALSE)
          /\ UNCHANGED <<breaker, received>>

-----------------------------------------------------------------------------
(* record_usage. *)

\* The proxied call is over and its use is to be recorded.
Finished(u) ==
    /\ pc[u] = "new"
    /\ Moves(u, "lock")
    /\ UNCHANGED <<queue, holder, batch, idle, breaker, attempt, account, stops>>

\* The batch is taken off the queue and sent.
Submit(u) ==
    /\ FoundClosed
    /\ Moves(u, "calling") /\ attempt' = [attempt EXCEPT ![u] = 1]
    /\ holder' = u /\ batch' = queue \union {u} /\ queue' = {} /\ idle' = 0
    /\ UNCHANGED <<account, stops>>

\* It is taken off, but the breaker is open: the call fails without an await.
Withheld(u) ==
    /\ Open
    /\ Moves(u, "done")
    /\ Keep(queue \union {u})
    /\ queue' = {} /\ idle' = 0
    /\ UNCHANGED <<holder, batch, breaker, attempt, received, stops>>

\* A slip as above: the length is compared with > and not >=.
RecordUsageLate(u) ==
    /\ pc[u] = "lock" /\ holder = Nobody
    /\ \/ /\ Cardinality(queue) + 1 <= FlushAt /\ idle < FlushAfter
          /\ queue' = queue \union {u}
          /\ Moves(u, "done")
          /\ UNCHANGED <<holder, batch, idle, breaker, attempt, account, stops>>
       \/ /\ Cardinality(queue) + 1 > FlushAt \/ idle >= FlushAfter
          /\ Submit(u) \/ Withheld(u)

\* With the lock: append, and flush when the queue is long enough or the last
\* flush too long ago.
RecordUsage(u) ==
    /\ pc[u] = "lock" /\ holder = Nobody
    /\ \/ /\ Cardinality(queue) + 1 < FlushAt /\ idle < FlushAfter
          /\ queue' = queue \union {u}
          /\ Moves(u, "done")
          /\ UNCHANGED <<holder, batch, idle, breaker, attempt, account, stops>>
       \/ /\ Cardinality(queue) + 1 >= FlushAt \/ idle >= FlushAfter
          /\ Submit(u) \/ Withheld(u)

-----------------------------------------------------------------------------
(* get_usage_stats. *)

AskStats(c) ==
    /\ pc[c] = "new"
    /\ \/ /\ FoundClosed
          /\ Moves(c, "calling") /\ attempt' = [attempt EXCEPT ![c] = 1]
       \/ /\ Open
          /\ Moves(c, "done")
          /\ UNCHANGED <<breaker, attempt>>
    /\ UNCHANGED <<queue, holder, batch, idle, account, stops>>

-----------------------------------------------------------------------------
(* _api_call_with_retry, from a reply to the next await. *)

\* 200.  A body of the wrong structure is a failed call all the same.
Accepted(c) ==
    /\ pc[c] = "calling"
    /\ RecordSuccess /\ TakenIn(c)
    /\ Ends(c, TRUE) \/ Ends(c, FALSE)

\* 200, but the body is no JSON: the success is recorded, then the failure.
Garbled(c) ==
    /\ pc[c] = "calling"
    /\ FailsAfter(0, Never) /\ TakenIn(c)
    /\ Ends(c, FALSE)

\* 429: wait as long as it says, which may be no time.
Throttled(c) ==
    /\ pc[c] = "calling"
    /\ Delays(c, "delay") \/ Delays(c, "rested")
    /\ UNCHANGED <<breaker, received>>

\* 5xx, or no reply in time.
Failed(c) ==
    /\ pc[c] = "calling"
    /\ RecordFailure /\ PerhapsTakenIn(c)
    /\ Delays(c, "delay")

\* Any other status: no further attempt.
Refused(c) ==
    /\ pc[c] = "calling"
    /\ Ends(c, FALSE)
    /\ UNCHANGED <<breaker, received>>

\* Any other exception: no further attempt.
Broken(c) ==
    /\ pc[c] = "calling"
    /\ RecordFailure /\ PerhapsTakenIn(c)
    /\ Ends(c, FALSE)

\* The delay is over.  The breaker is not asked again.
Retry(c) ==
    /\ pc[c] = "rested"
    /\ \/ /\ attempt[c] < MaxRetries
          /\ Moves(c, "calling")
          /\ attempt' = [attempt EXCEPT ![c] = @ + 1]
          /\ UNCHANGED <<queue, holder, batch, idle, breaker, account, stops>>
       \/ /\ attempt[c] = MaxRetries
          /\ Ends(c, FALSE)
          /\ UNCHANGED <<breaker, received>>

Reply(c) ==
    Accepted(c) \/ Garbled(c) \/ Throttled(c) \/ Failed(c) \/ Refused(c) \/ Broken(c)

-----------------------------------------------------------------------------
(* Time, and the end of the process. *)

Older(n, limit) == IF n < limit THEN n + 1 ELSE limit

\* A second passes.
Tick ==
    /\ idle' = Older(idle, FlushAfter)
    /\ opened' = IF opened = Never THEN Never ELSE Older(opened, OpenTTL)
    /\ kept' = [now |-> {}, before |-> kept.before \union kept.now]
    /\ pc' = [c \in Callers |-> IF pc[c] = "delay" THEN "rested" ELSE pc[c]]
    /\ UNCHANGED <<queue, holder, batch, failures, attempt, received, lost, stops>>

\* The process ends, by a crash or in order: close() flushes nothing.  Another one
\* starts; Redis keeps its keys.
Stop ==
    /\ stops < MaxStops /\ stops' = stops + 1
    /\ LET ended == {c \in Callers : pc[c] \notin {"new", "done"}}
       IN  /\ pc' = [c \in Callers |-> IF c \in ended THEN "gone" ELSE pc[c]]
           /\ lost' = lost \union queue \union batch \union (ended \intersect Uses)
    /\ attempt' = [c \in Callers |-> 0]
    /\ queue' = {} /\ holder' = Nobody /\ batch' = {} /\ idle' = 0
    /\ failures' = 0 /\ opened' = Never
    /\ UNCHANGED <<kept, received>>

Step(c) == Reply(c) \/ Retry(c)

Next ==
    \/ \E u \in Uses : Finished(u) \/ RecordUsage(u)
    \/ \E c \in Looks : AskStats(c)
    \/ \E c \in Callers : Step(c)
    \/ Tick
    \/ Stop

Spec == Init /\ [][Next]_vars
-----------------------------------------------------------------------------
(* What reporting promises. *)

Kept == kept.now \union kept.before

\* A record is in one batch at most: what has been sent, or set aside, is not in the
\* queue, so that RapidAPI can only be told twice by the retries of one call.
SubmittedOnce ==
    /\ \A u \in queue : received[u] = 0 /\ u \notin batch /\ u \notin Kept
    /\ batch \intersect Kept = {}

\* A use whose call has been answered is in the queue, being submitted, known to
\* RapidAPI or kept in Redis; it is lost only when the process stops, when Redis
\* fails, or when a second batch is kept within the same second.
Accounted ==
    \A u \in Uses : pc[u] = "done" =>
        \/ u \in queue \union batch \union Kept \union lost
        \/ received[u] > 0

\* "Flush if queue is large enough": nothing is appended during a flush, so the
\* queue never reaches the size of a batch, and a batch never exceeds it.
BatchesAreSmall ==
    Cardinality(queue) < FlushAt /\ Cardinality(batch) <= FlushAt

\* The breaker only stands open for failures since the last success.
OpenForCause == Open => failures >= FailuresToOpen

\* Every proxied call passes through the one lock before it is answered, and a flush
\* may hold it through all its retries: whoever holds it is at work on a batch of its
\* own and will give it back, and there is no batch that nobody is at work on.
LockHasWorker ==
    /\ holder # Nobody =>
          pc[holder] \in {"calling", "delay", "rested"} /\ holder \in batch
    /\ \A u \in Uses : pc[u] \in {"calling", "delay", "rested"} => holder = u
=============================================================================
