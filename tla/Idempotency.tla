---------------------------- MODULE Idempotency ----------------------------
(***************************************************************************)
(* Request coalescing for the LLM proxy: what IdempotencyManager keeps in   *)
(* Redis and what handle_llm_proxy and handle_llm_stream_generator do with *)
(* it, from the cache lookup to the answer.                                *)
(*                                                                         *)
(* The gateway runs several uvicorn workers over one Redis.  Inside a      *)
(* worker the code between two awaits is one uninterrupted stretch, because *)
(* the Redis client is synchronous; the commands of different workers      *)
(* interleave.  So an action is one Redis command (or one await), and a    *)
(* request holds the event loop of its worker, loop[w], from the moment it *)
(* resumes to its next await.                                              *)
(*                                                                         *)
(* Time passes in ticks.  A key whose time to live has run out vanishes at *)
(* any moment of its last tick, also between two commands of one method.   *)
(***************************************************************************)
EXTENDS Naturals, FiniteSets

CONSTANTS
    Workers,        \* uvicorn processes
    Requests,       \* calls of the LLM proxy, each made once
    Streamed,       \* those that ask for a stream
    Keys,           \* idempotency keys
    Bodies,         \* what a request hashes to: method, url and payload, or of a
                    \* stream the messages, model and max_tokens only
    KeyOf, BodyOf,  \* the key and the body each request carries
    HostOf,         \* the worker that accepts each request
    Absent,         \* a Redis key that does not exist
    Nobody,         \* an idle event loop; an answer nobody produced
    MarkTTL,        \* life of an in-progress marker (300 s)
    RegTTL,         \* life of a registration (3600 s)
    ResultTTL,      \* life of a stored result and of a cache entry (cache_ttl)
    RegLapses,      \* FALSE: the run is shorter than RegTTL
    MaxWait,        \* polls after which a duplicate stops waiting (30 s)
    MaxExec,        \* ticks within which an upstream call ends (timeouts, retries);
                    \* of a stream the code limits only the pauses, and this is a bound
    CacheOn,        \* the target's cache is enabled
    Limits,         \* the rate scheduler may refuse a request
    RedisFails,     \* a Redis command may raise
    Leaves,         \* the client of a stream may disconnect
    MaxCrashes      \* bound: how many workers die in a behaviour

ASSUME ConstantsAssumption ==
    /\ KeyOf \in [Requests -> Keys]
    /\ BodyOf \in [Requests -> Bodies]
    /\ HostOf \in [Requests -> Workers]
    /\ Streamed \subseteq Requests
    /\ Nobody \notin Requests
    /\ Absent \notin [body : Bodies, ttl : Nat]
    /\ Absent \notin [by : Requests, ttl : Nat]
    /\ Absent \notin [ttl : Nat]
    /\ {MarkTTL, RegTTL, ResultTTL} \subseteq Nat \ {0}
    /\ MaxWait \in Nat /\ MaxExec \in Nat /\ MaxCrashes \in Nat
    /\ {RegLapses, CacheOn, Limits, RedisFails, Leaves} \subseteq BOOLEAN

VARIABLES
    reg,       \* idempotency:<key>              who may use the key
    res,       \* idempotency_result:<key>       the stored answer
    prog,      \* idempotency_in_progress:<key>  the marker
    cached,    \* cache:<body>                   the response cache
    loop,      \* the request each worker is running between two awaits
    pc,        \* the next thing a request does
    waited,    \* the handler's local `waited`, in polls
    age,       \* ticks its upstream call has lasted, with the last event of a stream
    answer,    \* what the client gets
    crashes    \* how many workers have died

redis == <<reg, res, prog, cached>>
local == <<waited, age>>
vars  == <<redis, loop, pc, local, answer, crashes>>

Locations == {"new", "cache", "reg_get", "reg_set", "reg_reread", "result",
              "poll", "sleep", "rested", "mark", "admit", "upstream", "told",
              "cache_set", "store", "clear_4xx", "clear", "done"}

Kinds == {"none", "cached", "conflict", "hit", "completed", "busy", "limited", "ok",
          "error", "left", "lost"}

TypeOK ==
    /\ reg \in [Keys -> {Absent} \union [body : Bodies, ttl : 0..RegTTL]]
    /\ res \in [Keys -> {Absent} \union [by : Requests, ttl : 0..ResultTTL]]
    /\ prog \in [Keys -> {Absent} \union [ttl : 0..MarkTTL]]
    /\ cached \in [Bodies -> {Absent} \union [by : Requests, ttl : 0..ResultTTL]]
    /\ loop \in [Workers -> Requests \union {Nobody}]
    /\ pc \in [Requests -> Locations]
    /\ waited \in [Requests -> 0..MaxWait]
    /\ age \in [Requests -> 0..MaxExec]
    /\ answer \in [Requests -> [kind : Kinds, by : Requests \union {Nobody}]]
    /\ crashes \in 0..MaxCrashes

Init ==
    /\ reg = [k \in Keys |-> Absent]
    /\ res = [k \in Keys |-> Absent]
    /\ prog = [k \in Keys |-> Absent]
    /\ cached = [b \in Bodies |-> Absent]
    /\ loop = [w \in Workers |-> Nobody]
    /\ pc = [r \in Requests |-> "new"]
    /\ waited = [r \in Requests |-> 0]
    /\ age = [r \in Requests |-> 0]
    /\ answer = [r \in Requests |-> [kind |-> "none", by |-> Nobody]]
    /\ crashes = 0

-----------------------------------------------------------------------------
(* Control: a request's moves, and the event loop it holds while it moves. *)

\* The running request r goes on to l without awaiting.
Goto(r, l) ==
    /\ pc' = [pc EXCEPT ![r] = l]
    /\ UNCHANGED <<loop, answer, crashes>>

\* r is resumed at l: its worker's event loop must be free.
Resume(r, l) ==
    /\ loop[HostOf[r]] = Nobody
    /\ loop' = [loop EXCEPT ![HostOf[r]] = r]
    /\ pc' = [pc EXCEPT ![r] = l]
    /\ UNCHANGED crashes

\* r awaits at l and gives the event loop back.
Await(r, l) ==
    /\ loop' = [loop EXCEPT ![HostOf[r]] = Nobody]
    /\ pc' = [pc EXCEPT ![r] = l]
    /\ UNCHANGED <<answer, crashes>>

\* The stream r sends its last event, at the end of the upstream call, and waits
\* for the client to take it.
Tell(r, kind, by) ==
    /\ loop[HostOf[r]] = Nobody
    /\ pc' = [pc EXCEPT ![r] = "told"]
    /\ answer' = [answer EXCEPT ![r] = [kind |-> kind, by |-> by]]
    /\ UNCHANGED <<loop, crashes>>

\* r returns its answer.
Answer(r, kind, by) ==
    /\ loop' = [loop EXCEPT ![HostOf[r]] = Nobody]
    /\ pc' = [pc EXCEPT ![r] = "done"]
    /\ answer' = [answer EXCEPT ![r] = [kind |-> kind, by |-> by]]
    /\ UNCHANGED crashes

-----------------------------------------------------------------------------
(* Slips of the kind a change to the code could make.  No specification uses *)
(* them: each is put in the place of an action below to see that a property  *)
(* notices.                                                                  *)

\* The hash of the registered body is not compared.
RegisteredUnchecked(r, e) == Goto(r, "result")

\* A registered key is a conflict, whatever its body.
RegisteredIsConflict(r, e) == Answer(r, "conflict", Nobody)

\* SET without NX.
RegisterSet(r) ==
    /\ pc[r] = "reg_set"
    /\ reg' = [reg EXCEPT ![KeyOf[r]] = [body |-> BodyOf[r], ttl |-> RegTTL]]
    /\ Goto(r, "mark")
    /\ UNCHANGED <<res, prog, cached, local>>

\* The loop goes round without sleeping, and so without giving others a turn.
PollAwake(r) ==
    /\ pc[r] = "poll" /\ r \notin Streamed
    /\ Goto(r, IF prog[KeyOf[r]] # Absent /\ waited[r] < MaxWait THEN "result" ELSE "mark")
    /\ UNCHANGED <<redis, local>>

\* The result is not looked up again after a sleep.
WakeToPoll(r) ==
    /\ pc[r] = "rested"
    /\ Resume(r, "poll")
    /\ waited' = [waited EXCEPT ![r] = @ + 1]
    /\ UNCHANGED <<redis, age, answer>>

\* mark_in_progress is left out.
MarkForgotten(r) ==
    /\ pc[r] = "mark"
    /\ Goto(r, "admit")
    /\ UNCHANGED <<redis, local>>

\* An error path returns without clear_in_progress.
FailUncleaned(r) ==
    /\ pc[r] = "upstream" /\ r \notin Streamed /\ loop[HostOf[r]] = Nobody
    /\ Answer(r, "error", Nobody)
    /\ UNCHANGED <<redis, local>>

\* The result of a failed call is stored.
FailStored(r) ==
    /\ pc[r] = "upstream" /\ r \notin Streamed
    /\ Resume(r, "store")
    /\ answer' = [answer EXCEPT ![r] = [kind |-> "error", by |-> Nobody]]
    /\ UNCHANGED <<redis, local>>

-----------------------------------------------------------------------------
(* The handler, in program order. *)

\* The request arrives; what precedes the cache lookup touches no shared state.
Arrive(r) ==
    /\ pc[r] = "new" /\ r \notin Streamed
    /\ Resume(r, "cache")
    /\ UNCHANGED <<redis, local, answer>>

\* A stream is not looked up in the cache.
StreamArrive(r) ==
    /\ pc[r] = "new" /\ r \in Streamed
    /\ Resume(r, "reg_get")
    /\ UNCHANGED <<redis, local, answer>>

\* cache.get finds the response to the payload.
Hit(r) == cached[BodyOf[r]] # Absent

\* The cache is asked only when the target's is enabled; an error counts as a miss.
CacheGet(r) ==
    /\ pc[r] = "cache"
    /\ \/ /\ CacheOn /\ Hit(r)
          /\ Answer(r, "cached", cached[BodyOf[r]].by)
       \/ /\ ~CacheOn \/ RedisFails \/ ~Hit(r)
          /\ Goto(r, "reg_get")
    /\ UNCHANGED <<redis, local>>

\* What register_request makes of an existing registration e: the handler
\* answers a conflict when the hash differs, else looks for the result.
Registered(r, e) ==
    IF e.body = BodyOf[r] THEN Goto(r, "result")
                          ELSE Answer(r, "conflict", Nobody)

\* register_request, the first GET.  A Redis error counts as a new request.
RegisterGet(r) ==
    /\ pc[r] = "reg_get"
    /\ \/ /\ reg[KeyOf[r]] # Absent
          /\ Registered(r, reg[KeyOf[r]])
       \/ /\ reg[KeyOf[r]] = Absent
          /\ Goto(r, "reg_set")
       \/ /\ RedisFails
          /\ Goto(r, "mark")
    /\ UNCHANGED <<redis, local>>

\* register_request, SET NX EX.  Only the first of two concurrent requests
\* sets the key; the reply of a command that was carried out can be lost.
RegisterSetNX(r) ==
    /\ pc[r] = "reg_set"
    /\ \/ /\ reg[KeyOf[r]] = Absent
          /\ reg' = [reg EXCEPT ![KeyOf[r]] = [body |-> BodyOf[r], ttl |-> RegTTL]]
          /\ Goto(r, "mark")
       \/ /\ reg[KeyOf[r]] # Absent
          /\ Goto(r, "reg_reread")
          /\ UNCHANGED reg
       \/ /\ RedisFails
          /\ Goto(r, "mark")
          /\ UNCHANGED reg
    /\ UNCHANGED <<res, prog, cached, local>>

\* register_request, the second GET.  A key gone meanwhile means a new request.
RegisterReread(r) ==
    /\ pc[r] = "reg_reread"
    /\ \/ /\ reg[KeyOf[r]] # Absent
          /\ Registered(r, reg[KeyOf[r]])
       \/ /\ reg[KeyOf[r]] = Absent \/ RedisFails
          /\ Goto(r, "mark")
    /\ UNCHANGED <<redis, local>>

\* get_result, before the wait loop and after every sleep in it.
GetResult(r) ==
    /\ pc[r] = "result" /\ r \notin Streamed
    /\ \/ /\ res[KeyOf[r]] # Absent
          /\ Answer(r, "hit", res[KeyOf[r]].by)
       \/ /\ res[KeyOf[r]] = Absent \/ RedisFails
          /\ Goto(r, "poll")
    /\ UNCHANGED <<redis, local>>

\* A stream is told that there is a result already.
StreamGetResult(r) ==
    /\ pc[r] = "result" /\ r \in Streamed
    /\ \/ /\ res[KeyOf[r]] # Absent
          /\ Answer(r, "completed", Nobody)
       \/ /\ res[KeyOf[r]] = Absent \/ RedisFails
          /\ Goto(r, "poll")
    /\ UNCHANGED <<redis, local>>

\* A stream does not wait: it is told that another call is in progress.
StreamPoll(r) ==
    /\ pc[r] = "poll" /\ r \in Streamed
    /\ \/ /\ prog[KeyOf[r]] # Absent
          /\ Answer(r, "busy", Nobody)
       \/ /\ prog[KeyOf[r]] = Absent \/ RedisFails
          /\ Goto(r, "mark")
    /\ UNCHANGED <<redis, local>>

\* while is_in_progress(..) and waited < max_wait: sleep.  Otherwise the
\* duplicate stops waiting and executes the request itself.
Poll(r) ==
    /\ pc[r] = "poll" /\ r \notin Streamed
    /\ \/ /\ prog[KeyOf[r]] # Absent
          /\ waited[r] < MaxWait
          /\ Await(r, "sleep")
       \/ /\ prog[KeyOf[r]] = Absent \/ RedisFails \/ waited[r] >= MaxWait
          /\ Goto(r, "mark")
    /\ UNCHANGED <<redis, local>>

\* The sleep ends: waited += poll_interval, then get_result again.
Wake(r) ==
    /\ pc[r] = "rested"
    /\ Resume(r, "result")
    /\ waited' = [waited EXCEPT ![r] = @ + 1]
    /\ UNCHANGED <<redis, age, answer>>

\* mark_in_progress: SETEX, whoever else has set the marker.  `waited` is not
\* read again.
Mark(r) ==
    /\ pc[r] = "mark"
    /\ \/ prog' = [prog EXCEPT ![KeyOf[r]] = [ttl |-> MarkTTL]]
       \/ RedisFails /\ UNCHANGED prog
    /\ Goto(r, "admit")
    /\ waited' = [waited EXCEPT ![r] = 0]
    /\ UNCHANGED <<reg, res, cached, age>>

\* check_rate_limit, then the upstream call.  The refusal returns at once and
\* leaves the marker where it is.  Streams are not limited; their meta event is
\* part of the call.
Admit(r) ==
    /\ pc[r] = "admit"
    /\ \/ Limits /\ r \notin Streamed /\ Answer(r, "limited", Nobody)
       \/ Await(r, "upstream")
    /\ UNCHANGED <<redis, local>>

\* The upstream call returns a usable response.
UpstreamOk(r) ==
    /\ pc[r] = "upstream" /\ r \notin Streamed
    /\ Resume(r, IF CacheOn THEN "cache_set" ELSE "store")
    /\ answer' = [answer EXCEPT ![r] = [kind |-> "ok", by |-> r]]
    /\ age' = [age EXCEPT ![r] = 0]
    /\ UNCHANGED <<redis, waited>>

\* It fails.  A 4xx is cleaned up in its own branch, whose metrics call raises,
\* and then again by the generic handler; every other failure is cleaned up once.
UpstreamFail(r) ==
    /\ pc[r] = "upstream" /\ r \notin Streamed
    /\ \E l \in {"clear_4xx", "clear"} : Resume(r, l)
    /\ answer' = [answer EXCEPT ![r] = [kind |-> "error", by |-> Nobody]]
    /\ age' = [age EXCEPT ![r] = 0]
    /\ UNCHANGED <<redis, waited>>

\* The stream ends, with the done event or, on an error, with an error event.
StreamOk(r) ==
    /\ pc[r] = "upstream" /\ r \in Streamed
    /\ Tell(r, "ok", r)
    /\ UNCHANGED <<redis, local>>

StreamFail(r) ==
    /\ pc[r] = "upstream" /\ r \in Streamed
    /\ Tell(r, "error", Nobody)
    /\ UNCHANGED <<redis, local>>

\* Only when the client has taken that event does the generator store or clear.
\* Its cache entry is under the payload of a stream, which nobody looks up.
StreamTold(r) ==
    /\ pc[r] = "told"
    /\ Resume(r, IF answer[r].kind = "ok" THEN "store" ELSE "clear")
    /\ age' = [age EXCEPT ![r] = 0]
    /\ UNCHANGED <<redis, waited, answer>>

\* The client disconnects and the generator is cancelled where it waits, which no
\* clause of it catches: the marker stays, and no result is stored, whatever the
\* client has been sent.
StreamLeft(r) ==
    /\ Leaves
    /\ pc[r] \in {"upstream", "told"} /\ r \in Streamed
    /\ loop[HostOf[r]] = Nobody
    /\ Answer(r, "left", Nobody)
    /\ age' = [age EXCEPT ![r] = 0]
    /\ UNCHANGED <<redis, waited>>

\* cache.set
CacheSet(r) ==
    /\ pc[r] = "cache_set"
    /\ \/ cached' = [cached EXCEPT ![BodyOf[r]] = [by |-> r, ttl |-> ResultTTL]]
       \/ RedisFails /\ UNCHANGED cached
    /\ Goto(r, "store")
    /\ UNCHANGED <<reg, res, prog, local>>

\* store_result, with the life of a cache entry.
StoreResult(r) ==
    /\ pc[r] = "store"
    /\ \/ res' = [res EXCEPT ![KeyOf[r]] = [by |-> r, ttl |-> ResultTTL]]
       \/ RedisFails /\ UNCHANGED res
    /\ Goto(r, "clear")
    /\ UNCHANGED <<reg, prog, cached, local>>

\* clear_in_progress: DEL, whoever has set the marker.
ClearInProgress(r) ==
    \/ prog' = [prog EXCEPT ![KeyOf[r]] = Absent]
    \/ RedisFails /\ UNCHANGED prog

ClearRejected(r) ==
    /\ pc[r] = "clear_4xx"
    /\ ClearInProgress(r)
    /\ Goto(r, "clear")
    /\ UNCHANGED <<reg, res, cached, local>>

\* The last clean-up, and the return.
Finish(r) ==
    /\ pc[r] = "clear"
    /\ ClearInProgress(r)
    /\ Answer(r, answer[r].kind, answer[r].by)
    /\ UNCHANGED <<reg, res, cached, local>>

-----------------------------------------------------------------------------
(* Time and death. *)

Due(e) == e # Absent /\ e.ttl = 0

Calling(r) == pc[r] \in {"upstream", "told"}

Older(e) == IF e = Absent THEN Absent ELSE [e EXCEPT !.ttl = @ - 1]

\* Redis drops a key whose time is up.
ExpireKey(k) ==
    /\ \/ Due(reg[k]) /\ reg' = [reg EXCEPT ![k] = Absent] /\ UNCHANGED <<res, prog>>
       \/ Due(res[k]) /\ res' = [res EXCEPT ![k] = Absent] /\ UNCHANGED <<reg, prog>>
       \/ Due(prog[k]) /\ prog' = [prog EXCEPT ![k] = Absent] /\ UNCHANGED <<reg, res>>
    /\ UNCHANGED <<cached, loop, pc, local, answer, crashes>>

ExpireCached(b) ==
    /\ Due(cached[b])
    /\ cached' = [cached EXCEPT ![b] = Absent]
    /\ UNCHANGED <<reg, res, prog, loop, pc, local, answer, crashes>>

\* A tick passes, outside the stretches between awaits.  Upstream calls are over
\* by their timeout and due keys are gone.
Tick ==
    /\ \A w \in Workers : loop[w] = Nobody
    /\ \A k \in Keys : ~Due(res[k]) /\ ~Due(prog[k]) /\ (RegLapses => ~Due(reg[k]))
    /\ \A b \in Bodies : ~Due(cached[b])
    /\ \A r \in Requests : Calling(r) => age[r] < MaxExec
    /\ reg' = IF RegLapses THEN [k \in Keys |-> Older(reg[k])] ELSE reg
    /\ res' = [k \in Keys |-> Older(res[k])]
    /\ prog' = [k \in Keys |-> Older(prog[k])]
    /\ cached' = [b \in Bodies |-> Older(cached[b])]
    /\ pc' = [r \in Requests |-> IF pc[r] = "sleep" THEN "rested" ELSE pc[r]]
    /\ age' = [r \in Requests |-> IF Calling(r) THEN age[r] + 1 ELSE age[r]]
    /\ UNCHANGED <<loop, waited, answer, crashes>>

\* A worker process dies with everything it was serving; Redis keeps its keys.
Crash(w) ==
    /\ crashes < MaxCrashes
    /\ crashes' = crashes + 1
    /\ LET dead == {r \in Requests : HostOf[r] = w /\ pc[r] \notin {"new", "done"}}
       IN  /\ dead # {}
           /\ waited' = [r \in Requests |-> IF r \in dead THEN 0 ELSE waited[r]]
           /\ age' = [r \in Requests |-> IF r \in dead THEN 0 ELSE age[r]]
           /\ pc' = [r \in Requests |-> IF r \in dead THEN "done" ELSE pc[r]]
           /\ answer' = [r \in Requests |->
                 IF r \in dead THEN [kind |-> "lost", by |-> Nobody] ELSE answer[r]]
    /\ loop' = [loop EXCEPT ![w] = Nobody]
    /\ UNCHANGED redis

Step(r) ==
    \/ CacheGet(r) \/ RegisterGet(r) \/ RegisterSetNX(r) \/ RegisterReread(r)
    \/ GetResult(r) \/ Poll(r) \/ Wake(r) \/ Mark(r) \/ Admit(r)
    \/ StreamGetResult(r) \/ StreamPoll(r) \/ StreamOk(r) \/ StreamFail(r) \/ StreamTold(r)
    \/ UpstreamOk(r) \/ UpstreamFail(r) \/ CacheSet(r) \/ StoreResult(r)
    \/ ClearRejected(r) \/ Finish(r)

Next ==
    \/ \E r \in Requests : Arrive(r) \/ StreamArrive(r) \/ StreamLeft(r) \/ Step(r)
    \/ \E k \in Keys : ExpireKey(k)
    \/ \E b \in Bodies : ExpireCached(b)
    \/ \E w \in Workers : Crash(w)
    \/ Tick

\* A worker keeps running what it serves (asyncio schedules every ready task),
\* an upstream call ends by its timeout, keys expire and time passes.
Fairness ==
    /\ \A r \in Requests : WF_vars(Step(r))
    /\ \A k \in Keys : WF_vars(ExpireKey(k))
    /\ \A b \in Bodies : WF_vars(ExpireCached(b))
    /\ WF_vars(Tick)

Spec == Init /\ [][Next]_vars

FairSpec == Spec /\ Fairness
-----------------------------------------------------------------------------
(* What coalescing promises. *)

\* After `mark` and before the clean-up a request counts as in progress.
Busy == {"admit", "upstream", "told", "cache_set", "store", "clear_4xx", "clear"}

\* "This request will proceed to upstream, others will wait for result": no two
\* calls with one idempotency key are at the upstream at the same time.
SingleFlight ==
    \A r, q \in Requests :
        pc[r] = "upstream" /\ pc[q] = "upstream" /\ KeyOf[r] = KeyOf[q] => r = q

\* A stored answer is only replayed to the request it answers: a key reused with
\* another body never yields the old body's response.
HitMatchesBody ==
    \A r \in Requests :
        answer[r].kind \in {"hit", "cached"} => BodyOf[answer[r].by] = BodyOf[r]

\* A request that goes on to execute does so because no result of an earlier
\* execution with its key is stored, not because it looked too early.
NoReplayExecutes ==
    \A r \in Requests :
        pc[r] \in {"mark", "admit"} => res[KeyOf[r]] = Absent

\* "Wait for in-progress request": a marker that makes others wait stands for a
\* call that is in progress and that will store its result or clear the marker.
\* Only a stream whose client left may leave it behind.
MarkerHasOwner ==
    \A k \in Keys : prog[k] # Absent =>
        \E r \in Requests : KeyOf[r] = k /\ (pc[r] \in Busy \/ answer[r].kind = "left")

\* Only successes are stored: what a client is given again was the answer of a
\* successful call, even when that call's own worker died before it answered.
NoFailureReplayed ==
    \A r \in Requests : answer[r].kind \in {"hit", "cached"} =>
        LET q == answer[r].by IN q \in Requests /\ answer[q].kind \in {"ok", "lost"}

\* A conflict is only answered to a client whose key really was used with
\* another body.
ConflictIsReal ==
    \A r \in Requests : answer[r].kind = "conflict" =>
        \E q \in Requests : /\ KeyOf[q] = KeyOf[r] /\ BodyOf[q] # BodyOf[r]
                            /\ pc[q] \notin {"new", "cache", "reg_get"}

\* Of several requests that race for a key one wins: while the registration
\* lives no other request replaces it.
RegistrationStands ==
    [][\A k \in Keys : reg[k] # Absent /\ reg'[k] # Absent
                           => reg'[k].body = reg[k].body]_vars

\* Every request a worker accepts is answered, whatever becomes of the request
\* it waits for: from some moment on nobody is left waiting.
Answered == <>[](\A r \in Requests : pc[r] \in {"new", "done"})

-----------------------------------------------------------------------------
(* The promise itself: a call runs from the moment it is admitted to the    *)
(* upstream until its result is stored or it fails.                         *)

Phase(r) ==
    CASE pc[r] \in {"upstream", "told", "cache_set", "store"} -> "running"
      [] pc[r] \in {"clear_4xx", "clear", "done"}     -> "answered"
      [] OTHER                                        -> "pending"

Coalesced == INSTANCE Coalescing WITH
    phase  <- [r \in Requests |-> Phase(r)],
    reply  <- [r \in Requests |-> IF Phase(r) = "answered" THEN answer[r].by ELSE Nobody],
    stored <- [k \in Keys |-> IF res[k] = Absent THEN Nobody ELSE res[k].by]

\* The handler implements Coalescing: "Handle idempotency" in handle_llm_proxy
\* with IdempotencyManager gives the clients of a key the one-at-a-time,
\* replay-while-stored behaviour.
ImplementsCoalescing == Coalesced!Spec

=============================================================================
