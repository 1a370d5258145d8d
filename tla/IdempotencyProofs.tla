------------------------- MODULE IdempotencyProofs -------------------------
(***************************************************************************)
(* Theorems about Idempotency, for any number of workers, requests, keys   *)
(* and bodies and for every choice of the times.                           *)
(***************************************************************************)
EXTENDS Idempotency, FiniteSetTheorems, TLAPS

-----------------------------------------------------------------------------
(* Type correctness. *)

LEMMA Times ==
  /\ MarkTTL \in Nat \ {0} /\ RegTTL \in Nat \ {0} /\ ResultTTL \in Nat \ {0}
  /\ MaxWait \in Nat /\ MaxExec \in Nat /\ MaxCrashes \in Nat
  BY ConstantsAssumption

\* What a request does itself: all but dying with its worker.
Turn(r) == Arrive(r) \/ StreamArrive(r) \/ StreamLeft(r) \/ Step(r)

\* A sleeping duplicate has polls left: the wait loop checks before it sleeps.
WaitBounded ==
    \A r \in Requests : pc[r] \in {"sleep", "rested"} => waited[r] < MaxWait

TypeInv == TypeOK /\ WaitBounded

LEMMA InitType == Init => TypeInv
  BY ConstantsAssumption, Times DEF Init, TypeInv, TypeOK, WaitBounded, Locations, Kinds

\* The control steps keep the types of what they change.
LEMMA GotoType ==
  ASSUME TypeOK, NEW r \in Requests, NEW l \in Locations, Goto(r, l)
  PROVE  /\ pc' \in [Requests -> Locations]
         /\ UNCHANGED <<loop, answer, crashes>>
  BY DEF TypeOK, Goto

LEMMA ResumeType ==
  ASSUME TypeOK, NEW r \in Requests, NEW l \in Locations, Resume(r, l)
  PROVE  /\ pc' \in [Requests -> Locations]
         /\ loop' \in [Workers -> Requests \union {Nobody}]
         /\ UNCHANGED crashes
  BY DEF TypeOK, Resume

LEMMA AwaitType ==
  ASSUME TypeOK, NEW r \in Requests, NEW l \in Locations, Await(r, l)
  PROVE  /\ pc' \in [Requests -> Locations]
         /\ loop' \in [Workers -> Requests \union {Nobody}]
         /\ UNCHANGED <<answer, crashes>>
  BY DEF TypeOK, Await

LEMMA AnswerType ==
  ASSUME TypeOK, NEW r \in Requests, NEW kind \in Kinds,
         NEW by \in Requests \union {Nobody}, Answer(r, kind, by)
  PROVE  /\ pc' \in [Requests -> Locations]
         /\ loop' \in [Workers -> Requests \union {Nobody}]
         /\ answer' \in [Requests -> [kind : Kinds, by : Requests \union {Nobody}]]
         /\ UNCHANGED crashes
  BY DEF TypeOK, Answer, Locations

\* An entry written to Redis starts with its full time to live, and an entry
\* that is not due gets older without losing its type.
LEMMA FreshEntries ==
  /\ \A b \in Bodies : [body |-> b, ttl |-> RegTTL] \in [body : Bodies, ttl : 0..RegTTL]
  /\ \A r \in Requests : [by |-> r, ttl |-> ResultTTL] \in [by : Requests, ttl : 0..ResultTTL]
  /\ [ttl |-> MarkTTL] \in [ttl : 0..MarkTTL]
  BY Times

LEMMA OlderEntries ==
  ASSUME NEW e, ~Due(e)
  PROVE  /\ e \in {Absent} \union [body : Bodies, ttl : 0..RegTTL]
              => Older(e) \in {Absent} \union [body : Bodies, ttl : 0..RegTTL]
         /\ e \in {Absent} \union [by : Requests, ttl : 0..ResultTTL]
              => Older(e) \in {Absent} \union [by : Requests, ttl : 0..ResultTTL]
         /\ e \in {Absent} \union [ttl : 0..MarkTTL]
              => Older(e) \in {Absent} \union [ttl : 0..MarkTTL]
<1>1. ASSUME NEW N \in Nat, NEW t \in 0..N, t # 0 PROVE t - 1 \in 0..N
  BY <1>1
<1>2. ASSUME e \in [body : Bodies, ttl : 0..RegTTL]
      PROVE  Older(e) \in {Absent} \union [body : Bodies, ttl : 0..RegTTL]
  BY <1>1, <1>2, Times DEF Older, Due
<1>3. ASSUME e \in [by : Requests, ttl : 0..ResultTTL]
      PROVE  Older(e) \in {Absent} \union [by : Requests, ttl : 0..ResultTTL]
  BY <1>1, <1>3, Times DEF Older, Due
<1>4. ASSUME e \in [ttl : 0..MarkTTL]
      PROVE  Older(e) \in {Absent} \union [ttl : 0..MarkTTL]
  BY <1>1, <1>4, Times DEF Older, Due
<1> QED
  BY <1>2, <1>3, <1>4 DEF Older

LEMMA NextType == TypeInv /\ [Next]_vars => TypeOK'
<1> SUFFICES ASSUME TypeOK, WaitBounded, [Next]_vars PROVE TypeOK'
  BY DEF TypeInv
<1> USE ConstantsAssumption, Times
<1> {"cache", "reg_get", "reg_set", "reg_reread", "result", "poll", "sleep", "rested",
     "mark", "admit", "upstream", "told", "cache_set", "store", "clear_4xx", "clear",
     "done"} \subseteq Locations
  BY DEF Locations
<1> {"cached", "conflict", "hit", "completed", "busy", "limited", "ok", "error", "left",
     "lost"} \subseteq Kinds
  BY DEF Kinds
<1>1. ASSUME NEW r \in Requests, Arrive(r) \/ StreamArrive(r) PROVE TypeOK'
  <2>1. /\ pc' \in [Requests -> Locations]
        /\ loop' \in [Workers -> Requests \union {Nobody}]
        /\ UNCHANGED crashes
    BY <1>1, ResumeType DEF Arrive, StreamArrive
  <2> QED
    BY <1>1, <2>1 DEF Arrive, StreamArrive, TypeOK, redis, local
<1>2. ASSUME NEW r \in Requests, CacheGet(r) PROVE TypeOK'
  BY <1>2, GotoType, ResumeType, AwaitType, AnswerType DEF CacheGet, Hit, TypeOK, redis, local
<1>3. ASSUME NEW r \in Requests, RegisterGet(r) PROVE TypeOK'
  BY <1>3, GotoType, ResumeType, AwaitType, AnswerType DEF RegisterGet, Registered, TypeOK, redis, local
<1>4. ASSUME NEW r \in Requests, RegisterSetNX(r) PROVE TypeOK'
  BY <1>4, FreshEntries, GotoType DEF RegisterSetNX, TypeOK, redis, local
<1>5. ASSUME NEW r \in Requests, RegisterReread(r) PROVE TypeOK'
  BY <1>5, GotoType, ResumeType, AwaitType, AnswerType DEF RegisterReread, Registered, TypeOK, redis, local
<1>6. ASSUME NEW r \in Requests, GetResult(r) PROVE TypeOK'
  <2>1. CASE res[KeyOf[r]] # Absent /\ Answer(r, "hit", res[KeyOf[r]].by)
    <3>1. res[KeyOf[r]].by \in Requests
      BY <2>1 DEF TypeOK
    <3> QED
      BY <1>6, <2>1, <3>1, AnswerType DEF GetResult, TypeOK, redis, local
  <2>2. CASE Goto(r, "poll")
    BY <1>6, <2>2, GotoType DEF GetResult, TypeOK, redis, local
  <2> QED
    BY <1>6, <2>1, <2>2 DEF GetResult
<1>7. ASSUME NEW r \in Requests, Poll(r) PROVE TypeOK'
  <2>1. Await(r, "sleep") \/ Goto(r, "mark")
    BY <1>7 DEF Poll
  <2>2. /\ pc' \in [Requests -> Locations]
        /\ loop' \in [Workers -> Requests \union {Nobody}]
        /\ UNCHANGED <<answer, crashes>>
    BY <2>1, GotoType, AwaitType DEF TypeOK
  <2> QED
    BY <1>7, <2>2 DEF Poll, TypeOK, redis, local
<1>8. ASSUME NEW r \in Requests, Wake(r) PROVE TypeOK'
  <2>1. waited[r] + 1 \in 0..MaxWait
    BY <1>8 DEF Wake, WaitBounded, TypeOK
  <2> QED
    BY <1>8, <2>1, ResumeType DEF Wake, TypeOK, redis, local
<1>9. ASSUME NEW r \in Requests, Mark(r) PROVE TypeOK'
  <2>1. prog' \in [Keys -> {Absent} \union [ttl : 0..MarkTTL]]
    BY <1>9, FreshEntries DEF Mark, TypeOK
  <2>2. waited' \in [Requests -> 0..MaxWait]
    BY <1>9 DEF Mark, TypeOK
  <2> QED
    BY <1>9, <2>1, <2>2, GotoType DEF Mark, TypeOK
<1>10. ASSUME NEW r \in Requests, Admit(r) PROVE TypeOK'
  BY <1>10, GotoType, ResumeType, AwaitType, AnswerType DEF Admit, TypeOK, redis, local
<1>11. ASSUME NEW r \in Requests, UpstreamOk(r) PROVE TypeOK'
  <2>1. /\ pc' \in [Requests -> Locations]
        /\ loop' \in [Workers -> Requests \union {Nobody}]
        /\ UNCHANGED crashes
    BY <1>11, ResumeType DEF UpstreamOk
  <2>2. answer' \in [Requests -> [kind : Kinds, by : Requests \union {Nobody}]]
    BY <1>11 DEF UpstreamOk, TypeOK
  <2> QED
    BY <1>11, <2>1, <2>2 DEF UpstreamOk, TypeOK, redis
<1>12. ASSUME NEW r \in Requests, UpstreamFail(r) PROVE TypeOK'
  BY <1>12, GotoType, ResumeType, AwaitType, AnswerType DEF UpstreamFail, TypeOK, redis, local
<1>13. ASSUME NEW r \in Requests, CacheSet(r) PROVE TypeOK'
  <2>1. cached' \in [Bodies -> {Absent} \union [by : Requests, ttl : 0..ResultTTL]]
    BY <1>13, FreshEntries DEF CacheSet, TypeOK
  <2>2. /\ pc' \in [Requests -> Locations]
        /\ UNCHANGED <<loop, answer, crashes>>
    BY <1>13, GotoType DEF CacheSet
  <2> QED
    BY <1>13, <2>1, <2>2 DEF CacheSet, TypeOK, local
<1>14. ASSUME NEW r \in Requests, StoreResult(r) PROVE TypeOK'
  <2>1. res' \in [Keys -> {Absent} \union [by : Requests, ttl : 0..ResultTTL]]
    BY <1>14, FreshEntries DEF StoreResult, TypeOK
  <2>2. /\ pc' \in [Requests -> Locations]
        /\ UNCHANGED <<loop, answer, crashes>>
    BY <1>14, GotoType DEF StoreResult
  <2> QED
    BY <1>14, <2>1, <2>2 DEF StoreResult, TypeOK, local
<1>15. ASSUME NEW r \in Requests, ClearRejected(r) PROVE TypeOK'
  BY <1>15, GotoType, ResumeType, AwaitType, AnswerType DEF ClearRejected, ClearInProgress, TypeOK, redis, local
<1>16. ASSUME NEW r \in Requests, Finish(r) PROVE TypeOK'
  BY <1>16, GotoType, ResumeType, AwaitType, AnswerType DEF Finish, ClearInProgress, TypeOK, redis, local
<1>17. ASSUME NEW k \in Keys, ExpireKey(k) PROVE TypeOK'
  BY <1>17 DEF ExpireKey, TypeOK, redis, local
<1>18. ASSUME NEW b \in Bodies, ExpireCached(b) PROVE TypeOK'
  BY <1>18 DEF ExpireCached, TypeOK, redis, local
<1>19. CASE Tick
  <2>1. reg' \in [Keys -> {Absent} \union [body : Bodies, ttl : 0..RegTTL]]
    BY <1>19, OlderEntries DEF Tick, TypeOK
  <2>2. res' \in [Keys -> {Absent} \union [by : Requests, ttl : 0..ResultTTL]]
    BY <1>19, OlderEntries DEF Tick, TypeOK
  <2>3. prog' \in [Keys -> {Absent} \union [ttl : 0..MarkTTL]]
    BY <1>19, OlderEntries DEF Tick, TypeOK
  <2>4. cached' \in [Bodies -> {Absent} \union [by : Requests, ttl : 0..ResultTTL]]
    BY <1>19, OlderEntries DEF Tick, TypeOK
  <2>5. age' \in [Requests -> 0..MaxExec]
    BY <1>19 DEF Tick, Calling, TypeOK
  <2>6. pc' \in [Requests -> Locations]
    BY <1>19 DEF Tick, TypeOK
  <2> QED
    BY <1>19, <2>1, <2>2, <2>3, <2>4, <2>5, <2>6 DEF Tick, TypeOK
<1>20. ASSUME NEW w \in Workers, Crash(w) PROVE TypeOK'
  BY <1>20 DEF Crash, TypeOK, redis
<1>21. CASE UNCHANGED vars
  BY <1>21 DEF vars, redis, local, TypeOK
<1>22. ASSUME NEW r \in Requests, StreamGetResult(r) \/ StreamPoll(r) PROVE TypeOK'
  <2>1. \/ Goto(r, "poll") \/ Goto(r, "mark")
        \/ Answer(r, "completed", Nobody) \/ Answer(r, "busy", Nobody)
    BY <1>22 DEF StreamGetResult, StreamPoll
  <2>2. UNCHANGED <<redis, local>>
    BY <1>22 DEF StreamGetResult, StreamPoll
  <2>3. CASE Goto(r, "poll") \/ Goto(r, "mark")
    BY <2>2, <2>3, GotoType DEF TypeOK, redis, local
  <2>4. CASE Answer(r, "completed", Nobody) \/ Answer(r, "busy", Nobody)
    BY <2>2, <2>4, AnswerType DEF TypeOK, redis, local
  <2> QED
    BY <2>1, <2>3, <2>4
<1>23. ASSUME NEW r \in Requests, StreamOk(r) \/ StreamFail(r) PROVE TypeOK'
  <2>1. pc' \in [Requests -> Locations]
    BY <1>23 DEF StreamOk, StreamFail, Tell, TypeOK
  <2>2. answer' \in [Requests -> [kind : Kinds, by : Requests \union {Nobody}]]
    BY <1>23 DEF StreamOk, StreamFail, Tell, TypeOK
  <2> QED
    BY <1>23, <2>1, <2>2 DEF StreamOk, StreamFail, Tell, TypeOK, redis, local
<1>24. ASSUME NEW r \in Requests, StreamTold(r) PROVE TypeOK'
  BY <1>24, ResumeType DEF StreamTold, TypeOK, redis
<1>25. ASSUME NEW r \in Requests, StreamLeft(r) PROVE TypeOK'
  BY <1>25, AnswerType DEF StreamLeft, TypeOK, redis
<1> QED
  BY <1>1, <1>2, <1>3, <1>4, <1>5, <1>6, <1>7, <1>8, <1>9, <1>10, <1>11, <1>12, <1>13,
     <1>14, <1>15, <1>16, <1>17, <1>18, <1>19, <1>20, <1>21, <1>22, <1>23,
     <1>24, <1>25 DEF Next, Step, Turn

\* Only the wait loop puts a request to sleep, and only a request that wakes or
\* leaves the loop changes its count.
LEMMA NextWait == TypeInv /\ [Next]_vars => WaitBounded'
<1> SUFFICES ASSUME TypeInv, [Next]_vars, NEW q \in Requests,
                    pc'[q] \in {"sleep", "rested"}
             PROVE  waited'[q] < MaxWait
  BY DEF WaitBounded
<1>1. ASSUME NEW r \in Requests, Turn(r),
             pc[q] \in {"sleep", "rested"} => waited[q] < MaxWait
      PROVE  waited'[q] < MaxWait
  <2> USE DEF Goto, Resume, Await, Answer, redis, local
  <2> pc \in [Requests -> Locations] /\ waited \in [Requests -> 0..MaxWait]
    BY DEF TypeInv, TypeOK
  <2>1. CASE Arrive(r) \/ CacheGet(r) \/ RegisterGet(r) \/ RegisterSetNX(r)
    BY <1>1, <2>1 DEF Arrive, CacheGet, RegisterGet, Registered, RegisterSetNX
  <2>2. CASE RegisterReread(r) \/ GetResult(r) \/ Admit(r)
    BY <1>1, <2>2 DEF RegisterReread, Registered, GetResult, Admit
  <2>3. CASE Poll(r)
    BY <1>1, <2>3 DEF Poll
  <2>4. CASE Wake(r)
    BY <1>1, <2>4 DEF Wake
  <2>5. CASE Mark(r)
    BY <1>1, <2>5 DEF Mark
  <2>6. CASE UpstreamOk(r) \/ UpstreamFail(r)
    BY <1>1, <2>6 DEF UpstreamOk, UpstreamFail
  <2>7. CASE CacheSet(r) \/ StoreResult(r)
    BY <1>1, <2>7 DEF CacheSet, StoreResult
  <2>8. CASE ClearRejected(r) \/ Finish(r)
    BY <1>1, <2>8 DEF ClearRejected, Finish
  <2>9. CASE StreamArrive(r) \/ StreamGetResult(r) \/ StreamPoll(r)
    BY <1>1, <2>9 DEF StreamArrive, StreamGetResult, StreamPoll
  <2>10. CASE StreamOk(r) \/ StreamFail(r) \/ StreamTold(r) \/ StreamLeft(r)
    BY <1>1, <2>10 DEF StreamOk, StreamFail, StreamTold, StreamLeft, Tell
  <2> QED
    BY <1>1, <2>1, <2>2, <2>3, <2>4, <2>5, <2>6, <2>7, <2>8, <2>9, <2>10 DEF Turn, Step
<1>2. pc[q] \in {"sleep", "rested"} => waited[q] < MaxWait
  BY DEF TypeInv, WaitBounded
<1>3. ASSUME NEW k \in Keys, ExpireKey(k) PROVE waited'[q] < MaxWait
  BY <1>2, <1>3 DEF ExpireKey, local
<1>4. ASSUME NEW b \in Bodies, ExpireCached(b) PROVE waited'[q] < MaxWait
  BY <1>2, <1>4 DEF ExpireCached, local
<1>5. CASE Tick
  BY <1>2, <1>5 DEF Tick
<1>6. ASSUME NEW w \in Workers, Crash(w) PROVE waited'[q] < MaxWait
  BY <1>2, <1>6 DEF Crash
<1>7. CASE UNCHANGED vars
  BY <1>2, <1>7 DEF vars, local
<1> QED
  BY <1>1, <1>2, <1>3, <1>4, <1>5, <1>6, <1>7 DEF Next, Turn

LEMMA TypeInvariant == Spec => []TypeInv
<1>1. TypeInv /\ [Next]_vars => TypeInv'
  BY NextType, NextWait DEF TypeInv
<1> QED
  BY <1>1, InitType, PTL DEF Spec

\* Every variable keeps its type: what the handlers find in Redis is what a
\* handler put there, with a time to live left.
THEOREM TypeCorrect == Spec => []TypeOK
<1>1. TypeInv => TypeOK
  BY DEF TypeInv
<1> QED
  BY <1>1, TypeInvariant, PTL

-----------------------------------------------------------------------------
(* Registrations. *)

\* Only SET NX writes a registration, and only where there is none.
LEMMA RegChanges ==
  ASSUME TypeInv, [Next]_vars, NEW k \in Keys, reg[k] # Absent
  PROVE  \/ reg'[k] = reg[k]
         \/ reg'[k] = Older(reg[k]) /\ RegLapses
         \/ reg'[k] = Absent /\ Due(reg[k])
<1> reg \in [Keys -> {Absent} \union [body : Bodies, ttl : 0..RegTTL]]
  BY DEF TypeInv, TypeOK
<1>1. ASSUME NEW r \in Requests, Turn(r) PROVE reg'[k] = reg[k]
  <2>1. CASE RegisterSetNX(r)
    BY <2>1, ConstantsAssumption DEF RegisterSetNX
  <2>2. CASE ~RegisterSetNX(r)
    BY <1>1, <2>2
      DEF Turn, Step, redis, Arrive, StreamArrive, StreamGetResult, StreamPoll,
          StreamOk, StreamFail, StreamTold, StreamLeft, CacheGet, RegisterGet, RegisterReread, GetResult, Poll,
          Wake, Mark, Admit, UpstreamOk, UpstreamFail, CacheSet, StoreResult,
          ClearRejected, Finish
  <2> QED
    BY <2>1, <2>2
<1>2. ASSUME NEW j \in Keys, ExpireKey(j)
      PROVE  reg'[k] = reg[k] \/ (reg'[k] = Absent /\ Due(reg[k]))
  BY <1>2 DEF ExpireKey
<1>3. ASSUME NEW b \in Bodies, ExpireCached(b) PROVE reg'[k] = reg[k]
  BY <1>3 DEF ExpireCached
<1>4. CASE Tick
  BY <1>4 DEF Tick
<1>5. ASSUME NEW w \in Workers, Crash(w) PROVE reg'[k] = reg[k]
  BY <1>5 DEF Crash, redis
<1>6. CASE UNCHANGED vars
  BY <1>6 DEF vars, redis
<1> QED
  BY <1>1, <1>2, <1>3, <1>4, <1>5, <1>6 DEF Next, Turn

LEMMA BodyStands ==
  ASSUME TypeInv, [Next]_vars, NEW k \in Keys, reg[k] # Absent, reg'[k] # Absent
  PROVE  reg'[k].body = reg[k].body
<1>1. reg[k] \in [body : Bodies, ttl : 0..RegTTL]
  BY DEF TypeInv, TypeOK
<1>2. Older(reg[k]).body = reg[k].body
  BY <1>1 DEF Older
<1> QED
  BY <1>2, RegChanges

\* While a registration lives no other request replaces it, whatever fails: of
\* the requests that race for a key exactly one wins.
THEOREM RegistrationsStand == Spec => RegistrationStands
<1>1. TypeInv /\ [Next]_vars
        => [\A k \in Keys : reg[k] # Absent /\ reg'[k] # Absent
                              => reg'[k].body = reg[k].body]_vars
  BY BodyStands
<1> QED
  BY <1>1, TypeInvariant, PTL DEF Spec, RegistrationStands

-----------------------------------------------------------------------------
(* The body a key was registered with governs all that happens under it.   *)

\* The requests that have found or made the registration of their key.
Claimed == {"result", "poll", "sleep", "rested", "mark", "admit", "upstream", "told",
            "cache_set", "store"}

KeyGoverned ==
    /\ \A k \in Keys : reg[k] # Absent => reg[k].ttl = RegTTL
    /\ \A r \in Requests : pc[r] = "reg_reread" => reg[KeyOf[r]] # Absent
    /\ \A r \in Requests : pc[r] \in Claimed =>
          reg[KeyOf[r]] # Absent /\ reg[KeyOf[r]].body = BodyOf[r]

ResultsGoverned ==
    /\ \A k \in Keys : res[k] # Absent =>
          reg[k] # Absent /\ reg[k].body = BodyOf[res[k].by]
    /\ \A b \in Bodies : cached[b] # Absent => BodyOf[cached[b].by] = b

BodyInv == TypeInv /\ KeyGoverned /\ ResultsGoverned /\ HitMatchesBody

LEMMA RegKept ==
  ASSUME ~RegLapses, TypeInv, KeyGoverned, [Next]_vars, NEW k \in Keys, reg[k] # Absent
  PROVE  reg'[k] = reg[k]
<1>1. ~Due(reg[k])
  BY Times DEF KeyGoverned, Due
<1> QED
  BY <1>1, RegChanges

\* A request only gets to re-reading its key or into Claimed by a command that
\* found, or made, the registration.
LEMMA Claiming ==
  ASSUME ~RedisFails, TypeInv, KeyGoverned, [Next]_vars, NEW q \in Requests
  PROVE  /\ pc'[q] = "reg_reread" /\ pc[q] # "reg_reread" => reg'[KeyOf[q]] # Absent
         /\ pc'[q] \in Claimed /\ pc[q] \notin Claimed =>
              reg'[KeyOf[q]] # Absent /\ reg'[KeyOf[q]].body = BodyOf[q]
<1> USE DEF Goto, Resume, Await, Answer, redis, local, Claimed
<1> /\ reg \in [Keys -> {Absent} \union [body : Bodies, ttl : 0..RegTTL]]
    /\ pc \in [Requests -> Locations]
    /\ KeyOf \in [Requests -> Keys]
    /\ \A b \in Bodies : [body |-> b, ttl |-> RegTTL] # Absent
  BY ConstantsAssumption, Times DEF TypeInv, TypeOK
<1>1. ASSUME NEW r \in Requests, Turn(r)
      PROVE  /\ pc'[q] = "reg_reread" /\ pc[q] # "reg_reread" => reg'[KeyOf[q]] # Absent
             /\ pc'[q] \in Claimed /\ pc[q] \notin Claimed =>
                  reg'[KeyOf[q]] # Absent /\ reg'[KeyOf[q]].body = BodyOf[q]
  <2>1. CASE Arrive(r) \/ CacheGet(r)
    BY <2>1 DEF Arrive, CacheGet
  <2>2. CASE RegisterGet(r)
    BY <2>2 DEF RegisterGet, Registered
  <2>3. CASE RegisterSetNX(r)
    BY <2>3, ConstantsAssumption DEF RegisterSetNX
  <2>4. CASE RegisterReread(r)
    BY <2>4 DEF RegisterReread, Registered, KeyGoverned
  <2>5. CASE GetResult(r) \/ Poll(r) \/ Wake(r)
    BY <2>5 DEF GetResult, Poll, Wake
  <2>6. CASE Mark(r) \/ Admit(r) \/ UpstreamOk(r) \/ UpstreamFail(r)
    BY <2>6 DEF Mark, Admit, UpstreamOk, UpstreamFail
  <2>7. CASE CacheSet(r) \/ StoreResult(r) \/ ClearRejected(r) \/ Finish(r)
    BY <2>7 DEF CacheSet, StoreResult, ClearRejected, Finish
  <2>8. CASE StreamArrive(r) \/ StreamGetResult(r) \/ StreamPoll(r)
    BY <2>8 DEF StreamArrive, StreamGetResult, StreamPoll
  <2>9. CASE StreamOk(r) \/ StreamFail(r) \/ StreamTold(r) \/ StreamLeft(r)
    BY <2>9 DEF StreamOk, StreamFail, StreamTold, StreamLeft, Tell
  <2> QED
    BY <1>1, <2>1, <2>2, <2>3, <2>4, <2>5, <2>6, <2>7, <2>8, <2>9 DEF Turn, Step
<1>2. CASE (\E k \in Keys : ExpireKey(k)) \/ (\E b \in Bodies : ExpireCached(b))
            \/ UNCHANGED vars
  BY <1>2 DEF ExpireKey, ExpireCached, vars
<1>3. CASE Tick
  BY <1>3 DEF Tick
<1>4. ASSUME NEW w \in Workers, Crash(w)
      PROVE  pc'[q] = pc[q] \/ pc'[q] = "done"
  BY <1>4 DEF Crash
<1> QED
  BY <1>1, <1>2, <1>3, <1>4 DEF Next, Turn

\* A registration is written by a request that then goes on to execute, with its
\* own body and the full time to live.
LEMMA NewRegistration ==
  ASSUME TypeInv, [Next]_vars, NEW k \in Keys, reg[k] = Absent, reg'[k] # Absent
  PROVE  \E r \in Requests : /\ KeyOf[r] = k /\ pc'[r] = "mark"
                             /\ reg'[k] = [body |-> BodyOf[r], ttl |-> RegTTL]
<1> /\ reg \in [Keys -> {Absent} \union [body : Bodies, ttl : 0..RegTTL]]
    /\ pc \in [Requests -> Locations]
  BY DEF TypeInv, TypeOK
<1>1. ASSUME NEW r \in Requests, Turn(r)
      PROVE  \E q \in Requests : /\ KeyOf[q] = k /\ pc'[q] = "mark"
                                 /\ reg'[k] = [body |-> BodyOf[q], ttl |-> RegTTL]
  <2>1. CASE RegisterSetNX(r)
    BY <2>1, ConstantsAssumption DEF RegisterSetNX, Goto
  <2>2. CASE ~RegisterSetNX(r)
    BY <1>1, <2>2
      DEF Turn, Step, redis, Arrive, StreamArrive, StreamGetResult, StreamPoll,
          StreamOk, StreamFail, StreamTold, StreamLeft, CacheGet, RegisterGet, RegisterReread, GetResult, Poll,
          Wake, Mark, Admit, UpstreamOk, UpstreamFail, CacheSet, StoreResult,
          ClearRejected, Finish
  <2> QED
    BY <2>1, <2>2
<1>2. CASE ~(\E r \in Requests : Turn(r))
  BY <1>2 DEF Next, Turn, ExpireKey, ExpireCached, Tick, Older, Crash, vars, redis
<1> QED
  BY <1>1, <1>2

LEMMA NextKeyGoverned ==
  ASSUME ~RegLapses, ~RedisFails, TypeInv, KeyGoverned, [Next]_vars
  PROVE  KeyGoverned'
<1> KeyOf \in [Requests -> Keys]
  BY ConstantsAssumption
<1>1. ASSUME NEW k \in Keys, reg'[k] # Absent PROVE reg'[k].ttl = RegTTL
  <2>1. CASE reg[k] = Absent
    <3>1. \E r \in Requests : reg'[k] = [body |-> BodyOf[r], ttl |-> RegTTL]
      BY <1>1, <2>1, NewRegistration
    <3> QED
      BY <3>1
  <2>2. CASE reg[k] # Absent
    BY <2>2, RegKept DEF KeyGoverned
  <2> QED
    BY <2>1, <2>2
<1>2. ASSUME NEW r \in Requests, pc'[r] = "reg_reread" PROVE reg'[KeyOf[r]] # Absent
  BY <1>2, RegKept, Claiming DEF KeyGoverned
<1>3. ASSUME NEW r \in Requests, pc'[r] \in Claimed
      PROVE  reg'[KeyOf[r]] # Absent /\ reg'[KeyOf[r]].body = BodyOf[r]
  BY <1>3, RegKept, Claiming DEF KeyGoverned
<1> QED
  BY <1>1, <1>2, <1>3 DEF KeyGoverned

\* What a stored result or a cache entry says comes from the request that put it
\* there; getting older does not change it.
LEMMA StoredBy ==
  ASSUME TypeInv, [Next]_vars
  PROVE  /\ \A k \in Keys : res'[k] # Absent =>
              \/ res[k] # Absent /\ res'[k].by = res[k].by
              \/ \E r \in Requests : /\ pc[r] = "store" /\ pc'[r] = "clear"
                                     /\ KeyOf[r] = k /\ res'[k].by = r
         /\ \A b \in Bodies : cached'[b] # Absent =>
              \/ cached[b] # Absent /\ cached'[b].by = cached[b].by
              \/ \E r \in Requests : /\ pc[r] = "cache_set" /\ pc'[r] = "store"
                                     /\ BodyOf[r] = b /\ cached'[b].by = r
<1> DEFINE Goal ==
      /\ \A k \in Keys : res'[k] # Absent =>
           \/ res[k] # Absent /\ res'[k].by = res[k].by
           \/ \E r \in Requests : /\ pc[r] = "store" /\ pc'[r] = "clear"
                                  /\ KeyOf[r] = k /\ res'[k].by = r
      /\ \A b \in Bodies : cached'[b] # Absent =>
           \/ cached[b] # Absent /\ cached'[b].by = cached[b].by
           \/ \E r \in Requests : /\ pc[r] = "cache_set" /\ pc'[r] = "store"
                                  /\ BodyOf[r] = b /\ cached'[b].by = r
<1> /\ res \in [Keys -> {Absent} \union [by : Requests, ttl : 0..ResultTTL]]
    /\ cached \in [Bodies -> {Absent} \union [by : Requests, ttl : 0..ResultTTL]]
  BY DEF TypeInv, TypeOK
<1>1. UNCHANGED <<res, cached>> => Goal
  OBVIOUS
<1>2. ASSUME NEW r \in Requests, Turn(r) PROVE Goal
  <2>1. CASE StoreResult(r)
    BY <2>1 DEF StoreResult, Goto, TypeInv, TypeOK
  <2>2. CASE CacheSet(r)
    BY <2>2 DEF CacheSet, Goto, TypeInv, TypeOK
  <2>3. CASE ~StoreResult(r) /\ ~CacheSet(r)
    <3>1. UNCHANGED <<res, cached>>
      BY <1>2, <2>3
        DEF Turn, Step, redis, Arrive, StreamArrive, StreamGetResult, StreamPoll,
          StreamOk, StreamFail, StreamTold, StreamLeft, CacheGet, RegisterGet, RegisterSetNX, RegisterReread,
            GetResult, Poll, Wake, Mark, Admit, UpstreamOk, UpstreamFail,
            ClearRejected, Finish
    <3> QED
      BY <1>1, <3>1
  <2> QED
    BY <2>1, <2>2, <2>3
<1>3. ASSUME NEW k \in Keys, ExpireKey(k) PROVE Goal
  BY <1>3 DEF ExpireKey
<1>4. ASSUME NEW b \in Bodies, ExpireCached(b) PROVE Goal
  BY <1>4 DEF ExpireCached
<1>5. CASE Tick
  <2>1. ASSUME NEW k \in Keys, Older(res[k]) # Absent
        PROVE  res[k] # Absent /\ Older(res[k]).by = res[k].by
    <3>1. res[k] \in [by : Requests, ttl : 0..ResultTTL]
      BY <2>1 DEF Older
    <3> QED
      BY <2>1, <3>1 DEF Older
  <2>2. ASSUME NEW b \in Bodies, Older(cached[b]) # Absent
        PROVE  cached[b] # Absent /\ Older(cached[b]).by = cached[b].by
    <3>1. cached[b] \in [by : Requests, ttl : 0..ResultTTL]
      BY <2>2 DEF Older
    <3> QED
      BY <2>2, <3>1 DEF Older
  <2> QED
    BY <1>5, <2>1, <2>2 DEF Tick
<1>6. CASE UNCHANGED vars \/ \E w \in Workers : Crash(w)
  BY <1>1, <1>6 DEF vars, redis, Crash
<1> QED
  BY <1>2, <1>3, <1>4, <1>5, <1>6 DEF Next, Turn

LEMMA NextResultsGoverned ==
  ASSUME ~RegLapses, TypeInv, KeyGoverned, ResultsGoverned, [Next]_vars
  PROVE  ResultsGoverned'
<1> KeyOf \in [Requests -> Keys]
  BY ConstantsAssumption
<1>1. ASSUME NEW k \in Keys, res'[k] # Absent
      PROVE  reg'[k] # Absent /\ reg'[k].body = BodyOf[res'[k].by]
  <2>1. reg[k] # Absent /\ reg[k].body = BodyOf[res'[k].by]
    BY <1>1, StoredBy DEF KeyGoverned, ResultsGoverned, Claimed
  <2> QED
    BY <2>1, RegKept
<1>2. ASSUME NEW b \in Bodies, cached'[b] # Absent PROVE BodyOf[cached'[b].by] = b
  BY <1>2, StoredBy DEF ResultsGoverned
<1> QED
  BY <1>1, <1>2 DEF ResultsGoverned

\* Two commands answer with something stored: cache.get and get_result.
LEMMA NextHitMatches ==
  ASSUME TypeInv, KeyGoverned, ResultsGoverned, HitMatchesBody, [Next]_vars
  PROVE  HitMatchesBody'
<1> SUFFICES ASSUME NEW q \in Requests, answer'[q].kind \in {"hit", "cached"}
             PROVE  BodyOf[answer'[q].by] = BodyOf[q]
  BY DEF HitMatchesBody
<1> USE DEF Goto, Resume, Await, Answer
<1> /\ answer \in [Requests -> [kind : Kinds, by : Requests \union {Nobody}]]
    /\ KeyOf \in [Requests -> Keys] /\ BodyOf \in [Requests -> Bodies]
  BY ConstantsAssumption DEF TypeInv, TypeOK
<1>1. answer'[q] = answer[q] => BodyOf[answer'[q].by] = BodyOf[q]
  BY DEF HitMatchesBody
<1>2. ASSUME NEW r \in Requests, Turn(r)
      PROVE  BodyOf[answer'[q].by] = BodyOf[q]
  <2>1. CASE CacheGet(r)
    BY <1>1, <2>1 DEF CacheGet, Hit, ResultsGoverned
  <2>2. CASE GetResult(r)
    BY <1>1, <2>2 DEF GetResult, KeyGoverned, ResultsGoverned, Claimed
  <2>3. CASE RegisterGet(r) \/ RegisterReread(r) \/ Admit(r)
    BY <1>1, <2>3 DEF RegisterGet, RegisterReread, Registered, Admit
  <2>4. CASE Arrive(r) \/ RegisterSetNX(r) \/ Poll(r) \/ Wake(r) \/ Mark(r)
    BY <1>1, <2>4 DEF Arrive, RegisterSetNX, Poll, Wake, Mark
  <2>5. CASE UpstreamOk(r) \/ UpstreamFail(r)
    BY <1>1, <2>5 DEF UpstreamOk, UpstreamFail
  <2>6. CASE CacheSet(r) \/ StoreResult(r) \/ ClearRejected(r)
    BY <1>1, <2>6 DEF CacheSet, StoreResult, ClearRejected
  <2>7. CASE Finish(r)
    BY <1>1, <2>7 DEF Finish
  <2>8. CASE StreamArrive(r) \/ StreamGetResult(r) \/ StreamPoll(r)
    BY <1>1, <2>8 DEF StreamArrive, StreamGetResult, StreamPoll
  <2>9. CASE StreamOk(r) \/ StreamFail(r) \/ StreamTold(r) \/ StreamLeft(r)
    BY <1>1, <2>9 DEF StreamOk, StreamFail, StreamTold, StreamLeft, Tell
  <2> QED
    BY <1>2, <2>1, <2>2, <2>3, <2>4, <2>5, <2>6, <2>7, <2>8, <2>9 DEF Turn, Step
<1>3. ASSUME NEW w \in Workers, Crash(w) PROVE BodyOf[answer'[q].by] = BodyOf[q]
  BY <1>1, <1>3 DEF Crash
<1>4. CASE ~(\E r \in Requests : Turn(r)) /\ ~(\E w \in Workers : Crash(w))
  BY <1>1, <1>4 DEF Next, Turn, ExpireKey, ExpireCached, Tick, vars
<1> QED
  BY <1>2, <1>3, <1>4

\* As long as registrations do not lapse and Redis answers, a client is only
\* given a stored response to its own request: with any number of workers,
\* whatever dies, is refused or waits in vain.
THEOREM HitsMatchTheirBody ==
  ASSUME ~RegLapses, ~RedisFails
  PROVE  Spec => []HitMatchesBody
<1>1. Init => BodyInv
  BY InitType DEF Init, BodyInv, KeyGoverned, ResultsGoverned, HitMatchesBody, Claimed
<1>2. BodyInv /\ [Next]_vars => BodyInv'
  BY NextType, NextWait, NextKeyGoverned, NextResultsGoverned, NextHitMatches
    DEF BodyInv, TypeInv
<1>3. BodyInv => HitMatchesBody
  BY DEF BodyInv
<1> QED
  BY <1>1, <1>2, <1>3, PTL DEF Spec

-----------------------------------------------------------------------------
(* What a step may do to one request.                                      *)

\* q moves on without an answer, or stays where it is.
Quiet(q) ==
    /\ answer'[q] = answer[q]
    /\ \/ pc'[q] = pc[q]
       \/ pc[q] = "new" /\ pc'[q] \in {"cache", "reg_get"}
       \/ pc[q] = "cache" /\ pc'[q] = "reg_get"
       \/ pc[q] = "reg_get" /\ pc'[q] \in {"result", "reg_set", "mark"}
       \/ pc[q] = "reg_set" /\ pc'[q] \in {"mark", "reg_reread"}
       \/ pc[q] = "reg_reread" /\ pc'[q] \in {"result", "mark"}
       \/ pc[q] = "result" /\ pc'[q] = "poll"
       \/ pc[q] = "poll" /\ pc'[q] \in {"sleep", "mark"}
       \/ pc[q] = "sleep" /\ pc'[q] = "rested"
       \/ pc[q] = "rested" /\ pc'[q] = "result"
       \/ pc[q] = "mark" /\ pc'[q] = "admit"
       \/ pc[q] = "admit" /\ pc'[q] = "upstream"
       \/ pc[q] = "told" /\ pc'[q] = IF answer[q].kind = "ok" THEN "store" ELSE "clear"
       \/ pc[q] = "cache_set" /\ pc'[q] = "store"
       \/ pc[q] = "store" /\ pc'[q] = "clear"
       \/ pc[q] = "clear_4xx" /\ pc'[q] = "clear"
       \/ pc[q] = "clear" /\ pc'[q] = "done"

\* q is answered without a call of its own, from what the commands find.
TurnedAway(q) ==
    /\ pc'[q] = "done"
    /\ \/ /\ pc[q] = "cache" /\ CacheOn /\ cached[BodyOf[q]] # Absent
          /\ answer'[q] = [kind |-> "cached", by |-> cached[BodyOf[q]].by]
       \/ /\ pc[q] = "result" /\ res[KeyOf[q]] # Absent
          /\ answer'[q] = [kind |-> "hit", by |-> res[KeyOf[q]].by]
       \/ /\ pc[q] \in {"reg_get", "reg_reread"}
          /\ reg[KeyOf[q]] # Absent /\ reg[KeyOf[q]].body # BodyOf[q]
          /\ answer'[q] = [kind |-> "conflict", by |-> Nobody]
       \/ /\ pc[q] \in {"result", "poll"}
          /\ \E kind \in {"completed", "busy"} : answer'[q] = [kind |-> kind, by |-> Nobody]
       \/ /\ pc[q] = "admit" /\ Limits
          /\ answer'[q] = [kind |-> "limited", by |-> Nobody]

\* The call of q ends, well, badly or because the client of its stream leaves.
CallEnds(q) ==
    \/ /\ pc[q] = "upstream" /\ pc'[q] \in {"cache_set", "store", "told"}
       /\ answer'[q] = [kind |-> "ok", by |-> q]
    \/ /\ pc[q] = "upstream" /\ pc'[q] \in {"clear_4xx", "clear", "told"}
       /\ answer'[q] = [kind |-> "error", by |-> Nobody]
    \/ /\ pc[q] \in {"upstream", "told"} /\ pc'[q] = "done" /\ Leaves
       /\ answer'[q] = [kind |-> "left", by |-> Nobody]

\* q dies with its worker.
Dies(q) ==
    /\ pc[q] \notin {"new", "done"} /\ pc'[q] = "done"
    /\ answer'[q] = [kind |-> "lost", by |-> Nobody]
    /\ crashes' = crashes + 1

\* A request's own step leaves the others where they are.
LEMMA OthersStay ==
  ASSUME TypeInv, NEW r \in Requests, Turn(r), NEW q \in Requests, r # q
  PROVE  pc'[q] = pc[q] /\ answer'[q] = answer[q]
<1> USE DEF Goto, Resume, Await, Answer
<1> /\ answer \in [Requests -> [kind : Kinds, by : Requests \union {Nobody}]]
    /\ pc \in [Requests -> Locations]
  BY DEF TypeInv, TypeOK
<1>1. CASE Arrive(r) \/ CacheGet(r) \/ RegisterGet(r) \/ RegisterSetNX(r)
  BY <1>1 DEF Arrive, CacheGet, RegisterGet, Registered, RegisterSetNX
<1>2. CASE RegisterReread(r) \/ GetResult(r) \/ Admit(r) \/ Poll(r)
  BY <1>2 DEF RegisterReread, Registered, GetResult, Admit, Poll
<1>3. CASE Wake(r) \/ Mark(r) \/ UpstreamOk(r) \/ UpstreamFail(r)
  BY <1>3 DEF Wake, Mark, UpstreamOk, UpstreamFail
<1>4. CASE CacheSet(r) \/ StoreResult(r) \/ ClearRejected(r) \/ Finish(r)
  BY <1>4 DEF CacheSet, StoreResult, ClearRejected, Finish
<1>5. CASE StreamArrive(r) \/ StreamGetResult(r) \/ StreamPoll(r)
  BY <1>5 DEF StreamArrive, StreamGetResult, StreamPoll
<1>6. CASE StreamOk(r) \/ StreamFail(r) \/ StreamTold(r) \/ StreamLeft(r)
  BY <1>6 DEF StreamOk, StreamFail, StreamTold, StreamLeft, Tell
<1> QED
  BY <1>1, <1>2, <1>3, <1>4, <1>5, <1>6 DEF Turn, Step

LEMMA Moves ==
  ASSUME TypeInv, [Next]_vars, NEW q \in Requests
  PROVE  Quiet(q) \/ TurnedAway(q) \/ CallEnds(q) \/ Dies(q)
<1> USE DEF Goto, Resume, Await, Answer
<1> /\ answer \in [Requests -> [kind : Kinds, by : Requests \union {Nobody}]]
    /\ pc \in [Requests -> Locations]
    /\ KeyOf \in [Requests -> Keys] /\ BodyOf \in [Requests -> Bodies]
  BY ConstantsAssumption DEF TypeInv, TypeOK
<1>1. ASSUME NEW r \in Requests, Turn(r), r # q PROVE Quiet(q)
  BY <1>1, OthersStay DEF Quiet
<1>2. CASE Turn(q)
  <2>1. CASE Arrive(q) \/ RegisterSetNX(q) \/ Poll(q) \/ Wake(q) \/ Mark(q)
    BY <2>1 DEF Arrive, RegisterSetNX, Poll, Wake, Mark, Quiet
  <2>2. CASE CacheGet(q)
    BY <2>2 DEF CacheGet, Hit, Quiet, TurnedAway
  <2>3. CASE RegisterGet(q) \/ RegisterReread(q)
    BY <2>3 DEF RegisterGet, RegisterReread, Registered, Quiet, TurnedAway
  <2>4. CASE GetResult(q) \/ Admit(q)
    BY <2>4 DEF GetResult, Admit, Quiet, TurnedAway
  <2>5. CASE UpstreamOk(q) \/ UpstreamFail(q)
    BY <2>5 DEF UpstreamOk, UpstreamFail, CallEnds
  <2>6. CASE CacheSet(q) \/ StoreResult(q) \/ ClearRejected(q)
    BY <2>6 DEF CacheSet, StoreResult, ClearRejected, Quiet
  <2>7. CASE Finish(q)
    <3>1. answer[q] = [kind |-> answer[q].kind, by |-> answer[q].by]
      OBVIOUS
    <3> QED
      BY <2>7, <3>1 DEF Finish, Quiet
  <2>8. CASE StreamArrive(q) \/ StreamGetResult(q) \/ StreamPoll(q)
    BY <2>8 DEF StreamArrive, StreamGetResult, StreamPoll, Quiet, TurnedAway
  <2>9. CASE StreamOk(q) \/ StreamFail(q) \/ StreamLeft(q)
    BY <2>9 DEF StreamOk, StreamFail, StreamLeft, Tell, CallEnds
  <2>10. CASE StreamTold(q)
    BY <2>10 DEF StreamTold, Quiet
  <2> QED
    BY <1>2, <2>1, <2>2, <2>3, <2>4, <2>5, <2>6, <2>7, <2>8, <2>9, <2>10 DEF Turn, Step
<1>3. CASE Tick
  BY <1>3 DEF Tick, Quiet
<1>4. ASSUME NEW w \in Workers, Crash(w) PROVE Quiet(q) \/ Dies(q)
  BY <1>4 DEF Crash, Quiet, Dies
<1>5. CASE (\E k \in Keys : ExpireKey(k)) \/ (\E b \in Bodies : ExpireCached(b))
            \/ UNCHANGED vars
  BY <1>5 DEF ExpireKey, ExpireCached, vars, Quiet
<1> QED
  BY <1>1, <1>2, <1>3, <1>4, <1>5 DEF Next, Turn

\* The markers and the entries: who writes them, and where it stands then.
LEMMA MarkerMoves ==
  ASSUME TypeInv, [Next]_vars, NEW k \in Keys
  PROVE  \/ prog'[k] = prog[k]
         \/ prog'[k] = Older(prog[k]) /\ prog[k] # Absent /\ Tick
         \/ prog'[k] = Absent /\ Due(prog[k])
         \/ /\ prog'[k] = [ttl |-> MarkTTL]
            /\ \E r \in Requests : KeyOf[r] = k /\ pc[r] = "mark" /\ pc'[r] = "admit"
         \/ /\ prog'[k] = Absent
            /\ \E r \in Requests : KeyOf[r] = k /\ pc[r] \in {"clear_4xx", "clear"}
<1> DEFINE Goal ==
      \/ prog'[k] = prog[k]
      \/ prog'[k] = Older(prog[k]) /\ prog[k] # Absent /\ Tick
      \/ prog'[k] = Absent /\ Due(prog[k])
      \/ /\ prog'[k] = [ttl |-> MarkTTL]
         /\ \E r \in Requests : KeyOf[r] = k /\ pc[r] = "mark" /\ pc'[r] = "admit"
      \/ /\ prog'[k] = Absent
         /\ \E r \in Requests : KeyOf[r] = k /\ pc[r] \in {"clear_4xx", "clear"}
<1> /\ prog \in [Keys -> {Absent} \union [ttl : 0..MarkTTL]]
    /\ pc \in [Requests -> Locations]
  BY DEF TypeInv, TypeOK
<1>1. ASSUME NEW r \in Requests, Turn(r) PROVE Goal
  <2>1. CASE Mark(r)
    BY <2>1 DEF Mark, Goto
  <2>2. CASE ClearRejected(r) \/ Finish(r)
    BY <2>2 DEF ClearRejected, Finish, ClearInProgress
  <2>3. CASE ~Mark(r) /\ ~ClearRejected(r) /\ ~Finish(r)
    BY <1>1, <2>3
      DEF Turn, Step, redis, Arrive, StreamArrive, StreamGetResult, StreamPoll,
          StreamOk, StreamFail, StreamTold, StreamLeft, CacheGet, RegisterGet,
          RegisterSetNX, RegisterReread, GetResult, Poll, Wake, Admit, UpstreamOk,
          UpstreamFail, CacheSet, StoreResult
  <2> QED
    BY <2>1, <2>2, <2>3
<1>2. ASSUME NEW j \in Keys, ExpireKey(j) PROVE Goal
  BY <1>2 DEF ExpireKey
<1>3. ASSUME NEW b \in Bodies, ExpireCached(b) PROVE Goal
  BY <1>3 DEF ExpireCached
<1>4. CASE Tick
  BY <1>4 DEF Tick, Older
<1>5. CASE UNCHANGED vars \/ \E w \in Workers : Crash(w)
  BY <1>5 DEF vars, redis, Crash
<1> QED
  BY <1>1, <1>2, <1>3, <1>4, <1>5 DEF Next, Turn

\* When Redis answers, a request that ends its call's clean-up has removed the
\* marker of its key.
LEMMA CleanedUp ==
  ASSUME ~RedisFails, TypeInv, [Next]_vars, NEW q \in Requests,
         pc[q] = "clear", pc'[q] # "clear", ~Dies(q)
  PROVE  prog'[KeyOf[q]] = Absent
<1> /\ pc \in [Requests -> Locations] /\ KeyOf \in [Requests -> Keys]
    /\ prog \in [Keys -> {Absent} \union [ttl : 0..MarkTTL]]
    /\ answer \in [Requests -> [kind : Kinds, by : Requests \union {Nobody}]]
  BY ConstantsAssumption DEF TypeInv, TypeOK
<1> USE DEF Goto, Resume, Await, Answer
<1>1. ASSUME NEW r \in Requests, Turn(r) PROVE prog'[KeyOf[q]] = Absent
  <2>1. CASE Finish(r)
    BY <2>1 DEF Finish, ClearInProgress
  <2>2. CASE Arrive(r) \/ CacheGet(r) \/ RegisterGet(r) \/ RegisterSetNX(r)
    BY <2>2 DEF Arrive, CacheGet, RegisterGet, Registered, RegisterSetNX
  <2>3. CASE RegisterReread(r) \/ GetResult(r) \/ Admit(r) \/ Poll(r)
    BY <2>3 DEF RegisterReread, Registered, GetResult, Admit, Poll
  <2>4. CASE Wake(r) \/ Mark(r) \/ UpstreamOk(r) \/ UpstreamFail(r)
    BY <2>4 DEF Wake, Mark, UpstreamOk, UpstreamFail
  <2>5. CASE CacheSet(r) \/ StoreResult(r) \/ ClearRejected(r)
    BY <2>5 DEF CacheSet, StoreResult, ClearRejected
  <2>6. CASE StreamArrive(r) \/ StreamGetResult(r) \/ StreamPoll(r)
    BY <2>6 DEF StreamArrive, StreamGetResult, StreamPoll
  <2>7. CASE StreamOk(r) \/ StreamFail(r) \/ StreamTold(r) \/ StreamLeft(r)
    BY <2>7 DEF StreamOk, StreamFail, StreamTold, StreamLeft, Tell
  <2> QED
    BY <1>1, <2>1, <2>2, <2>3, <2>4, <2>5, <2>6, <2>7 DEF Turn, Step
<1>2. CASE Tick
  BY <1>2 DEF Tick
<1>3. ASSUME NEW w \in Workers, Crash(w) PROVE FALSE
  BY <1>3 DEF Crash, Dies
<1>4. CASE (\E k \in Keys : ExpireKey(k)) \/ (\E b \in Bodies : ExpireCached(b))
            \/ UNCHANGED vars
  BY <1>4 DEF ExpireKey, ExpireCached, vars
<1> QED
  BY <1>1, <1>2, <1>3, <1>4 DEF Next, Turn

-----------------------------------------------------------------------------
(* Conflicts. *)

\* Where a request is before it has looked at the registration of its key.
Unregistered == {"new", "cache", "reg_get"}

\* A registration stays behind the request that made it.
RegHasMaker ==
    \A k \in Keys : reg[k] # Absent =>
        \E q \in Requests : /\ KeyOf[q] = k /\ BodyOf[q] = reg[k].body
                            /\ pc[q] \notin Unregistered

LEMMA NextRegHasMaker == TypeInv /\ RegHasMaker /\ [Next]_vars => RegHasMaker'
<1> SUFFICES ASSUME TypeInv, RegHasMaker, [Next]_vars, NEW k \in Keys, reg'[k] # Absent
             PROVE  \E q \in Requests : /\ KeyOf[q] = k /\ BodyOf[q] = reg'[k].body
                                        /\ pc'[q] \notin Unregistered
  BY DEF RegHasMaker
<1>1. CASE reg[k] = Absent
  <2>1. \E r \in Requests : /\ KeyOf[r] = k /\ pc'[r] = "mark"
                            /\ reg'[k] = [body |-> BodyOf[r], ttl |-> RegTTL]
    BY <1>1, NewRegistration
  <2> QED
    BY <2>1 DEF Unregistered
<1>2. CASE reg[k] # Absent
  <2>1. PICK q \in Requests : /\ KeyOf[q] = k /\ BodyOf[q] = reg[k].body
                              /\ pc[q] \notin Unregistered
    BY <1>2 DEF RegHasMaker
  <2>2. pc'[q] \notin Unregistered
    BY <2>1, Moves DEF Unregistered, Quiet, TurnedAway, CallEnds, Dies
  <2> QED
    BY <1>2, <2>1, <2>2, BodyStands
<1> QED
  BY <1>1, <1>2

LEMMA NextConflictIsReal ==
  TypeInv /\ RegHasMaker /\ ConflictIsReal /\ [Next]_vars => ConflictIsReal'
<1> SUFFICES ASSUME TypeInv, RegHasMaker, ConflictIsReal, [Next]_vars,
                    NEW r \in Requests, answer'[r].kind = "conflict"
             PROVE  \E q \in Requests : /\ KeyOf[q] = KeyOf[r] /\ BodyOf[q] # BodyOf[r]
                                        /\ pc'[q] \notin {"new", "cache", "reg_get"}
  BY DEF ConflictIsReal
<1>1. \E q \in Requests : /\ KeyOf[q] = KeyOf[r] /\ BodyOf[q] # BodyOf[r]
                          /\ pc[q] \notin Unregistered
  <2>1. CASE answer[r].kind = "conflict"
    BY <2>1 DEF ConflictIsReal, Unregistered
  <2>2. CASE answer[r].kind # "conflict"
    <3>1. reg[KeyOf[r]] # Absent /\ reg[KeyOf[r]].body # BodyOf[r]
      <4>1. ~Quiet(r)
        BY <2>2 DEF Quiet
      <4>2. ~CallEnds(r) /\ ~Dies(r)
        BY DEF CallEnds, Dies
      <4>3. TurnedAway(r)
        BY <4>1, <4>2, Moves
      <4> QED
        BY <4>3 DEF TurnedAway
    <3> QED
      BY <3>1, ConstantsAssumption DEF RegHasMaker
  <2> QED
    BY <2>1, <2>2
<1>2. PICK q \in Requests : /\ KeyOf[q] = KeyOf[r] /\ BodyOf[q] # BodyOf[r]
                            /\ pc[q] \notin Unregistered
  BY <1>1
<1>3. pc'[q] \notin Unregistered
  BY <1>2, Moves DEF Unregistered, Quiet, TurnedAway, CallEnds, Dies
<1> QED
  BY <1>2, <1>3 DEF Unregistered

\* A client is only told of a conflict when another request, with another body,
\* really came with its key: whatever expires, fails or dies in between.
THEOREM ConflictsAreReal == Spec => []ConflictIsReal
<1> DEFINE Inv == TypeInv /\ RegHasMaker /\ ConflictIsReal
<1>1. Init => Inv
  BY InitType DEF Init, RegHasMaker, ConflictIsReal
<1>2. Inv /\ [Next]_vars => Inv'
  BY NextType, NextWait, NextRegHasMaker, NextConflictIsReal DEF TypeInv
<1> QED
  BY <1>1, <1>2, PTL DEF Spec

-----------------------------------------------------------------------------
(* Failures. *)

\* What a request says of its own call: a success is recorded before it is kept.
CallsRecorded ==
    \A r \in Requests :
        /\ pc[r] \in {"cache_set", "store"} => answer[r] = [kind |-> "ok", by |-> r]
        /\ pc[r] = "told" => answer[r] \in {[kind |-> "ok", by |-> r],
                                            [kind |-> "error", by |-> Nobody]}

\* q's call was successful, unless q died after it had kept the response.
Kept(q) == pc[q] \in {"store", "clear", "done"} /\ answer[q].kind \in {"ok", "lost"}

\* Whatever is stored, in either cache, or has been given out is the response of
\* a successful call.
OnlySuccesses ==
    /\ \A k \in Keys : res[k] # Absent => Kept(res[k].by)
    /\ \A b \in Bodies : cached[b] # Absent => Kept(cached[b].by)
    /\ \A r \in Requests : answer[r].kind \in {"hit", "cached"} =>
          answer[r].by \in Requests /\ Kept(answer[r].by)

LEMMA NextCallsRecorded == TypeInv /\ CallsRecorded /\ [Next]_vars => CallsRecorded'
<1> SUFFICES ASSUME TypeInv, CallsRecorded, [Next]_vars, NEW q \in Requests
             PROVE  /\ pc'[q] \in {"cache_set", "store"} => answer'[q] = [kind |-> "ok", by |-> q]
                    /\ pc'[q] = "told" => answer'[q] \in {[kind |-> "ok", by |-> q],
                                                          [kind |-> "error", by |-> Nobody]}
  BY DEF CallsRecorded
<1>1. CASE Quiet(q)
  BY <1>1 DEF Quiet, CallsRecorded
<1>2. CASE TurnedAway(q) \/ CallEnds(q) \/ Dies(q)
  BY <1>2 DEF TurnedAway, CallEnds, Dies
<1> QED
  BY <1>1, <1>2, Moves

\* A kept success remains one.
LEMMA StaysKept ==
  ASSUME TypeInv, [Next]_vars, NEW q \in Requests, Kept(q)
  PROVE  pc'[q] \in {"store", "clear", "done"} /\ answer'[q].kind \in {"ok", "lost"}
<1>1. ASSUME Quiet(q)
      PROVE  pc'[q] \in {"store", "clear", "done"} /\ answer'[q].kind \in {"ok", "lost"}
  BY <1>1 DEF Kept, Quiet
<1>2. ~TurnedAway(q) /\ ~CallEnds(q)
  BY DEF Kept, TurnedAway, CallEnds
<1> QED
  BY <1>1, <1>2, Moves DEF Dies

LEMMA NextOnlySuccesses ==
  TypeInv /\ CallsRecorded /\ OnlySuccesses /\ [Next]_vars => OnlySuccesses'
<1> SUFFICES ASSUME TypeInv, CallsRecorded, OnlySuccesses, [Next]_vars
             PROVE  OnlySuccesses'
  OBVIOUS
<1> DEFINE KeptNext(q) == /\ pc'[q] \in {"store", "clear", "done"}
                          /\ answer'[q].kind \in {"ok", "lost"}
<1> /\ res \in [Keys -> {Absent} \union [by : Requests, ttl : 0..ResultTTL]]
    /\ cached \in [Bodies -> {Absent} \union [by : Requests, ttl : 0..ResultTTL]]
    /\ KeyOf \in [Requests -> Keys] /\ BodyOf \in [Requests -> Bodies]
  BY ConstantsAssumption DEF TypeInv, TypeOK
<1>1. \A q \in Requests : Kept(q) => KeptNext(q)
  BY StaysKept
<1>2. ASSUME NEW q \in Requests, pc[q] \in {"cache_set", "store"},
             pc'[q] \in {"store", "clear"}
      PROVE  KeptNext(q)
  <2>1. answer[q] = [kind |-> "ok", by |-> q]
    BY <1>2 DEF CallsRecorded
  <2>2. answer'[q] = answer[q]
    BY <1>2, Moves DEF Quiet, TurnedAway, CallEnds, Dies
  <2> QED
    BY <1>2, <2>1, <2>2 DEF Kept
<1>3. ASSUME NEW k \in Keys, res'[k] # Absent PROVE KeptNext(res'[k].by)
  <2>1. CASE res[k] # Absent /\ res'[k].by = res[k].by
    <3>1. res[k].by \in Requests /\ Kept(res[k].by)
      BY <2>1 DEF OnlySuccesses
    <3> QED
      BY <1>1, <2>1, <3>1
  <2>2. ASSUME NEW r \in Requests, pc[r] = "store", pc'[r] = "clear", res'[k].by = r
        PROVE  KeptNext(res'[k].by)
    <3> HIDE DEF KeptNext
    <3> QED
      BY <1>2, <2>2
  <2> QED
    BY <1>3, <2>1, <2>2, StoredBy
<1>4. ASSUME NEW b \in Bodies, cached'[b] # Absent PROVE KeptNext(cached'[b].by)
  <2>1. CASE cached[b] # Absent /\ cached'[b].by = cached[b].by
    <3>1. cached[b].by \in Requests /\ Kept(cached[b].by)
      BY <2>1 DEF OnlySuccesses
    <3> QED
      BY <1>1, <2>1, <3>1
  <2>2. ASSUME NEW r \in Requests, pc[r] = "cache_set", pc'[r] = "store", cached'[b].by = r
        PROVE  KeptNext(cached'[b].by)
    <3> HIDE DEF KeptNext
    <3> QED
      BY <1>2, <2>2
  <2> QED
    BY <1>4, <2>1, <2>2, StoredBy
<1>5. ASSUME NEW r \in Requests, answer'[r].kind \in {"hit", "cached"}
      PROVE  answer'[r].by \in Requests /\ KeptNext(answer'[r].by)
  <2>1. answer'[r].by \in Requests /\ Kept(answer'[r].by)
    <3>1. CASE Quiet(r)
      BY <1>5, <3>1 DEF Quiet, OnlySuccesses
    <3>2. CASE TurnedAway(r)
      BY <1>5, <3>2 DEF TurnedAway, OnlySuccesses
    <3>3. CASE CallEnds(r) \/ Dies(r)
      BY <1>5, <3>3 DEF CallEnds, Dies
    <3> QED
      BY <3>1, <3>2, <3>3, Moves
  <2> QED
    BY <1>1, <2>1
<1> QED
  BY <1>3, <1>4, <1>5 DEF OnlySuccesses, Kept

\* No client is ever given a failure again: what a duplicate receives was the
\* response of a successful call, in spite of Redis errors, lapsing keys, refusals
\* and workers that die between the call and its answer.
THEOREM FailuresNeverReplayed == Spec => []NoFailureReplayed
<1> DEFINE Inv == TypeInv /\ CallsRecorded /\ OnlySuccesses
<1>1. Init => Inv
  BY InitType DEF Init, CallsRecorded, OnlySuccesses
<1>2. Inv /\ [Next]_vars => Inv'
  BY NextType, NextWait, NextCallsRecorded, NextOnlySuccesses DEF TypeInv
<1>3. Inv => NoFailureReplayed
  BY DEF OnlySuccesses, Kept, NoFailureReplayed
<1> QED
  BY <1>1, <1>2, <1>3, PTL DEF Spec

-----------------------------------------------------------------------------
(* Markers. *)

\* A request that left its marker behind has been answered and says why.
Departed == {"left", "limited", "lost"}

DeparturesExplained ==
    \A r \in Requests :
        /\ answer[r].kind \in Departed => pc[r] = "done"
        /\ answer[r].kind = "left" => Leaves
        /\ answer[r].kind = "limited" => Limits
        /\ answer[r].kind = "lost" => crashes > 0

\* A marker stands for a request that will clear it, or for one that could not:
\* its client left, the scheduler refused it after it had set the marker, or its
\* worker died.
MarkersExplained ==
    \A k \in Keys : prog[k] # Absent =>
        \E r \in Requests : KeyOf[r] = k /\ (pc[r] \in Busy \/ answer[r].kind \in Departed)

LEMMA NextDepartures ==
  TypeInv /\ DeparturesExplained /\ [Next]_vars => DeparturesExplained'
<1> SUFFICES ASSUME TypeInv, DeparturesExplained, [Next]_vars, NEW q \in Requests
             PROVE  /\ answer'[q].kind \in Departed => pc'[q] = "done"
                    /\ answer'[q].kind = "left" => Leaves
                    /\ answer'[q].kind = "limited" => Limits
                    /\ answer'[q].kind = "lost" => crashes' > 0
  BY DEF DeparturesExplained
<1> USE DEF Departed
<1>1. crashes \in Nat /\ (crashes' = crashes \/ crashes' = crashes + 1)
  <2>1. \A w \in Workers : Crash(w) => crashes' = crashes + 1
    BY DEF Crash
  <2>2. ~(\E w \in Workers : Crash(w)) => crashes' = crashes
    BY DEF Next, Step, Arrive, StreamArrive, StreamGetResult, StreamPoll, StreamOk,
           StreamFail, StreamTold, StreamLeft, CacheGet, RegisterGet, RegisterSetNX,
           RegisterReread, Registered, GetResult, Poll, Wake, Mark, Admit, UpstreamOk,
           UpstreamFail, CacheSet, StoreResult, ClearRejected, Finish, Goto, Resume,
           Await, Answer, Tell, ExpireKey, ExpireCached, Tick, vars
  <2> QED
    BY <2>1, <2>2 DEF TypeInv, TypeOK
<1>2. CASE Quiet(q)
  BY <1>1, <1>2 DEF Quiet, DeparturesExplained
<1>3. CASE TurnedAway(q) \/ CallEnds(q)
  BY <1>3 DEF TurnedAway, CallEnds
<1>4. CASE Dies(q)
  BY <1>1, <1>4 DEF Dies
<1> QED
  BY <1>2, <1>3, <1>4, Moves

LEMMA NextMarkersExplained ==
  ASSUME ~RedisFails, TypeInv, DeparturesExplained, MarkersExplained, [Next]_vars
  PROVE  MarkersExplained'
<1> SUFFICES ASSUME NEW k \in Keys, prog'[k] # Absent
             PROVE  \E r \in Requests : /\ KeyOf[r] = k
                                        /\ pc'[r] \in Busy \/ answer'[r].kind \in Departed
  BY DEF MarkersExplained
<1>1. CASE \E r \in Requests : KeyOf[r] = k /\ pc'[r] = "admit"
  BY <1>1 DEF Busy
<1>2. CASE prog[k] # Absent
  <2>1. PICK r \in Requests : KeyOf[r] = k /\ (pc[r] \in Busy \/ answer[r].kind \in Departed)
    BY <1>2 DEF MarkersExplained
  <2>2. CASE answer[r].kind \in Departed
    BY <2>1, <2>2, Moves
      DEF DeparturesExplained, Departed, Quiet, TurnedAway, CallEnds, Dies
  <2>3. CASE pc[r] \in Busy /\ pc'[r] \notin Busy
    <3>1. CASE Quiet(r) /\ ~Dies(r)
      <4>1. pc[r] = "clear"
        BY <2>3, <3>1 DEF Busy, Quiet
      <4>2. prog'[KeyOf[r]] = Absent
        BY <2>3, <3>1, <4>1, CleanedUp DEF Busy
      <4> QED
        BY <2>1, <4>2
    <3>2. CASE TurnedAway(r)
      BY <2>1, <2>3, <3>2 DEF Busy, Departed, TurnedAway
    <3>3. CASE CallEnds(r)
      BY <2>1, <2>3, <3>3 DEF Busy, Departed, CallEnds
    <3>4. CASE Dies(r)
      BY <2>1, <3>4 DEF Departed, Dies
    <3> QED
      BY <3>1, <3>2, <3>3, <3>4, Moves
  <2> QED
    BY <2>1, <2>2, <2>3
<1> QED
  BY <1>1, <1>2, MarkerMoves DEF Due

\* As long as Redis answers, every marker is accounted for.
LEMMA MarkersAccounted ==
  ASSUME ~RedisFails
  PROVE  Spec => [](DeparturesExplained /\ MarkersExplained)
<1> DEFINE Inv == TypeInv /\ DeparturesExplained /\ MarkersExplained
<1>1. Init => Inv
  BY InitType DEF Init, DeparturesExplained, MarkersExplained, Departed
<1>2. Inv /\ [Next]_vars => Inv'
  BY NextType, NextWait, NextDepartures, NextMarkersExplained DEF TypeInv
<1> QED
  BY <1>1, <1>2, PTL DEF Spec

\* When Redis answers, nothing is refused and no worker dies, a marker stands for
\* a call in progress, or for a stream whose client left: with any number of
\* workers, although clear_in_progress does not ask whose marker it removes.
THEOREM MarkersHaveOwners ==
  ASSUME ~RedisFails, ~Limits, MaxCrashes = 0
  PROVE  Spec => []MarkerHasOwner
<1>1. TypeOK /\ DeparturesExplained /\ MarkersExplained => MarkerHasOwner
  <2> SUFFICES ASSUME TypeOK, DeparturesExplained, MarkersExplained
               PROVE  MarkerHasOwner
    OBVIOUS
  <2>1. ~(crashes > 0)
    BY DEF TypeOK
  <2> QED
    BY <2>1 DEF DeparturesExplained, MarkersExplained, Departed, MarkerHasOwner
<1> QED
  BY <1>1, MarkersAccounted, TypeCorrect, PTL

-----------------------------------------------------------------------------
(* One worker: between two awaits a request runs alone.                    *)

Awaiting == {"new", "sleep", "rested", "upstream", "told", "done"}

LoopHeld == \A r \in Requests : pc[r] \notin Awaiting => loop[HostOf[r]] = r

LEMMA NextLoopHeld == TypeInv /\ LoopHeld /\ [Next]_vars => LoopHeld'
<1> SUFFICES ASSUME TypeInv, LoopHeld, [Next]_vars, NEW q \in Requests,
                    pc'[q] \notin Awaiting
             PROVE  loop'[HostOf[q]] = q
  BY DEF LoopHeld
<1> /\ pc \in [Requests -> Locations] /\ loop \in [Workers -> Requests \union {Nobody}]
    /\ HostOf \in [Requests -> Workers] /\ Nobody \notin Requests
  BY ConstantsAssumption DEF TypeInv, TypeOK
<1>1. pc[q] \notin Awaiting => loop[HostOf[q]] = q
  BY DEF LoopHeld
<1>2. ASSUME NEW r \in Requests, Turn(r) PROVE loop'[HostOf[q]] = q
  <2> USE DEF Goto, Resume, Await, Answer, Awaiting
  <2>1. CASE Arrive(r) \/ Wake(r) \/ UpstreamOk(r) \/ UpstreamFail(r)
    BY <1>1, <2>1 DEF Arrive, Wake, UpstreamOk, UpstreamFail
  <2>2. pc[r] \notin Awaiting => loop[HostOf[r]] = r
    BY DEF LoopHeld
  <2>3. CASE CacheGet(r) \/ RegisterGet(r) \/ RegisterReread(r)
    BY <1>1, <2>2, <2>3 DEF CacheGet, RegisterGet, RegisterReread, Registered
  <2>4. CASE RegisterSetNX(r) \/ GetResult(r) \/ Poll(r)
    BY <1>1, <2>2, <2>4 DEF RegisterSetNX, GetResult, Poll
  <2>5. CASE Mark(r) \/ Admit(r) \/ CacheSet(r) \/ StoreResult(r)
    BY <1>1, <2>2, <2>5 DEF Mark, Admit, CacheSet, StoreResult
  <2>6. CASE ClearRejected(r) \/ Finish(r)
    BY <1>1, <2>2, <2>6 DEF ClearRejected, Finish
  <2>7. CASE StreamArrive(r) \/ StreamGetResult(r) \/ StreamPoll(r)
    BY <1>1, <2>2, <2>7 DEF StreamArrive, StreamGetResult, StreamPoll
  <2>8. CASE StreamOk(r) \/ StreamFail(r) \/ StreamTold(r) \/ StreamLeft(r)
    BY <1>1, <2>2, <2>8 DEF StreamOk, StreamFail, StreamTold, StreamLeft, Tell
  <2> QED
    BY <1>2, <2>1, <2>3, <2>4, <2>5, <2>6, <2>7, <2>8 DEF Turn, Step
<1>3. CASE Tick
  BY <1>1, <1>3 DEF Tick, Awaiting
<1>4. ASSUME NEW w \in Workers, Crash(w) PROVE loop'[HostOf[q]] = q
  BY <1>1, <1>4 DEF Crash, Awaiting
<1>5. CASE ~(\E r \in Requests : Turn(r)) /\ ~(\E w \in Workers : Crash(w))
            /\ ~Tick
  BY <1>1, <1>5 DEF Next, Turn, ExpireKey, ExpireCached, vars
<1> QED
  BY <1>2, <1>3, <1>4, <1>5

\* What a request has read about its key's result is still so when it acts.
NothingStored ==
    \A r \in Requests : pc[r] \in {"poll", "mark", "admit"} => res[KeyOf[r]] = Absent

LEMMA NextNothingStored ==
  ASSUME ~RegLapses, ~RedisFails, NEW w0, Workers = {w0},
         TypeInv, ResultsGoverned, LoopHeld, NothingStored, KeyGoverned, [Next]_vars
  PROVE  NothingStored'
<1> SUFFICES ASSUME NEW q \in Requests, pc'[q] \in {"poll", "mark", "admit"}
             PROVE  res'[KeyOf[q]] = Absent
  BY DEF NothingStored
<1> /\ pc \in [Requests -> Locations] /\ loop \in [Workers -> Requests \union {Nobody}]
    /\ HostOf \in [Requests -> Workers] /\ Nobody \notin Requests
    /\ KeyOf \in [Requests -> Keys]
  BY ConstantsAssumption DEF TypeInv, TypeOK
<1>1. pc[q] \in {"poll", "mark", "admit"} => res[KeyOf[q]] = Absent
  BY DEF NothingStored
<1>2. ASSUME NEW r \in Requests, Turn(r) PROVE res'[KeyOf[q]] = Absent
  <2> USE DEF Goto, Resume, Await, Answer, redis
  <2>1. pc[r] \notin Awaiting => loop[w0] = r
    BY DEF LoopHeld
  <2>2. pc[q] \notin Awaiting => loop[w0] = q
    BY DEF LoopHeld
  <2>3. CASE Arrive(r) \/ Wake(r) \/ UpstreamOk(r) \/ UpstreamFail(r)
    BY <1>1, <2>3 DEF Arrive, Wake, UpstreamOk, UpstreamFail
  <2>4. CASE StoreResult(r)
    BY <2>1, <2>2, <2>4 DEF StoreResult, Awaiting
  <2>5. CASE RegisterSetNX(r)
    BY <1>1, <2>5 DEF RegisterSetNX, ResultsGoverned
  <2>6. CASE GetResult(r) \/ Poll(r) \/ Mark(r) \/ Admit(r)
    BY <1>1, <2>6 DEF GetResult, Poll, Mark, Admit
  <2>7. CASE CacheGet(r) \/ RegisterGet(r)
    BY <1>1, <2>7 DEF CacheGet, RegisterGet, Registered
  <2>8. CASE RegisterReread(r)
    BY <1>1, <2>8 DEF RegisterReread, Registered, KeyGoverned
  <2>9. CASE CacheSet(r) \/ ClearRejected(r) \/ Finish(r)
    BY <1>1, <2>9 DEF CacheSet, ClearRejected, Finish
  <2>10. CASE StreamArrive(r) \/ StreamGetResult(r) \/ StreamPoll(r)
    BY <1>1, <2>10 DEF StreamArrive, StreamGetResult, StreamPoll
  <2>11. CASE StreamOk(r) \/ StreamFail(r) \/ StreamTold(r) \/ StreamLeft(r)
    BY <1>1, <2>11 DEF StreamOk, StreamFail, StreamTold, StreamLeft, Tell
  <2> QED
    BY <1>2, <2>3, <2>4, <2>5, <2>6, <2>7, <2>8, <2>9, <2>10, <2>11 DEF Turn, Step
<1>3. CASE Tick
  BY <1>1, <1>3 DEF Tick, Older
<1>4. ASSUME NEW w \in Workers, Crash(w) PROVE res'[KeyOf[q]] = Absent
  BY <1>1, <1>4 DEF Crash, redis
<1>5. ASSUME NEW k \in Keys, ExpireKey(k) PROVE res'[KeyOf[q]] = Absent
  BY <1>1, <1>5 DEF ExpireKey, TypeInv, TypeOK
<1>6. CASE (\E b \in Bodies : ExpireCached(b)) \/ UNCHANGED vars
  BY <1>1, <1>6 DEF ExpireCached, vars, redis
<1> QED
  BY <1>2, <1>3, <1>4, <1>5, <1>6 DEF Next, Turn

\* With one worker, a request that goes to the upstream under a key finds no
\* result stored at that moment: the check and the call cannot be separated by
\* another request's success.  (With two workers they can: see the README.)
THEOREM NoReplayWithOneWorker ==
  ASSUME ~RegLapses, ~RedisFails, NEW w0, Workers = {w0}
  PROVE  Spec => []NoReplayExecutes
<1> DEFINE Inv == BodyInv /\ LoopHeld /\ NothingStored
<1>1. Init => Inv
  BY InitType DEF Init, BodyInv, KeyGoverned, ResultsGoverned, HitMatchesBody, Claimed,
                  LoopHeld, Awaiting, NothingStored
<1>2. Inv /\ [Next]_vars => Inv'
  <2> SUFFICES ASSUME Inv, [Next]_vars PROVE Inv'
    OBVIOUS
  <2>1. BodyInv'
    BY NextType, NextWait, NextKeyGoverned, NextResultsGoverned, NextHitMatches
      DEF BodyInv, TypeInv
  <2>2. LoopHeld'
    BY NextLoopHeld DEF BodyInv
  <2>3. NothingStored'
    BY NextNothingStored DEF BodyInv
  <2> QED
    BY <2>1, <2>2, <2>3
<1>3. Inv => NoReplayExecutes
  BY DEF NothingStored, NoReplayExecutes
<1> QED
  BY <1>1, <1>2, <1>3, PTL DEF Spec

-----------------------------------------------------------------------------
(* One call at a time. *)

\* A duplicate that finds the marker of a call that is running has polls left.
Patient ==
    \A r, q \in Requests :
        /\ pc[r] = "poll" /\ r \notin Streamed /\ prog[KeyOf[r]] # Absent
        /\ KeyOf[q] = KeyOf[r] /\ Calling(q)
        => waited[r] < MaxWait

\* Of the requests that execute under one key there is one, from the moment it is
\* about to set the marker.
Alone ==
    \A r, q \in Requests :
        /\ pc[r] \in Busy \union {"mark"} /\ pc[q] \in Busy \union {"mark"}
        /\ KeyOf[r] = KeyOf[q]
        => r = q

\* The marker is there as long as the call it stands for.
CallsMarked ==
    \A r \in Requests : pc[r] \in {"admit", "upstream", "told"} => prog[KeyOf[r]] # Absent

\* What sends a request to execute: it has made the registration of its key, or it
\* sees no call in progress, or it is tired of waiting.
LEMMA GoesAhead ==
  ASSUME ~RedisFails, TypeInv, [Next]_vars, NEW r \in Requests,
         pc[r] # "mark", pc'[r] = "mark"
  PROVE  \/ pc[r] = "poll" /\ prog[KeyOf[r]] = Absent
         \/ pc[r] = "poll" /\ r \notin Streamed /\ waited[r] >= MaxWait
         \/ pc[r] \in {"reg_set", "reg_reread"} /\ reg[KeyOf[r]] = Absent
<1> DEFINE Goal == \/ pc[r] = "poll" /\ prog[KeyOf[r]] = Absent
                   \/ pc[r] = "poll" /\ r \notin Streamed /\ waited[r] >= MaxWait
                   \/ pc[r] \in {"reg_set", "reg_reread"} /\ reg[KeyOf[r]] = Absent
<1> USE DEF Goto, Resume, Await, Answer
<1> pc \in [Requests -> Locations]
  BY DEF TypeInv, TypeOK
<1>1. ASSUME NEW q \in Requests, Turn(q) PROVE Goal
  <2>1. CASE Poll(q) \/ StreamPoll(q)
    BY <2>1 DEF Poll, StreamPoll
  <2>2. CASE RegisterGet(q) \/ RegisterSetNX(q) \/ RegisterReread(q)
    BY <2>2 DEF RegisterGet, RegisterSetNX, RegisterReread, Registered
  <2>3. CASE Arrive(q) \/ CacheGet(q) \/ GetResult(q) \/ Wake(q)
    BY <2>3 DEF Arrive, CacheGet, GetResult, Wake
  <2>4. CASE Mark(q) \/ Admit(q) \/ UpstreamOk(q) \/ UpstreamFail(q)
    BY <2>4 DEF Mark, Admit, UpstreamOk, UpstreamFail
  <2>5. CASE CacheSet(q) \/ StoreResult(q) \/ ClearRejected(q) \/ Finish(q)
    BY <2>5 DEF CacheSet, StoreResult, ClearRejected, Finish
  <2>6. CASE StreamArrive(q) \/ StreamGetResult(q)
    BY <2>6 DEF StreamArrive, StreamGetResult
  <2>7. CASE StreamOk(q) \/ StreamFail(q) \/ StreamTold(q) \/ StreamLeft(q)
    BY <2>7 DEF StreamOk, StreamFail, StreamTold, StreamLeft, Tell
  <2> QED
    BY <1>1, <2>1, <2>2, <2>3, <2>4, <2>5, <2>6, <2>7 DEF Turn, Step
<1>2. CASE ~(\E q \in Requests : Turn(q))
  BY <1>2 DEF Next, Turn, ExpireKey, ExpireCached, Tick, Crash, vars
<1> QED
  BY <1>1, <1>2

\* When Redis answers, a request that goes on to be admitted has set the marker.
LEMMA MarkSets ==
  ASSUME ~RedisFails, TypeInv, [Next]_vars, NEW r \in Requests,
         pc[r] = "mark", pc'[r] = "admit"
  PROVE  prog'[KeyOf[r]] = [ttl |-> MarkTTL] /\ prog'[KeyOf[r]] # Absent
<1> USE DEF Goto, Resume, Await, Answer
<1> /\ pc \in [Requests -> Locations] /\ KeyOf \in [Requests -> Keys]
    /\ prog \in [Keys -> {Absent} \union [ttl : 0..MarkTTL]]
    /\ [ttl |-> MarkTTL] # Absent
  BY ConstantsAssumption, Times DEF TypeInv, TypeOK
<1> SUFFICES prog'[KeyOf[r]] = [ttl |-> MarkTTL]
  OBVIOUS
<1>1. ASSUME NEW q \in Requests, Turn(q) PROVE prog'[KeyOf[r]] = [ttl |-> MarkTTL]
  <2>1. CASE Mark(q)
    BY <2>1 DEF Mark
  <2>2. CASE Arrive(q) \/ CacheGet(q) \/ RegisterGet(q) \/ RegisterSetNX(q)
    BY <2>2 DEF Arrive, CacheGet, RegisterGet, Registered, RegisterSetNX
  <2>3. CASE RegisterReread(q) \/ GetResult(q) \/ Admit(q) \/ Poll(q)
    BY <2>3 DEF RegisterReread, Registered, GetResult, Admit, Poll
  <2>4. CASE Wake(q) \/ UpstreamOk(q) \/ UpstreamFail(q)
    BY <2>4 DEF Wake, UpstreamOk, UpstreamFail
  <2>5. CASE CacheSet(q) \/ StoreResult(q) \/ ClearRejected(q) \/ Finish(q)
    BY <2>5 DEF CacheSet, StoreResult, ClearRejected, Finish
  <2>6. CASE StreamArrive(q) \/ StreamGetResult(q) \/ StreamPoll(q)
    BY <2>6 DEF StreamArrive, StreamGetResult, StreamPoll
  <2>7. CASE StreamOk(q) \/ StreamFail(q) \/ StreamTold(q) \/ StreamLeft(q)
    BY <2>7 DEF StreamOk, StreamFail, StreamTold, StreamLeft, Tell
  <2> QED
    BY <1>1, <2>1, <2>2, <2>3, <2>4, <2>5, <2>6, <2>7 DEF Turn, Step
<1>2. CASE ~(\E q \in Requests : Turn(q))
  BY <1>2 DEF Next, Turn, ExpireKey, ExpireCached, Tick, Crash, vars
<1> QED
  BY <1>1, <1>2

\* A call gets older by the clock only, and its age is gone when it ends.
LEMMA AgeMoves ==
  ASSUME TypeInv, [Next]_vars, NEW q \in Requests
  PROVE  \/ Tick /\ Calling(q) /\ age'[q] = age[q] + 1
         \/ ~Tick /\ age'[q] = age[q] /\ (Calling(q) => Calling(q)')
         \/ Tick /\ ~Calling(q) /\ age'[q] = age[q]
         \/ age'[q] = 0 /\ ~Calling(q)'
<1> DEFINE Same == age'[q] = age[q] /\ (Calling(q) => Calling(q)')
           Gone == age'[q] = 0 /\ ~Calling(q)'
<1> USE DEF Goto, Resume, Await, Answer, Calling
<1> /\ pc \in [Requests -> Locations] /\ age \in [Requests -> 0..MaxExec]
  BY DEF TypeInv, TypeOK
<1>1. ASSUME NEW r \in Requests, Turn(r) PROVE Same \/ Gone
  <2>1. CASE Arrive(r) \/ CacheGet(r) \/ RegisterGet(r) \/ RegisterSetNX(r)
    BY <2>1 DEF Arrive, CacheGet, RegisterGet, Registered, RegisterSetNX, local
  <2>2. CASE RegisterReread(r) \/ GetResult(r) \/ Admit(r) \/ Poll(r)
    BY <2>2 DEF RegisterReread, Registered, GetResult, Admit, Poll, local
  <2>3. CASE Wake(r) \/ Mark(r) \/ UpstreamOk(r) \/ UpstreamFail(r)
    BY <2>3 DEF Wake, Mark, UpstreamOk, UpstreamFail
  <2>4. CASE CacheSet(r) \/ StoreResult(r) \/ ClearRejected(r) \/ Finish(r)
    BY <2>4 DEF CacheSet, StoreResult, ClearRejected, Finish, local
  <2>5. CASE StreamArrive(r) \/ StreamGetResult(r) \/ StreamPoll(r)
    BY <2>5 DEF StreamArrive, StreamGetResult, StreamPoll, local
  <2>6. CASE StreamOk(r) \/ StreamFail(r)
    BY <2>6 DEF StreamOk, StreamFail, Tell, local
  <2>7. CASE StreamTold(r) \/ StreamLeft(r)
    BY <2>7 DEF StreamTold, StreamLeft
  <2> QED
    BY <1>1, <2>1, <2>2, <2>3, <2>4, <2>5, <2>6, <2>7 DEF Turn, Step
<1>2. ASSUME NEW w \in Workers, Crash(w) PROVE Same \/ Gone
  BY <1>2 DEF Crash
<1>3. ASSUME \/ \E k \in Keys : ExpireKey(k)
             \/ \E b \in Bodies : ExpireCached(b)
             \/ UNCHANGED vars
      PROVE  Same \/ Gone
  BY <1>3 DEF ExpireKey, ExpireCached, local, vars
<1>4. CASE Tick
  BY <1>4 DEF Tick
<1>5. CASE ~Tick
  <2>1. Same \/ Gone
    <3> HIDE DEF Same, Gone
    <3> QED
      BY <1>1, <1>2, <1>3, <1>5 DEF Next, Turn
  <2> QED
    BY <1>5, <2>1
<1> QED
  BY <1>4, <1>5

\* A marker that a call stands behind is no older than the call.
CallsYoung ==
    \A r \in Requests :
        /\ pc[r] \in {"admit", "upstream", "told"} /\ prog[KeyOf[r]] # Absent
              => prog[KeyOf[r]].ttl + age[r] >= MarkTTL
        /\ ~Calling(r) => age[r] = 0

LEMMA NextCallsYoung ==
  ASSUME ~RedisFails, TypeInv, LoopHeld, CallsYoung, [Next]_vars
  PROVE  CallsYoung'
<1>4. ASSUME NEW r \in Requests, ~Calling(r)' PROVE age'[r] = 0
  BY <1>4, AgeMoves DEF CallsYoung, Calling, Tick
<1> SUFFICES ASSUME NEW r \in Requests, pc'[r] \in {"admit", "upstream", "told"},
                    prog'[KeyOf[r]] # Absent
             PROVE  prog'[KeyOf[r]].ttl + age'[r] >= MarkTTL
  BY <1>4 DEF CallsYoung
<1> DEFINE k == KeyOf[r]
<1> /\ pc \in [Requests -> Locations] /\ k \in Keys
    /\ prog \in [Keys -> {Absent} \union [ttl : 0..MarkTTL]]
    /\ HostOf \in [Requests -> Workers] /\ Nobody \notin Requests
  BY ConstantsAssumption DEF TypeInv, TypeOK
<1>1. age[r] \in Nat /\ age'[r] \in Nat
  BY NextType, Times DEF TypeInv, TypeOK
<1>2. CASE prog'[k] = [ttl |-> MarkTTL]
  BY <1>1, <1>2, Times
<1>3. CASE prog'[k] # [ttl |-> MarkTTL]
  <2>1. pc[r] \in {"admit", "upstream", "told"}
    BY <1>3, MarkSets, Moves DEF Quiet, TurnedAway, CallEnds, Dies
  <2>2. prog[k] # Absent /\ prog[k].ttl + age[r] >= MarkTTL
    BY <2>1, MarkerMoves, <1>3 DEF CallsYoung, Due
  <2>3. CASE Tick
    <3>1. pc[r] # "admit" /\ prog'[k] = Older(prog[k]) /\ ~Due(prog[k])
      BY <2>3 DEF Tick, LoopHeld, Awaiting
    <3>2. age'[r] = age[r] + 1
      BY <2>1, <2>3, <3>1 DEF Tick, Calling
    <3>3. prog'[k].ttl = prog[k].ttl - 1 /\ prog[k].ttl \in Nat \ {0}
      BY <2>2, <3>1, Times DEF Older, Due
    <3> QED
      BY <1>1, <2>2, <3>2, <3>3, Times
  <2>4. CASE ~Tick
    <3>1. prog'[k] = prog[k]
      BY <1>3, <2>4, MarkerMoves
    <3>2. age'[r] = age[r] \/ (age'[r] = 0 /\ ~Calling(r)')
      BY <2>4, AgeMoves
    <3>3. ~Calling(r)' => pc[r] = "admit"
      BY <2>1, Moves DEF Calling, Quiet, TurnedAway, CallEnds, Dies
    <3> QED
      BY <1>1, <2>2, <3>1, <3>2, <3>3 DEF CallsYoung, Calling
  <2> QED
    BY <2>3, <2>4
<1> QED
  BY <1>2, <1>3

LEMMA NextAlone ==
  ASSUME ~RegLapses, ~RedisFails, NEW w0, Workers = {w0},
         TypeInv, KeyGoverned, LoopHeld, Patient, Alone, CallsMarked, [Next]_vars
  PROVE  Alone'
<1> /\ pc \in [Requests -> Locations] /\ KeyOf \in [Requests -> Keys]
    /\ waited \in [Requests -> 0..MaxWait]
    /\ HostOf \in [Requests -> {w0}]
  BY ConstantsAssumption DEF TypeInv, TypeOK
<1> DEFINE Executing == Busy \union {"mark"}
<1>1. ASSUME NEW r \in Requests, pc'[r] \in Executing
      PROVE  \/ pc[r] \in Executing
             \/ /\ pc[r] \in {"reg_get", "reg_set", "reg_reread", "poll"}
                /\ pc'[r] = "mark"
  <2> DEFINE Goal == \/ pc[r] \in Executing
                     \/ /\ pc[r] \in {"reg_get", "reg_set", "reg_reread", "poll"}
                        /\ pc'[r] = "mark"
  <2>1. ASSUME Quiet(r) PROVE Goal
    BY <1>1, <2>1 DEF Busy, Quiet
  <2>2. ASSUME CallEnds(r) PROVE Goal
    BY <2>2 DEF Busy, CallEnds
  <2>3. ~TurnedAway(r) /\ ~Dies(r)
    BY <1>1 DEF Busy, TurnedAway, Dies
  <2> QED
    BY <2>1, <2>2, <2>3, Moves
<1>2. ASSUME NEW r \in Requests, NEW q \in Requests, r # q, KeyOf[r] = KeyOf[q],
             pc[r] \notin Executing, pc'[r] = "mark", pc'[q] \in Executing
      PROVE  FALSE
  <2>1. loop[w0] = r
    BY <1>1, <1>2 DEF LoopHeld, Awaiting, Busy
  <2>2. pc[q] \in {"upstream", "told"}
    BY <1>1, <1>2, <2>1 DEF LoopHeld, Awaiting, Busy
  <2>3. prog[KeyOf[r]] # Absent /\ reg[KeyOf[r]] # Absent
    BY <1>2, <2>2 DEF CallsMarked, KeyGoverned, Claimed
  <2> QED
    <3>1. pc[r] # "mark"
      BY <1>2
    <3>2. ~(pc[r] = "poll" /\ prog[KeyOf[r]] = Absent)
      BY <2>3
    <3>3. ~(pc[r] = "poll" /\ r \notin Streamed /\ waited[r] >= MaxWait)
      BY <1>2, <2>2, <2>3, Times DEF Patient, Calling
    <3> QED
      BY <1>2, <2>3, <3>1, <3>2, <3>3, GoesAhead
<1> SUFFICES ASSUME NEW r \in Requests, NEW q \in Requests, KeyOf[r] = KeyOf[q],
                    pc'[r] \in Executing, pc'[q] \in Executing
             PROVE  r = q
  BY DEF Alone
<1>3. CASE pc[r] \in Executing /\ pc[q] \in Executing
  BY <1>3 DEF Alone
<1> QED
  BY <1>1, <1>2, <1>3

LEMMA NextCallsMarked ==
  ASSUME ~RedisFails, MarkTTL > MaxExec, TypeInv, Alone, CallsYoung, CallsMarked, [Next]_vars
  PROVE  CallsMarked'
<1> SUFFICES ASSUME NEW r \in Requests, pc'[r] \in {"admit", "upstream", "told"},
                    prog'[KeyOf[r]] = Absent
             PROVE  FALSE
  BY DEF CallsMarked
<1> DEFINE k == KeyOf[r]
<1> k \in Keys /\ prog \in [Keys -> {Absent} \union [ttl : 0..MarkTTL]]
  BY ConstantsAssumption DEF TypeInv, TypeOK
<1>1. pc[r] \in {"admit", "upstream", "told"}
  BY MarkSets, Moves DEF Quiet, TurnedAway, CallEnds, Dies
<1>2. prog[k] # Absent /\ prog[k].ttl + age[r] >= MarkTTL /\ age[r] <= MaxExec
  BY <1>1, Times DEF CallsMarked, CallsYoung, TypeInv, TypeOK
<1>3. ~Due(prog[k])
  BY <1>2, Times DEF Due, TypeInv, TypeOK
<1>4. Older(prog[k]) # Absent
  BY <1>2, <1>3, Times, ConstantsAssumption DEF Older, Due
<1>5. [ttl |-> MarkTTL] # Absent
  BY Times, ConstantsAssumption
<1>6. ASSUME NEW q \in Requests, KeyOf[q] = k, pc[q] \in {"clear_4xx", "clear"}
      PROVE  FALSE
  BY <1>1, <1>6 DEF Alone, Busy
<1> QED
  BY <1>2, <1>3, <1>4, <1>5, <1>6, MarkerMoves

\* With one worker, as long as no duplicate gives up waiting, no two calls with one
\* key are ever at the upstream together: whatever is refused, whoever leaves and
\* whenever the worker dies.
THEOREM SingleFlightWhilePatient ==
  ASSUME ~RegLapses, ~RedisFails, MarkTTL > MaxExec, NEW w0, Workers = {w0}
  PROVE  Spec /\ []Patient => []SingleFlight
<1> DEFINE Inv == /\ TypeInv /\ KeyGoverned /\ LoopHeld
                  /\ Alone /\ CallsYoung /\ CallsMarked
<1>1. Init => Inv
  BY InitType DEF Init, KeyGoverned, Claimed, LoopHeld, Awaiting, Alone, Busy, CallsMarked,
                  CallsYoung
<1>2. Inv /\ Patient /\ [Next]_vars => Inv'
  <2> SUFFICES ASSUME Inv, Patient, [Next]_vars PROVE Inv'
    OBVIOUS
  <2>1. TypeInv' /\ KeyGoverned' /\ LoopHeld'
    BY NextType, NextWait, NextKeyGoverned, NextLoopHeld DEF TypeInv
  <2>2. Alone' /\ CallsYoung' /\ CallsMarked'
    BY NextAlone, NextCallsYoung, NextCallsMarked
  <2> QED
    BY <2>1, <2>2
<1>3. Inv => SingleFlight
  BY DEF Alone, Busy, SingleFlight
<1> QED
  BY <1>1, <1>2, <1>3, PTL DEF Spec

-----------------------------------------------------------------------------
(* How long a duplicate waits. *)

\* The requests under k that have set the marker, or will not any more.
Past(k) == {q \in Requests : KeyOf[q] = k /\ pc[q] \in Busy \union {"done"}}

\* No marker gets older than `life` ticks.
Young(life) == \A k \in Keys : prog[k] # Absent => prog[k].ttl + life >= MarkTTL

\* The polls that markers under k can have cost so far: each that was set costs the
\* ticks of its life and the rest of one.
Spent(k, life) == Cardinality(Past(k)) * (life + 1)

\* What the present marker can still cost.
Remaining(k, life) == IF prog[k] = Absent THEN 0 ELSE prog[k].ttl + life + 1 - MarkTTL

\* Every poll a duplicate has made is paid for by a marker's time.
WaitsPaid(life) ==
    \A r \in Requests :
        /\ waited[r] + Remaining(KeyOf[r], life) <= Spent(KeyOf[r], life)
        /\ pc[r] = "sleep" /\ prog[KeyOf[r]] = Absent => waited[r] < Spent(KeyOf[r], life)
        /\ pc[r] = "rested" => waited[r] + Remaining(KeyOf[r], life) < Spent(KeyOf[r], life)

\* A poll is counted when the duplicate resumes, and it goes to sleep over a marker.
LEMMA WaitMoves ==
  ASSUME TypeInv, [Next]_vars, NEW q \in Requests
  PROVE  /\ \/ waited'[q] = waited[q] \/ waited'[q] = 0
            \/ pc[q] = "rested" /\ pc'[q] = "result" /\ waited'[q] = waited[q] + 1
         /\ pc'[q] = "sleep" /\ pc[q] # "sleep" =>
              pc[q] = "poll" /\ prog[KeyOf[q]] # Absent
         /\ pc'[q] = "rested" /\ pc[q] # "rested" => pc[q] = "sleep" /\ Tick
         /\ Tick => pc'[q] # "sleep" /\ waited'[q] = waited[q]
<1> DEFINE Goal ==
      /\ \/ waited'[q] = waited[q] \/ waited'[q] = 0
         \/ pc[q] = "rested" /\ pc'[q] = "result" /\ waited'[q] = waited[q] + 1
      /\ pc'[q] = "sleep" /\ pc[q] # "sleep" =>
           pc[q] = "poll" /\ prog[KeyOf[q]] # Absent
      /\ pc'[q] = "rested" /\ pc[q] # "rested" => pc[q] = "sleep" /\ Tick
<1> USE DEF Goto, Resume, Await, Answer
<1> /\ pc \in [Requests -> Locations] /\ waited \in [Requests -> 0..MaxWait]
  BY DEF TypeInv, TypeOK
<1>1. ASSUME NEW r \in Requests, Turn(r) PROVE Goal
  <2>1. CASE Arrive(r) \/ CacheGet(r) \/ RegisterGet(r) \/ RegisterSetNX(r)
    BY <2>1 DEF Arrive, CacheGet, RegisterGet, Registered, RegisterSetNX, local
  <2>2. CASE RegisterReread(r) \/ GetResult(r) \/ Admit(r) \/ Poll(r)
    BY <2>2 DEF RegisterReread, Registered, GetResult, Admit, Poll, local
  <2>3. CASE Wake(r) \/ Mark(r) \/ UpstreamOk(r) \/ UpstreamFail(r)
    BY <2>3 DEF Wake, Mark, UpstreamOk, UpstreamFail
  <2>4. CASE CacheSet(r) \/ StoreResult(r) \/ ClearRejected(r) \/ Finish(r)
    BY <2>4 DEF CacheSet, StoreResult, ClearRejected, Finish, local
  <2>5. CASE StreamArrive(r) \/ StreamGetResult(r) \/ StreamPoll(r)
    BY <2>5 DEF StreamArrive, StreamGetResult, StreamPoll, local
  <2>6. CASE StreamOk(r) \/ StreamFail(r)
    BY <2>6 DEF StreamOk, StreamFail, Tell, local
  <2>7. CASE StreamTold(r) \/ StreamLeft(r)
    BY <2>7 DEF StreamTold, StreamLeft
  <2> QED
    BY <1>1, <2>1, <2>2, <2>3, <2>4, <2>5, <2>6, <2>7 DEF Turn, Step
<1>2. ASSUME NEW w \in Workers, Crash(w) PROVE Goal
  BY <1>2 DEF Crash
<1>3. ASSUME \/ \E k \in Keys : ExpireKey(k)
             \/ \E b \in Bodies : ExpireCached(b)
             \/ UNCHANGED vars
      PROVE  Goal
  BY <1>3 DEF ExpireKey, ExpireCached, local, vars
<1>4. ASSUME Tick PROVE Goal /\ pc'[q] # "sleep" /\ waited'[q] = waited[q]
  BY <1>4 DEF Tick
<1>5. Goal
  <2> HIDE DEF Goal
  <2> QED
    BY <1>1, <1>2, <1>3, <1>4 DEF Next, Turn
<1> QED
  BY <1>4, <1>5

\* Requests only ever join Past(k), and the one that sets a marker joins it then.
LEMMA PastGrows ==
  ASSUME IsFiniteSet(Requests), TypeInv, [Next]_vars, NEW k \in Keys, NEW life \in Nat
  PROVE  /\ Spent(k, life) \in Nat /\ Spent(k, life)' \in Nat /\ Spent(k, life) <= Spent(k, life)'
         /\ \A q \in Requests :
              KeyOf[q] = k /\ pc[q] = "mark" /\ pc'[q] = "admit"
                => Spent(k, life) + life + 1 <= Spent(k, life)'
<1> DEFINE n == Cardinality(Past(k))
           m == Cardinality(Past(k)')
<1>1. Past(k) \subseteq Past(k)'
  <2> SUFFICES ASSUME NEW q \in Requests, pc[q] \in Busy \union {"done"}
               PROVE  pc'[q] \in Busy \union {"done"}
    BY DEF Past
  <2>1. CASE Quiet(q)
    BY <2>1 DEF Quiet, Busy
  <2>2. CASE TurnedAway(q) \/ CallEnds(q) \/ Dies(q)
    BY <2>2 DEF TurnedAway, CallEnds, Dies, Busy
  <2> QED
    BY <2>1, <2>2, Moves
<1>2. IsFiniteSet(Past(k)) /\ IsFiniteSet(Past(k)')
  BY FS_Subset DEF Past
<1>3. n \in Nat /\ m \in Nat /\ n <= m
  BY <1>1, <1>2, FS_Subset, FS_CardinalityType
<1>4. ASSUME NEW q \in Requests, KeyOf[q] = k, pc[q] = "mark", pc'[q] = "admit"
      PROVE  n + 1 <= m
  <2>1. q \notin Past(k) /\ q \in Past(k)'
    BY <1>4 DEF Past, Busy
  <2>2. Past(k) \union {q} \subseteq Past(k)'
    BY <1>1, <2>1
  <2>3. Cardinality(Past(k) \union {q}) = n + 1
    BY <1>2, <2>1, FS_AddElement
  <2> QED
    BY <1>2, <2>2, <2>3, FS_Subset
<1>5. \A a, b, t \in Nat : a <= b => a * t \in Nat /\ b * t \in Nat /\ a * t <= b * t
  OBVIOUS
<1>6. \A a, b, t \in Nat : a + 1 <= b => a * t + t <= b * t
  OBVIOUS
<1>7. Spent(k, life) = n * (life + 1) /\ Spent(k, life)' = m * (life + 1)
  BY DEF Spent
<1> HIDE DEF n, m
<1>8. life + 1 \in Nat
  OBVIOUS
<1>9. Spent(k, life) \in Nat /\ Spent(k, life)' \in Nat /\ Spent(k, life) <= Spent(k, life)'
  BY <1>3, <1>5, <1>7, <1>8
<1>10. n + 1 <= m => Spent(k, life) + life + 1 <= Spent(k, life)'
  <2>1. n + 1 <= m => n * (life + 1) + (life + 1) <= m * (life + 1)
    BY <1>3, <1>6, <1>8
  <2> QED
    BY <1>7, <1>9, <2>1
<1> QED
  BY <1>4, <1>9, <1>10

\* What the marker can still cost.
LEMMA RemainingMoves ==
  ASSUME TypeInv, [Next]_vars, NEW k \in Keys, NEW life \in Nat, Young(life), Young(life)'
  PROVE  /\ Remaining(k, life) \in Nat /\ Remaining(k, life)' \in Nat
         /\ prog[k] = Absent <=> Remaining(k, life) = 0
         /\ prog'[k] = Absent <=> Remaining(k, life)' = 0
         /\ \/ Remaining(k, life)' = Remaining(k, life)
            \/ Tick /\ Remaining(k, life)' + 1 = Remaining(k, life)
            \/ Remaining(k, life)' = 0
            \/ /\ Remaining(k, life)' = life + 1
               /\ \E r \in Requests : KeyOf[r] = k /\ pc[r] = "mark" /\ pc'[r] = "admit"
         /\ Tick => Remaining(k, life) = 0 \/ Remaining(k, life)' + 1 = Remaining(k, life)
<1>1. /\ prog \in [Keys -> {Absent} \union [ttl : 0..MarkTTL]]
      /\ prog' \in [Keys -> {Absent} \union [ttl : 0..MarkTTL]]
  BY NextType DEF TypeInv, TypeOK
<1>2. ASSUME NEW e \in {Absent} \union [ttl : 0..MarkTTL], e # Absent
      PROVE  e.ttl \in Nat
  BY <1>2, Times
<1>3. /\ Remaining(k, life) \in Nat /\ Remaining(k, life)' \in Nat
      /\ prog[k] = Absent <=> Remaining(k, life) = 0
      /\ prog'[k] = Absent <=> Remaining(k, life)' = 0
  BY <1>1, <1>2, Times DEF Remaining, Young
<1>4. ASSUME Tick, prog[k] # Absent PROVE Remaining(k, life)' + 1 = Remaining(k, life)
  <2>1. ~Due(prog[k]) /\ prog'[k] = Older(prog[k])
    BY <1>4 DEF Tick
  <2>2. prog[k].ttl \in Nat \ {0} /\ prog'[k] = [ttl |-> prog[k].ttl - 1]
    BY <1>1, <1>4, <2>1, Times DEF Older, Due
  <2>3. prog'[k] \in [ttl : Nat] /\ prog'[k].ttl = prog[k].ttl - 1
    BY <2>2
  <2>4. prog'[k] # Absent
    BY <2>3, ConstantsAssumption
  <2> QED
    BY <1>4, <2>2, <2>3, <2>4, Times DEF Remaining
<1>5. ASSUME prog'[k] = [ttl |-> MarkTTL] PROVE Remaining(k, life)' = life + 1
  <2>1. prog'[k] \in [ttl : Nat] /\ prog'[k].ttl = MarkTTL
    BY <1>5, Times
  <2> QED
    BY <2>1, Times, ConstantsAssumption DEF Remaining
<1>6. prog'[k] = prog[k] => Remaining(k, life)' = Remaining(k, life)
  BY DEF Remaining
<1> QED
  BY <1>3, <1>4, <1>5, <1>6, MarkerMoves

LEMMA NextWaitsPaid ==
  ASSUME NEW life \in Nat, IsFiniteSet(Requests), TypeInv, Young(life), Young(life)',
         WaitsPaid(life), [Next]_vars
  PROVE  WaitsPaid(life)'
<1> SUFFICES ASSUME NEW q \in Requests, NEW k \in Keys, k = KeyOf[q]
             PROVE  /\ waited'[q] + Remaining(k, life)' <= Spent(k, life)'
                    /\ pc'[q] = "sleep" /\ prog'[k] = Absent => waited'[q] < Spent(k, life)'
                    /\ pc'[q] = "rested" => waited'[q] + Remaining(k, life)' < Spent(k, life)'
  BY ConstantsAssumption DEF WaitsPaid
<1>1. /\ waited[q] + Remaining(k, life) <= Spent(k, life)
      /\ pc[q] = "sleep" /\ Remaining(k, life) = 0 => waited[q] < Spent(k, life)
      /\ pc[q] = "rested" => waited[q] + Remaining(k, life) < Spent(k, life)
  BY RemainingMoves DEF WaitsPaid
<1>2. /\ waited[q] \in Nat
      /\ \/ waited'[q] = waited[q] \/ waited'[q] = 0
         \/ pc[q] = "rested" /\ pc'[q] = "result" /\ waited'[q] = waited[q] + 1
  BY WaitMoves, Times DEF TypeInv, TypeOK
<1>3. /\ pc'[q] = "sleep" /\ pc[q] # "sleep" => pc[q] = "poll" /\ Remaining(k, life) # 0
      /\ pc'[q] = "rested" /\ pc[q] # "rested" => pc[q] = "sleep" /\ Tick
      /\ Tick => pc'[q] # "sleep" /\ waited'[q] = waited[q]
  BY WaitMoves, RemainingMoves
<1>4. /\ Remaining(k, life) \in Nat /\ Remaining(k, life)' \in Nat
      /\ prog'[k] = Absent <=> Remaining(k, life)' = 0
      /\ Tick => Remaining(k, life) = 0 \/ Remaining(k, life)' + 1 = Remaining(k, life)
  BY RemainingMoves
<1>5. Spent(k, life) \in Nat /\ Spent(k, life)' \in Nat /\ Spent(k, life) <= Spent(k, life)' /\ life \in Nat
  BY PastGrows
<1>6. \/ Remaining(k, life)' = Remaining(k, life)
      \/ Tick /\ Remaining(k, life)' + 1 = Remaining(k, life)
      \/ Remaining(k, life)' = 0
      \/ Remaining(k, life)' = life + 1 /\ Spent(k, life) + life + 1 <= Spent(k, life)'
  BY RemainingMoves, PastGrows
<1> DEFINE R == Remaining(k, life)
           Rn == Remaining(k, life)'
           S == Spent(k, life)
           Sn == Spent(k, life)'
           v == waited[q]
           vn == waited'[q]
<1> HIDE DEF R, Rn, S, Sn, v, vn
<1>7. vn + Rn <= Sn
  BY <1>1, <1>2, <1>3, <1>4, <1>5, <1>6 DEF R, Rn, S, Sn, v, vn
<1>8. pc'[q] = "sleep" /\ Rn = 0 => vn < Sn
  BY <1>1, <1>2, <1>3, <1>4, <1>5, <1>6 DEF R, Rn, S, Sn, v, vn
<1>9. pc'[q] = "rested" => vn + Rn < Sn
  BY <1>1, <1>2, <1>3, <1>4, <1>5, <1>6 DEF R, Rn, S, Sn, v, vn
<1> QED
  BY <1>4, <1>7, <1>8, <1>9 DEF Rn, Sn, vn

LEMMA InitWaitsPaid ==
  ASSUME NEW life \in Nat, IsFiniteSet(Requests)
  PROVE  Init => WaitsPaid(life)
<1> SUFFICES ASSUME Init PROVE WaitsPaid(life)
  OBVIOUS
<1>1. ASSUME NEW k \in Keys PROVE Remaining(k, life) = 0 /\ Spent(k, life) \in Nat
  <2>1. Cardinality(Past(k)) \in Nat
    BY FS_Subset, FS_CardinalityType DEF Past
  <2>2. \A a, b \in Nat : a * b \in Nat
    OBVIOUS
  <2> QED
    BY <2>1, <2>2 DEF Init, Remaining, Spent
<1> QED
  BY <1>1, ConstantsAssumption DEF Init, WaitsPaid

\* Nobody runs out of polls when the wait is longer than the markers that the other
\* requests can set, one after the other.
LEMMA PatienceIsEnough ==
  ASSUME NEW life \in Nat, IsFiniteSet(Requests),
         MaxWait >= (Cardinality(Requests) - 1) * (life + 1),
         TypeInv, WaitsPaid(life), Young(life)
  PROVE  Patient
<1> SUFFICES ASSUME NEW r \in Requests, pc[r] = "poll", prog[KeyOf[r]] # Absent
             PROVE  waited[r] < MaxWait
  BY DEF Patient
<1> DEFINE k == KeyOf[r]
           n == Cardinality(Past(k))
           m == Cardinality(Requests)
<1>1. Past(k) \subseteq Requests \ {r}
  BY DEF Past, Busy
<1>2. n \in Nat /\ m \in Nat /\ n <= m - 1
  BY <1>1, FS_RemoveElement, FS_Subset, FS_CardinalityType
<1>3. \A t \in Nat : n * t \in Nat /\ n * t <= (m - 1) * t
  <2> HIDE DEF n, m
  <2> QED
    BY <1>2
<1>4. Spent(k, life) \in Nat /\ Spent(k, life) <= MaxWait
  <2>1. life + 1 \in Nat
    OBVIOUS
  <2>2. Spent(k, life) \in Nat /\ Spent(k, life) <= (m - 1) * (life + 1)
    BY <1>3, <2>1 DEF Spent
  <2>3. (m - 1) * (life + 1) \in Int /\ MaxWait \in Nat
    BY <1>2, <2>1, Times
  <2> QED
    BY <2>2, <2>3
<1>5. waited[r] + Remaining(k, life) <= Spent(k, life)
  BY DEF WaitsPaid
<1>6. Remaining(k, life) \in Nat \ {0}
  BY ConstantsAssumption, Times DEF TypeInv, TypeOK, Remaining, Young
<1>7. waited[r] \in Nat /\ MaxWait \in Nat
  BY Times DEF TypeInv, TypeOK
<1> HIDE DEF k
<1> QED
  BY <1>4, <1>5, <1>6, <1>7

\* A call that ends by its own timeout, and always cleans up, leaves no marker that
\* is older than a call can get.
LEMMA NextYoung ==
  ASSUME ~RedisFails, ~Limits, ~Leaves, MaxCrashes = 0, TypeInv, LoopHeld,
         CallsYoung, DeparturesExplained,
         MarkersExplained, Young(MaxExec), [Next]_vars
  PROVE  Young(MaxExec)'
<1> SUFFICES ASSUME NEW k \in Keys, prog'[k] # Absent
             PROVE  prog'[k].ttl + MaxExec >= MarkTTL
  BY DEF Young
<1> /\ prog \in [Keys -> {Absent} \union [ttl : 0..MarkTTL]]
    /\ HostOf \in [Requests -> Workers] /\ Nobody \notin Requests
  BY ConstantsAssumption DEF TypeInv, TypeOK
<1>1. CASE prog'[k] = prog[k] \/ prog'[k] = [ttl |-> MarkTTL]
  BY <1>1, Times DEF Young
<1>2. CASE Tick /\ prog'[k] = Older(prog[k]) /\ prog[k] # Absent
  <2>1. ~(crashes > 0)
    BY DEF TypeInv, TypeOK
  <2>2. PICK r \in Requests : KeyOf[r] = k /\ pc[r] \in Busy
    BY <1>2, <2>1 DEF MarkersExplained, DeparturesExplained, Departed
  <2>3. Calling(r)
    BY <1>2, <2>2 DEF Tick, LoopHeld, Awaiting, Busy, Calling
  <2>4. age[r] < MaxExec /\ prog[k].ttl + age[r] >= MarkTTL /\ age[r] \in Nat
    BY <1>2, <2>2, <2>3, Times DEF Tick, CallsYoung, Calling, TypeInv, TypeOK
  <2>5. prog'[k].ttl = prog[k].ttl - 1 /\ prog[k].ttl \in Nat
    BY <1>2, Times DEF Tick, Older, Due
  <2> QED
    BY <2>4, <2>5, Times
<1> QED
  BY <1>1, <1>2, MarkerMoves

\* When every call cleans up, a wait longer than the other requests' calls, one after
\* the other, does for every duplicate.
LEMMA WaitOutlastsCalls ==
  ASSUME ~RedisFails, ~Limits, ~Leaves, MaxCrashes = 0,
         IsFiniteSet(Requests), MaxWait >= (Cardinality(Requests) - 1) * (MaxExec + 1)
  PROVE  Spec => []Patient
<1> DEFINE Inv == /\ TypeInv /\ LoopHeld /\ CallsYoung /\ DeparturesExplained
                  /\ MarkersExplained /\ Young(MaxExec) /\ WaitsPaid(MaxExec)
<1>1. MaxExec \in Nat
  BY Times
<1>2. Init => Inv
  BY <1>1, InitType, InitWaitsPaid
    DEF Init, LoopHeld, Awaiting, CallsYoung, DeparturesExplained, MarkersExplained,
        Departed, Young
<1>3. Inv /\ [Next]_vars => Inv'
  <2> SUFFICES ASSUME Inv, [Next]_vars PROVE Inv'
    OBVIOUS
  <2>1. TypeInv' /\ LoopHeld' /\ CallsYoung'
    BY NextType, NextWait, NextLoopHeld, NextCallsYoung DEF TypeInv
  <2>2. DeparturesExplained' /\ MarkersExplained' /\ Young(MaxExec)'
    BY NextDepartures, NextMarkersExplained, NextYoung
  <2> QED
    BY <1>1, <2>1, <2>2, NextWaitsPaid
<1>4. Inv => Patient
  BY <1>1, PatienceIsEnough
<1> QED
  BY <1>2, <1>3, <1>4, PTL DEF Spec

-----------------------------------------------------------------------------
(* A request and its one duplicate: the wait need only outlast the call,   *)
(* not the marker, whatever is refused, leaves or dies.                    *)

\* At most two requests carry a key: the call and a retry of it.
Pairs ==
    \A r, q, p \in Requests :
        KeyOf[r] = KeyOf[q] /\ KeyOf[q] = KeyOf[p] => r = q \/ q = p \/ r = p

\* A marker stands for a request that has set it.
MarkersMade == \A k \in Keys : prog[k] # Absent => Past(k) # {}

\* The poll that the sleep before it has earned and that is not counted yet.
Rest(r) == IF pc[r] = "rested" THEN 1 ELSE 0

\* A duplicate does not wait before the other has set its marker, and then for no
\* more polls than the other's call has lasted ticks.
PairWaits ==
    \A r, q \in Requests :
        r # q /\ KeyOf[r] = KeyOf[q] /\ pc[r] # "done" =>
        /\ pc[q] \notin Busy \union {"done"} => waited[r] = 0 /\ pc[r] \notin {"sleep", "rested"}
        /\ pc[q] = "admit" => waited[r] = 0 /\ pc[r] # "rested"
        /\ Calling(q) => waited[r] + Rest(r) <= age[q]

\* Time stands still while a request runs between two awaits.
LEMMA HeldStops ==
  ASSUME TypeInv, LoopHeld, NEW r \in Requests, pc[r] \notin Awaiting
  PROVE  ~Tick
BY ConstantsAssumption DEF TypeInv, TypeOK, LoopHeld, Tick

LEMMA PastStays ==
  ASSUME TypeInv, [Next]_vars, NEW q \in Requests, pc[q] \in Busy \union {"done"}
  PROVE  pc'[q] \in Busy \union {"done"}
<1>1. CASE Quiet(q)
  BY <1>1 DEF Quiet, Busy
<1>2. CASE TurnedAway(q) \/ CallEnds(q) \/ Dies(q)
  BY <1>2 DEF TurnedAway, CallEnds, Dies, Busy
<1> QED
  BY <1>1, <1>2, Moves

LEMMA NextMarkersMade ==
  ASSUME TypeInv, MarkersMade, [Next]_vars
  PROVE  MarkersMade'
<1> SUFFICES ASSUME NEW k \in Keys, prog'[k] # Absent
             PROVE  \E q \in Requests : KeyOf[q] = k /\ pc'[q] \in Busy \union {"done"}
  BY DEF MarkersMade, Past
<1>1. CASE \E q \in Requests : KeyOf[q] = k /\ pc[q] = "mark" /\ pc'[q] = "admit"
  BY <1>1 DEF Busy
<1>2. CASE prog[k] # Absent
  <2>1. PICK q \in Requests : KeyOf[q] = k /\ pc[q] \in Busy \union {"done"}
    BY <1>2 DEF MarkersMade, Past
  <2> QED
    BY <2>1, PastStays
<1> QED
  BY <1>1, <1>2, MarkerMoves

LEMMA NextPairWaits ==
  ASSUME Pairs, TypeInv, LoopHeld, CallsYoung, MarkersMade, PairWaits, [Next]_vars
  PROVE  PairWaits'
<1> SUFFICES ASSUME NEW r \in Requests, NEW q \in Requests, r # q, KeyOf[r] = KeyOf[q],
                    pc'[r] # "done"
             PROVE  /\ pc'[q] \notin Busy \union {"done"} =>
                         waited'[r] = 0 /\ pc'[r] \notin {"sleep", "rested"}
                    /\ pc'[q] = "admit" => waited'[r] = 0 /\ pc'[r] # "rested"
                    /\ Calling(q)' => waited'[r] + Rest(r)' <= age'[q]
  BY DEF PairWaits
<1> DEFINE Past0 == Busy \union {"done"}
<1>1. pc[r] # "done"
  BY Moves DEF Quiet, TurnedAway, CallEnds, Dies
<1>2. /\ waited[r] \in Nat /\ waited'[r] \in Nat /\ age[q] \in Nat /\ age'[q] \in Nat
      /\ pc[r] \in Locations /\ pc[q] \in Locations /\ pc'[q] \in Locations
      /\ KeyOf[r] \in Keys
  BY NextType, Times, ConstantsAssumption DEF TypeInv, TypeOK
<1>3. /\ pc[q] \notin Past0 => waited[r] = 0 /\ pc[r] \notin {"sleep", "rested"}
      /\ pc[q] = "admit" => waited[r] = 0 /\ pc[r] # "rested"
      /\ Calling(q) => waited[r] + Rest(r) <= age[q]
  BY <1>1 DEF PairWaits
<1>4. /\ \/ waited'[r] = waited[r] \/ waited'[r] = 0
         \/ pc[r] = "rested" /\ pc'[r] = "result" /\ waited'[r] = waited[r] + 1
      /\ pc'[r] = "sleep" /\ pc[r] # "sleep" => pc[r] = "poll" /\ prog[KeyOf[r]] # Absent
      /\ pc'[r] = "rested" /\ pc[r] # "rested" => pc[r] = "sleep" /\ Tick
      /\ Tick => waited'[r] = waited[r]
  BY WaitMoves
<1>5. pc[q] \notin Past0 /\ pc[r] = "poll" => prog[KeyOf[r]] = Absent
  <2> SUFFICES ASSUME pc[q] \notin Past0, pc[r] = "poll", prog[KeyOf[r]] # Absent
               PROVE  FALSE
    OBVIOUS
  <2>1. PICK p \in Requests : KeyOf[p] = KeyOf[r] /\ pc[p] \in Past0
    BY <1>2 DEF MarkersMade, Past
  <2> QED
    BY <2>1 DEF Pairs, Busy
<1>6. pc'[q] \notin Past0 => waited'[r] = 0 /\ pc'[r] \notin {"sleep", "rested"}
  <2> SUFFICES ASSUME pc'[q] \notin Past0
               PROVE  waited'[r] = 0 /\ pc'[r] \notin {"sleep", "rested"}
    OBVIOUS
  <2>1. pc[q] \notin Past0
    BY PastStays
  <2> QED
    BY <1>3, <1>4, <1>5, <2>1
<1>7. pc'[q] = "admit" => waited'[r] = 0 /\ pc'[r] # "rested"
  <2> SUFFICES ASSUME pc'[q] = "admit" PROVE waited'[r] = 0 /\ pc'[r] # "rested"
    OBVIOUS
  <2>1. pc[q] \in {"mark", "admit"}
    BY Moves DEF Quiet, TurnedAway, CallEnds, Dies
  <2>2. waited[r] = 0 /\ pc[r] # "rested"
    BY <1>3, <2>1 DEF Busy
  <2>3. CASE pc[q] = "mark"
    BY <1>3, <1>4, <2>2, <2>3 DEF Busy
  <2>4. CASE pc[q] = "admit"
    <3>1. ~Tick
      BY <2>4, HeldStops DEF Awaiting
    <3> QED
      BY <1>4, <2>2, <3>1
  <2> QED
    BY <2>1, <2>3, <2>4
<1>8. Calling(q)' => waited'[r] + Rest(r)' <= age'[q]
  <2> SUFFICES ASSUME Calling(q)' PROVE waited'[r] + Rest(r)' <= age'[q]
    OBVIOUS
  <2>1. CASE Calling(q)
    <3>1. waited[r] + Rest(r) <= age[q]
      BY <1>3, <2>1
    <3>2. \/ Tick /\ age'[q] = age[q] + 1
          \/ ~Tick /\ age'[q] = age[q]
      BY <2>1, AgeMoves
    <3> QED
      BY <1>2, <1>4, <3>1, <3>2 DEF Rest
  <2>2. CASE ~Calling(q)
    <3>1. pc[q] = "admit"
      BY <2>2, Moves DEF Calling, Quiet, TurnedAway, CallEnds, Dies
    <3>2. ~Tick
      BY <3>1, HeldStops DEF Awaiting
    <3>3. waited'[r] = 0 /\ pc'[r] # "rested"
      BY <1>3, <1>4, <3>1, <3>2
    <3> QED
      BY <1>2, <3>3 DEF Rest
  <2> QED
    BY <2>1, <2>2
<1> QED
  BY <1>6, <1>7, <1>8

\* A duplicate does not give up on the one call it can wait for while that call runs.
LEMMA PairsArePatient ==
  ASSUME ~RedisFails, Pairs, MaxWait > MaxExec
  PROVE  Spec => []Patient
<1> DEFINE Inv == /\ TypeInv /\ LoopHeld /\ CallsYoung /\ MarkersMade /\ PairWaits
<1>1. Init => Inv
  <2> SUFFICES ASSUME Init PROVE Inv
    OBVIOUS
  <2>1. TypeInv /\ LoopHeld /\ CallsYoung /\ MarkersMade
    BY InitType DEF Init, LoopHeld, Awaiting, CallsYoung, MarkersMade, Calling
  <2>2. PairWaits
    BY DEF Init, PairWaits, Calling, Busy
  <2> QED
    BY <2>1, <2>2
<1>2. Inv /\ [Next]_vars => Inv'
  <2> SUFFICES ASSUME Inv, [Next]_vars PROVE Inv'
    OBVIOUS
  <2>1. TypeInv' /\ LoopHeld' /\ CallsYoung'
    BY NextType, NextWait, NextLoopHeld, NextCallsYoung DEF TypeInv
  <2>2. MarkersMade' /\ PairWaits'
    BY NextMarkersMade, NextPairWaits
  <2> QED
    BY <2>1, <2>2
<1>3. Inv => Patient
  <2> SUFFICES ASSUME Inv, NEW r \in Requests, NEW q \in Requests, pc[r] = "poll",
                      KeyOf[q] = KeyOf[r], Calling(q)
               PROVE  waited[r] < MaxWait
    BY DEF Patient
  <2>1. waited[r] + Rest(r) <= age[q]
    BY DEF PairWaits, Calling
  <2>2. waited[r] \in Nat /\ age[q] \in 0..MaxExec
    BY Times DEF TypeInv, TypeOK
  <2> QED
    BY <2>1, <2>2, Times DEF Rest
<1> QED
  BY <1>1, <1>2, <1>3, PTL DEF Spec

\* With one worker and a wait that is longer than a call, a request and its duplicate
\* are never at the upstream together: however they interleave with other keys'
\* requests, are refused or leave, and whenever the worker dies.
THEOREM SingleFlightOfPairs ==
  ASSUME ~RegLapses, ~RedisFails, MarkTTL > MaxExec, NEW w0, Workers = {w0},
         Pairs, MaxWait > MaxExec
  PROVE  Spec => []SingleFlight
BY PairsArePatient, SingleFlightWhilePatient, PTL
\* When nothing is refused and nobody leaves or dies, it is enough that the wait is
\* longer than the other requests' calls.
THEOREM SingleFlightWhenCalm ==
  ASSUME ~RegLapses, ~RedisFails, MarkTTL > MaxExec, NEW w0, Workers = {w0},
         ~Limits, ~Leaves, MaxCrashes = 0,
         IsFiniteSet(Requests), MaxWait >= (Cardinality(Requests) - 1) * (MaxExec + 1)
  PROVE  Spec => []SingleFlight
BY WaitOutlastsCalls, SingleFlightWhilePatient, PTL

-----------------------------------------------------------------------------
(* Refinement: the handler keeps the promise of Coalescing.                *)

\* Only a request that has a result to store touches the results.
LEMMA ResultMoves ==
  ASSUME ~RedisFails, TypeInv, NEW r \in Requests, Turn(r)
  PROVE  IF pc[r] = "store"
           THEN /\ res' = [res EXCEPT ![KeyOf[r]] = [by |-> r, ttl |-> ResultTTL]]
                /\ pc'[r] = "clear" /\ answer'[r] = answer[r]
           ELSE res' = res
<1> /\ pc \in [Requests -> Locations] /\ Nobody \notin Requests
    /\ HostOf \in [Requests -> Workers]
  BY ConstantsAssumption DEF TypeInv, TypeOK
<1>1. CASE StoreResult(r)
  BY <1>1 DEF StoreResult, Goto
<1>2. CASE ~StoreResult(r)
  <2>1. pc[r] # "store"
    BY <1>2
      DEF Turn, Step, Arrive, StreamArrive, StreamGetResult, StreamPoll, StreamOk,
          StreamFail, StreamTold, StreamLeft, CacheGet, RegisterGet, RegisterSetNX,
          RegisterReread, GetResult, Poll, Wake, Mark, Admit, UpstreamOk, UpstreamFail,
          CacheSet, ClearRejected, Finish
  <2>2. res' = res
    BY <1>2
      DEF Turn, Step, redis, Arrive, StreamArrive, StreamGetResult, StreamPoll,
          StreamOk, StreamFail, StreamTold, StreamLeft, CacheGet, RegisterGet,
          RegisterSetNX, RegisterReread, GetResult, Poll, Wake, Mark, Admit, UpstreamOk,
          UpstreamFail, CacheSet, ClearRejected, Finish
  <2> QED
    BY <2>1, <2>2
<1> QED
  BY <1>1, <1>2

\* What an observer of Coalescing sees of a state.
Phases == [r \in Requests |-> Phase(r)]
Reply(r) == IF Phase(r) = "answered" THEN answer[r].by ELSE Nobody
Replies == [r \in Requests |-> Reply(r)]
StoredBys == [k \in Keys |-> IF res[k] = Absent THEN Nobody ELSE res[k].by]

CoalescingInv ==
    /\ TypeInv /\ KeyGoverned /\ ResultsGoverned /\ LoopHeld /\ NothingStored
    /\ Alone /\ CallsYoung /\ CallsMarked /\ CallsRecorded

\* A request's own step is a step of Coalescing or changes nothing it sees.
LEMMA TurnRefines ==
  ASSUME ~RedisFails, ~CacheOn, MaxCrashes = 0, CoalescingInv,
         NEW r \in Requests, Turn(r), [Next]_vars
  PROVE  [Coalesced!Next]_(Coalesced!vars)
<1> /\ pc \in [Requests -> Locations] /\ KeyOf \in [Requests -> Keys]
    /\ res \in [Keys -> {Absent} \union [by : Requests, ttl : 0..ResultTTL]]
    /\ answer \in [Requests -> [kind : Kinds, by : Requests \union {Nobody}]]
    /\ Nobody \notin Requests /\ TypeInv
  BY ConstantsAssumption DEF CoalescingInv, TypeInv, TypeOK
<1>1. \A q \in Requests : q # r => Phase(q)' = Phase(q) /\ Reply(q)' = Reply(q)
  BY OthersStay DEF Phase, Reply
<1>2. /\ Phases' = [Phases EXCEPT ![r] = Phase(r)']
      /\ Replies' = [Replies EXCEPT ![r] = Reply(r)']
  BY <1>1 DEF Phases, Replies
<1>3. ASSUME pc[r] # "store" PROVE StoredBys' = StoredBys
  BY <1>3, ResultMoves DEF StoredBys
<1>4. ASSUME Phase(r)' = Phase(r), Reply(r)' = Reply(r), pc[r] # "store"
      PROVE  UNCHANGED <<Phases, Replies, StoredBys>>
  BY <1>2, <1>3, <1>4 DEF Phases, Replies
<1>5. ASSUME UNCHANGED <<Phases, Replies, StoredBys>>
      PROVE  UNCHANGED Coalesced!vars
  BY <1>5 DEF Coalesced!vars, Phases, Replies, Reply, StoredBys
<1>6. ASSUME Phase(r) \in {"pending", "running"}, Phase(r)' = "answered",
             Reply(r)' = Nobody, pc[r] # "store"
      PROVE  Coalesced!GiveUp(r)
  <2>1. Reply(r) = Nobody
    BY <1>6 DEF Reply
  <2>2. Replies' = Replies /\ StoredBys' = StoredBys
    BY <1>2, <1>3, <1>6, <2>1 DEF Replies
  <2> QED
    BY <1>2, <1>6, <2>2 DEF Coalesced!GiveUp, Phases, Replies, Reply, StoredBys
<1>7. CASE Quiet(r)
  <2>1. CASE pc[r] = "admit" /\ pc'[r] = "upstream"
    <3>1. res[KeyOf[r]] = Absent
      BY <2>1 DEF CoalescingInv, NothingStored
    <3>2. ASSUME NEW q \in Requests, Phase(q) = "running" PROVE KeyOf[q] # KeyOf[r]
      <4>1. pc[q] \in {"upstream", "told", "cache_set", "store"}
        BY <3>2 DEF Phase
      <4> QED
        BY <2>1, <4>1 DEF CoalescingInv, Alone, Busy
    <3>3. /\ Phase(r) = "pending" /\ Phase(r)' = "running"
          /\ Reply(r) = Nobody /\ Reply(r)' = Nobody
      BY <2>1 DEF Phase, Reply
    <3>4. Replies' = Replies /\ StoredBys' = StoredBys
      BY <1>2, <1>3, <2>1, <3>3 DEF Replies
    <3>5. Coalesced!Begin(r)
      BY <1>2, <3>1, <3>2, <3>3, <3>4
        DEF Coalesced!Begin, Phases, Replies, Reply, StoredBys
    <3> QED
      BY <3>5 DEF Coalesced!Next
  <2>2. CASE pc[r] = "store"
    <3>1. /\ res' = [res EXCEPT ![KeyOf[r]] = [by |-> r, ttl |-> ResultTTL]]
          /\ pc'[r] = "clear" /\ answer'[r] = answer[r]
      BY <2>2, ResultMoves
    <3>2. answer[r] = [kind |-> "ok", by |-> r]
      BY <2>2 DEF CoalescingInv, CallsRecorded
    <3>3. Phase(r) = "running" /\ Phase(r)' = "answered" /\ Reply(r)' = r
      BY <2>2, <3>1, <3>2 DEF Phase, Reply
    <3>4. [by |-> r, ttl |-> ResultTTL] # Absent
      BY ConstantsAssumption, Times
    <3>5. StoredBys' = [StoredBys EXCEPT ![KeyOf[r]] = r]
      BY <3>1, <3>4 DEF StoredBys
    <3>6. Coalesced!Succeed(r)
      BY <1>2, <3>3, <3>5
        DEF Coalesced!Succeed, Phases, Replies, Reply, StoredBys
    <3> QED
      BY <3>6 DEF Coalesced!Next
  <2>3. CASE pc[r] = "told" /\ pc'[r] = "clear"
    <3>1. answer[r].by = Nobody
      BY <1>7, <2>3 DEF Quiet, CoalescingInv, CallsRecorded
    <3>2. Coalesced!GiveUp(r)
      BY <1>6, <1>7, <2>3, <3>1 DEF Quiet, Phase, Reply
    <3> QED
      BY <3>2 DEF Coalesced!Next
  <2>4. CASE /\ ~(pc[r] = "admit" /\ pc'[r] = "upstream") /\ pc[r] # "store"
             /\ ~(pc[r] = "told" /\ pc'[r] = "clear")
    <3>1. Phase(r)' = Phase(r)
      BY <1>7, <2>4 DEF Quiet, Phase
    <3>2. Reply(r)' = Reply(r)
      BY <1>7, <3>1 DEF Quiet, Reply
    <3> QED
      BY <1>4, <1>5, <2>4, <3>1, <3>2
  <2> QED
    BY <2>1, <2>2, <2>3, <2>4
<1>8. CASE TurnedAway(r)
  <2>1. /\ Phase(r) = "pending" /\ Phase(r)' = "answered" /\ pc[r] # "store"
        /\ Reply(r)' = answer'[r].by
    BY <1>8 DEF TurnedAway, Phase, Reply
  <2>2. CASE pc[r] = "result" /\ res[KeyOf[r]] # Absent /\ answer'[r].kind = "hit"
    <3> DEFINE q == res[KeyOf[r]].by
    <3>1. q \in Requests /\ answer'[r].by = q
      BY <1>8, <2>2 DEF TurnedAway
    <3>2. BodyOf[q] = BodyOf[r]
      BY <2>2 DEF CoalescingInv, KeyGoverned, ResultsGoverned, Claimed
    <3>3. StoredBys[KeyOf[r]] = q /\ StoredBys' = StoredBys
      BY <1>3, <2>1, <2>2 DEF StoredBys
    <3>4. Replies' = [Replies EXCEPT ![r] = q]
      BY <1>2, <2>1, <3>1
    <3>5. Coalesced!Replay(r)
      <4> HIDE DEF q
      <4> QED
        BY <1>2, <2>1, <3>1, <3>2, <3>3, <3>4
          DEF Coalesced!Replay, Phases, Replies, Reply, StoredBys
    <3> QED
      BY <3>5 DEF Coalesced!Next
  <2>3. CASE answer'[r].by = Nobody
    <3>1. Coalesced!GiveUp(r)
      BY <1>6, <2>1, <2>3
    <3> QED
      BY <3>1 DEF Coalesced!Next
  <2> QED
    BY <1>8, <2>2, <2>3 DEF TurnedAway
<1>9. CASE CallEnds(r)
  <2>1. CASE pc'[r] \in {"cache_set", "store", "told"}
    <3>1. /\ Phase(r)' = Phase(r) /\ Reply(r)' = Reply(r) /\ pc[r] # "store"
      BY <1>9, <2>1 DEF CallEnds, Phase, Reply
    <3> QED
      BY <1>4, <1>5, <3>1
  <2>2. CASE pc'[r] \notin {"cache_set", "store", "told"}
    <3>1. /\ Phase(r) = "running" /\ Phase(r)' = "answered" /\ pc[r] # "store"
          /\ Reply(r)' = Nobody
      BY <1>9, <2>2 DEF CallEnds, Phase, Reply
    <3>2. Coalesced!GiveUp(r)
      BY <1>6, <3>1
    <3> QED
      BY <3>2 DEF Coalesced!Next
  <2> QED
    BY <2>1, <2>2
<1>10. ~Dies(r)
  BY NextType DEF Dies, TypeInv, TypeOK
<1> QED
  BY <1>7, <1>8, <1>9, <1>10, Moves

\* The clock, expiring keys and nothing at all: Coalescing sees only a result go.
LEMMA RestRefines ==
  ASSUME MaxCrashes = 0, TypeInv, [Next]_vars, ~(\E r \in Requests : Turn(r))
  PROVE  [Coalesced!Next]_(Coalesced!vars)
<1> /\ pc \in [Requests -> Locations]
    /\ res \in [Keys -> {Absent} \union [by : Requests, ttl : 0..ResultTTL]]
    /\ \A r \in Requests, t \in Nat : [by |-> r, ttl |-> t] # Absent
  BY ConstantsAssumption DEF TypeInv, TypeOK
<1>1. ASSUME \A q \in Requests : Phase(q)' = Phase(q) /\ answer'[q] = answer[q],
             StoredBys' = StoredBys
      PROVE  UNCHANGED Coalesced!vars
  BY <1>1 DEF Coalesced!vars, StoredBys
<1>2. ASSUME NEW k \in Keys, ExpireKey(k) PROVE [Coalesced!Next]_(Coalesced!vars)
  <2>1. \A q \in Requests : Phase(q)' = Phase(q) /\ answer'[q] = answer[q]
    BY <1>2 DEF ExpireKey, Phase
  <2>2. CASE res' = res
    BY <1>1, <2>1, <2>2 DEF StoredBys
  <2>3. CASE res' = [res EXCEPT ![k] = Absent]
    <3>1. StoredBys' = [StoredBys EXCEPT ![k] = Nobody]
      BY <2>3 DEF StoredBys
    <3>2. Coalesced!Forget(k)
      BY <2>1, <3>1 DEF Coalesced!Forget, StoredBys
    <3> QED
      BY <3>2 DEF Coalesced!Next
  <2> QED
    BY <1>2, <2>2, <2>3 DEF ExpireKey
<1>3. CASE Tick
  <2>1. \A q \in Requests : Phase(q)' = Phase(q) /\ answer'[q] = answer[q]
    BY <1>3 DEF Tick, Phase
  <2>2. ASSUME NEW k \in Keys
        PROVE  /\ Older(res[k]) = Absent <=> res[k] = Absent
               /\ res[k] # Absent => Older(res[k]).by = res[k].by
    <3>1. CASE res[k] # Absent
      <4>1. /\ res[k] \in [by : Requests, ttl : 0..ResultTTL] /\ ~Due(res[k])
            /\ ResultTTL \in Nat
        BY <1>3, <3>1, Times DEF Tick
      <4>2. Older(res[k]) = [by |-> res[k].by, ttl |-> res[k].ttl - 1]
        BY <3>1, <4>1 DEF Older
      <4>3. res[k].ttl - 1 \in Nat
        BY <3>1, <4>1 DEF Due
      <4> QED
        BY <3>1, <4>1, <4>2, <4>3
    <3> QED
      BY <3>1 DEF Older
  <2>3. StoredBys' = StoredBys
    BY <1>3, <2>2 DEF Tick, StoredBys
  <2> QED
    BY <1>1, <2>1, <2>3
<1>4. CASE UNCHANGED vars \/ \E b \in Bodies : ExpireCached(b)
  <2>1. \A q \in Requests : Phase(q)' = Phase(q) /\ answer'[q] = answer[q]
    BY <1>4 DEF vars, ExpireCached, Phase
  <2>2. StoredBys' = StoredBys
    BY <1>4 DEF vars, redis, ExpireCached, StoredBys
  <2> QED
    BY <1>1, <2>1, <2>2
<1>5. ~(\E w \in Workers : Crash(w))
  BY DEF Crash, TypeInv, TypeOK
<1> QED
  BY <1>2, <1>3, <1>4, <1>5 DEF Next, Turn

\* With one worker, no crash and no response cache in front, the clients of a key get
\* what Coalescing promises them as long as no duplicate gives up waiting: one call
\* at a time, and its response for as long as it is stored.
THEOREM CoalescingWhilePatient ==
  ASSUME ~RegLapses, ~RedisFails, ~CacheOn, MaxCrashes = 0, MarkTTL > MaxExec,
         NEW w0, Workers = {w0}
  PROVE  Spec /\ []Patient => ImplementsCoalescing
<1>1. Init => CoalescingInv
  BY InitType
    DEF Init, CoalescingInv, KeyGoverned, ResultsGoverned, LoopHeld, Awaiting,
        NothingStored, Alone, Busy, CallsYoung, CallsMarked, CallsRecorded, Claimed
<1>2. CoalescingInv /\ Patient /\ [Next]_vars => CoalescingInv'
  <2> SUFFICES ASSUME CoalescingInv, Patient, [Next]_vars PROVE CoalescingInv'
    OBVIOUS
  <2> USE DEF CoalescingInv
  <2>1. TypeInv' /\ KeyGoverned' /\ ResultsGoverned'
    BY NextType, NextWait, NextKeyGoverned, NextResultsGoverned DEF TypeInv
  <2>2. LoopHeld' /\ NothingStored'
    BY NextLoopHeld, NextNothingStored
  <2>3. Alone' /\ CallsYoung' /\ CallsMarked' /\ CallsRecorded'
    BY NextAlone, NextCallsYoung, NextCallsMarked, NextCallsRecorded
  <2> QED
    BY <2>1, <2>2, <2>3
<1>3. Init => Coalesced!Init
  BY ConstantsAssumption DEF Init, Coalesced!Init, Phase
<1>4. CoalescingInv /\ [Next]_vars => [Coalesced!Next]_(Coalesced!vars)
  <2> SUFFICES ASSUME CoalescingInv, [Next]_vars
               PROVE  [Coalesced!Next]_(Coalesced!vars)
    OBVIOUS
  <2>1. TypeInv
    BY DEF CoalescingInv
  <2> QED
    BY <2>1, TurnRefines, RestRefines
<1> QED
  BY <1>1, <1>2, <1>3, <1>4, PTL DEF Spec, ImplementsCoalescing, Coalesced!Spec

\* The same without a condition on the waiting, for a request and its one duplicate.
THEOREM CoalescingOfPairs ==
  ASSUME ~RegLapses, ~RedisFails, ~CacheOn, MaxCrashes = 0, MarkTTL > MaxExec,
         NEW w0, Workers = {w0}, Pairs, MaxWait > MaxExec
  PROVE  Spec => ImplementsCoalescing
BY PairsArePatient, CoalescingWhilePatient, PTL
=============================================================================
