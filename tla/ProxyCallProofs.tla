--------------------------- MODULE ProxyCallProofs ---------------------------
(***************************************************************************)
(* Proofs about ProxyCall, for any number of keys and calls and any        *)
(* thresholds, retry policies and configuration of the handlers.           *)
(***************************************************************************)
EXTENDS ProxyCall, TLAPS

-----------------------------------------------------------------------------
(* What the methods of the pool do to one key. *)

LEMMA AtMostBounds ==
    ASSUME NEW n \in Nat, NEW cap \in Nat
    PROVE  AtMost(n, cap) \in 0..cap /\ AtMost(n, cap) <= n
BY DEF AtMost

LEMMA DecayedBounds ==
    ASSUME NEW cap \in Nat, NEW score \in 0..cap, NEW percent \in 0..100
    PROVE  Decayed(score, percent) \in 0..cap
<1>1. score * percent \in Nat /\ score * percent <= score * 100
  OBVIOUS
<1>2. (score * percent) \div 100 \in Nat /\ (score * percent) \div 100 <= score
  BY <1>1
<1> QED BY <1>2 DEF Decayed

Healthy(p) == p.status = "active" => p.errors < DegradeAt

LEMMA SucceededKey ==
    ASSUME NEW p \in ProviderKeys
    PROVE  /\ Succeeded(p) \in ProviderKeys
           /\ Succeeded(p).errors = 0
           /\ Healthy(Succeeded(p))
           /\ p.status = "exhausted" => Succeeded(p).status = "exhausted"
<1>1. /\ MaxScore \in Nat /\ DegradeAt \in Nat \ {0} /\ ExhaustAt \in Nat
      /\ RecoverBelow \in Nat
  BY PoolAssumption
<1>2. p.score \in 0..MaxScore /\ p.status \in Statuses
  BY DEF ProviderKeys
<1>3. PICK score \in 0..MaxScore : score = Decayed(p.score, 95)
  <2>1. 95 \in 0..100
    OBVIOUS
  <2>2. Decayed(p.score, 95) \in 0..MaxScore
    BY <1>1, <1>2, <2>1, DecayedBounds
  <2> QED BY <2>2
<1>4. PICK status \in Statuses :
        /\ status = IF p.status = "degraded" /\ score < RecoverBelow
                    THEN "active" ELSE p.status
        /\ p.status = "exhausted" => status = "exhausted"
  BY <1>2 DEF Statuses
<1>5. Succeeded(p) = [p EXCEPT !.errors = 0, !.score = score, !.status = status]
  BY <1>3, <1>4 DEF Succeeded
<1>6. 0 \in 0..ExhaustAt
  BY <1>1
<1>7. Succeeded(p) \in ProviderKeys /\ Succeeded(p).errors = 0 /\ Succeeded(p).status = status
  BY <1>5, <1>6 DEF ProviderKeys
<1> QED BY <1>1, <1>4, <1>7 DEF Healthy

LEMMA FailedKey ==
    ASSUME NEW p \in ProviderKeys, NEW type \in ErrorTypes
    PROVE  /\ Failed(p, type) \in ProviderKeys
           /\ Failed(p, type).errors = AtMost(p.errors + 1, ExhaustAt)
           /\ Healthy(p) => Healthy(Failed(p, type))
           /\ p.status = "exhausted" => Failed(p, type).status = "exhausted"
<1>1. /\ MaxScore \in Nat /\ DegradeAt \in Nat \ {0} /\ ExhaustAt \in Nat
      /\ Penalty[type] \in Nat
  BY PoolAssumption
<1>2. p.errors \in 0..ExhaustAt /\ p.score \in 0..MaxScore
  BY DEF ProviderKeys
<1>3. p.errors + 1 \in Nat /\ p.score + Penalty[type] \in Nat
  BY <1>1, <1>2
<1>4. PICK errors \in 0..ExhaustAt : errors = AtMost(p.errors + 1, ExhaustAt)
  BY <1>1, <1>3, AtMostBounds
<1>5. PICK score \in 0..MaxScore : score = AtMost(p.score + Penalty[type], MaxScore)
  BY <1>1, <1>3, AtMostBounds
<1>6. PICK status \in Statuses :
        /\ status = IF errors < DegradeAt THEN p.status
                    ELSE IF p.status = "active" THEN "degraded"
                    ELSE IF errors >= ExhaustAt THEN "exhausted" ELSE p.status
        /\ p.status = "exhausted" => status = "exhausted"
        /\ status = "active" => errors < DegradeAt
  BY <1>1 DEF ProviderKeys, Statuses
<1>7. Failed(p, type) = [p EXCEPT !.errors = errors, !.score = score, !.status = status]
  BY <1>4, <1>5, <1>6 DEF Failed
<1>8. /\ Failed(p, type) \in ProviderKeys
      /\ Failed(p, type).errors = errors /\ Failed(p, type).status = status
  BY <1>7 DEF ProviderKeys
<1> QED BY <1>4, <1>6, <1>8 DEF Healthy

LEMMA LoadedKey ==
    ASSUME NEW p \in ProviderKeys, NEW n \in Loads(p)
    PROVE  [p EXCEPT !.load = n] \in ProviderKeys
<1>1. p.load + 1 \in Nat /\ MaxHits \in Nat
  BY PoolAssumption DEF ProviderKeys
<1>2. AtMost(p.load + 1, MaxHits) \in 0..MaxHits
  BY <1>1, AtMostBounds
<1>3. n \in 0..MaxHits
  BY <1>1, <1>2 DEF Loads
<1> QED BY <1>3 DEF ProviderKeys

-----------------------------------------------------------------------------
(* The inductive invariant.  Of a call it says how many exchanges the attempt *)
(* it is at allows, for each of the two keys; of a key, that it is healthy    *)
(* while active and has fewer errors than requests failed on it.              *)

\* The exchanges of one client.request.
Rounds == IF Attempts["timeout"] = 0 THEN 1 ELSE AtMost(Attempts["timeout"], MaxAttempts)

CallInv(r) ==
    /\ r \in CallStates
    /\ r.attempt <= Rounds
    /\ r.at = "asleep" => r.attempt < Attempts["timeout"]
    /\ r.tries <= r.attempt + (IF r.second THEN Rounds ELSE 0)

PoolInv ==
    /\ pool \in [Keys -> ProviderKeys]
    /\ failed \in [Keys -> 0..ExhaustAt]
    /\ \A k \in Keys : Healthy(pool[k]) /\ pool[k].errors <= failed[k]

StoreInv == cached \in BOOLEAN /\ reg \subseteq IdemKeys /\ res \subseteq IdemKeys

CallsInv == call \in [Calls -> CallStates] /\ \A c \in Calls : CallInv(call[c])

IInv == PoolInv /\ CallsInv /\ StoreInv

\* What every step does to the pool, and to the record of the call that takes it.
PoolStep ==
    /\ PoolInv'
    /\ \A k \in Keys : pool[k].status = "exhausted" => pool'[k].status = "exhausted"

CallStep(c, r) ==
    /\ call' = [call EXCEPT ![c] = r]
    /\ CallInv(r)
    /\ \A k \in Keys : pool[k].status = "exhausted" /\ r.key = k => call[c].key = k
    /\ r.second /\ ~call[c].second => r.key # call[c].key

LEMMA ConstantTypes ==
    /\ Attempts["timeout"] \in Nat /\ MaxAttempts \in Nat \ {0}
    /\ FailuresToOpen \in Nat \ {0} /\ ExhaustAt \in Nat /\ DegradeAt \in Nat \ {0}
    /\ MaxScore \in Nat /\ MaxHits \in Nat
    /\ Rounds \in 1..MaxAttempts
    /\ Attempts["timeout"] > 0 => Rounds <= Attempts["timeout"]
<1>1. Attempts["timeout"] \in Nat /\ MaxAttempts \in Nat \ {0} /\ FailuresToOpen \in Nat \ {0}
  BY ProxyAssumption
<1>2. ExhaustAt \in Nat /\ DegradeAt \in Nat \ {0} /\ MaxScore \in Nat /\ MaxHits \in Nat
  BY PoolAssumption
<1> QED BY <1>1, <1>2 DEF Rounds, AtMost

-----------------------------------------------------------------------------
(* The steps of the pool. *)

LEMMA PoolSame ==
    ASSUME PoolInv, UNCHANGED <<pool, failed>>
    PROVE  PoolStep
BY DEF PoolInv, PoolStep

LEMMA PoolLoaded ==
    ASSUME PoolInv, UNCHANGED failed, NEW k \in Keys, NEW n \in Loads(pool[k]),
           pool' = [pool EXCEPT ![k].load = n]
    PROVE  PoolStep
<1>1. /\ pool[k] \in ProviderKeys
      /\ pool' = [pool EXCEPT ![k] = [pool[k] EXCEPT !.load = n]]
  BY DEF PoolInv
<1>2. [pool[k] EXCEPT !.load = n] \in ProviderKeys
  BY <1>1, LoadedKey
<1>3. /\ [pool[k] EXCEPT !.load = n].status = pool[k].status
      /\ [pool[k] EXCEPT !.load = n].errors = pool[k].errors
  BY <1>1 DEF ProviderKeys
<1> QED BY <1>1, <1>2, <1>3 DEF PoolInv, PoolStep, Healthy

LEMMA PoolCredited ==
    ASSUME PoolInv, NEW k \in Keys \union {None}, pool' = Credited(k), Ended(k, TRUE)
    PROVE  PoolStep
<1>1. CASE k = None
  BY <1>1, PoolSame DEF Credited, Ended
<1>2. CASE k # None
  <2>1. /\ k \in Keys /\ pool[k] \in ProviderKeys
        /\ pool' = [pool EXCEPT ![k] = Succeeded(pool[k])]
        /\ failed' = [failed EXCEPT ![k] = 0]
    BY <1>2 DEF Credited, Ended, PoolInv
  <2>2. 0 \in 0..ExhaustAt
    BY ConstantTypes
  <2> QED BY <2>1, <2>2, SucceededKey DEF PoolInv, PoolStep
<1> QED BY <1>1, <1>2

LEMMA BlamedKeys ==
    ASSUME PoolInv, NEW k \in Keys \union {None}, NEW type \in ErrorTypes, Ended(k, FALSE)
    PROVE  /\ failed' \in [Keys -> 0..ExhaustAt]
           /\ \A j \in Keys : pool[j].errors <= failed'[j]
           /\ Blamed(k, type) \in [Keys -> ProviderKeys]
           /\ \A j \in Keys :
                 /\ Healthy(Blamed(k, type)[j]) /\ Blamed(k, type)[j].errors <= failed'[j]
                 /\ pool[j].status = "exhausted" => Blamed(k, type)[j].status = "exhausted"
<1>1. CASE k = None
  BY <1>1 DEF Blamed, Ended, PoolInv
<1>2. CASE k # None
  <2>1. /\ k \in Keys /\ pool[k] \in ProviderKeys /\ failed[k] \in 0..ExhaustAt
        /\ pool[k].errors <= failed[k]
        /\ Healthy(pool[k])
        /\ failed' = [failed EXCEPT ![k] = AtMost(failed[k] + 1, ExhaustAt)]
        /\ Blamed(k, type) = [pool EXCEPT ![k] = Failed(pool[k], type)]
    BY <1>2 DEF Ended, Blamed, PoolInv
  <2>2. pool[k].errors \in 0..ExhaustAt
    BY <2>1 DEF ProviderKeys
  <2>3. /\ AtMost(failed[k] + 1, ExhaustAt) \in 0..ExhaustAt
        /\ pool[k].errors <= AtMost(failed[k] + 1, ExhaustAt)
        /\ AtMost(pool[k].errors + 1, ExhaustAt) <= AtMost(failed[k] + 1, ExhaustAt)
    BY <2>1, <2>2, ConstantTypes DEF AtMost
  <2>4. /\ Failed(pool[k], type) \in ProviderKeys
        /\ Healthy(Failed(pool[k], type))
        /\ Failed(pool[k], type).errors = AtMost(pool[k].errors + 1, ExhaustAt)
        /\ pool[k].status = "exhausted" => Failed(pool[k], type).status = "exhausted"
    BY <2>1, FailedKey
  <2> QED BY <2>1, <2>3, <2>4 DEF PoolInv
<1> QED BY <1>1, <1>2

LEMMA PoolBlamed ==
    ASSUME PoolInv, NEW k \in Keys \union {None}, NEW type \in ErrorTypes,
           pool' = Blamed(k, type) \/ UNCHANGED pool, Ended(k, FALSE)
    PROVE  PoolStep
<1>1. CASE pool' = Blamed(k, type)
  BY <1>1, BlamedKeys DEF PoolInv, PoolStep
<1>2. CASE UNCHANGED pool
  <2>1. \A j \in Keys : Healthy(pool'[j])
    BY <1>2 DEF PoolInv
  <2> QED BY <1>2, <2>1, BlamedKeys DEF PoolInv, PoolStep
<1> QED BY <1>1, <1>2

LEMMA PoolSwitched ==
    ASSUME PoolInv, NEW k \in Keys, NEW type \in ErrorTypes, Ended(k, FALSE),
           NEW j \in Keys, NEW n \in Loads(Blamed(k, type)[j]),
           pool' = [Blamed(k, type) EXCEPT ![j].load = n]
    PROVE  PoolStep
<1> DEFINE P == Blamed(k, type)
<1>1. /\ failed' \in [Keys -> 0..ExhaustAt] /\ P \in [Keys -> ProviderKeys]
      /\ \A i \in Keys :
            /\ Healthy(P[i]) /\ P[i].errors <= failed'[i]
            /\ pool[i].status = "exhausted" => P[i].status = "exhausted"
  BY BlamedKeys
<1>2. n \in Loads(P[j]) /\ pool' = [P EXCEPT ![j] = [P[j] EXCEPT !.load = n]]
  OBVIOUS
<1> HIDE DEF P
<1>3. P[j] \in ProviderKeys
  BY <1>1
<1>4. /\ [P[j] EXCEPT !.load = n] \in ProviderKeys
      /\ [P[j] EXCEPT !.load = n].status = P[j].status
      /\ [P[j] EXCEPT !.load = n].errors = P[j].errors
  <2>1. [P[j] EXCEPT !.load = n] \in ProviderKeys
    BY <1>2, <1>3, LoadedKey
  <2> QED BY <1>3, <2>1 DEF ProviderKeys
<1> QED BY <1>1, <1>2, <1>4 DEF PoolInv, PoolStep, Healthy

LEMMA PoolDecayed ==
    ASSUME PoolInv, Decay, UNCHANGED failed
    PROVE  PoolStep
<1>1. ASSUME NEW k \in Keys
      PROVE  /\ pool'[k] \in ProviderKeys
             /\ pool'[k].status = pool[k].status /\ pool'[k].errors = pool[k].errors
  <2>1. pool[k] \in ProviderKeys /\ pool[k].score \in 0..MaxScore
    BY DEF PoolInv, ProviderKeys
  <2>2. 90 \in 0..100 /\ MaxScore \in Nat
    BY ConstantTypes
  <2>3. Decayed(pool[k].score, 90) \in 0..MaxScore
    BY <2>1, <2>2, DecayedBounds
  <2>4. pool'[k] = [pool[k] EXCEPT !.score = Decayed(pool[k].score, 90)]
    BY DEF Decay
  <2> QED BY <2>1, <2>3, <2>4 DEF ProviderKeys
<1>2. pool' = [k \in Keys |-> pool'[k]]
  BY DEF Decay
<1>3. pool' \in [Keys -> ProviderKeys]
  BY <1>1, <1>2
<1> QED BY <1>1, <1>3 DEF PoolInv, PoolStep, Healthy

-----------------------------------------------------------------------------
(* The steps of a call. *)

LEMMA Selected ==
    ASSUME NEW P, NEW exclude, NEW k, Selects(P, exclude, k)
    PROVE  k \in Keys \ exclude /\ P[k].status # "exhausted"
BY DEF Selects, Candidates

LEMMA CallRecords ==
    /\ CallInv(Idle) /\ Idle.key = None /\ ~Idle.second
    /\ \A answer \in Answers :
          CallInv(Answered(answer)) /\ Answered(answer).key = None /\ ~Answered(answer).second
    /\ \A k \in Keys \union {None} :
          CallInv(Calling(k)) /\ Calling(k).key = k /\ ~Calling(k).second
<1>1. /\ 1 \in 1..MaxAttempts /\ 0 \in 0..FailuresToOpen /\ 1 <= Rounds
      /\ {0, 1} \subseteq 0..2 * MaxAttempts /\ Rounds \in Nat
  BY ConstantTypes
<1>2. CallInv(Idle) /\ Idle.key = None /\ ~Idle.second
  BY <1>1 DEF CallInv, Idle, CallStates, Answers
<1>3. /\ Idle.attempt = 1 /\ Idle.tries = 0 /\ Idle.key = None /\ Idle.second = FALSE
      /\ Idle \in CallStates
  BY <1>2 DEF Idle, CallInv
<1>4. ASSUME NEW answer \in Answers
      PROVE  CallInv(Answered(answer)) /\ Answered(answer).key = None /\ ~Answered(answer).second
  <2>1. /\ Answered(answer) \in CallStates /\ Answered(answer).at = "done"
        /\ Answered(answer).attempt = 1 /\ Answered(answer).tries = 0
        /\ Answered(answer).key = None /\ Answered(answer).second = FALSE
    BY <1>3 DEF Answered, CallStates
  <2> QED BY <1>1, <2>1 DEF CallInv
<1>5. ASSUME NEW k \in Keys \union {None}
      PROVE  CallInv(Calling(k)) /\ Calling(k).key = k /\ ~Calling(k).second
  <2>1. /\ Calling(k) \in CallStates /\ Calling(k).at = "calling"
        /\ Calling(k).attempt = 1 /\ Calling(k).tries = 1
        /\ Calling(k).key = k /\ Calling(k).second = FALSE
    BY <1>1, <1>3 DEF Calling, CallStates
  <2> QED BY <1>1, <2>1 DEF CallInv
<1> QED BY <1>2, <1>4, <1>5

\* A call that ends, or is forgotten, holds no key.
LEMMA CallEnds ==
    ASSUME CallsInv, NEW c \in Calls, NEW answer \in Answers
    PROVE  /\ call' = [call EXCEPT ![c] = Answered(answer)] => CallStep(c, Answered(answer))
           /\ call' = [call EXCEPT ![c] = Idle] => CallStep(c, Idle)
BY CallRecords, ProxyAssumption DEF CallStep

LEMMA FieldTypes ==
    ASSUME CallsInv, NEW c \in Calls
    PROVE  /\ CallInv(call[c])
           /\ call[c].key \in Keys \union {None} /\ call[c].second \in BOOLEAN
           /\ call[c].attempt \in 1..MaxAttempts /\ call[c].failures \in 0..FailuresToOpen
           /\ call[c].tries \in Nat /\ call[c].answer \in Answers
BY ConstantTypes DEF CallsInv, CallInv, CallStates

LEMMA ArriveStep ==
    ASSUME IInv, NEW c \in Calls, Arrive(c)
    PROVE  PoolStep /\ StoreInv' /\ \E r : CallStep(c, r)
<1>1. PoolInv /\ CallsInv /\ StoreInv /\ UNCHANGED failed
  BY DEF IInv, Arrive
<1>2. CASE FromCache(c) \/ Replay(c)
  <2>1. UNCHANGED <<pool, store>>
    BY <1>2 DEF FromCache, Replay
  <2>2. \E answer \in Answers : call' = [call EXCEPT ![c] = Answered(answer)]
    BY <1>2 DEF FromCache, Replay, Answers
  <2>3. \E r : CallStep(c, r)
    BY <1>1, <2>2, CallEnds
  <2> QED BY <1>1, <2>1, <2>3, PoolSame DEF StoreInv, store
<1>3. CASE Execute(c)
  <2>1. StoreInv'
    <3>1. Keyed(c) => IdemOf[c] \in IdemKeys
      BY ProxyAssumption DEF Keyed
    <3> QED BY <1>1, <1>3, <3>1 DEF Execute, StoreInv
  <2>2. CASE UNCHANGED pool /\ call' = [call EXCEPT ![c] = Calling(None)]
    <3>1. CallStep(c, Calling(None))
      BY <2>2, CallRecords, ProxyAssumption DEF CallStep
    <3> QED BY <1>1, <2>1, <2>2, <3>1, PoolSame
  <2>3. ASSUME NEW k \in Keys, NEW n \in Loads(pool[k]), Selects(pool, {}, k),
               pool' = [pool EXCEPT ![k].load = n],
               \/ call' = [call EXCEPT ![c] = Calling(k)]
               \/ call' = [call EXCEPT ![c] = Answered("limited")]
        PROVE  PoolStep /\ \E r : CallStep(c, r)
    <3>1. PoolStep
      BY <1>1, <2>3, PoolLoaded
    <3>2. pool[k].status # "exhausted"
      BY <2>3, Selected
    <3>3. call' = [call EXCEPT ![c] = Calling(k)] => CallStep(c, Calling(k))
      BY <3>2, CallRecords DEF CallStep
    <3>4. "limited" \in Answers
      BY DEF Answers
    <3> QED BY <1>1, <2>3, <3>1, <3>3, <3>4, CallEnds
  <2> QED BY <1>3, <2>1, <2>2, <2>3 DEF Execute
<1> QED BY <1>2, <1>3 DEF Arrive

\* Giving up, however the pool hears of it.
LEMMA GiveUpStep ==
    ASSUME IInv, NEW c \in Calls, NEW type \in {"429", "5xx", "network"}, GiveUp(c, type)
    PROVE  PoolStep /\ StoreInv' /\ \E r : CallStep(c, r)
<1>1. PoolInv /\ CallsInv /\ StoreInv
  BY DEF IInv
<1>2. call[c].key \in Keys \union {None} /\ call[c].answer \in Answers
  BY <1>1, FieldTypes
<1>3. type \in ErrorTypes /\ type \in Answers
  BY DEF ErrorTypes, Answers
<1>4. PoolStep
  <2>1. pool' = Blamed(call[c].key, type) \/ UNCHANGED pool
    BY DEF GiveUp
  <2>2. Ended(call[c].key, FALSE)
    BY DEF GiveUp
  <2> QED BY <1>1, <1>2, <1>3, <2>1, <2>2, PoolBlamed
<1>5. \E answer \in Answers : call' = [call EXCEPT ![c] = Answered(answer)]
  BY <1>2, <1>3 DEF GiveUp
<1>6. StoreInv'
  BY <1>1 DEF GiveUp, StoreInv, store
<1> QED BY <1>1, <1>4, <1>5, <1>6, CallEnds

LEMMA DeliverStep ==
    ASSUME IInv, NEW c \in Calls, NEW reply \in Replies, Deliver(c, reply)
    PROVE  PoolStep /\ StoreInv' /\ \E r : CallStep(c, r)
<1>1. PoolInv /\ CallsInv /\ StoreInv
  BY DEF IInv
<1>2. call[c].key \in Keys \union {None} /\ call[c].answer \in Answers
  BY <1>1, FieldTypes
<1>3. {"ok", "internal", "4xx"} \subseteq Answers /\ "other" \in ErrorTypes
  BY DEF Answers, ErrorTypes
<1>4. CASE DeliverHttp(c, reply)
  <2>1. pool' = Credited(call[c].key) /\ Ended(call[c].key, TRUE)
    BY <1>4 DEF DeliverHttp
  <2>2. PoolStep
    BY <1>1, <1>2, <2>1, PoolCredited
  <2>3. \E answer \in Answers : call' = [call EXCEPT ![c] = Answered(answer)]
    <3> DEFINE answer == CASE ~Keyed(c)       -> "ok"
                           [] call[c].second  -> call[c].answer
                           [] OTHER           -> "internal"
    <3>1. answer \in Answers
      BY <1>2, <1>3
    <3>2. call' = [call EXCEPT ![c] = Answered(answer)]
      BY <1>4 DEF DeliverHttp
    <3> QED BY <3>1, <3>2
  <2>4. StoreInv'
    <3>1. IdemOf[c] # None => IdemOf[c] \in IdemKeys
      BY ProxyAssumption
    <3>2. cached' \in BOOLEAN
      BY <1>4 DEF DeliverHttp
    <3>3. reg' \subseteq IdemKeys /\ res' \subseteq IdemKeys
      BY <1>1, <1>4, <3>1 DEF DeliverHttp, StoreInv
    <3> QED BY <3>2, <3>3 DEF StoreInv
  <2> QED BY <1>1, <2>2, <2>3, <2>4, CallEnds
<1>5. CASE DeliverLlm(c, reply)
  <2>1. PoolStep
    <3>1. CASE pool' = Credited(call[c].key) /\ Ended(call[c].key, TRUE)
      BY <1>1, <1>2, <3>1, PoolCredited
    <3>2. CASE /\ pool' = Blamed(call[c].key, "other") \/ UNCHANGED pool
               /\ Ended(call[c].key, FALSE)
      BY <1>1, <1>2, <1>3, <3>2, PoolBlamed
    <3> QED BY <1>5, <3>1, <3>2 DEF DeliverLlm, Parsed, Rejected
  <2>2. \E answer \in Answers : call' = [call EXCEPT ![c] = Answered(answer)]
    BY <1>3, <1>5 DEF DeliverLlm, Parsed, Rejected
  <2>3. StoreInv'
    BY <1>1, <1>5 DEF DeliverLlm, StoreInv, store
  <2> QED BY <1>1, <2>1, <2>2, <2>3, CallEnds
<1> QED BY <1>4, <1>5 DEF Deliver

LEMMA RetryStep ==
    ASSUME IInv, NEW c \in Calls, NEW reply \in Replies, Retry(c, reply)
    PROVE  PoolStep /\ StoreInv' /\ \E r : CallStep(c, r)
<1>1. PoolInv /\ CallsInv /\ StoreInv
  BY DEF IInv
<1>2. PoolStep /\ StoreInv'
  BY <1>1, PoolSame DEF Retry, StoreInv, store
<1> DEFINE f == Recorded(call[c].failures, reply)
           r == [call[c] EXCEPT !.at = "asleep", !.failures = f]
<1>3. f \in 0..FailuresToOpen
  BY <1>1, FieldTypes, ConstantTypes DEF Recorded, AtMost
<1>4. call' = [call EXCEPT ![c] = r]
  BY <1>1 DEF Retry, CallsInv
<1>5. call[c].attempt < Attempts["timeout"]
  BY DEF Retry, Retried, Class
<1>6. CallInv(call[c])
  BY <1>1, FieldTypes
<1> HIDE DEF f
<1>7. CallInv(r) /\ r.key = call[c].key /\ r.second = call[c].second
  BY <1>3, <1>5, <1>6 DEF CallInv, CallStates
<1>8. CallStep(c, r)
  BY <1>4, <1>7 DEF CallStep
<1> QED BY <1>2, <1>8

LEMMA SwitchStep ==
    ASSUME IInv, NEW c \in Calls, NEW reply \in {"429", "5xx"}, Switch(c, reply)
    PROVE  PoolStep /\ StoreInv' /\ \E r : CallStep(c, r)
<1>1. PoolInv /\ CallsInv /\ StoreInv
  BY DEF IInv
<1>2. /\ CallInv(call[c]) /\ call[c].key \in Keys /\ ~call[c].second
      /\ call[c].failures \in 0..FailuresToOpen /\ call[c].attempt \in 1..MaxAttempts
      /\ call[c].tries \in Nat
  BY <1>1, FieldTypes DEF Switch
<1>3. reply \in ErrorTypes /\ reply \in Answers /\ Ended(call[c].key, FALSE)
  BY DEF Switch, ErrorTypes, Answers
<1> DEFINE k == call[c].key
           P == Blamed(k, reply)
           f == Recorded(call[c].failures, reply)
           r(j) == [Calling(j) EXCEPT !.second = TRUE, !.failures = f,
                                      !.tries = call[c].tries + 1, !.answer = reply]
<1>4. PICK j \in Keys : \E n \in Loads(P[j]) :
        /\ Selects(P, {k}, j)
        /\ pool' = [P EXCEPT ![j].load = n]
        /\ call' = IF IsOpen(f) THEN [call EXCEPT ![c] = Answered(reply)]
                   ELSE [call EXCEPT ![c] = r(j)]
  BY DEF Switch
<1>5. PoolStep
  BY <1>1, <1>2, <1>3, <1>4, PoolSwitched
<1>6. StoreInv'
  BY <1>1 DEF Switch, StoreInv, store
<1>7. j # k /\ pool[j].status # "exhausted"
  <2>1. j \notin {k} /\ P[j].status # "exhausted"
    BY <1>4, Selected
  <2>2. pool[j].status = "exhausted" => P[j].status = "exhausted"
    BY <1>1, <1>2, <1>3, BlamedKeys
  <2> QED BY <2>1, <2>2
<1>8. f \in 0..FailuresToOpen
  BY <1>2, ConstantTypes DEF Recorded, AtMost
<1>9. CASE call' = [call EXCEPT ![c] = Answered(reply)]
  BY <1>1, <1>3, <1>5, <1>6, <1>9, CallEnds
<1>10. CASE call' = [call EXCEPT ![c] = r(j)]
  <2>1. CallInv(Calling(j)) /\ Calling(j).key = j /\ Calling(j).attempt = 1
    BY CallRecords DEF Calling, Idle
  <2>2. call[c].tries <= Rounds
    BY <1>2, ConstantTypes DEF CallInv
  <2>3. /\ call[c].tries + 1 \in 0..2 * MaxAttempts /\ call[c].tries + 1 <= 1 + Rounds
        /\ 1 <= Rounds
    BY <1>2, <2>2, ConstantTypes
  <2> HIDE DEF f
  <2>4. CallInv(r(j)) /\ r(j).key = j
    <3>1. r(j).at = "calling"
      BY DEF Calling, Idle
    <3> QED BY <1>3, <1>8, <2>1, <2>3, <3>1 DEF CallInv, CallStates
  <2>5. CallStep(c, r(j))
    BY <1>7, <1>10, <2>4 DEF CallStep
  <2> QED BY <1>5, <1>6, <2>5
<1> QED BY <1>4, <1>9, <1>10

LEMMA AgainStep ==
    ASSUME IInv, NEW c \in Calls, Again(c)
    PROVE  PoolStep /\ StoreInv' /\ \E r : CallStep(c, r)
<1>1. PoolInv /\ CallsInv /\ StoreInv
  BY DEF IInv
<1>2. CASE GiveUp(c, "network")
  BY <1>2, GiveUpStep
<1>3. CASE /\ call[c].attempt < MaxAttempts
           /\ call' = [call EXCEPT ![c].at = "calling", ![c].attempt = @ + 1, ![c].tries = @ + 1]
           /\ UNCHANGED <<pool, store, failed>>
  <2> DEFINE r == [call[c] EXCEPT !.at = "calling", !.attempt = call[c].attempt + 1,
                                  !.tries = call[c].tries + 1]
  <2>1. CallInv(call[c]) /\ call[c].at = "asleep"
    BY <1>1, FieldTypes DEF Again
  <2>2. call[c].attempt < Attempts["timeout"]
    BY <2>1 DEF CallInv
  <2>3. /\ call[c].attempt \in 1..MaxAttempts /\ call[c].tries \in Nat
        /\ call[c].second \in BOOLEAN
    BY <1>1, FieldTypes
  <2>4. call[c].attempt + 1 <= Rounds
    BY <1>3, <2>2, <2>3, ConstantTypes DEF Rounds, AtMost
  <2>5. call[c].tries <= call[c].attempt + (IF call[c].second THEN Rounds ELSE 0)
    BY <2>1 DEF CallInv
  <2>6. /\ call[c].attempt + 1 \in 1..MaxAttempts /\ call[c].tries + 1 \in 0..2 * MaxAttempts
    BY <1>3, <2>3, <2>4, <2>5, ConstantTypes
  <2>7. call' = [call EXCEPT ![c] = r]
    BY <1>1, <1>3 DEF CallsInv
  <2>8. CallInv(r) /\ r.key = call[c].key /\ r.second = call[c].second
    <3>1. r \in CallStates
      BY <2>1, <2>6 DEF CallInv, CallStates
    <3>2. /\ r.at = "calling" /\ r.attempt = call[c].attempt + 1 /\ r.second = call[c].second
          /\ r.tries = call[c].tries + 1 /\ r.key = call[c].key
      BY <2>1 DEF CallInv, CallStates
    <3>3. r.tries <= r.attempt + (IF r.second THEN Rounds ELSE 0)
      BY <2>3, <2>5, <3>2, ConstantTypes
    <3> QED BY <2>4, <3>1, <3>2, <3>3 DEF CallInv
  <2>9. CallStep(c, r)
    BY <2>7, <2>8 DEF CallStep
  <2> QED BY <1>1, <1>3, <2>9, PoolSame DEF StoreInv, store
<1> QED BY <1>2, <1>3 DEF Again

LEMMA LeaveStep ==
    ASSUME IInv, NEW c \in Calls, Leave(c)
    PROVE  PoolStep /\ StoreInv' /\ \E r : CallStep(c, r)
<1>1. PoolInv /\ CallsInv /\ StoreInv
  BY DEF IInv
<1>2. "ok" \in Answers /\ call' = [call EXCEPT ![c] = Idle]
  BY DEF Leave, Answers
<1>3. CallStep(c, Idle)
  BY <1>1, <1>2, CallEnds
<1> QED BY <1>1, <1>3, PoolSame DEF Leave, StoreInv, store

LEMMA ReplyStep ==
    ASSUME IInv, NEW c \in Calls, Reply(c)
    PROVE  PoolStep /\ StoreInv' /\ \E r : CallStep(c, r)
<1>1. PICK reply \in Replies : Deliver(c, reply) \/ Fail(c, reply)
  BY DEF Reply
<1>2. CASE Deliver(c, reply)
  BY <1>2, DeliverStep
<1>3. CASE Retry(c, reply)
  BY <1>3, RetryStep
<1>4. CASE reply \in {"429", "5xx"} /\ Switch(c, reply)
  BY <1>4, SwitchStep
<1>5. CASE reply \in {"429", "5xx"} /\ GiveUp(c, reply)
  <2>1. reply \in {"429", "5xx", "network"}
    BY <1>5
  <2> QED BY <1>5, <2>1, GiveUpStep
<1>6. CASE GiveUp(c, "network")
  BY <1>6, GiveUpStep
<1> QED BY <1>1, <1>2, <1>3, <1>4, <1>5, <1>6 DEF Fail

-----------------------------------------------------------------------------
(* The steps together. *)

LEMMA InitInv == Init => IInv
<1> SUFFICES ASSUME Init PROVE IInv
  OBVIOUS
<1>1. PoolInv
  BY ConstantTypes DEF Init, PoolInit, PoolInv, ProviderKeys, Statuses, Healthy
<1>2. CallsInv
  BY CallRecords DEF Init, CallsInv, CallInv
<1> QED BY <1>1, <1>2 DEF Init, IInv, StoreInv

LEMMA NextStep ==
    ASSUME IInv, [Next]_vars
    PROVE  /\ PoolStep /\ StoreInv'
           /\ UNCHANGED call \/ \E c \in Calls : \E r : CallStep(c, r)
<1>1. PoolInv /\ CallsInv /\ StoreInv
  BY DEF IInv
<1>2. CASE \E c \in Calls : Arrive(c) \/ Reply(c) \/ Again(c) \/ Leave(c)
  BY <1>2, ArriveStep, ReplyStep, AgainStep, LeaveStep
<1>3. CASE Expire
  BY <1>1, <1>3, PoolSame DEF Expire, StoreInv
<1>4. CASE Background
  BY <1>1, <1>4, PoolDecayed DEF Background, StoreInv, store
<1>5. CASE UNCHANGED vars
  BY <1>1, <1>5, PoolSame DEF vars, store, StoreInv
<1> QED BY <1>2, <1>3, <1>4, <1>5 DEF Next

LEMMA InvStep == IInv /\ [Next]_vars => IInv'
<1> SUFFICES ASSUME IInv, [Next]_vars PROVE IInv'
  OBVIOUS
<1>1. PoolInv' /\ StoreInv'
  BY NextStep DEF PoolStep
<1>2. CallsInv'
  <2>1. CallsInv
    BY DEF IInv
  <2>2. CASE UNCHANGED call
    BY <2>1, <2>2 DEF CallsInv, CallInv
  <2>3. ASSUME NEW c \in Calls, NEW r, CallStep(c, r)
        PROVE  CallsInv'
    <3>1. call' = [call EXCEPT ![c] = r] /\ r \in CallStates /\ CallInv(r)
      BY <2>3 DEF CallStep, CallInv
    <3>2. call' \in [Calls -> CallStates]
      BY <2>1, <3>1 DEF CallsInv
    <3>3. \A d \in Calls : CallInv(call'[d])
      BY <2>1, <3>1 DEF CallsInv
    <3> QED BY <3>2, <3>3 DEF CallsInv, CallInv
  <2> QED BY <2>2, <2>3, NextStep
<1> QED BY <1>1, <1>2 DEF IInv

LEMMA Invariance == Spec => []IInv
BY InitInv, InvStep, PTL DEF Spec

-----------------------------------------------------------------------------
(* The theorems. *)

\* Every variable keeps its type: the score of a key its cap, the exchanges of a
\* call their bound.
THEOREM CallsTypeCorrect == Spec => []TypeOK
<1>1. IInv => TypeOK
  BY DEF IInv, PoolInv, CallsInv, StoreInv, TypeOK, PoolTypeOK
<1> QED BY <1>1, Invariance, PTL

\* A key in rotation has failed fewer times in a row than degrade a key,
\* whatever order the ends of overlapping calls and the decay come in.
THEOREM ActiveKeysAreHealthy == Spec => []ActiveIsHealthy
<1>1. IInv => ActiveIsHealthy
  BY DEF IInv, PoolInv, Healthy, ActiveIsHealthy
<1> QED BY <1>1, Invariance, PTL

\* No key has more consecutive errors than requests that failed on it.
THEOREM BlameIsAlwaysEarned == Spec => []BlameIsEarned
<1>1. IInv => BlameIsEarned
  BY DEF IInv, PoolInv, BlameIsEarned
<1> QED BY <1>1, Invariance, PTL

\* One call costs the upstream at most the rounds of two requests.
THEOREM CallsAreBounded == Spec => []CallsBounded
<1>1. ASSUME IInv, NEW c \in Calls
      PROVE  call[c].tries <= 2 * Rounds
  <2>1. CallInv(call[c])
    BY <1>1 DEF IInv, CallsInv
  <2>2. call[c].tries \in Nat /\ call[c].attempt \in Nat
    <3>1. call[c].attempt \in 1..MaxAttempts /\ call[c].tries \in Nat
      BY <1>1, FieldTypes DEF IInv
    <3> QED BY <3>1, ConstantTypes
  <2> QED BY <2>1, <2>2, ConstantTypes DEF CallInv
<1>2. IInv => CallsBounded
  BY <1>1 DEF CallsBounded, Rounds
<1> QED BY <1>2, Invariance, PTL

\* An exhausted key stays exhausted and is given to no call that had it not.
THEOREM ExhaustedKeysStayOut == Spec => ExhaustedStaysOut
<1>1. ASSUME IInv, [Next]_vars, NEW k \in Keys, pool[k].status = "exhausted"
      PROVE  /\ pool'[k].status = "exhausted"
             /\ \A c \in Calls : call'[c].key = k => call[c].key = k
  <2>1. pool'[k].status = "exhausted"
    BY <1>1, NextStep DEF PoolStep
  <2>2. ASSUME NEW c \in Calls, NEW d \in Calls, NEW r, CallStep(d, r), call'[c].key = k
        PROVE  call[c].key = k
    BY <1>1, <2>2 DEF CallStep, IInv, CallsInv
  <2> QED BY <1>1, <2>1, <2>2, NextStep
<1>2. IInv /\ [Next]_vars =>
        [\A k \in Keys : pool[k].status = "exhausted" =>
            /\ pool'[k].status = "exhausted"
            /\ \A c \in Calls : call'[c].key = k => call[c].key = k]_vars
  BY <1>1
<1> QED BY <1>2, Invariance, PTL DEF Spec, ExhaustedStaysOut

\* The second try of a call is made with another key than the first.
THEOREM SwitchesLeaveTheKey == Spec => SwitchLeavesKey
<1>1. ASSUME IInv, [Next]_vars, NEW c \in Calls, ~call[c].second, call'[c].second
      PROVE  call'[c].key # call[c].key
  <2>1. CASE UNCHANGED call
    BY <1>1, <2>1
  <2>2. ASSUME NEW d \in Calls, NEW r, CallStep(d, r)
        PROVE  call'[c].key # call[c].key
    BY <1>1, <2>2 DEF CallStep, IInv, CallsInv
  <2> QED BY <1>1, <2>1, <2>2, NextStep
<1>2. IInv /\ [Next]_vars =>
        [\A c \in Calls : ~call[c].second /\ call'[c].second
            => call'[c].key # call[c].key]_vars
  BY <1>1
<1> QED BY <1>2, Invariance, PTL DEF Spec, SwitchLeavesKey

=============================================================================
