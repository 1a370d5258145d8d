------------------------- MODULE UsageReportProofs -------------------------
(***************************************************************************)
(* Theorems about UsageReport: for any number of calls, any sizes and any  *)
(* times, with a process that stops at any moment.                         *)
(***************************************************************************)
EXTENDS UsageReport, FiniteSetTheorems, TLAPS

LEMMA Numbers ==
  /\ FlushAt \in Nat \ {0} /\ FlushAfter \in Nat \ {0} /\ MaxRetries \in Nat \ {0}
  /\ FailuresToOpen \in Nat \ {0} /\ OpenTTL \in Nat \ {0} /\ MaxStops \in Nat
  BY ConstantsAssumption

Busy == {"calling", "delay", "rested"}

\* An attempt under way has a number, and has not told RapidAPI of its batch yet.
Attempts ==
    /\ \A c \in Callers : pc[c] \in Busy => attempt[c] \in 1..MaxRetries
    /\ \A u \in batch :
          /\ received[u] <= attempt[holder]
          /\ pc[holder] = "calling" => received[u] < attempt[holder]

\* A batch belongs to the holder of the lock.
BatchHasHolder == batch # {} => holder # Nobody

\* What is not recorded yet is nowhere.
Fresh ==
    \A u \in Uses : pc[u] \in {"new", "lock"} =>
        u \notin queue /\ u \notin batch /\ u \notin Kept /\ received[u] = 0

\* A breaker that has opened has counted enough failures.
CountWhenOpened == opened # Never => failures = FailuresToOpen

Sizes ==
    /\ IsFiniteSet(queue) /\ IsFiniteSet(batch)
    /\ BatchesAreSmall

IInv ==
    /\ TypeOK /\ LockHasWorker /\ SubmittedOnce /\ Accounted
    /\ Attempts /\ BatchHasHolder /\ Fresh /\ CountWhenOpened /\ Sizes

LEMMA InitIInv == Init => IInv
<1> SUFFICES ASSUME Init PROVE IInv
  OBVIOUS
<1> USE ConstantsAssumption, Numbers DEF Init
<1>1. TypeOK
  BY DEF TypeOK, Places
<1>2. LockHasWorker /\ SubmittedOnce /\ Accounted
  BY DEF LockHasWorker, SubmittedOnce, Accounted, Kept, Callers
<1>3. Attempts /\ BatchHasHolder /\ Fresh /\ CountWhenOpened
  BY DEF Attempts, BatchHasHolder, Fresh, CountWhenOpened, Busy, Kept
<1>4. Sizes
  BY FS_EmptySet DEF Sizes, BatchesAreSmall
<1> QED
  BY <1>1, <1>2, <1>3, <1>4 DEF IInv

-----------------------------------------------------------------------------
(* What the pieces of a step do. *)

\* The breaker.
LEMMA FailsAfterKeeps ==
  ASSUME NEW n \in 0..FailuresToOpen, NEW since \in {Never} \union 0..OpenTTL,
         since # Never => n = FailuresToOpen, FailsAfter(n, since)
  PROVE  /\ failures' \in 0..FailuresToOpen
         /\ opened' \in {Never} \union 0..OpenTTL
         /\ CountWhenOpened'
  BY Numbers, ConstantsAssumption DEF FailsAfter, CountWhenOpened

LEMMA BreakerKeeps ==
  ASSUME IInv,
         \/ RecordSuccess \/ RecordFailure \/ FailsAfter(0, Never)
         \/ FoundClosed \/ UNCHANGED breaker
  PROVE  /\ failures' \in 0..FailuresToOpen
         /\ opened' \in {Never} \union 0..OpenTTL
         /\ CountWhenOpened'
<1> /\ failures \in 0..FailuresToOpen /\ opened \in {Never} \union 0..OpenTTL
    /\ opened # Never => failures = FailuresToOpen
  BY DEF IInv, TypeOK, CountWhenOpened
<1>1. CASE RecordFailure \/ FailsAfter(0, Never)
  BY <1>1, FailsAfterKeeps, Numbers DEF RecordFailure
<1>2. CASE RecordSuccess \/ FoundClosed \/ UNCHANGED breaker
  BY <1>2, Numbers DEF RecordSuccess, FoundClosed, breaker, CountWhenOpened
<1> QED
  BY <1>1, <1>2

\* A set that is kept stays accounted for, and nothing kept before is forgotten
\* silently.
LEMMA KeepKeeps ==
  ASSUME TypeOK, NEW b \in SUBSET Uses, Keep(b)
  PROVE  /\ kept' \in [now : SUBSET Uses, before : SUBSET Uses]
         /\ lost' \subseteq Uses
         /\ b \subseteq Kept' \union lost'
         /\ Kept \subseteq Kept' \union lost'
         /\ lost \subseteq lost'
         /\ Kept' \subseteq Kept \union b
  BY DEF TypeOK, Keep, Kept

\* A reply that is a taken batch counts each of its records once more.
LEMMA TakenInCounts ==
  ASSUME IInv, NEW c \in Callers, pc[c] = "calling", PerhapsTakenIn(c)
  PROVE  /\ received' \in [Uses -> 0..MaxRetries]
         /\ \A u \in Uses : received[u] <= received'[u]
         /\ \A u \in Uses : u \notin batch => received'[u] = received[u]
         /\ \A u \in batch : received'[u] <= attempt[holder]
         /\ TakenIn(c) /\ c \in Uses => \A u \in batch : received'[u] > 0
<1> USE Numbers
<1> /\ received \in [Uses -> 0..MaxRetries] /\ batch \subseteq Uses
    /\ attempt \in [Callers -> 0..MaxRetries]
    /\ \A u \in batch : received[u] <= attempt[holder]
  BY DEF IInv, TypeOK, Attempts
<1>1. ASSUME c \in Uses PROVE holder = c
  BY <1>1 DEF IInv, LockHasWorker
<1>2. ASSUME c \in Uses, NEW u \in batch
      PROVE  /\ received[u] + 1 \in 0..MaxRetries
             /\ received[u] + 1 <= attempt[holder]
             /\ received[u] + 1 > 0
  BY <1>1, <1>2 DEF IInv, Attempts, Callers
<1>3. CASE UNCHANGED received
  <2>1. ASSUME TakenIn(c), c \in Uses, NEW u \in batch PROVE FALSE
    BY <1>2, <1>3, <2>1, ConstantsAssumption DEF TakenIn
  <2> QED
    BY <1>3, <2>1
<1>4. CASE TakenIn(c)
  <2>1. CASE c \in Looks
    BY <2>1, <1>4, ConstantsAssumption DEF TakenIn
  <2>2. CASE c \notin Looks
    <3>1. c \in Uses
      BY <2>2 DEF Callers
    <3> QED
      BY <2>2, <3>1, <1>2, <1>4 DEF TakenIn
  <2> QED
    BY <2>1, <2>2
<1> QED
  BY <1>3, <1>4 DEF PerhapsTakenIn

-----------------------------------------------------------------------------
(* Each action keeps the invariant. *)

LEMMA EndsKeeps ==
  ASSUME IInv, NEW c \in Callers, NEW success \in BOOLEAN, Ends(c, success),
         \/ pc[c] = "calling" /\ PerhapsTakenIn(c) /\ (success => TakenIn(c))
         \/ pc[c] = "rested" /\ ~success /\ UNCHANGED received,
         \/ RecordSuccess \/ RecordFailure \/ FailsAfter(0, Never) \/ UNCHANGED breaker
  PROVE  IInv'
<1> USE ConstantsAssumption, Numbers
<1>0. /\ TypeOK /\ LockHasWorker /\ SubmittedOnce /\ Accounted
      /\ Attempts /\ BatchHasHolder /\ Fresh /\ CountWhenOpened /\ Sizes
  BY DEF IInv
<1>1. /\ received' \in [Uses -> 0..MaxRetries]
      /\ \A u \in Uses : received[u] <= received'[u]
      /\ \A u \in Uses : u \notin batch => received'[u] = received[u]
      /\ \A u \in batch : received'[u] <= attempt[holder]
      /\ success /\ c \in Uses => \A u \in batch : received'[u] > 0
  <2>1. CASE pc[c] = "calling"
    BY <2>1, TakenInCounts
  <2>2. CASE pc[c] = "rested"
    BY <2>2, <1>0 DEF TypeOK, Attempts
  <2> QED
    BY <2>1, <2>2
<1>2. c \in Uses => holder = c
  BY <1>0 DEF LockHasWorker
<1>3. /\ pc' = [pc EXCEPT ![c] = "done"]
      /\ attempt' = [attempt EXCEPT ![c] = 0]
      /\ UNCHANGED <<queue, idle, stops>>
  BY DEF Ends, Moves
<1>4. /\ kept' \in [now : SUBSET Uses, before : SUBSET Uses]
      /\ lost' \subseteq Uses /\ lost \subseteq lost'
      /\ Kept \subseteq Kept' \union lost'
      /\ Kept' \subseteq Kept \union batch
  BY <1>0, KeepKeeps DEF Ends, TypeOK, Kept
<1>5. \/ c \in Looks /\ UNCHANGED <<holder, batch, kept, lost>>
      \/ c \in Uses /\ holder' = Nobody /\ batch' = {}
  BY DEF Ends
<1>6. TypeOK'
  BY <1>0, <1>1, <1>3, <1>4, <1>5, BreakerKeeps DEF TypeOK, Places
<1>7. LockHasWorker'
  <2>1. CASE c \in Looks
    BY <1>0, <1>3, <1>5, <2>1 DEF LockHasWorker, TypeOK, Callers
  <2>2. CASE c \in Uses
    BY <1>0, <1>2, <1>3, <1>5, <2>2 DEF LockHasWorker, TypeOK, Callers
  <2> QED
    BY <2>1, <2>2 DEF Callers
<1>8. SubmittedOnce'
  <2>1. ASSUME NEW u \in queue'
        PROVE  received'[u] = 0 /\ u \notin batch' /\ u \notin Kept'
    <3>1. u \in queue /\ u \in Uses /\ received[u] = 0 /\ u \notin batch /\ u \notin Kept
      BY <1>0, <1>3, <2>1 DEF SubmittedOnce, TypeOK
    <3> QED
      BY <1>1, <1>4, <1>5, <3>1
  <2>2. batch' \intersect Kept' = {}
    BY <1>0, <1>5 DEF SubmittedOnce, Kept
  <2> QED
    BY <2>1, <2>2 DEF SubmittedOnce
<1>9. Accounted'
  <2> SUFFICES ASSUME NEW u \in Uses, pc'[u] = "done"
               PROVE  u \in queue' \union batch' \union Kept' \union lost' \/ received'[u] > 0
    BY DEF Accounted
  <2>1. u \in batch \/ u \in queue \union Kept \union lost \/ received[u] > 0
    <3>1. CASE u = c
      BY <1>0, <1>2, <3>1 DEF LockHasWorker
    <3>2. CASE u # c
      BY <1>0, <1>3, <3>2 DEF Accounted, TypeOK, Callers
    <3> QED
      BY <3>1, <3>2
  <2>2. CASE u \in batch
    <3>1. CASE c \in Looks
      BY <1>5, <2>2, <3>1
    <3>2. CASE c \in Uses /\ success
      BY <1>1, <2>2, <3>2
    <3>3. CASE c \in Uses /\ ~success
      <4>1. Keep(batch)
        BY <3>3 DEF Ends
      <4> QED
        BY <1>0, <2>2, <4>1, KeepKeeps DEF TypeOK
    <3> QED
      BY <3>1, <3>2, <3>3 DEF Callers
  <2>3. CASE u \in queue \union Kept \union lost
    BY <1>3, <1>4, <2>3
  <2>4. CASE received[u] > 0
    BY <1>0, <1>1, <2>4 DEF TypeOK
  <2> QED
    BY <2>1, <2>2, <2>3, <2>4
<1>10. Attempts'
  <2>1. ASSUME NEW d \in Callers, pc'[d] \in Busy PROVE attempt'[d] \in 1..MaxRetries
    BY <1>0, <1>3, <2>1 DEF Attempts, Busy, TypeOK
  <2>2. ASSUME NEW u \in batch'
        PROVE  /\ received'[u] <= attempt'[holder']
               /\ pc'[holder'] = "calling" => received'[u] < attempt'[holder']
    <3>1. c \in Looks /\ c \notin Uses /\ batch' = batch /\ holder' = holder
      BY <1>5, <2>2
    <3>2. received' = received
      BY <3>1 DEF TakenIn, PerhapsTakenIn
    <3>3. holder \in Uses
      BY <1>0, <2>2, <3>1 DEF BatchHasHolder, TypeOK
    <3>4. attempt'[holder] = attempt[holder] /\ pc'[holder] = pc[holder]
      BY <1>0, <1>3, <3>1, <3>3 DEF TypeOK, Callers
    <3> QED
      BY <1>0, <2>2, <3>1, <3>2, <3>4 DEF Attempts
  <2> QED
    BY <2>1, <2>2 DEF Attempts
<1>11. BatchHasHolder'
  BY <1>0, <1>5 DEF BatchHasHolder
<1>12. Fresh'
  <2> SUFFICES ASSUME NEW u \in Uses, pc'[u] \in {"new", "lock"}
               PROVE  u \notin queue' /\ u \notin batch' /\ u \notin Kept' /\ received'[u] = 0
    BY DEF Fresh
  <2>1. pc[u] \in {"new", "lock"}
    BY <1>0, <1>3 DEF TypeOK, Callers
  <2>2. u \notin queue /\ u \notin batch /\ u \notin Kept /\ received[u] = 0
    BY <1>0, <2>1 DEF Fresh
  <2> QED
    BY <1>1, <1>3, <1>4, <1>5, <2>2
<1>13. CountWhenOpened'
  BY BreakerKeeps
<1>14. Sizes'
  BY <1>0, <1>3, <1>5, FS_EmptySet DEF Sizes, BatchesAreSmall
<1> QED
  BY <1>6, <1>7, <1>8, <1>9, <1>10, <1>11, <1>12, <1>13, <1>14 DEF IInv

LEMMA DelaysKeeps ==
  ASSUME IInv, NEW c \in Callers, pc[c] = "calling", PerhapsTakenIn(c),
         NEW place \in {"delay", "rested"}, Delays(c, place),
         RecordFailure \/ UNCHANGED breaker
  PROVE  IInv'
<1> USE ConstantsAssumption, Numbers
<1>0. /\ TypeOK /\ LockHasWorker /\ SubmittedOnce /\ Accounted
      /\ Attempts /\ BatchHasHolder /\ Fresh /\ CountWhenOpened /\ Sizes
  BY DEF IInv
<1>1. /\ received' \in [Uses -> 0..MaxRetries]
      /\ \A u \in Uses : received[u] <= received'[u]
      /\ \A u \in Uses : u \notin batch => received'[u] = received[u]
      /\ \A u \in batch : received'[u] <= attempt[holder]
  BY TakenInCounts
<1>2. c \in Uses => holder = c
  BY <1>0 DEF LockHasWorker
<1>3. /\ pc' = [pc EXCEPT ![c] = place]
      /\ UNCHANGED <<queue, holder, batch, idle, attempt, kept, lost, stops>>
  BY DEF Delays, Moves
<1>4. TypeOK'
  BY <1>0, <1>1, <1>3, BreakerKeeps DEF TypeOK, Places
<1>5. LockHasWorker'
  BY <1>0, <1>3 DEF LockHasWorker, TypeOK, Callers
<1>6. SubmittedOnce'
  BY <1>0, <1>1, <1>3 DEF SubmittedOnce, TypeOK, Kept
<1>7. Accounted'
  BY <1>0, <1>1, <1>3 DEF Accounted, TypeOK, Kept, Callers
<1>8. Attempts'
  <2>1. ASSUME NEW d \in Callers, pc'[d] \in Busy PROVE attempt'[d] \in 1..MaxRetries
    BY <1>0, <1>3, <2>1 DEF Attempts, Busy, TypeOK
  <2>2. ASSUME NEW u \in batch', pc'[holder'] = "calling"
        PROVE  received'[u] < attempt'[holder']
    <3>1. holder \in Uses
      BY <1>0, <1>3, <2>2 DEF BatchHasHolder, TypeOK
    <3>2. holder # c /\ pc[holder] = "calling"
      BY <1>0, <1>3, <2>2, <3>1 DEF TypeOK, Callers
    <3>3. c \in Looks
      BY <1>2, <3>2 DEF Callers
    <3>4. received' = received
      BY <3>3 DEF TakenIn, PerhapsTakenIn
    <3> QED
      BY <1>0, <1>3, <2>2, <3>2, <3>4 DEF Attempts
  <2> QED
    BY <1>1, <1>3, <2>1, <2>2 DEF Attempts
<1>9. Fresh'
  <2> SUFFICES ASSUME NEW u \in Uses, pc'[u] \in {"new", "lock"}
               PROVE  u \notin queue' /\ u \notin batch' /\ u \notin Kept' /\ received'[u] = 0
    BY DEF Fresh
  <2>1. pc[u] \in {"new", "lock"}
    BY <1>0, <1>3 DEF TypeOK, Callers
  <2> QED
    BY <1>0, <1>1, <1>3, <2>1 DEF Fresh, Kept
<1>10. BatchHasHolder' /\ CountWhenOpened' /\ Sizes'
  BY <1>0, <1>3, BreakerKeeps DEF BatchHasHolder, Sizes, BatchesAreSmall
<1> QED
  BY <1>4, <1>5, <1>6, <1>7, <1>8, <1>9, <1>10 DEF IInv

LEMMA ReplyKeeps ==
  ASSUME IInv, NEW c \in Callers, Reply(c)
  PROVE  IInv'
<1>1. CASE Accepted(c)
  BY <1>1, EndsKeeps DEF Accepted, PerhapsTakenIn
<1>2. CASE Garbled(c)
  BY <1>2, EndsKeeps DEF Garbled, PerhapsTakenIn
<1>3. CASE Throttled(c)
  BY <1>3, DelaysKeeps DEF Throttled, PerhapsTakenIn
<1>4. CASE Failed(c)
  BY <1>4, DelaysKeeps DEF Failed
<1>5. CASE Refused(c)
  BY <1>5, EndsKeeps DEF Refused, PerhapsTakenIn
<1>6. CASE Broken(c)
  BY <1>6, EndsKeeps DEF Broken
<1> QED
  BY <1>1, <1>2, <1>3, <1>4, <1>5, <1>6 DEF Reply

LEMMA RetryKeeps ==
  ASSUME IInv, NEW c \in Callers, Retry(c)
  PROVE  IInv'
<1> USE ConstantsAssumption, Numbers
<1>0. /\ TypeOK /\ LockHasWorker /\ SubmittedOnce /\ Accounted
      /\ Attempts /\ BatchHasHolder /\ Fresh /\ CountWhenOpened /\ Sizes
  BY DEF IInv
<1>1. CASE Ends(c, FALSE) /\ UNCHANGED <<breaker, received>>
  BY <1>1, EndsKeeps DEF Retry
<1>2. CASE /\ attempt[c] < MaxRetries
           /\ Moves(c, "calling")
           /\ attempt' = [attempt EXCEPT ![c] = @ + 1]
           /\ UNCHANGED <<queue, holder, batch, idle, breaker, account, stops>>
  <2>1. /\ pc[c] = "rested" /\ pc' = [pc EXCEPT ![c] = "calling"]
        /\ UNCHANGED <<queue, holder, batch, idle, failures, opened, kept, received,
                       lost, stops>>
    BY <1>2 DEF Retry, Moves, account, breaker
  <2>2. attempt[c] + 1 \in 1..MaxRetries
    BY <1>0, <1>2 DEF TypeOK
  <2>3. TypeOK'
    BY <1>0, <1>2, <2>1, <2>2 DEF TypeOK, Places
  <2>4. LockHasWorker'
    BY <1>0, <2>1 DEF LockHasWorker, TypeOK, Callers
  <2>5. SubmittedOnce' /\ BatchHasHolder' /\ CountWhenOpened' /\ Sizes'
    BY <1>0, <2>1 DEF SubmittedOnce, Kept, BatchHasHolder, CountWhenOpened, Sizes,
                      BatchesAreSmall
  <2>6. Accounted' /\ Fresh'
    BY <1>0, <2>1 DEF Accounted, Fresh, TypeOK, Kept, Callers
  <2>7. Attempts'
    <3>1. ASSUME NEW d \in Callers, pc'[d] \in Busy PROVE attempt'[d] \in 1..MaxRetries
      BY <1>0, <1>2, <2>1, <2>2, <3>1 DEF Attempts, Busy, TypeOK
    <3>2. ASSUME NEW u \in batch'
          PROVE  /\ received'[u] <= attempt'[holder']
                 /\ pc'[holder'] = "calling" => received'[u] < attempt'[holder']
      <4>1. holder \in Uses /\ u \in batch /\ u \in Uses
        BY <1>0, <2>1, <3>2 DEF BatchHasHolder, TypeOK
      <4>2. CASE holder = c
        BY <1>0, <1>2, <2>1, <2>2, <4>1, <4>2 DEF Attempts, TypeOK
      <4>3. CASE holder # c
        BY <1>0, <1>2, <2>1, <4>1, <4>3 DEF Attempts, TypeOK, Callers
      <4> QED
        BY <4>2, <4>3
    <3> QED
      BY <3>1, <3>2 DEF Attempts
  <2> QED
    BY <2>3, <2>4, <2>5, <2>6, <2>7 DEF IInv
<1> QED
  BY <1>1, <1>2 DEF Retry

LEMMA FinishedKeeps ==
  ASSUME IInv, NEW v \in Uses, Finished(v)
  PROVE  IInv'
<1> USE ConstantsAssumption
<1>0. /\ TypeOK /\ LockHasWorker /\ SubmittedOnce /\ Accounted
      /\ Attempts /\ BatchHasHolder /\ Fresh /\ CountWhenOpened /\ Sizes
  BY DEF IInv
<1>1. /\ pc[v] = "new" /\ pc' = [pc EXCEPT ![v] = "lock"]
      /\ UNCHANGED <<queue, holder, batch, idle, failures, opened, attempt, kept,
                     received, lost, stops>>
  BY DEF Finished, Moves, account, breaker
<1>2. TypeOK'
  BY <1>0, <1>1 DEF TypeOK, Places
<1>3. LockHasWorker'
  BY <1>0, <1>1 DEF LockHasWorker, TypeOK, Callers
<1>4. SubmittedOnce' /\ BatchHasHolder' /\ CountWhenOpened' /\ Sizes'
  BY <1>0, <1>1 DEF SubmittedOnce, Kept, BatchHasHolder, CountWhenOpened, Sizes,
                    BatchesAreSmall
<1>5. Accounted' /\ Fresh'
  BY <1>0, <1>1 DEF Accounted, Fresh, TypeOK, Kept, Callers
<1>6. Attempts'
  BY <1>0, <1>1 DEF Attempts, Busy, TypeOK, Callers
<1> QED
  BY <1>2, <1>3, <1>4, <1>5, <1>6 DEF IInv

\* A record that is appended, and no more.
LEMMA AppendKeeps ==
  ASSUME IInv, NEW v \in Uses, pc[v] = "lock", holder = Nobody,
         Cardinality(queue) + 1 < FlushAt,
         queue' = queue \union {v}, Moves(v, "done"),
         UNCHANGED <<holder, batch, idle, breaker, attempt, account, stops>>
  PROVE  IInv'
<1> USE ConstantsAssumption, Numbers
<1>0. /\ TypeOK /\ LockHasWorker /\ SubmittedOnce /\ Accounted
      /\ Attempts /\ BatchHasHolder /\ Fresh /\ CountWhenOpened /\ Sizes
  BY DEF IInv
<1>1. /\ pc' = [pc EXCEPT ![v] = "done"]
      /\ UNCHANGED <<holder, batch, idle, failures, opened, attempt, kept, received,
                     lost, stops>>
  BY DEF Moves, account, breaker
<1>2. v \notin queue /\ v \notin batch /\ v \notin Kept /\ received[v] = 0 /\ batch = {}
  BY <1>0 DEF Fresh, BatchHasHolder
<1>3. TypeOK'
  BY <1>0, <1>1 DEF TypeOK, Places
<1>4. LockHasWorker'
  BY <1>0, <1>1 DEF LockHasWorker, TypeOK, Callers
<1>5. SubmittedOnce'
  BY <1>0, <1>1, <1>2 DEF SubmittedOnce, Kept
<1>6. Accounted' /\ Fresh'
  BY <1>0, <1>1 DEF Accounted, Fresh, TypeOK, Kept, Callers
<1>7. Attempts'
  BY <1>0, <1>1, <1>2 DEF Attempts, Busy, TypeOK, Callers
<1>8. Sizes'
  <2>1. /\ IsFiniteSet(queue')
        /\ Cardinality(queue') = Cardinality(queue) + 1
    BY <1>0, <1>2, FS_AddElement DEF Sizes
  <2> QED
    BY <1>0, <1>1, <2>1 DEF Sizes, BatchesAreSmall
<1> QED
  BY <1>0, <1>1, <1>3, <1>4, <1>5, <1>6, <1>7, <1>8
     DEF IInv, BatchHasHolder, CountWhenOpened

\* A batch is one record more than the queue was.
LEMMA BatchOfQueue ==
  ASSUME IInv, NEW v \in Uses, pc[v] = "lock"
  PROVE  /\ IsFiniteSet(queue \union {v})
         /\ Cardinality(queue \union {v}) <= FlushAt
         /\ Cardinality({}) < FlushAt /\ IsFiniteSet({})
         /\ v \notin queue /\ v \notin batch /\ v \notin Kept /\ received[v] = 0
         /\ \A u \in queue : received[u] = 0 /\ u \notin batch /\ u \notin Kept
         /\ queue \union {v} \subseteq Uses
<1>1. IsFiniteSet(queue) /\ Cardinality(queue) < FlushAt /\ queue \subseteq Uses
  BY DEF IInv, Sizes, BatchesAreSmall, TypeOK
<1>2. v \notin queue /\ v \notin batch /\ v \notin Kept /\ received[v] = 0
  BY DEF IInv, Fresh
<1>3. /\ IsFiniteSet(queue \union {v})
      /\ Cardinality(queue \union {v}) = Cardinality(queue) + 1
      /\ Cardinality(queue) \in Nat
  BY <1>1, <1>2, FS_AddElement, FS_CardinalityType
<1>4. \A u \in queue : received[u] = 0 /\ u \notin batch /\ u \notin Kept
  BY DEF IInv, SubmittedOnce
<1> QED
  BY <1>1, <1>2, <1>3, <1>4, FS_EmptySet, Numbers

LEMMA SubmitKeeps ==
  ASSUME IInv, NEW v \in Uses, pc[v] = "lock", holder = Nobody, Submit(v)
  PROVE  IInv'
<1> USE ConstantsAssumption, Numbers
<1>0. /\ TypeOK /\ LockHasWorker /\ SubmittedOnce /\ Accounted
      /\ Attempts /\ BatchHasHolder /\ Fresh /\ CountWhenOpened /\ Sizes
  BY DEF IInv
<1>1. /\ pc' = [pc EXCEPT ![v] = "calling"]
      /\ attempt' = [attempt EXCEPT ![v] = 1]
      /\ holder' = v /\ batch' = queue \union {v} /\ queue' = {} /\ idle' = 0
      /\ UNCHANGED <<kept, received, lost, stops>>
  BY DEF Submit, Moves, account
<1>2. batch = {} /\ (\A u \in Uses : pc[u] \notin Busy)
  BY <1>0 DEF BatchHasHolder, LockHasWorker, Busy
<1>3. /\ failures' \in 0..FailuresToOpen
      /\ opened' \in {Never} \union 0..OpenTTL
      /\ CountWhenOpened'
  BY BreakerKeeps DEF Submit
<1>4. /\ IsFiniteSet(batch') /\ Cardinality(batch') <= FlushAt
      /\ IsFiniteSet(queue') /\ Cardinality(queue') < FlushAt
      /\ \A u \in batch' : received[u] = 0 /\ u \notin Kept /\ u \in Uses
      /\ batch' \subseteq Uses
  BY <1>1, BatchOfQueue
<1>5. TypeOK'
  BY <1>0, <1>1, <1>3, <1>4 DEF TypeOK, Places, Callers
<1>6. LockHasWorker'
  BY <1>0, <1>1, <1>2 DEF LockHasWorker, TypeOK, Callers, Busy
<1>7. SubmittedOnce'
  BY <1>1, <1>4 DEF SubmittedOnce, Kept
<1>8. Accounted'
  BY <1>0, <1>1, <1>2 DEF Accounted, TypeOK, Kept, Callers
<1>9. Attempts'
  BY <1>0, <1>1, <1>4 DEF Attempts, Busy, TypeOK, Callers
<1>10. Fresh'
  BY <1>0, <1>1 DEF Fresh, TypeOK, Kept, Callers
<1>11. BatchHasHolder' /\ Sizes'
  BY <1>1, <1>4 DEF BatchHasHolder, Sizes, BatchesAreSmall
<1> QED
  BY <1>3, <1>5, <1>6, <1>7, <1>8, <1>9, <1>10, <1>11 DEF IInv

LEMMA WithheldKeeps ==
  ASSUME IInv, NEW v \in Uses, pc[v] = "lock", holder = Nobody, Withheld(v)
  PROVE  IInv'
<1> USE ConstantsAssumption, Numbers
<1>0. /\ TypeOK /\ LockHasWorker /\ SubmittedOnce /\ Accounted
      /\ Attempts /\ BatchHasHolder /\ Fresh /\ CountWhenOpened /\ Sizes
  BY DEF IInv
<1>1. /\ pc' = [pc EXCEPT ![v] = "done"]
      /\ queue' = {} /\ idle' = 0
      /\ UNCHANGED <<holder, batch, failures, opened, attempt, received, stops>>
  BY DEF Withheld, Moves, breaker
<1>2. batch = {}
  BY <1>0 DEF BatchHasHolder
<1>3. /\ IsFiniteSet(queue') /\ Cardinality(queue') < FlushAt
      /\ queue \union {v} \in SUBSET Uses
  BY <1>1, BatchOfQueue
<1>4. /\ kept' \in [now : SUBSET Uses, before : SUBSET Uses]
      /\ lost' \subseteq Uses
      /\ queue \union {v} \subseteq Kept' \union lost'
      /\ Kept \subseteq Kept' \union lost'
      /\ lost \subseteq lost'
      /\ Kept' \subseteq Kept \union queue \union {v}
  BY <1>0, <1>3, KeepKeeps DEF Withheld
<1>5. TypeOK'
  <2>1. pc' \in [Callers -> Places]
    BY <1>0, <1>1 DEF TypeOK, Places, Callers
  <2> QED
    BY <1>0, <1>1, <1>4, <2>1 DEF TypeOK
<1>6. LockHasWorker'
  BY <1>0, <1>1 DEF LockHasWorker, TypeOK, Callers
<1>7. SubmittedOnce' /\ BatchHasHolder' /\ CountWhenOpened'
  BY <1>0, <1>1, <1>2 DEF SubmittedOnce, BatchHasHolder, CountWhenOpened
<1>8. Accounted'
  BY <1>0, <1>1, <1>2, <1>4 DEF Accounted, TypeOK, Callers
<1>9. Attempts'
  BY <1>0, <1>1, <1>2 DEF Attempts, Busy, TypeOK, Callers
<1>10. Fresh'
  <2> SUFFICES ASSUME NEW u \in Uses, pc'[u] \in {"new", "lock"}
               PROVE  u \notin queue' /\ u \notin batch' /\ u \notin Kept' /\ received'[u] = 0
    BY DEF Fresh
  <2>1. u # v /\ pc[u] \in {"new", "lock"}
    BY <1>0, <1>1 DEF TypeOK, Callers
  <2> QED
    BY <1>0, <1>1, <1>4, <2>1 DEF Fresh
<1>11. Sizes'
  BY <1>0, <1>1, <1>3 DEF Sizes, BatchesAreSmall
<1> QED
  BY <1>5, <1>6, <1>7, <1>8, <1>9, <1>10, <1>11 DEF IInv

LEMMA RecordUsageKeeps ==
  ASSUME IInv, NEW v \in Uses, RecordUsage(v)
  PROVE  IInv'
  BY AppendKeeps, SubmitKeeps, WithheldKeeps DEF RecordUsage

LEMMA AskStatsKeeps ==
  ASSUME IInv, NEW c \in Looks, AskStats(c)
  PROVE  IInv'
<1> USE ConstantsAssumption, Numbers
<1>0. /\ TypeOK /\ LockHasWorker /\ SubmittedOnce /\ Accounted
      /\ Attempts /\ BatchHasHolder /\ Fresh /\ CountWhenOpened /\ Sizes
  BY DEF IInv
<1>1. /\ UNCHANGED <<queue, holder, batch, idle, kept, received, lost, stops>>
      /\ c \in Callers /\ c \notin Uses
  BY DEF AskStats, account, Callers
<1>2. \/ pc' = [pc EXCEPT ![c] = "calling"] /\ attempt' = [attempt EXCEPT ![c] = 1]
      \/ pc' = [pc EXCEPT ![c] = "done"] /\ attempt' = attempt
  BY DEF AskStats, Moves
<1>3. /\ failures' \in 0..FailuresToOpen
      /\ opened' \in {Never} \union 0..OpenTTL
      /\ CountWhenOpened'
  BY BreakerKeeps DEF AskStats
<1>4. \A u \in Uses : pc'[u] = pc[u] /\ attempt'[u] = attempt[u]
  BY <1>0, <1>1, <1>2 DEF TypeOK, Callers
<1>5. TypeOK'
  BY <1>0, <1>1, <1>2, <1>3 DEF TypeOK, Places
<1>6. LockHasWorker'
  BY <1>0, <1>1, <1>4 DEF LockHasWorker, TypeOK
<1>7. SubmittedOnce' /\ BatchHasHolder' /\ Sizes'
  BY <1>0, <1>1 DEF SubmittedOnce, Kept, BatchHasHolder, Sizes, BatchesAreSmall
<1>8. Accounted' /\ Fresh'
  BY <1>0, <1>1, <1>4 DEF Accounted, Fresh, Kept
<1>9. Attempts'
  <2>1. ASSUME NEW d \in Callers, pc'[d] \in Busy PROVE attempt'[d] \in 1..MaxRetries
    BY <1>0, <1>1, <1>2, <2>1 DEF Attempts, Busy, TypeOK
  <2>2. batch # {} => holder \in Uses
    BY <1>0 DEF BatchHasHolder, TypeOK
  <2> QED
    BY <1>0, <1>1, <1>4, <2>1, <2>2 DEF Attempts
<1> QED
  BY <1>3, <1>5, <1>6, <1>7, <1>8, <1>9 DEF IInv

LEMMA TickKeeps ==
  ASSUME IInv, Tick
  PROVE  IInv'
<1> USE ConstantsAssumption, Numbers
<1>0. /\ TypeOK /\ LockHasWorker /\ SubmittedOnce /\ Accounted
      /\ Attempts /\ BatchHasHolder /\ Fresh /\ CountWhenOpened /\ Sizes
  BY DEF IInv
<1>1. /\ pc' = [c \in Callers |-> IF pc[c] = "delay" THEN "rested" ELSE pc[c]]
      /\ kept' = [now |-> {}, before |-> kept.before \union kept.now]
      /\ UNCHANGED <<queue, holder, batch, failures, attempt, received, lost, stops>>
  BY DEF Tick
<1>2. Kept' = Kept
  BY <1>1 DEF Kept
<1>3. idle' \in 0..FlushAfter
  BY <1>0 DEF Tick, Older, TypeOK
<1>4. opened' \in {Never} \union 0..OpenTTL /\ (opened' # Never => opened # Never)
  BY <1>0 DEF Tick, Older, TypeOK
<1>5. \A c \in Callers :
          /\ pc'[c] \in Busy <=> pc[c] \in Busy
          /\ pc'[c] \notin Busy => pc'[c] = pc[c]
          /\ pc'[c] = "calling" <=> pc[c] = "calling"
          /\ pc'[c] \in Places
  BY <1>0, <1>1 DEF TypeOK, Busy, Places
<1>6. TypeOK'
  BY <1>0, <1>1, <1>3, <1>4, <1>5 DEF TypeOK
<1>7. LockHasWorker'
  <2>1. \A u \in Uses : pc[u] \in Busy => holder = u
    BY <1>0 DEF LockHasWorker, Busy
  <2>2. holder # Nobody => holder \in Uses /\ pc[holder] \in Busy /\ holder \in batch
    BY <1>0 DEF LockHasWorker, Busy, TypeOK
  <2> QED
    BY <1>1, <1>5, <2>1, <2>2 DEF LockHasWorker, Busy, Callers
<1>8. SubmittedOnce' /\ BatchHasHolder' /\ CountWhenOpened' /\ Sizes'
  BY <1>0, <1>1, <1>2, <1>4 DEF SubmittedOnce, BatchHasHolder, CountWhenOpened, Sizes,
                                BatchesAreSmall
<1>9. Accounted' /\ Fresh'
  BY <1>0, <1>1, <1>2, <1>5 DEF Accounted, Fresh, Callers, Busy
<1>10. Attempts'
  <2>1. batch # {} => holder \in Callers
    BY <1>0 DEF BatchHasHolder, TypeOK, Callers
  <2> QED
    BY <1>0, <1>1, <1>5, <2>1 DEF Attempts
<1> QED
  BY <1>6, <1>7, <1>8, <1>9, <1>10 DEF IInv

LEMMA StopKeeps ==
  ASSUME IInv, Stop
  PROVE  IInv'
<1> USE ConstantsAssumption, Numbers
<1>0. /\ TypeOK /\ SubmittedOnce /\ Accounted /\ Fresh
  BY DEF IInv
<1> DEFINE ended == {c \in Callers : pc[c] \notin {"new", "done"}}
<1>1. /\ stops < MaxStops /\ stops' = stops + 1
      /\ pc' = [c \in Callers |-> IF c \in ended THEN "gone" ELSE pc[c]]
      /\ lost' = lost \union queue \union batch \union (ended \intersect Uses)
      /\ attempt' = [c \in Callers |-> 0]
      /\ queue' = {} /\ holder' = Nobody /\ batch' = {} /\ idle' = 0
      /\ failures' = 0 /\ opened' = Never
      /\ UNCHANGED <<kept, received>>
  BY DEF Stop
<1>2. \A c \in Callers :
          /\ pc'[c] \in {"new", "done", "gone"}
          /\ pc'[c] \in {"new", "done"} => pc'[c] = pc[c]
  BY <1>0, <1>1
<1>3. TypeOK'
  BY <1>0, <1>1, <1>2 DEF TypeOK, Places
<1>4. LockHasWorker' /\ BatchHasHolder' /\ CountWhenOpened'
  BY <1>1, <1>2 DEF LockHasWorker, BatchHasHolder, CountWhenOpened, Callers
<1>5. SubmittedOnce'
  BY <1>1 DEF SubmittedOnce
<1>6. Accounted'
  BY <1>0, <1>1, <1>2 DEF Accounted, Kept, Callers
<1>7. Fresh'
  BY <1>0, <1>1, <1>2 DEF Fresh, Kept, Callers
<1>8. Attempts'
  BY <1>1, <1>2 DEF Attempts, Busy
<1>9. Sizes'
  BY <1>1, FS_EmptySet DEF Sizes, BatchesAreSmall
<1> QED
  BY <1>3, <1>4, <1>5, <1>6, <1>7, <1>8, <1>9 DEF IInv

LEMMA NextIInv == IInv /\ [Next]_vars => IInv'
<1> SUFFICES ASSUME IInv, [Next]_vars PROVE IInv'
  OBVIOUS
<1>1. ASSUME NEW u \in Uses, Finished(u) \/ RecordUsage(u) PROVE IInv'
  BY <1>1, FinishedKeeps, RecordUsageKeeps
<1>2. ASSUME NEW c \in Looks, AskStats(c) PROVE IInv'
  BY <1>2, AskStatsKeeps
<1>3. ASSUME NEW c \in Callers, Step(c) PROVE IInv'
  BY <1>3, ReplyKeeps, RetryKeeps DEF Step
<1>4. CASE Tick
  BY <1>4, TickKeeps
<1>5. CASE Stop
  BY <1>5, StopKeeps
<1>6. CASE UNCHANGED vars
  BY <1>6 DEF vars, breaker, account, IInv, TypeOK, LockHasWorker, SubmittedOnce,
              Accounted, Attempts, BatchHasHolder, Fresh, CountWhenOpened, Sizes,
              BatchesAreSmall, Kept
<1> QED
  BY <1>1, <1>2, <1>3, <1>4, <1>5, <1>6 DEF Next

\* The invariant holds in every state that the specification reaches.
THEOREM InvariantHolds == Spec => []IInv
<1>1. Init => IInv
  BY InitIInv
<1>2. IInv /\ [Next]_vars => IInv'
  BY NextIInv
<1> QED
  BY <1>1, <1>2, PTL DEF Spec

-----------------------------------------------------------------------------
(* The theorems. *)

\* The variables keep their types: no attempt beyond the last, no count of receipts
\* beyond the attempts, no batch that is not made of uses.
THEOREM UsageTypeCorrect == Spec => []TypeOK
<1>1. IInv => TypeOK
  BY DEF IInv
<1> QED
  BY <1>1, InvariantHolds, PTL

\* However calls, seconds and stops are interleaved, a record that has been sent or
\* set aside is never in the queue again (_flush_usage_queue under _usage_queue_lock).
THEOREM RecordsAreSubmittedOnce == Spec => []SubmittedOnce
<1>1. IInv => SubmittedOnce
  BY DEF IInv
<1> QED
  BY <1>1, InvariantHolds, PTL

\* A use that record_usage has answered for is queued, in the batch at work, received
\* or kept, unless a stop, Redis or an overwritten key lost it.
THEOREM RecordsAreAccounted == Spec => []Accounted
<1>1. IInv => Accounted
  BY DEF IInv
<1> QED
  BY <1>1, InvariantHolds, PTL

\* The queue stays below FlushAt and a batch never exceeds it, for any number of
\* callers that wait for the lock.
THEOREM BatchesStaySmall == Spec => []BatchesAreSmall
<1>1. IInv => BatchesAreSmall
  BY DEF IInv, Sizes
<1> QED
  BY <1>1, InvariantHolds, PTL

\* The breaker that all calls share is open only after FailuresToOpen failures with
\* no success in between, even when calls that began earlier end late.
THEOREM BreakerOpensForCause == Spec => []OpenForCause
<1>1. IInv => OpenForCause
  BY Numbers DEF IInv, TypeOK, CountWhenOpened, Open, OpenForCause
<1> QED
  BY <1>1, InvariantHolds, PTL

\* The lock of the queue is never left with a caller that is not at work on a batch.
THEOREM LockIsNeverOrphaned == Spec => []LockHasWorker
<1>1. IInv => LockHasWorker
  BY DEF IInv
<1> QED
  BY <1>1, InvariantHolds, PTL
=============================================================================
