------------------------- MODULE RateSchedulerProofs -------------------------
(***************************************************************************)
(* The proof that RateScheduler keeps every name within its limit, for any *)
(* buckets, requests, limits and clock, as long as no bucket is dropped    *)
(* before it is full.                                                      *)
(*                                                                         *)
(* That the ideal bucket is never overdrawn is not inductive: a bucket may *)
(* have been created with less than the limit, and dropped when full.  The *)
(* invariant compares what is missing: the ideal bucket never misses more  *)
(* of its fill than the real one does of its own.                          *)
(*                                                                         *)
(* And that the clean-up drops full buckets only: a bucket holds at least  *)
(* what has come in since its last access, or it is full (Rested).         *)
(*                                                                         *)
(* And that the order of the buckets is that of their last accesses        *)
(* (Ordered).  Between get_or_create_bucket and consume it is not: the     *)
(* bucket in the last place is still as old as it was (Latest).            *)
(***************************************************************************)
EXTENDS RateScheduler, TLAPS

LEMMA FullNat ==
    ASSUME NEW q \in Nat
    PROVE  Full(q) \in Nat
BY SchedulerAssumption DEF Full

LEMMA FullGrows ==
    ASSUME NEW q \in Nat, NEW p \in Nat, q <= p
    PROVE  Full(q) <= Full(p)
<1>1. Second \in Nat
  BY SchedulerAssumption
<1>2. PICK d \in Nat : p = q + d
  <2>1. p - q \in Nat /\ p = q + (p - q)
    OBVIOUS
  <2> QED BY <2>1
<1>3. p * Second = q * Second + d * Second /\ d * Second \in Nat /\ q * Second \in Nat
  BY <1>1, <1>2
<1> QED BY <1>3 DEF Full

LEMMA RestFills ==
    ASSUME NEW q \in Nat, NEW t \in Nat, NEW a \in 0..TTL + 1, NEW full \in Nat,
           t <= full, t = full \/ a * q <= t
    PROVE  LET u == AtMost(t + q, full) IN u = full \/ AtMost(a + 1, TTL + 1) * q <= u
<1>1. a \in Nat /\ TTL \in Nat
  BY SchedulerAssumption
<1>2. a * q \in Nat /\ (a + 1) * q = a * q + q
  BY <1>1
<1>3. CASE t = full \/ full <= t + q
  BY <1>3 DEF AtMost
<1>4. CASE a * q <= t /\ t + q < full
  <2>1. AtMost(t + q, full) = t + q
    BY <1>4 DEF AtMost
  <2>2. AtMost(a + 1, TTL + 1) = a + 1 \/ AtMost(a + 1, TTL + 1) = a
    BY <1>1 DEF AtMost
  <2> QED BY <1>2, <1>4, <2>1, <2>2
<1> QED BY <1>3, <1>4

LEMMA ConstantTypes ==
    /\ Cost \in Nat \ {0}
    /\ \A n \in Names : Limit[n] \in Nat /\ Full(Limit[n]) \in Nat
    /\ None \notin Names /\ None \notin Buckets
    /\ \A r \in Requests, kind \in Kinds :
          /\ r[kind].bucket \in Names \union {None} /\ r[kind].qps \in Nat
          /\ r[kind].bucket # None => r[kind].qps <= Limit[r[kind].bucket]
BY SchedulerAssumption, FullNat DEF Asks

\* The state of a request is the record of its four parts.
IsState(S) == S = [buckets |-> S.buckets, order |-> S.order, lost |-> S.lost, ok |-> S.ok]

\* The ideal bucket of n, less the token of a request that has taken those of the
\* buckets in A and is still under way.
Due(n, A) == IF n \in A THEN ideal[n] - Cost ELSE ideal[n]

\* What bucket b of n misses is at least what the ideal one does; a bucket that
\* does not exist misses nothing.
Backed(n, b, A) ==
    IF b = None THEN ideal[n] = Full(Limit[n]) /\ n \notin A
    ELSE Full(Limit[n]) - Due(n, A) <= Full(b.qps) - b.tokens

\* What has come in since the last access is still there, unless the bucket is full.
Rested(b) == b.tokens = Full(b.qps) \/ b.age * b.qps <= b.tokens

Sound(n, b) == b # None => b.tokens <= Full(b.qps) /\ b.qps <= Limit[n] /\ Rested(b)

Good(S, A) ==
    /\ IsState(S)
    /\ S.buckets \in [Names -> Buckets \union {None}]
    /\ \A n \in Names : Sound(n, S.buckets[n])
    /\ \A n \in Names : n \notin S.lost => Backed(n, S.buckets[n], A)

IdealOK == ideal \in [Names -> Int] /\ \A n \in Names : ideal[n] <= Full(Limit[n])

Now == [buckets |-> buckets, order |-> order, lost |-> lost, ok |-> TRUE]

\* The order lists each bucket that exists once.
Listed(S) ==
    /\ S.order \in Seq(Names) /\ Len(S.order) <= MaxBuckets /\ S.lost \subseteq Names
    /\ \A n \in Names : S.buckets[n] # None <=> \E i \in DOMAIN S.order : S.order[i] = n
    /\ \A i, j \in DOMAIN S.order : S.order[i] = S.order[j] => i = j

\* Before place l it is that of the last accesses.
InOrder(S, l) ==
    \A i, j \in DOMAIN S.order : i < j /\ j < l =>
        S.buckets[S.order[i]].age >= S.buckets[S.order[j]].age

Ordered(S) == Listed(S) /\ InOrder(S, Len(S.order) + 1)

\* Bucket n is in the last place.
Latest(S, n) ==
    Listed(S) /\ InOrder(S, Len(S.order)) /\ Len(S.order) > 0 /\ S.order[Len(S.order)] = n

IInv == IdealOK /\ Good(Now, {}) /\ Ordered(Now)

-----------------------------------------------------------------------------
(* One bucket of a request. *)

LEMMA EvictedGood ==
    ASSUME IdealOK, NEW S, NEW A, Good(S, A)
    PROVE  /\ Good(Evicted(S), A) /\ Evicted(S).ok = S.ok
           /\ \A n \in Names : S.buckets[n] = None => Evicted(S).buckets[n] = None
<1>1. CASE Len(S.order) < MaxBuckets
  BY <1>1 DEF Evicted
<1>2. CASE ~(Len(S.order) < MaxBuckets)
  <2> DEFINE m == Head(S.order)
             B == [S.buckets EXCEPT ![m] = None]
             L == IF S.buckets[m].tokens < Full(S.buckets[m].qps)
                  THEN S.lost \union {m} ELSE S.lost
  <2>1. S = [buckets |-> S.buckets, order |-> S.order, lost |-> S.lost, ok |-> S.ok]
    BY DEF Good, IsState
  <2>2. Evicted(S) = [buckets |-> B, order |-> Tail(S.order), lost |-> L, ok |-> S.ok]
    BY <1>2, <2>1 DEF Evicted
  <2>3. B \in [Names -> Buckets \union {None}] /\ \A n \in Names : n # m => B[n] = S.buckets[n]
    BY DEF Good
  <2>4. \A n \in Names : Sound(n, B[n])
    BY <2>3 DEF Good, Sound
  <2>5. ASSUME NEW n \in Names, n \notin L
        PROVE  Backed(n, B[n], A)
    <3>1. Backed(n, S.buckets[n], A) /\ Sound(n, S.buckets[n])
      BY <2>5 DEF Good
    <3>2. CASE n # m \/ S.buckets[n] = None
      BY <2>3, <3>1, <3>2 DEF Good
    <3>3. CASE n = m /\ S.buckets[n] # None
      <4>1. S.buckets[n] \in Buckets
        BY <3>3 DEF Good
      <4>2. /\ S.buckets[n].tokens \in Nat /\ S.buckets[n].qps \in Nat
            /\ Full(S.buckets[n].qps) \in Nat
        BY <4>1, FullNat DEF Buckets
      <4>3. S.buckets[n].tokens = Full(S.buckets[n].qps)
        BY <2>5, <3>1, <3>3, <4>2 DEF Sound
      <4>4. Full(Limit[n]) - Due(n, A) <= 0
        BY <3>1, <3>3, <4>2, <4>3 DEF Backed
      <4>5. ideal[n] = Full(Limit[n]) /\ n \notin A
        BY <4>4, ConstantTypes DEF Due, IdealOK
      <4>6. B[n] = None
        BY <3>3 DEF Good
      <4> QED BY <4>5, <4>6 DEF Backed
    <3> QED BY <3>2, <3>3
  <2> QED BY <2>2, <2>3, <2>4, <2>5 DEF Good, IsState
<1> QED BY <1>1, <1>2

LEMMA GotGood ==
    ASSUME IdealOK, NEW S, NEW A, Good(S, A), NEW ask \in Asks, ask.bucket \in Names,
           ask.qps <= Limit[ask.bucket]
    PROVE  /\ Good(Got(S, ask), A) /\ Got(S, ask).ok = S.ok
           /\ Got(S, ask).buckets[ask.bucket] # None
<1> DEFINE n == ask.bucket
           E == Evicted(S)
           b == [qps |-> ask.qps, tokens |-> Full(ask.qps), age |-> 0]
<1>1. CASE S.buckets[n] # None
  <2>1. S = [buckets |-> S.buckets, order |-> S.order, lost |-> S.lost, ok |-> S.ok]
    BY DEF Good, IsState
  <2> DEFINE O == MovedToEnd(S.order, n)
  <2>2. Got(S, ask) = [S EXCEPT !.order = O]
    BY <1>1 DEF Got
  <2> HIDE DEF O
  <2>3. Got(S, ask) = [buckets |-> S.buckets, order |-> O, lost |-> S.lost, ok |-> S.ok]
    BY <2>1, <2>2
  <2> QED BY <1>1, <2>3 DEF Good, IsState
<1>2. CASE S.buckets[n] = None
  <2>1. /\ Good(E, A) /\ E.ok = S.ok /\ E.buckets[n] = None
    BY <1>2, EvictedGood
  <2>2. E = [buckets |-> E.buckets, order |-> E.order, lost |-> E.lost, ok |-> E.ok]
    BY <2>1 DEF Good, IsState
  <2> HIDE DEF E
  <2> DEFINE B == [E.buckets EXCEPT ![n] = b]
             O == Append(E.order, n)
  <2>3. Got(S, ask) = [E EXCEPT !.order = O, !.buckets[n] = b]
    BY <1>2 DEF Got, E
  <2>4. Got(S, ask) = [buckets |-> B, order |-> O, lost |-> E.lost, ok |-> E.ok]
    BY <2>2, <2>3
  <2>5. b \in Buckets /\ Full(ask.qps) \in Nat /\ b # None
    BY SchedulerAssumption, FullNat DEF Asks, Buckets
  <2>6. /\ B \in [Names -> Buckets \union {None}] /\ B[n] = b
        /\ \A m \in Names : m # n => B[m] = E.buckets[m]
    BY <2>1, <2>5 DEF Good
  <2>7. Sound(n, b)
    BY <2>5 DEF Sound, Rested
  <2>8. ASSUME n \notin E.lost
        PROVE  Backed(n, b, A)
    <3>1. ideal[n] = Full(Limit[n]) /\ n \notin A
      BY <2>1, <2>8 DEF Good, Backed
    <3>2. Full(Limit[n]) - Due(n, A) <= Full(b.qps) - b.tokens
      BY <2>5, <3>1, ConstantTypes DEF Due
    <3> QED BY <2>5, <3>2 DEF Backed
  <2> HIDE DEF B, b, O
  <2>9. \A m \in Names : Sound(m, B[m])
    BY <2>1, <2>6, <2>7 DEF Good
  <2>10. \A m \in Names : m \notin E.lost => Backed(m, B[m], A)
    BY <2>1, <2>6, <2>8 DEF Good
  <2>11. Good(Got(S, ask), A)
    BY <2>4, <2>6, <2>9, <2>10 DEF Good, IsState
  <2>12. Got(S, ask).buckets[n] = b /\ Got(S, ask).ok = S.ok
    BY <2>1, <2>4, <2>6
  <2> QED BY <2>5, <2>11, <2>12
<1> QED BY <1>1, <1>2

LEMMA TakenGood ==
    ASSUME IdealOK, NEW S, NEW A, Good(S, A), NEW ask \in Asks, ask.bucket \in Names,
           ask.bucket \notin A, S.buckets[ask.bucket] # None
    PROVE  LET T == Taken(S, ask)
           IN  /\ T.ok \in BOOLEAN
               /\ T.ok => Good(T, A \union {ask.bucket})
               /\ ~T.ok => Good(T, A)
<1> DEFINE n == ask.bucket
           c == S.buckets[n]
           enough == c.tokens >= Cost
           b == [c EXCEPT !.age = 0, !.tokens = IF enough THEN @ - Cost ELSE @]
           T == Taken(S, ask)
           B == [S.buckets EXCEPT ![n] = b]
<1>1. S = [buckets |-> S.buckets, order |-> S.order, lost |-> S.lost, ok |-> S.ok]
  BY DEF Good, IsState
<1>2. /\ c \in Buckets /\ c.tokens \in Nat /\ c.qps \in Nat /\ Cost \in Nat \ {0}
      /\ Full(c.qps) \in Nat /\ c.tokens <= Full(c.qps) /\ c.qps <= Limit[n]
  BY ConstantTypes, FullNat DEF Good, Sound, Buckets
<1>3. /\ b \in Buckets /\ b # None /\ b.qps = c.qps
      /\ b.tokens = IF enough THEN c.tokens - Cost ELSE c.tokens
      /\ b.age = 0
  <2>1. 0 \in 0..TTL + 1
    BY SchedulerAssumption
  <2>2. b = [qps |-> c.qps, tokens |-> IF enough THEN c.tokens - Cost ELSE c.tokens, age |-> 0]
    <3>1. PICK q, t, a : c = [qps |-> q, tokens |-> t, age |-> a]
      BY <1>2 DEF Buckets
    <3> DEFINE left == IF enough THEN c.tokens - Cost ELSE c.tokens
    <3>2. b = [c EXCEPT !.age = 0, !.tokens = left]
      OBVIOUS
    <3> HIDE DEF b, c, left
    <3>3. b = [qps |-> q, tokens |-> left, age |-> 0] /\ c.qps = q
      BY <3>1, <3>2
    <3> QED BY <3>3 DEF left
  <2> QED BY <1>2, <2>1, <2>2, ConstantTypes DEF Buckets
<1>4. T = [buckets |-> B, order |-> S.order, lost |-> S.lost, ok |-> enough]
  <2>1. T = [S EXCEPT !.ok = enough, !.buckets[n] = b]
    BY DEF Taken
  <2> HIDE DEF b, enough, T
  <2> QED BY <1>1, <2>1
<1>5. /\ B \in [Names -> Buckets \union {None}] /\ B[n] = b
      /\ \A m \in Names : m # n => B[m] = S.buckets[m]
  BY <1>3 DEF Good
<1>6. Sound(n, b)
  <2>1. b.age = 0 /\ b.tokens \in Nat
    BY <1>2, <1>3
  <2>2. 0 * b.qps = 0
    BY <1>2, <1>3
  <2>3. Rested(b)
    BY <2>1, <2>2 DEF Rested
  <2> HIDE DEF b
  <2> QED BY <1>2, <1>3, <2>3 DEF Sound
<1>7. \A m \in Names : Sound(m, B[m])
  BY <1>5, <1>6 DEF Good
<1>8. ideal[n] \in Int /\ Full(Limit[n]) \in Nat
  BY ConstantTypes DEF IdealOK
<1>9. n \notin S.lost => Full(Limit[n]) - ideal[n] <= Full(c.qps) - c.tokens
  BY DEF Good, Backed, Due
<1>10. ASSUME enough
       PROVE  Good(T, A \union {n})
  <2>1. ASSUME n \notin S.lost
        PROVE  Backed(n, b, A \union {n})
    <3>1. Full(Limit[n]) - (ideal[n] - Cost) <= Full(b.qps) - b.tokens
      BY <1>2, <1>3, <1>8, <1>9, <1>10, <2>1
    <3> QED BY <1>3, <3>1 DEF Backed, Due
  <2>2. ASSUME NEW m \in Names, m # n, m \notin S.lost
        PROVE  Backed(m, B[m], A \union {n})
    BY <1>5, <2>2 DEF Good, Backed, Due
  <2> HIDE DEF T, B, b
  <2>3. \A m \in Names : m \notin S.lost => Backed(m, B[m], A \union {n})
    BY <1>5, <2>1, <2>2
  <2> QED BY <1>4, <1>5, <1>7, <2>3 DEF Good, IsState
<1>11. ASSUME ~enough
       PROVE  Good(T, A)
  <2>1. ASSUME n \notin S.lost
        PROVE  Backed(n, b, A)
    <3>1. Full(Limit[n]) - ideal[n] <= Full(b.qps) - b.tokens
      BY <1>3, <1>9, <1>11, <2>1
    <3> QED BY <1>3, <3>1 DEF Backed, Due
  <2> HIDE DEF T, B, b
  <2>2. \A m \in Names : m \notin S.lost => Backed(m, B[m], A)
    BY <1>5, <2>1 DEF Good
  <2> QED BY <1>4, <1>5, <1>7, <2>2 DEF Good, IsState
<1>12. T.ok = enough /\ enough \in BOOLEAN
  BY <1>4
<1> QED BY <1>10, <1>11, <1>12

-----------------------------------------------------------------------------
(* The order of the buckets. *)

LEMMA EvictedOrdered ==
    ASSUME NEW S, IsState(S), S.buckets \in [Names -> Buckets \union {None}], Ordered(S)
    PROVE  Ordered(Evicted(S)) /\ Len(Evicted(S).order) < MaxBuckets
<1>1. MaxBuckets \in Nat \ {0} /\ S.order \in Seq(Names) /\ Len(S.order) \in Nat
  BY SchedulerAssumption DEF Ordered, Listed
<1>2. CASE Len(S.order) < MaxBuckets
  BY <1>2 DEF Evicted
<1>3. CASE ~(Len(S.order) < MaxBuckets)
  <2> DEFINE m == Head(S.order)
             B == [S.buckets EXCEPT ![m] = None]
             L == IF S.buckets[m].tokens < Full(S.buckets[m].qps)
                  THEN S.lost \union {m} ELSE S.lost
             O == Tail(S.order)
             E == Evicted(S)
  <2>1. S = [buckets |-> S.buckets, order |-> S.order, lost |-> S.lost, ok |-> S.ok]
    BY DEF IsState
  <2>2. E = [buckets |-> B, order |-> O, lost |-> L, ok |-> S.ok]
    BY <1>3, <2>1 DEF Evicted
  <2>3. /\ Len(S.order) = MaxBuckets /\ S.order # <<>>
        /\ DOMAIN S.order = 1..MaxBuckets /\ m = S.order[1] /\ m \in Names
        /\ O \in Seq(Names) /\ Len(O) = MaxBuckets - 1 /\ DOMAIN O = 1..MaxBuckets - 1
        /\ \A i \in 1..MaxBuckets - 1 : O[i] = S.order[i + 1]
    BY <1>1, <1>3 DEF Ordered, Listed
  <2>4. B[m] = None /\ \A n \in Names : n # m => B[n] = S.buckets[n]
    BY <2>3
  <2>5. E.order = O /\ E.lost = L /\ E.buckets = B /\ L \subseteq Names
    BY <2>2, <2>3 DEF Ordered, Listed
  <2> HIDE DEF m, B, O, L, E
  <2>0. \A i, j \in 1..MaxBuckets : S.order[i] = S.order[j] => i = j
    BY <2>3 DEF Ordered, Listed
  <2>6. \A i \in 1..MaxBuckets - 1 : O[i] # m /\ O[i] \in Names /\ i + 1 \in 1..MaxBuckets
    <3> TAKE i \in 1..MaxBuckets - 1
    <3>1. i + 1 \in 1..MaxBuckets /\ 1 \in 1..MaxBuckets /\ i + 1 # 1
      BY <1>1
    <3>2. O[i] = S.order[i + 1] /\ O[i] # m
      BY <2>0, <2>3, <3>1
    <3>3. O[i] \in Names
      BY <2>3
    <3> QED BY <3>1, <3>2, <3>3
  <2>7. \A n \in Names : B[n] # None <=> \E i \in DOMAIN O : O[i] = n
    <3> TAKE n \in Names
    <3>1. ASSUME B[n] # None
          PROVE  \E i \in DOMAIN O : O[i] = n
      <4>1. n # m /\ S.buckets[n] # None
        BY <2>4, <3>1
      <4>2. PICK i \in 1..MaxBuckets : S.order[i] = n
        BY <2>3, <4>1 DEF Ordered, Listed
      <4>3. i # 1 /\ i - 1 \in 1..MaxBuckets - 1 /\ (i - 1) + 1 = i
        BY <1>1, <2>3, <4>1, <4>2
      <4> QED BY <2>3, <4>2, <4>3
    <3>2. ASSUME NEW i \in DOMAIN O, O[i] = n
          PROVE  B[n] # None
      <4>1. n # m /\ S.order[i + 1] = n /\ i + 1 \in DOMAIN S.order
        BY <2>3, <2>6, <3>2
      <4> QED BY <2>4, <4>1 DEF Ordered, Listed
    <3> QED BY <3>1, <3>2
  <2>8. \A i, j \in DOMAIN O : O[i] = O[j] => i = j
    <3> TAKE i, j \in DOMAIN O
    <3>1. /\ i + 1 \in 1..MaxBuckets /\ j + 1 \in 1..MaxBuckets
          /\ O[i] = S.order[i + 1] /\ O[j] = S.order[j + 1]
      BY <2>3, <2>6
    <3>2. O[i] = O[j] => i + 1 = j + 1
      BY <2>0, <2>3, <3>1
    <3> QED BY <1>1, <2>3, <3>2
  <2>9. \A i, j \in DOMAIN O : i < j => B[O[i]].age >= B[O[j]].age
    <3> SUFFICES ASSUME NEW i \in DOMAIN O, NEW j \in DOMAIN O, i < j
                 PROVE  B[O[i]].age >= B[O[j]].age
      OBVIOUS
    <3>1. i + 1 \in DOMAIN S.order /\ j + 1 \in DOMAIN S.order /\ i + 1 < j + 1 /\ j + 1 < Len(S.order) + 1
      BY <1>1, <2>3, <2>6
    <3>2. S.buckets[S.order[i + 1]].age >= S.buckets[S.order[j + 1]].age
      BY <3>1 DEF Ordered, InOrder
    <3> QED BY <2>3, <2>4, <2>6, <3>2
  <2>10. Listed(E)
    BY <1>1, <2>3, <2>5, <2>7, <2>8 DEF Listed
  <2> QED BY <1>1, <2>3, <2>5, <2>9, <2>10 DEF Ordered, InOrder, E
<1> QED BY <1>2, <1>3

LEMMA MovedIs ==
    ASSUME NEW s \in Seq(Names), NEW k \in DOMAIN s,
           \A i, j \in DOMAIN s : s[i] = s[j] => i = j
    PROVE  LET O == MovedToEnd(s, s[k])
           IN  /\ O \in Seq(Names) /\ Len(O) = Len(s) /\ DOMAIN O = 1..Len(s) /\ Len(s) \in Nat \ {0}
               /\ \A i \in 1..Len(s) :
                     O[i] = IF i < k THEN s[i] ELSE IF i < Len(s) THEN s[i + 1] ELSE s[k]
<1>1. Len(s) \in Nat \ {0} /\ DOMAIN s = 1..Len(s) /\ \A i \in 1..Len(s) : s[i] \in Names
  OBVIOUS
<1>2. (CHOOSE i \in DOMAIN s : s[i] = s[k]) = k
  <2>1. (CHOOSE i \in DOMAIN s : s[i] = s[k]) \in DOMAIN s
        /\ s[CHOOSE i \in DOMAIN s : s[i] = s[k]] = s[k]
    OBVIOUS
  <2> QED BY <2>1
<1> DEFINE O == [i \in 1..Len(s) |-> IF i < k THEN s[i] ELSE IF i < Len(s) THEN s[i + 1] ELSE s[k]]
<1>3. MovedToEnd(s, s[k]) = O
  BY <1>1, <1>2 DEF MovedToEnd
<1>4. \A i \in 1..Len(s) : O[i] \in Names
  <2> TAKE i \in 1..Len(s)
  <2>1. i < Len(s) => i + 1 \in 1..Len(s)
    BY <1>1
  <2> QED BY <1>1, <2>1
<1>5. O \in [1..Len(s) -> Names]
  BY <1>4
<1> HIDE DEF O
<1>6. O \in Seq(Names) /\ Len(O) = Len(s) /\ DOMAIN O = 1..Len(s)
  BY <1>1, <1>5
<1> QED BY <1>1, <1>3, <1>6 DEF O

LEMMA GotOrdered ==
    ASSUME IdealOK, NEW S, NEW A, Good(S, A), Ordered(S), NEW ask \in Asks, ask.bucket \in Names
    PROVE  Latest(Got(S, ask), ask.bucket)
<1> DEFINE n == ask.bucket
           G == Got(S, ask)
<1>1. CASE S.buckets[n] # None
  <2> DEFINE s == S.order
             O == MovedToEnd(s, n)
  <2>1. S = [buckets |-> S.buckets, order |-> S.order, lost |-> S.lost, ok |-> S.ok]
    BY DEF Good, IsState
  <2>2. G = [S EXCEPT !.order = O]
    BY <1>1 DEF Got
  <2>3. G.buckets = S.buckets /\ G.order = O /\ G.lost = S.lost
    <3> HIDE DEF O, G
    <3> QED BY <2>1, <2>2
  <2>4. /\ s \in Seq(Names) /\ Len(s) <= MaxBuckets
        /\ \A i, j \in DOMAIN s : s[i] = s[j] => i = j
        /\ \A m \in Names : S.buckets[m] # None <=> \E i \in DOMAIN s : s[i] = m
        /\ \A i, j \in DOMAIN s : i < j => S.buckets[s[i]].age >= S.buckets[s[j]].age
    <3>1. \A j \in DOMAIN s : j < Len(s) + 1
      BY DEF Ordered, Listed
    <3> QED BY <3>1 DEF Ordered, Listed, InOrder
  <2>5. PICK k \in DOMAIN s : s[k] = n
    BY <1>1, <2>4
  <2> DEFINE l == Len(s)
  <2>6. /\ O \in Seq(Names) /\ Len(O) = l /\ DOMAIN O = 1..l /\ l \in Nat \ {0} /\ DOMAIN s = 1..l
        /\ \A i \in 1..l : O[i] = IF i < k THEN s[i] ELSE IF i < l THEN s[i + 1] ELSE n
    BY <2>4, <2>5, MovedIs
  <2> HIDE DEF s, O, G, l
  <2> DEFINE P(i) == IF i < k THEN i ELSE i + 1
  <2>7. \A i \in 1..l - 1 : O[i] = s[P(i)] /\ P(i) \in 1..l /\ P(i) # k /\ O[i] # n
    <3> TAKE i \in 1..l - 1
    <3>1. i \in 1..l /\ i < l /\ P(i) \in 1..l /\ P(i) # k
      BY <2>5, <2>6
    <3>2. O[i] = s[P(i)]
      BY <2>6, <3>1
    <3>3. P(i) \in DOMAIN s
      BY <2>6, <3>1
    <3>4. s[P(i)] # s[k]
      <4> HIDE DEF P
      <4> QED BY <2>4, <2>5, <3>1, <3>3
    <3> QED BY <2>5, <3>1, <3>2, <3>4
  <2>8. O[l] = n /\ l \in 1..l
    <3>1. l \in 1..l /\ ~(l < l) /\ (l < k => FALSE)
      BY <2>5, <2>6
    <3> QED BY <2>6, <3>1
  <2>9. \A i, j \in 1..l - 1 : i < j => P(i) < P(j)
    BY <2>5, <2>6
  <2>10. \A i \in 1..l : i \in 1..l - 1 \/ i = l
    BY <2>6
  <2>11. \A i, j \in 1..l : O[i] = O[j] => i = j
    <3> SUFFICES ASSUME NEW i \in 1..l, NEW j \in 1..l, O[i] = O[j]
                 PROVE  i = j
      OBVIOUS
    <3>1. CASE i = l \/ j = l
      BY <2>7, <2>8, <2>10, <3>1
    <3>2. CASE i \in 1..l - 1 /\ j \in 1..l - 1
      <4>0. P(i) \in DOMAIN s /\ P(j) \in DOMAIN s /\ s[P(i)] = s[P(j)]
        BY <2>6, <2>7, <3>2
      <4>1. P(i) = P(j)
        <5> HIDE DEF P
        <5> QED BY <2>4, <4>0
      <4>2. i < j \/ j < i \/ i = j
        BY <2>6
      <4> QED BY <2>6, <2>9, <3>2, <4>1, <4>2
    <3> QED BY <2>10, <3>1, <3>2
  <2>12. ASSUME NEW m \in Names
         PROVE  (\E i \in DOMAIN s : s[i] = m) <=> (\E i \in DOMAIN O : O[i] = m)
    <3>1. ASSUME NEW i \in 1..l, s[i] = m
          PROVE  \E j \in 1..l : O[j] = m
      <4>1. CASE i < k
        <5>1. O[i] = s[i]
          BY <2>6, <4>1
        <5> QED BY <3>1, <5>1
      <4>2. CASE i = k
        BY <2>5, <2>8, <3>1, <4>2
      <4>3. CASE i > k
        <5>1. i - 1 \in 1..l /\ i - 1 < l /\ ~(i - 1 < k) /\ (i - 1) + 1 = i
          BY <2>5, <2>6, <4>3
        <5>2. O[i - 1] = s[i]
          BY <2>6, <5>1
        <5> QED BY <3>1, <5>1, <5>2
      <4> QED BY <2>5, <2>6, <4>1, <4>2, <4>3
    <3>2. ASSUME NEW i \in 1..l, O[i] = m
          PROVE  \E j \in 1..l : s[j] = m
      BY <2>5, <2>6, <2>7, <2>8, <2>10, <3>2
    <3> QED BY <2>6, <3>1, <3>2
  <2>13. ASSUME NEW i \in 1..l, NEW j \in 1..l, i < j, j < l
         PROVE  S.buckets[O[i]].age >= S.buckets[O[j]].age
    <3>1. i \in 1..l - 1 /\ j \in 1..l - 1
      BY <2>6, <2>13
    <3>2. P(i) < P(j) /\ P(i) \in DOMAIN s /\ P(j) \in DOMAIN s /\ O[i] = s[P(i)] /\ O[j] = s[P(j)]
      BY <2>6, <2>7, <2>9, <2>13, <3>1
    <3> QED BY <2>4, <3>2
  <2>14. Listed(G)
    <3>1. S.lost \subseteq Names
      BY DEF Ordered, Listed
    <3>2. Len(O) <= MaxBuckets
      BY <2>4, <2>6 DEF l
    <3> QED BY <2>3, <2>4, <2>6, <2>11, <2>12, <3>1, <3>2 DEF Listed
  <2>15. InOrder(G, Len(G.order))
    BY <2>3, <2>6, <2>13 DEF InOrder
  <2>16. Len(G.order) > 0 /\ G.order[Len(G.order)] = n
    BY <2>3, <2>6, <2>8
  <2> QED BY <2>14, <2>15, <2>16 DEF Latest, G
<1>2. CASE S.buckets[n] = None
  <2> DEFINE E == Evicted(S)
             b == [qps |-> ask.qps, tokens |-> Full(ask.qps), age |-> 0]
             B == [E.buckets EXCEPT ![n] = b]
             O == Append(E.order, n)
             l == Len(E.order)
  <2>1. Good(E, A) /\ E.buckets[n] = None
    BY <1>2, EvictedGood
  <2>2. /\ IsState(S) /\ S.buckets \in [Names -> Buckets \union {None}]
    BY DEF Good
  <2>3. Ordered(E) /\ l < MaxBuckets
    BY <2>2, EvictedOrdered
  <2>4. E = [buckets |-> E.buckets, order |-> E.order, lost |-> E.lost, ok |-> E.ok]
    BY <2>1 DEF Good, IsState
  <2> HIDE DEF E, b
  <2>5. G = [E EXCEPT !.order = O, !.buckets[n] = b]
    BY <1>2 DEF Got, E, b
  <2>6. G = [buckets |-> B, order |-> O, lost |-> E.lost, ok |-> E.ok]
    BY <2>4, <2>5
  <2>7. /\ G.buckets = B /\ G.order = O /\ G.lost = E.lost
    BY <2>6
  <2>8. b # None
    <3>1. b \in Buckets
      BY SchedulerAssumption, FullNat DEF Asks, Buckets, b
    <3> QED BY <3>1, ConstantTypes
  <2>9. /\ E.order \in Seq(Names) /\ l \in Nat /\ DOMAIN E.order = 1..l
        /\ O \in Seq(Names) /\ Len(O) = l + 1 /\ DOMAIN O = 1..l + 1 /\ O[l + 1] = n
        /\ \A i \in 1..l : O[i] = E.order[i] /\ E.order[i] \in Names
    BY <2>3 DEF Ordered, Listed
  <2>10. /\ \A i, j \in 1..l : E.order[i] = E.order[j] => i = j
         /\ \A m \in Names : E.buckets[m] # None <=> \E i \in 1..l : E.order[i] = m
         /\ \A i, j \in 1..l : i < j =>
               E.buckets[E.order[i]].age >= E.buckets[E.order[j]].age
    <3>1. \A j \in 1..l : j < l + 1
      BY <2>9
    <3> QED BY <2>3, <2>9, <3>1 DEF Ordered, Listed, InOrder
  <2>11. \A i \in 1..l : E.order[i] # n
    BY <2>1, <2>9, <2>10
  <2>12. B[n] = b /\ \A m \in Names : m # n => B[m] = E.buckets[m]
    BY <2>1 DEF Good
  <2>13. E.lost \subseteq Names
    BY <2>3 DEF Ordered, Listed
  <2>14. MaxBuckets \in Nat
    BY SchedulerAssumption
  <2> HIDE DEF B, O, G, l
  <2>15. \A i, j \in 1..l + 1 : O[i] = O[j] => i = j
    <3>1. \A i \in 1..l + 1 : i \in 1..l \/ i = l + 1
      BY <2>9
    <3> QED BY <2>9, <2>10, <2>11, <3>1
  <2>16. \A m \in Names : B[m] # None <=> \E i \in 1..l + 1 : O[i] = m
    <3>1. \A i \in 1..l + 1 : i \in 1..l \/ i = l + 1
      BY <2>9
    <3>2. l + 1 \in 1..l + 1 /\ \A i \in 1..l : i \in 1..l + 1
      BY <2>9
    <3> TAKE m \in Names
    <3>3. CASE m = n
      BY <2>8, <2>9, <2>12, <3>2, <3>3
    <3>4. CASE m # n
      <4>1. B[m] = E.buckets[m]
        BY <2>12, <3>4
      <4>2. (\E i \in 1..l : E.order[i] = m) <=> (\E i \in 1..l + 1 : O[i] = m)
        BY <2>9, <3>1, <3>2, <3>4
      <4> QED BY <2>10, <4>1, <4>2
    <3> QED BY <3>3, <3>4
  <2>17. Listed(G)
    <3>1. l + 1 <= MaxBuckets
      BY <2>3, <2>9, <2>14
    <3> QED BY <2>7, <2>9, <2>13, <2>15, <2>16, <3>1 DEF Listed
  <2>18. InOrder(G, l + 1)
    <3> SUFFICES ASSUME NEW i \in 1..l + 1, NEW j \in 1..l + 1, i < j, j < l + 1
                 PROVE  B[O[i]].age >= B[O[j]].age
      BY <2>7, <2>9 DEF InOrder
    <3>1. i \in 1..l /\ j \in 1..l
      BY <2>9
    <3> QED BY <2>9, <2>10, <2>11, <2>12, <3>1
  <2>19. Len(G.order) = l + 1 /\ l + 1 > 0
    BY <2>7, <2>9
  <2> QED BY <2>7, <2>9, <2>17, <2>18, <2>19 DEF Latest, G
<1> QED BY <1>1, <1>2

LEMMA TakenOrdered ==
    ASSUME NEW S, NEW A, Good(S, A), NEW ask, ask.bucket \in Names, Latest(S, ask.bucket)
    PROVE  Ordered(Taken(S, ask))
<1> DEFINE n == ask.bucket
           c == S.buckets[n]
           enough == c.tokens >= Cost
           b == [c EXCEPT !.age = 0, !.tokens = IF enough THEN @ - Cost ELSE @]
           B == [S.buckets EXCEPT ![n] = b]
           T == Taken(S, ask)
           O == S.order
           l == Len(O)
<1>1. /\ O \in Seq(Names) /\ l \in Nat \ {0} /\ DOMAIN O = 1..l /\ O[l] = n /\ l \in 1..l
      /\ \A i \in 1..l : O[i] \in Names
  BY DEF Latest, Listed
<1>2. /\ \A i, j \in 1..l : O[i] = O[j] => i = j
      /\ \A m \in Names : S.buckets[m] # None <=> \E i \in 1..l : O[i] = m
      /\ \A i, j \in 1..l : i < j /\ j < l => S.buckets[O[i]].age >= S.buckets[O[j]].age
  BY <1>1 DEF Latest, Listed, InOrder
<1>3. \A m \in Names : S.buckets[m] # None => S.buckets[m] \in Buckets /\ S.buckets[m].age \in Nat
  <2>1. TTL \in Nat
    BY SchedulerAssumption
  <2>2. \A m \in Buckets : m.age \in Nat
    BY <2>1 DEF Buckets
  <2> QED BY <2>2 DEF Good
<1>4. c \in Buckets /\ S.buckets[n] # None
  BY <1>1, <1>2, <1>3
<1>5. b.age = 0 /\ b # None
  <2>1. PICK q, t, a : c = [qps |-> q, tokens |-> t, age |-> a]
    BY <1>4 DEF Buckets
  <2> DEFINE left == IF enough THEN c.tokens - Cost ELSE c.tokens
  <2>2. b = [c EXCEPT !.age = 0, !.tokens = left]
    OBVIOUS
  <2>3. left \in Nat
    BY <1>4, ConstantTypes DEF Buckets
  <2> HIDE DEF b, c, left
  <2>4. b = [qps |-> q, tokens |-> left, age |-> 0] /\ q \in Nat
    BY <1>4, <2>1, <2>2 DEF Buckets
  <2>5. b \in Buckets
    BY <2>3, <2>4, SchedulerAssumption DEF Buckets
  <2> QED BY <2>4, <2>5, ConstantTypes
<1>6. T.buckets = B /\ T.order = O /\ T.lost = S.lost
  <2>1. S = [buckets |-> S.buckets, order |-> S.order, lost |-> S.lost, ok |-> S.ok]
    BY DEF Good, IsState
  <2>2. T = [S EXCEPT !.ok = enough, !.buckets[n] = b]
    BY DEF Taken
  <2> HIDE DEF b, enough, T
  <2> QED BY <2>1, <2>2
<1>7. B[n] = b /\ \A m \in Names : m # n => B[m] = S.buckets[m]
  BY DEF Good
<1>8. Len(O) <= MaxBuckets /\ S.lost \subseteq Names
  BY DEF Latest, Listed
<1> HIDE DEF T, O, l, B, b, c
<1>9. \A i \in 1..l : i # l => O[i] # n
  BY <1>1, <1>2
<1>10. \A m \in Names : B[m] # None <=> S.buckets[m] # None
  BY <1>4, <1>5, <1>7
<1>11. Listed(T)
  BY <1>1, <1>2, <1>6, <1>8, <1>10 DEF Listed
<1>12. ASSUME NEW i \in 1..l, NEW j \in 1..l, i < j
       PROVE  B[O[i]].age >= B[O[j]].age
  <2>1. i # l /\ O[i] # n /\ B[O[i]] = S.buckets[O[i]]
    BY <1>1, <1>7, <1>9, <1>12
  <2>2. CASE j = l
    <3>1. B[O[j]].age = 0
      BY <1>1, <1>5, <1>7, <2>2
    <3>2. S.buckets[O[i]].age \in Nat
      BY <1>1, <1>2, <1>3
    <3> QED BY <2>1, <3>1, <3>2
  <2>3. CASE j # l
    <3>1. B[O[j]] = S.buckets[O[j]] /\ j < l
      BY <1>1, <1>7, <1>9, <2>3
    <3> QED BY <1>2, <1>12, <2>1, <3>1
  <2> QED BY <2>2, <2>3
<1>13. InOrder(T, Len(T.order) + 1)
  BY <1>1, <1>6, <1>12 DEF InOrder
<1> QED BY <1>11, <1>13 DEF Ordered, T

-----------------------------------------------------------------------------
(* A whole request. *)

\* The state of a request that has asked the buckets in A: once refused, it is
\* charged for none of them.
Underway(S, A) ==
    /\ S.ok \in BOOLEAN /\ Ordered(S)
    /\ S.ok => Good(S, A)
    /\ ~S.ok => Good(S, {})

LEMMA Uncharged ==
    ASSUME IdealOK, NEW S, NEW A, Good(S, A)
    PROVE  Good(S, {})
<1>1. ASSUME NEW n \in Names, n \notin S.lost
      PROVE  Backed(n, S.buckets[n], {})
  <2> DEFINE b == S.buckets[n]
  <2>1. Backed(n, b, A)
    BY <1>1 DEF Good
  <2>2. CASE b = None
    BY <2>1, <2>2 DEF Backed
  <2>3. CASE b # None
    <3>1. /\ b \in Buckets /\ b.tokens \in Nat /\ b.qps \in Nat /\ Full(b.qps) \in Nat
      BY <2>3, FullNat DEF Good, Buckets
    <3>2. Cost \in Nat /\ ideal[n] \in Int /\ Full(Limit[n]) \in Nat
      BY ConstantTypes DEF IdealOK
    <3>3. Full(Limit[n]) - ideal[n] <= Full(b.qps) - b.tokens
      BY <2>1, <2>3, <3>1, <3>2 DEF Backed, Due
    <3> QED BY <2>3, <3>3 DEF Backed, Due
  <2> QED BY <2>2, <2>3
<1> QED BY <1>1 DEF Good

LEMMA AskedGood ==
    ASSUME IdealOK, NEW S, NEW A, Underway(S, A), NEW ask \in Asks,
           ask.bucket \in Names \union {None},
           ask.bucket # None => ask.qps <= Limit[ask.bucket] /\ ask.bucket \notin A
    PROVE  Underway(Asked(S, ask), A \union {ask.bucket})
<1>1. CASE ~S.ok
  BY <1>1 DEF Asked, Underway
<1>2. CASE S.ok /\ ask.bucket = None
  <2>1. \A n \in Names : n \in A \union {None} <=> n \in A
    BY ConstantTypes
  <2>2. Good(S, A \union {None})
    BY <1>2, <2>1 DEF Underway, Good, Backed, Due
  <2> QED BY <1>2, <2>2 DEF Asked, Underway
<1>3. CASE S.ok /\ ask.bucket # None
  <2> DEFINE G == Got(S, ask)
             T == Taken(G, ask)
  <2>1. Asked(S, ask) = T
    BY <1>3 DEF Asked
  <2>2. Good(G, A) /\ G.buckets[ask.bucket] # None /\ Latest(G, ask.bucket)
    BY <1>3, GotGood, GotOrdered DEF Underway
  <2> HIDE DEF G
  <2>3. /\ T.ok \in BOOLEAN
        /\ T.ok => Good(T, A \union {ask.bucket})
        /\ ~T.ok => Good(T, A)
        /\ Ordered(T)
    BY <1>3, <2>2, TakenGood, TakenOrdered
  <2> HIDE DEF T
  <2> QED BY <2>1, <2>3, Uncharged DEF Underway
<1> QED BY <1>1, <1>2, <1>3 DEF Underway

LEMMA CheckedGood ==
    ASSUME IInv, NEW r \in Requests
    PROVE  Underway(Checked(r), {r[kind].bucket : kind \in Kinds})
<1> DEFINE k == r["key"]  t == r["tenant"]  p == r["profile"]
<1> DEFINE Legal(a) == /\ a \in Asks /\ a.bucket \in Names \union {None}
                       /\ a.bucket # None => a.qps <= Limit[a.bucket]
<1>1. Legal(k) /\ Legal(t) /\ Legal(p)
  <2>1. \A kind \in Kinds : Legal(r[kind])
    BY SchedulerAssumption DEF Asks
  <2> QED BY <2>1 DEF Kinds
<1>2. /\ k.bucket # None => k.bucket # t.bucket /\ k.bucket # p.bucket
      /\ t.bucket # None => t.bucket # k.bucket /\ t.bucket # p.bucket
      /\ p.bucket # None => p.bucket # k.bucket /\ p.bucket # t.bucket
  BY SchedulerAssumption DEF Kinds
<1>3. {r[kind].bucket : kind \in Kinds} = {k.bucket, t.bucket, p.bucket}
  BY DEF Kinds
<1>4. IdealOK /\ Underway(Now, {})
  BY DEF IInv, Underway, Now
<1> DEFINE S1 == Asked(Now, k)  S2 == Asked(S1, t)  S3 == Asked(S2, p)
<1>5. Checked(r) = S3
  BY DEF Checked, Now
<1> HIDE DEF k, t, p
<1>6. Underway(S1, {k.bucket})
  <2>1. {} \union {k.bucket} = {k.bucket}
    OBVIOUS
  <2> QED BY <1>1, <1>4, <2>1, AskedGood
<1> HIDE DEF S1
<1>7. Underway(S2, {k.bucket, t.bucket})
  <2>1. {k.bucket} \union {t.bucket} = {k.bucket, t.bucket}
    OBVIOUS
  <2> QED BY <1>1, <1>2, <1>4, <1>6, <2>1, AskedGood
<1> HIDE DEF S2
<1>8. Underway(S3, {k.bucket, t.bucket, p.bucket})
  <2>1. {k.bucket, t.bucket} \union {p.bucket} = {k.bucket, t.bucket, p.bucket}
    OBVIOUS
  <2> QED BY <1>1, <1>2, <1>4, <1>7, <2>1, AskedGood
<1> QED BY <1>3, <1>5, <1>8

-----------------------------------------------------------------------------
(* The steps. *)

LEMMA CheckKeeps ==
    ASSUME IInv, NEW r \in Requests, CheckRateLimit(r)
    PROVE  IInv'
<1> DEFINE S == Checked(r)
           A == {r[kind].bucket : kind \in Kinds}
<1>1. Underway(S, A)
  BY CheckedGood
<1>2. /\ buckets' = S.buckets /\ order' = S.order /\ lost' = S.lost
      /\ ideal' = Charged(r, S)
  BY DEF CheckRateLimit
<1>3. \A n \in Names : n \in A <=> \E kind \in Kinds : r[kind].bucket = n
  OBVIOUS
<1> HIDE DEF S, A
<1>4. IdealOK /\ Cost \in Nat /\ \A n \in Names : Full(Limit[n]) \in Nat
  BY ConstantTypes DEF IInv
<1>5. \A n \in Names : ideal'[n] =
        IF ~S.ok \/ n \notin A THEN ideal[n]
        ELSE IF n \in S.lost /\ ideal[n] < Cost THEN 0 ELSE ideal[n] - Cost
  BY <1>2, <1>3 DEF Charged
<1>6. IdealOK'
  <2>1. ideal' = [n \in Names |-> ideal'[n]]
    BY <1>2 DEF Charged
  <2>2. \A n \in Names : ideal'[n] \in Int /\ ideal'[n] <= Full(Limit[n])
    BY <1>4, <1>5 DEF IdealOK
  <2>3. ideal' \in [Names -> Int]
    BY <2>1, <2>2
  <2> QED BY <2>2, <2>3 DEF IdealOK
<1>7. Good(S, {}) /\ (S.ok => Good(S, A))
  BY <1>1, <1>4, Uncharged DEF Underway
<1>8. ASSUME NEW n \in Names, n \notin lost'
      PROVE  Backed(n, buckets[n], {})'
  <2>1. CASE ~S.ok
    BY <1>2, <1>5, <1>7, <1>8, <2>1 DEF Good, Backed, Due
  <2>2. CASE S.ok
    <3>1. Backed(n, S.buckets[n], A)
      BY <1>2, <1>7, <1>8, <2>2 DEF Good
    <3>2. ideal'[n] = Due(n, A)
      BY <1>2, <1>5, <1>8, <2>2 DEF Due
    <3>3. n \notin A => ideal'[n] = ideal[n]
      BY <1>5
    <3> QED BY <1>2, <3>1, <3>2, <3>3 DEF Backed, Due
  <2> QED BY <1>1, <2>1, <2>2 DEF Underway
<1>9. buckets' \in [Names -> Buckets \union {None}] /\ \A n \in Names : Sound(n, buckets[n])'
  BY <1>2, <1>7 DEF Good, Sound, Rested
<1>10. Ordered(Now)'
  <2>1. Ordered(S)
    BY <1>1 DEF Underway
  <2> QED BY <1>2, <2>1 DEF Ordered, Listed, InOrder, Now
<1> QED BY <1>6, <1>8, <1>9, <1>10 DEF IInv, Good, Now, IsState

LEMMA CleanupKeeps ==
    ASSUME IInv, Cleanup
    PROVE  IInv'
<1> DEFINE expired == {n \in Present : buckets[n].age > TTL}
<1>1. /\ buckets' = [n \in Names |-> IF n \in expired THEN None ELSE buckets[n]]
      /\ lost' = lost \union {n \in expired : buckets[n].tokens < Full(buckets[n].qps)}
      /\ ideal' = ideal
  BY DEF Cleanup
<1>2. /\ buckets \in [Names -> Buckets \union {None}]
      /\ \A n \in Names : Sound(n, buckets[n])
      /\ \A n \in Names : n \notin lost => Backed(n, buckets[n], {})
      /\ IdealOK
  BY DEF IInv, Good, Now
<1>3. ASSUME NEW n \in Names, n \notin lost'
      PROVE  Backed(n, buckets[n], {})'
  <2>1. CASE n \notin expired
    BY <1>1, <1>2, <1>3, <2>1 DEF Backed, Due
  <2>2. CASE n \in expired
    <3>1. buckets[n] \in Buckets /\ buckets[n] # None
      BY <1>2, <2>2 DEF Present
    <3>2. /\ buckets[n].tokens \in Nat /\ Full(buckets[n].qps) \in Nat
          /\ ideal[n] \in Int /\ ideal[n] <= Full(Limit[n]) /\ Full(Limit[n]) \in Nat
      BY <1>2, <3>1, FullNat, ConstantTypes DEF Buckets, IdealOK
    <3>3. ~(buckets[n].tokens < Full(buckets[n].qps)) /\ n \notin lost
      BY <1>1, <1>3, <2>2
    <3>4. Full(Limit[n]) - ideal[n] <= 0
      BY <1>2, <3>1, <3>2, <3>3 DEF Backed, Due
    <3>5. ideal[n] = Full(Limit[n])
      BY <3>2, <3>4
    <3>6. buckets'[n] = None
      BY <1>1, <2>2
    <3> QED BY <1>1, <3>5, <3>6 DEF Backed
  <2> QED BY <2>1, <2>2
<1>4. buckets' \in [Names -> Buckets \union {None}]
  BY <1>1, <1>2
<1>5. \A n \in Names : Sound(n, buckets[n])'
  BY <1>1, <1>2 DEF Sound, Rested
<1>6. IdealOK'
  BY <1>1, <1>2 DEF IdealOK
<1>7. Ordered(Now)'
  <2>1. /\ order \in Seq(Names) /\ Len(order) <= MaxBuckets /\ lost \subseteq Names
        /\ Len(order) \in Nat /\ DOMAIN order = 1..Len(order)
        /\ \A i, j \in DOMAIN order : order[i] = order[j] => i = j
        /\ \A i, j \in DOMAIN order : i < j /\ j < Len(order) + 1 =>
              buckets[order[i]].age >= buckets[order[j]].age
    BY DEF IInv, Ordered, Listed, InOrder, Now
  <2>2. PICK l \in 0..Len(order) : order' \in [1..l -> Present \ expired]
    BY DEF Cleanup, Without
  <2>3. /\ {order'[i] : i \in DOMAIN order'} = Present \ expired
        /\ \A i, j \in DOMAIN order' : i < j =>
              \E p, q \in DOMAIN order : p < q /\ order[p] = order'[i] /\ order[q] = order'[j]
    BY DEF Cleanup, Without
  <2> HIDE DEF expired
  <2>4. l \in Nat /\ order' \in [1..l -> Names]
    BY <2>1, <2>2 DEF Present
  <2>5. /\ order' \in Seq(Names) /\ Len(order') = l /\ DOMAIN order' = 1..l /\ l <= MaxBuckets
        /\ lost' \subseteq Names
    <3>1. MaxBuckets \in Nat
      BY SchedulerAssumption
    <3>2. expired \subseteq Names
      BY DEF expired, Present
    <3> QED BY <1>1, <2>1, <2>2, <2>4, <3>1, <3>2
  <2>6. \A n \in Names : buckets'[n] # None <=> n \in Present \ expired
    BY <1>1 DEF Present
  <2>7. \A i, j \in DOMAIN order' : order'[i] = order'[j] => i = j
    <3> SUFFICES ASSUME NEW i \in 1..l, NEW j \in 1..l, order'[i] = order'[j], i < j
                 PROVE  FALSE
      BY <2>4, <2>5
    <3>1. PICK p, q \in DOMAIN order : p < q /\ order[p] = order'[i] /\ order[q] = order'[j]
      BY <2>3, <2>5
    <3> QED BY <2>1, <3>1
  <2>8. \A i, j \in DOMAIN order' : i < j => buckets'[order'[i]].age >= buckets'[order'[j]].age
    <3> SUFFICES ASSUME NEW i \in 1..l, NEW j \in 1..l, i < j
                 PROVE  buckets'[order'[i]].age >= buckets'[order'[j]].age
      BY <2>5
    <3>1. PICK p, q \in DOMAIN order : p < q /\ order[p] = order'[i] /\ order[q] = order'[j]
      BY <2>3, <2>5
    <3>2. buckets'[order'[i]] = buckets[order'[i]] /\ buckets'[order'[j]] = buckets[order'[j]]
      BY <1>1, <2>2 DEF Present
    <3>3. q < Len(order) + 1
      BY <2>1, <3>1
    <3> QED BY <2>1, <3>1, <3>2, <3>3
  <2>9. \A n \in Names : buckets'[n] # None <=> \E i \in DOMAIN order' : order'[i] = n
    BY <2>3, <2>6
  <2> QED BY <2>5, <2>7, <2>8, <2>9 DEF Ordered, Listed, InOrder, Now
<1> QED BY <1>3, <1>4, <1>5, <1>6, <1>7 DEF IInv, Good, Now, IsState

LEMMA TickKeeps ==
    ASSUME IInv, Tick
    PROVE  IInv'
<1>1. /\ buckets \in [Names -> Buckets \union {None}]
      /\ \A n \in Names : Sound(n, buckets[n])
      /\ \A n \in Names : n \notin lost => Backed(n, buckets[n], {})
      /\ ideal \in [Names -> Int] /\ \A n \in Names : ideal[n] <= Full(Limit[n])
  BY DEF IInv, Good, Now, IdealOK
<1>2. /\ buckets' = [n \in Names |-> IF n \in Present THEN Refilled(buckets[n]) ELSE None]
      /\ ideal' = [n \in Names |-> AtMost(ideal[n] + Limit[n], Full(Limit[n]))]
      /\ lost' = {n \in lost : ideal'[n] < Full(Limit[n])}
  BY DEF Tick
<1>3. IdealOK'
  BY <1>1, <1>2, ConstantTypes DEF IdealOK, AtMost
<1>4. ASSUME NEW n \in Names, buckets[n] # None
      PROVE  LET b == buckets[n]
             IN  /\ b \in Buckets /\ buckets'[n] \in Buckets /\ buckets'[n] # None
                 /\ b.qps \in Nat /\ b.tokens \in Nat /\ Full(b.qps) \in Nat
                 /\ buckets'[n].qps = b.qps
                 /\ buckets'[n].tokens = AtMost(b.tokens + b.qps, Full(b.qps))
                 /\ b.age \in 0..TTL + 1 /\ buckets'[n].age = AtMost(b.age + 1, TTL + 1)
  <2> DEFINE b == buckets[n]
  <2>1. /\ b \in Buckets /\ b.qps \in Nat /\ b.tokens \in Nat /\ b.age \in 0..TTL + 1
        /\ Full(b.qps) \in Nat
    BY <1>1, <1>4, FullNat DEF Buckets
  <2>2. PICK q, t, a : b = [qps |-> q, tokens |-> t, age |-> a]
    BY <2>1 DEF Buckets
  <2>3. buckets'[n] = Refilled(b)
    BY <1>2, <1>4 DEF Present
  <2> HIDE DEF b
  <2>4. Refilled(b) = [qps |-> b.qps, tokens |-> AtMost(b.tokens + b.qps, Full(b.qps)),
                       age |-> AtMost(b.age + 1, TTL + 1)]
    <3> DEFINE x == AtMost(b.tokens + b.qps, Full(b.qps))
               y == AtMost(b.age + 1, TTL + 1)
    <3>1. Refilled(b) = [b EXCEPT !.tokens = x, !.age = y]
      BY DEF Refilled
    <3> HIDE DEF x, y
    <3>2. Refilled(b) = [qps |-> q, tokens |-> x, age |-> y] /\ b.qps = q
      BY <2>2, <3>1
    <3> QED BY <3>2 DEF x, y
  <2>5. AtMost(b.tokens + b.qps, Full(b.qps)) \in Nat /\ AtMost(b.age + 1, TTL + 1) \in 0..TTL + 1
    BY <2>1, SchedulerAssumption DEF AtMost
  <2>6. Refilled(b) \in Buckets
    BY <2>1, <2>4, <2>5 DEF Buckets
  <2> QED BY <2>1, <2>3, <2>4, <2>6, ConstantTypes DEF b
<1>5. \A n \in Names : buckets[n] = None => buckets'[n] = None
  BY <1>2 DEF Present
<1>6. buckets' \in [Names -> Buckets \union {None}]
  <2>1. buckets' = [n \in Names |-> buckets'[n]]
    BY <1>2
  <2>2. \A n \in Names : buckets'[n] \in Buckets \union {None}
    BY <1>4, <1>5
  <2> QED BY <2>1, <2>2
<1>7. \A n \in Names : Sound(n, buckets[n])'
  <2> TAKE n \in Names
  <2>1. CASE buckets[n] = None
    BY <1>5, <2>1 DEF Sound
  <2>2. CASE buckets[n] # None
    <3> DEFINE b == buckets[n]
               c == buckets'[n]
    <3>1. b.tokens <= Full(b.qps) /\ b.qps <= Limit[n] /\ Rested(b)
      BY <1>1, <2>2 DEF Sound
    <3>2. /\ b.qps \in Nat /\ b.tokens \in Nat /\ Full(b.qps) \in Nat
          /\ b.age \in 0..TTL + 1 /\ c.qps = b.qps
          /\ c.tokens = AtMost(b.tokens + b.qps, Full(b.qps))
          /\ c.age = AtMost(b.age + 1, TTL + 1)
      BY <1>4, <2>2
    <3> HIDE DEF b, c
    <3>3. Rested(c)
      BY <3>1, <3>2, RestFills DEF Rested
    <3>4. c.tokens <= Full(c.qps) /\ c.qps <= Limit[n]
      BY <3>1, <3>2 DEF AtMost
    <3> QED BY <3>3, <3>4 DEF Sound, c
  <2> QED BY <2>1, <2>2
<1>8. ASSUME NEW n \in Names, n \notin lost'
      PROVE  Backed(n, buckets[n], {})'
  <2>1. /\ ideal[n] \in Int /\ Limit[n] \in Nat /\ Full(Limit[n]) \in Nat
        /\ ideal'[n] = AtMost(ideal[n] + Limit[n], Full(Limit[n]))
        /\ ideal[n] <= Full(Limit[n])
    BY <1>1, <1>2, ConstantTypes
  <2>2. CASE n \in lost
    <3>1. ideal'[n] = Full(Limit[n])
      BY <1>2, <1>8, <2>1, <2>2 DEF AtMost
    <3>2. buckets'[n] # None => buckets'[n].tokens <= Full(buckets'[n].qps)
      BY <1>7 DEF Sound
    <3>3. buckets'[n] # None => buckets'[n].tokens \in Nat /\ Full(buckets'[n].qps) \in Nat
      BY <1>6, FullNat DEF Buckets
    <3> QED BY <2>1, <3>1, <3>2, <3>3 DEF Backed, Due
  <2>3. CASE n \notin lost /\ buckets[n] = None
    <3>1. ideal'[n] = Full(Limit[n])
      BY <1>1, <2>1, <2>3 DEF Backed, AtMost
    <3> QED BY <1>5, <2>3, <3>1 DEF Backed
  <2>4. CASE n \notin lost /\ buckets[n] # None
    <3> DEFINE b == buckets[n]
    <3>1. /\ Full(Limit[n]) - ideal[n] <= Full(b.qps) - b.tokens
          /\ b.qps <= Limit[n]
      BY <1>1, <2>4 DEF Backed, Due, Sound
    <3>2. /\ b.qps \in Nat /\ b.tokens \in Nat /\ Full(b.qps) \in Nat
          /\ buckets'[n] # None /\ buckets'[n].qps = b.qps
          /\ buckets'[n].tokens = AtMost(b.tokens + b.qps, Full(b.qps))
      BY <1>4, <2>4
    <3> HIDE DEF b
    <3>3. Full(Limit[n]) - ideal'[n] <= Full(b.qps) - buckets'[n].tokens
      BY <2>1, <3>1, <3>2 DEF AtMost
    <3> QED BY <3>2, <3>3 DEF Backed, Due
  <2> QED BY <2>2, <2>3, <2>4
<1>9. Ordered(Now)'
  <2>1. order' = order /\ lost' \subseteq lost
    BY <1>2 DEF Tick
  <2>2. /\ order \in Seq(Names) /\ Len(order) <= MaxBuckets /\ lost \subseteq Names
        /\ \A n \in Names : buckets[n] # None <=> \E i \in DOMAIN order : order[i] = n
        /\ \A i, j \in DOMAIN order : order[i] = order[j] => i = j
        /\ \A i, j \in DOMAIN order : i < j /\ j < Len(order) + 1 =>
              buckets[order[i]].age >= buckets[order[j]].age
    BY DEF IInv, Ordered, Listed, InOrder, Now
  <2>3. \A n \in Names : buckets'[n] # None <=> buckets[n] # None
    BY <1>4, <1>5
  <2>4. ASSUME NEW i \in DOMAIN order, NEW j \in DOMAIN order, i < j, j < Len(order) + 1
        PROVE  buckets'[order[i]].age >= buckets'[order[j]].age
    <3> DEFINE m == order[i]
               n == order[j]
    <3>1. m \in Names /\ n \in Names /\ buckets[m] # None /\ buckets[n] # None
      BY <2>2
    <3>2. /\ buckets[m].age \in Int /\ buckets'[m].age = AtMost(buckets[m].age + 1, TTL + 1)
          /\ buckets[n].age \in Int /\ buckets'[n].age = AtMost(buckets[n].age + 1, TTL + 1)
          /\ TTL \in Nat
      BY <1>4, <3>1, SchedulerAssumption
    <3>3. buckets[m].age >= buckets[n].age
      BY <2>2, <2>4
    <3> HIDE DEF m, n
    <3>4. buckets'[m].age >= buckets'[n].age
      BY <3>2, <3>3 DEF AtMost
    <3> QED BY <3>4 DEF m, n
  <2> QED BY <2>1, <2>2, <2>3, <2>4 DEF Ordered, Listed, InOrder, Now
<1> QED BY <1>3, <1>6, <1>7, <1>8, <1>9 DEF IInv, Good, Now, IsState

-----------------------------------------------------------------------------
LEMMA InductiveInvariant == Spec => []IInv
<1>1. Init => IInv
  <2> SUFFICES ASSUME Init PROVE IInv
    OBVIOUS
  <2>1. /\ buckets = [n \in Names |-> None] /\ lost = {}
        /\ ideal = [n \in Names |-> Full(Limit[n])]
    BY DEF Init
  <2>2. IdealOK
    BY <2>1, ConstantTypes DEF IdealOK
  <2>3. \A n \in Names : Sound(n, buckets[n]) /\ Backed(n, buckets[n], {})
    BY <2>1 DEF Sound, Backed
  <2>4. Ordered(Now)
    <3>1. order = <<>> /\ MaxBuckets \in Nat
      BY SchedulerAssumption DEF Init
    <3> QED BY <2>1, <3>1 DEF Ordered, Listed, InOrder, Now
  <2> QED BY <2>1, <2>2, <2>3, <2>4 DEF IInv, Good, Now, IsState
<1>2. IInv /\ [Next]_vars => IInv'
  <2> SUFFICES ASSUME IInv, [Next]_vars PROVE IInv'
    OBVIOUS
  <2>1. ASSUME NEW r \in Requests, CheckRateLimit(r) PROVE IInv'
    BY <2>1, CheckKeeps
  <2>2. CASE Cleanup
    BY <2>2, CleanupKeeps
  <2>3. CASE Tick
    BY <2>3, TickKeeps
  <2>4. CASE UNCHANGED vars
    BY <2>4 DEF vars, IInv, IdealOK, Good, Now, IsState, Sound, Rested, Backed, Due, Ordered,
               Listed, InOrder
  <2> QED BY <2>1, <2>2, <2>3, <2>4 DEF Next
<1> QED BY <1>1, <1>2, PTL DEF Spec

\* Over any stretch of time check_rate_limit lets a provider key, a tenant or a
\* profile through no more often than its limit and one second's burst allow,
\* however many requests share its bucket and whatever qps the bucket was created
\* with; the exception is a bucket dropped before it was full.
THEOREM RatesAreKept == Spec => []WithinRate
<1>1. IInv => WithinRate
  <2> SUFFICES ASSUME IInv, NEW n \in Names \ lost PROVE ideal[n] >= 0
    BY DEF WithinRate
  <2>1. /\ buckets[n] \in Buckets \union {None} /\ Sound(n, buckets[n])
        /\ Backed(n, buckets[n], {}) /\ ideal[n] \in Int
        /\ Limit[n] \in Nat /\ Full(Limit[n]) \in Nat
    BY ConstantTypes DEF IInv, Good, Now, IdealOK
  <2>2. CASE buckets[n] = None
    BY <2>1, <2>2 DEF Backed
  <2>3. CASE buckets[n] # None
    <3> DEFINE b == buckets[n]
    <3>1. b.tokens \in Nat /\ b.qps \in Nat /\ Full(b.qps) \in Nat
      BY <2>1, <2>3, FullNat DEF Buckets
    <3>2. Full(b.qps) <= Full(Limit[n])
      BY <2>1, <2>3, <3>1, FullGrows DEF Sound
    <3>3. Full(Limit[n]) - ideal[n] <= Full(b.qps) - b.tokens
      BY <2>1, <2>3 DEF Backed, Due
    <3> QED BY <2>1, <3>1, <3>2, <3>3
  <2> QED BY <2>2, <2>3
<1> QED BY <1>1, InductiveInvariant, PTL

\* The clean-up task drops full buckets only, whatever the limits and the clock, as
\* long as a bucket lives for a second at least: it lets nobody exceed a limit.
THEOREM StaleAreFull == Spec => []StaleBucketsAreFull
<1>1. IInv => StaleBucketsAreFull
  <2> SUFFICES ASSUME IInv, NEW n \in Present, buckets[n].age > TTL
               PROVE  buckets[n].tokens = Full(buckets[n].qps)
    BY DEF StaleBucketsAreFull
  <2> DEFINE b == buckets[n]
  <2>1. b \in Buckets /\ b.tokens <= Full(b.qps) /\ Rested(b)
    BY DEF Present, IInv, Good, Now, Sound
  <2>2. b.qps \in Nat /\ b.tokens \in Nat /\ b.age \in Nat /\ Full(b.qps) \in Nat
    BY <2>1, FullNat, SchedulerAssumption DEF Buckets
  <2> HIDE DEF b
  <2>3. Second <= b.age /\ Second \in Nat
    BY <2>2, SchedulerAssumption DEF b
  <2>4. PICK d \in Nat : b.age = Second + d
    <3>1. b.age - Second \in Nat /\ b.age = Second + (b.age - Second)
      BY <2>2, <2>3
    <3> QED BY <3>1
  <2>5. b.age * b.qps = b.qps * Second + d * b.qps /\ d * b.qps \in Nat
    BY <2>2, <2>3, <2>4
  <2>6. Full(b.qps) <= b.age * b.qps
    BY <2>2, <2>3, <2>5 DEF Full
  <2>7. b.age * b.qps \in Nat
    BY <2>2
  <2>8. b.tokens = Full(b.qps)
    BY <2>1, <2>2, <2>6, <2>7 DEF Rested
  <2> QED BY <2>8 DEF b
<1> QED BY <1>1, InductiveInvariant, PTL

\* Every variable keeps its type, and the order lists each bucket there is once: the
\* dictionary never has more than max_buckets of them.
THEOREM TypeCorrect == Spec => []TypeOK
<1>1. IInv => TypeOK
  <2> SUFFICES ASSUME IInv PROVE TypeOK
    OBVIOUS
  <2>1. /\ buckets \in [Names -> Buckets \union {None}] /\ ideal \in [Names -> Int]
        /\ \A n \in Present : buckets[n].tokens <= Full(buckets[n].qps)
    BY DEF IInv, IdealOK, Good, Now, Sound, Present
  <2>2. /\ order \in Seq(Names) /\ Len(order) <= MaxBuckets /\ lost \subseteq Names
        /\ \A n \in Names : buckets[n] # None <=> \E i \in DOMAIN order : order[i] = n
        /\ \A i, j \in DOMAIN order : order[i] = order[j] => i = j
    BY DEF IInv, Ordered, Listed, Now
  <2>3. {order[i] : i \in DOMAIN order} = Present
    BY <2>2 DEF Present
  <2> QED BY <2>1, <2>2, <2>3 DEF TypeOK
<1> QED BY <1>1, InductiveInvariant, PTL

\* The bucket _evict_lru_bucket drops is one that was last asked before all others: the
\* order of the dictionary is that of the last accesses, refused ones included.
THEOREM OrderIsOfAccesses == Spec => []OldestFirst
<1>1. IInv => OldestFirst
  <2> SUFFICES ASSUME IInv, NEW i \in DOMAIN order, NEW j \in DOMAIN order, i < j
               PROVE  buckets[order[i]].age >= buckets[order[j]].age
    BY DEF OldestFirst
  <2>1. order \in Seq(Names) /\ InOrder(Now, Len(Now.order) + 1)
    BY DEF IInv, Ordered, Listed, Now
  <2> QED BY <2>1 DEF InOrder, Now
<1> QED BY <1>1, InductiveInvariant, PTL
=============================================================================
