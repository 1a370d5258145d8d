--------------------------- MODULE TierSyncProofs ---------------------------
(***************************************************************************)
(* The proofs that an event is processed once, and that a webhook nobody    *)
(* disturbed decides both copies of a tier, for any workers, subscribers,   *)
(* tiers and numbers of events and failures.                                *)
(*                                                                         *)
(* The first rests on what the workers are at: an event that nothing        *)
(* excuses is with one worker at most, and with none once it is done.  The  *)
(* second on how far a clean webhook has got: once none of its commands on  *)
(* the cache is left the cache has its tier or none, and likewise for the   *)
(* tenant's record.                                                         *)
(***************************************************************************)
EXTENDS TierSync, SequenceTheorems, TLAPS

Busy(w) == job[w].id # 0
Of(w) == happened[job[w].id]
Left(w) == {job[w].todo[i] : i \in DOMAIN job[w].todo}

CacheWrites == {"set_cache", "drop_cache"}
TenantWrites == {"create_tenant", "update_tenant", "drop_tenant"}

\* The last command stores the result, and only events that bring a tier write one.
Proper(todo, kind) ==
    /\ \A i \in DOMAIN todo : todo[i] = "store" <=> i = Len(todo)
    /\ \A i \in DOMAIN todo : /\ todo[i] \in {"set_cache", "create_tenant", "update_tenant"}
                                 => kind \in {"created", "updated"}
                              /\ todo[i] = "drop_tenant" => kind = "cancelled"
    /\ kind = "alert" => Len(todo) = 1

\* What a webhook begins with.
Begins(todo, kind) ==
    /\ todo \in Seq(Commands) /\ todo # <<>> /\ Proper(todo, kind)
    /\ Work(kind) = <<>> <=> kind = "alert"
    /\ kind # "alert" => /\ \E i \in DOMAIN todo : todo[i] \in CacheWrites
                         /\ \E i \in DOMAIN todo : todo[i] \in TenantWrites

Shape ==
    /\ \A n \in DOMAIN happened :
          happened[n].kind \in {"created", "updated"} <=> happened[n].tier # NoTier
    /\ \A w \in Workers : Busy(w) => Proper(job[w].todo, Of(w).kind)

\* An event that nothing excuses: it is with one worker at most, with none once it is
\* done, and its result is stored.
OnceOK ==
    /\ \A n \in Ids : n \notin excused => done[n] <= 1 /\ (done[n] = 1 => n \in stored)
    /\ \A w \in Workers : Busy(w) /\ job[w].id \notin excused =>
          /\ done[job[w].id] = 0
          /\ \A v \in Workers \ {w} : job[v].id # job[w].id

\* A clean webhook is the only one of its subscriber.
Alone ==
    \A w \in Workers : Busy(w) /\ job[w].clean =>
        \A v \in Workers \ {w} : Busy(v) => Of(v).of # Of(w).of

\* What a clean webhook has done so far.
Progress(w) ==
    Busy(w) /\ job[w].clean /\ Of(w).kind # "alert" =>
        /\ Left(w) \intersect CacheWrites = {} => cache[Of(w).of] \in {NoTier, Of(w).tier}
        /\ Left(w) \intersect TenantWrites = {} => tenant[Of(w).of] = Of(w).tier

\* Only alerts are at work on a subscriber that is settled.
Quiet ==
    \A w \in Workers : Busy(w) /\ settled[Of(w).of] # Unsure => Of(w).kind = "alert"

Decided == Alone /\ (\A w \in Workers : Progress(w)) /\ Quiet /\ CleanRunDecides

Inv == TypeOK /\ Shape

-----------------------------------------------------------------------------
(* Sequences of commands. *)

LEMMA TailTypes ==
    ASSUME NEW S, NEW s \in Seq(S), s # <<>>
    PROVE  /\ Head(s) = s[1] /\ Head(s) \in S /\ Len(s) \in Nat \ {0} /\ DOMAIN s = 1..Len(s)
           /\ Tail(s) \in Seq(S) /\ Len(Tail(s)) = Len(s) - 1 /\ DOMAIN Tail(s) = 1..Len(s) - 1
           /\ Tail(s) = <<>> <=> Len(s) = 1
           /\ \A i \in 1..Len(s) - 1 : Tail(s)[i] = s[i + 1] /\ i + 1 \in DOMAIN s
<1>1. Tail(s) \in Seq(S) /\ Len(Tail(s)) = Len(s) - 1 /\ Len(s) \in Nat \ {0} /\ Head(s) \in S
  BY HeadTailProperties, EmptySeq
<1>2. DOMAIN s = 1..Len(s) /\ DOMAIN Tail(s) = 1..Len(s) - 1
  BY <1>1, LenProperties
<1>3. \A i \in 1..Len(s) - 1 : Tail(s)[i] = s[i + 1] /\ i + 1 \in DOMAIN s
  BY <1>1, <1>2, HeadTailProperties
<1>4. Tail(s) = <<>> <=> Len(s) = 1
  <2>1. \A t \in Seq(S) : t # <<>> => Len(t) \in Nat \ {0}
    BY EmptySeq
  <2>2. Len(Tail(s)) = 0 => Tail(s) = <<>>
    BY <1>1, <2>1
  <2>3. Tail(s) = <<>> => Len(Tail(s)) = 0
    BY EmptySeq
  <2> QED BY <1>1, <2>2, <2>3
<1> QED BY <1>1, <1>2, <1>3, <1>4

\* What is proper stays so when the first command is gone, and another one when the
\* first cannot be the last.
LEMMA ProperTail ==
    ASSUME NEW todo \in Seq(Commands), NEW kind, Proper(todo, kind), todo # <<>>, Tail(todo) # <<>>
    PROVE  Proper(Tail(todo), kind) /\ kind # "alert" /\ Head(todo) # "store"
<1>1. /\ Len(Tail(todo)) = Len(todo) - 1 /\ DOMAIN Tail(todo) = 1..Len(todo) - 1
      /\ Len(todo) \in Nat \ {0, 1} /\ Head(todo) = todo[1] /\ 1 \in DOMAIN todo
      /\ \A i \in 1..Len(todo) - 1 : Tail(todo)[i] = todo[i + 1] /\ i + 1 \in DOMAIN todo
  BY TailTypes
<1>2. kind # "alert" /\ Head(todo) # "store"
  BY <1>1 DEF Proper
<1>3. \A i \in DOMAIN Tail(todo) : i + 1 = Len(todo) <=> i = Len(Tail(todo))
  BY <1>1
<1> QED BY <1>1, <1>2, <1>3 DEF Proper

\* A webhook begins with all its commands.
LEMMA WorkProper ==
    ASSUME NEW kind \in Kinds
    PROVE  Begins(Append(Work(kind), "store"), kind)
<1> DEFINE todo == Append(Work(kind), "store")
<1> SUFFICES Begins(todo, kind)
  OBVIOUS
<1> HIDE DEF todo
<1>1. /\ "drop_cache" \in Commands /\ "set_cache" \in Commands /\ "expire_cache" \in Commands
      /\ "store" \in Commands /\ "create_tenant" \in Commands /\ "expire_tenant" \in Commands
      /\ "update_tenant" \in Commands /\ "drop_tenant" \in Commands
  BY DEF Commands, TenantCommands
<1>2. CASE kind = "created"
  <2>1. Work(kind) = <<"set_cache", "expire_cache", "create_tenant", "expire_tenant">>
    BY <1>2 DEF Work
  <2>2. /\ todo \in Seq(Commands) /\ todo # <<>> /\ Len(todo) = 5 /\ DOMAIN todo = {1, 2, 3, 4, 5}
        /\ todo[1] = "set_cache" /\ todo[2] = "expire_cache" /\ todo[3] = "create_tenant"
        /\ todo[4] = "expire_tenant" /\ todo[5] = "store"
    BY <1>1, <2>1 DEF todo
  <2>3. Work(kind) # <<>>
    BY <2>1
  <2> QED BY <1>2, <2>2, <2>3 DEF Begins, Proper, CacheWrites, TenantWrites
<1>3. CASE kind = "updated"
  <2>1. Work(kind) = <<"drop_cache", "set_cache", "expire_cache", "update_tenant">>
    BY <1>3 DEF Work
  <2>2. /\ todo \in Seq(Commands) /\ todo # <<>> /\ Len(todo) = 5 /\ DOMAIN todo = {1, 2, 3, 4, 5}
        /\ todo[1] = "drop_cache" /\ todo[2] = "set_cache" /\ todo[3] = "expire_cache"
        /\ todo[4] = "update_tenant" /\ todo[5] = "store"
    BY <1>1, <2>1 DEF todo
  <2>3. Work(kind) # <<>>
    BY <2>1
  <2> QED BY <1>3, <2>2, <2>3 DEF Begins, Proper, CacheWrites, TenantWrites
<1>4. CASE kind = "cancelled"
  <2>1. Work(kind) = <<"drop_cache", "drop_tenant">>
    BY <1>4 DEF Work
  <2>2. /\ todo \in Seq(Commands) /\ todo # <<>> /\ Len(todo) = 3 /\ DOMAIN todo = {1, 2, 3}
        /\ todo[1] = "drop_cache" /\ todo[2] = "drop_tenant" /\ todo[3] = "store"
    BY <1>1, <2>1 DEF todo
  <2>3. Work(kind) # <<>>
    BY <2>1
  <2> QED BY <1>4, <2>2, <2>3 DEF Begins, Proper, CacheWrites, TenantWrites
<1>5. CASE kind = "alert"
  <2>1. Work(kind) = <<>>
    BY <1>5 DEF Work
  <2>2. /\ todo \in Seq(Commands) /\ todo # <<>> /\ todo[1] = "store" /\ Len(todo) = 1
        /\ DOMAIN todo = {1}
    BY <1>1, <2>1 DEF todo
  <2> QED BY <1>5, <2>1, <2>2 DEF Begins, Proper
<1> QED BY <1>2, <1>3, <1>4, <1>5 DEF Kinds

-----------------------------------------------------------------------------
(* Types. *)

Jobs == [id : {0} \union DOMAIN happened, todo : Seq(Commands), clean : BOOLEAN]

LEMMA BusyTypes ==
    ASSUME TypeOK, NEW w \in Workers, Busy(w)
    PROVE  /\ job[w] \in Jobs /\ job[w].id \in DOMAIN happened /\ job[w].id \in Ids
           /\ Of(w) \in Events /\ Of(w).of \in Subscribers /\ Of(w).kind \in Kinds
           /\ Of(w).tier \in Tiers \union {NoTier}
           /\ job[w].todo \in Seq(Commands) /\ job[w].todo # <<>>
<1>1. /\ job[w] \in Jobs /\ job[w].id \in DOMAIN happened
      /\ job[w].todo \in Seq(Commands) /\ job[w].todo # <<>>
  BY DEF TypeOK, Jobs, Busy
<1>2. Of(w) \in Events /\ job[w].id \in Ids
  BY <1>1, ConstantsAssumption DEF TypeOK, Of, Ids
<1> QED BY <1>1, <1>2 DEF Events

\* A worker that starts on an event, one whose webhook goes on, and the others.
LEMMA StartsJobs ==
    ASSUME Inv, NEW w \in Workers, NEW n \in due, NEW clean \in BOOLEAN, Starts(w, n, clean)
    PROVE  /\ n \in DOMAIN happened /\ n # 0 /\ n \in Ids /\ happened[n] \in Events
           /\ happened[n].kind \in Kinds /\ happened[n].of \in Subscribers
           /\ job' \in [Workers -> Jobs]
           /\ job'[w].id = n /\ job'[w].todo = Append(Work(happened[n].kind), "store")
           /\ job'[w].clean => Others(w, happened[n].of) = {}
           /\ \A v \in Workers \ {w} :
                 /\ job'[v].id = job[v].id /\ job'[v].todo = job[v].todo
                 /\ job'[v].clean => job[v].clean /\ v \notin Others(w, happened[n].of)
<1> DEFINE e == happened[n]
           todo == Append(Work(e.kind), "store")
           rivals == Others(w, e.of)
<1>1. n \in DOMAIN happened /\ n # 0 /\ n \in Ids /\ e \in Events
  BY ConstantsAssumption DEF Inv, TypeOK, Ids
<1>2. e.kind \in Kinds /\ e.of \in Subscribers
  BY <1>1 DEF Events
<1>3. todo \in Seq(Commands)
  BY <1>2, WorkProper DEF Begins
<1>4. w \notin rivals
  BY DEF Others
<1>5. job' = [v \in Workers |-> CASE v = w -> [id |-> n, todo |-> todo, clean |-> clean /\ rivals = {}]
                                  [] v \in rivals -> [job[v] EXCEPT !.clean = FALSE]
                                  [] OTHER -> job[v]]
  BY DEF Starts
<1> HIDE DEF todo, rivals
<1>6. job'[w] = [id |-> n, todo |-> todo, clean |-> clean /\ rivals = {}]
  BY <1>4, <1>5
<1>7. \A v \in Workers \ {w} :
        job'[v] = IF v \in rivals THEN [job[v] EXCEPT !.clean = FALSE] ELSE job[v]
  BY <1>5
<1>8. \A v \in Workers : job[v] \in Jobs
  BY DEF Inv, TypeOK, Jobs
<1>9. \A v \in Workers \ {w} :
        /\ job'[v] \in Jobs /\ job'[v].id = job[v].id /\ job'[v].todo = job[v].todo
        /\ job'[v].clean => job[v].clean /\ v \notin rivals
  BY <1>7, <1>8 DEF Jobs
<1>10. job'[w] \in Jobs
  BY <1>1, <1>3, <1>6 DEF Jobs
<1>11. job' \in [Workers -> Jobs]
  BY <1>5, <1>9, <1>10
<1>12. job'[w].id = n /\ job'[w].todo = todo
  BY <1>6
<1>13. job'[w].clean => rivals = {}
  <2>1. job'[w].clean = (clean /\ rivals = {})
    BY <1>6
  <2> QED BY <2>1, Zenon
<1> QED BY <1>1, <1>2, <1>9, <1>11, <1>12, <1>13 DEF todo, rivals

LEMMA GoesOnJobs ==
    ASSUME Inv, NEW w \in Workers, Busy(w), NEW todo \in Seq(Commands), NEW clean \in BOOLEAN,
           GoesOn(w, Head(job[w].todo), todo, clean)
    PROVE  /\ job' \in [Workers -> Jobs]
           /\ \A v \in Workers \ {w} : job'[v] = job[v]
           /\ todo = <<>> => job'[w] = Idle /\ job'[w].id = 0
           /\ todo # <<>> => /\ job'[w].id = job[w].id /\ job'[w].todo = todo
                             /\ job'[w].clean = (job[w].clean /\ clean)
<1>1. job[w] \in Jobs
  BY BusyTypes DEF Inv
<1>2. Idle \in Jobs /\ Idle.id = 0
  BY DEF Idle, Jobs
<1>3. job' = [job EXCEPT ![w] = IF todo = <<>> THEN Idle
                                ELSE [id |-> job[w].id, todo |-> todo, clean |-> job[w].clean /\ clean]]
  BY DEF GoesOn
<1>4. job \in [Workers -> Jobs]
  BY DEF Inv, TypeOK, Jobs
<1> QED BY <1>1, <1>2, <1>3, <1>4 DEF Jobs

\* What is left after a command, and after one that raised.
LEMMA LeftTypes ==
    ASSUME Inv, NEW w \in Workers, Busy(w)
    PROVE  LET todo == job[w].todo
           IN  /\ Tail(todo) \in Seq(Commands)
               /\ AfterError(Head(todo), Tail(todo)) \in Seq(Commands)
               /\ Tail(todo) # <<>> => Proper(Tail(todo), Of(w).kind) /\ Head(todo) # "store"
               /\ AfterError(Head(todo), Tail(todo)) # <<>>
                  => Proper(AfterError(Head(todo), Tail(todo)), Of(w).kind) /\ Head(todo) # "store"
               /\ Head(todo) = "store" <=> Tail(todo) = <<>>
<1> DEFINE todo == job[w].todo
<1>1. todo \in Seq(Commands) /\ todo # <<>> /\ Proper(todo, Of(w).kind)
  BY BusyTypes DEF Inv, Shape
<1> HIDE DEF todo
<1>2. /\ Tail(todo) \in Seq(Commands)
      /\ Tail(todo) # <<>> => Proper(Tail(todo), Of(w).kind) /\ Head(todo) # "store"
  BY <1>1, ProperTail, TailTypes
<1>3. Tail(todo) = <<>> => Head(todo) = "store"
  BY <1>1, TailTypes DEF Proper
<1>4. <<>> \in Seq(Commands)
  BY EmptySeq
<1>5. Tail(todo) # <<>> => /\ Tail(Tail(todo)) \in Seq(Commands)
                           /\ Tail(Tail(todo)) # <<>> => Proper(Tail(Tail(todo)), Of(w).kind)
  BY <1>2, ProperTail, TailTypes
<1>6. AfterError(Head(todo), Tail(todo)) = IF Head(todo) = "set_cache" THEN Tail(Tail(todo))
                                           ELSE IF Head(todo) \in TenantCommands THEN <<>>
                                           ELSE Tail(todo)
  BY DEF AfterError, TenantCommands
<1>7. Head(todo) = "set_cache" => Tail(todo) # <<>>
  BY <1>3
<1> QED BY <1>2, <1>3, <1>4, <1>5, <1>6, <1>7 DEF todo

\* What Redis holds.
StoreTypes ==
    /\ cache \in [Subscribers -> Tiers \union {NoTier}]
    /\ tenant \in [Subscribers -> Tiers \union {NoTier}]
    /\ live \subseteq Keys
    /\ \A s \in Subscribers :
          /\ <<"cache", s>> \in live => cache[s] # NoTier
          /\ <<"tenant", s>> \in live => tenant[s] # NoTier
    /\ stored \subseteq DOMAIN happened

LEMMA DoesTypes ==
    ASSUME Inv, NEW w \in Workers, Busy(w), Does(Head(job[w].todo), job[w].id), UNCHANGED happened
    PROVE  StoreTypes'
<1> DEFINE op == Head(job[w].todo)
           s == Of(w).of
           t == Of(w).tier
<1>1. s \in Subscribers /\ t \in Tiers \union {NoTier} /\ job[w].id \in DOMAIN happened
  BY BusyTypes DEF Inv
<1>2. op \in {"set_cache", "create_tenant", "update_tenant"} => t # NoTier
  <2>1. op = job[w].todo[1] /\ 1 \in DOMAIN job[w].todo
    BY BusyTypes, TailTypes DEF Inv
  <2> QED BY <2>1, BusyTypes DEF Inv, Shape, Proper, Of
<1>3. StoreTypes
  BY DEF Inv, TypeOK, StoreTypes
<1>4. <<"cache", s>> \in Keys /\ <<"tenant", s>> \in Keys
  BY <1>1 DEF Keys
<1>5. \/ /\ op = "store" /\ stored' = stored \union {job[w].id} /\ UNCHANGED <<cache, tenant, live>>
      \/ /\ op = "drop_cache" /\ cache' = [cache EXCEPT ![s] = NoTier]
         /\ live' = live \ {<<"cache", s>>} /\ UNCHANGED <<tenant, stored>>
      \/ /\ op = "set_cache" /\ cache' = [cache EXCEPT ![s] = t] /\ UNCHANGED <<tenant, live, stored>>
      \/ /\ live' = IF cache[s] # NoTier THEN live \union {<<"cache", s>>} ELSE live
         /\ UNCHANGED <<cache, tenant, stored>>
      \/ /\ op \in {"create_tenant", "update_tenant"} /\ tenant' = [tenant EXCEPT ![s] = t]
         /\ UNCHANGED <<cache, live, stored>>
      \/ /\ live' = IF tenant[s] # NoTier THEN live \union {<<"tenant", s>>} ELSE live
         /\ UNCHANGED <<cache, tenant, stored>>
      \/ /\ op = "drop_tenant" /\ tenant' = [tenant EXCEPT ![s] = NoTier]
         /\ live' = live \ {<<"tenant", s>>} /\ UNCHANGED <<cache, stored>>
  BY DEF Does, Dropped, Of
<1> HIDE DEF op, s, t
<1> QED BY <1>1, <1>2, <1>3, <1>4, <1>5 DEF StoreTypes, Keys

\* A command that is carried out, or raises and is not.
LEMMA GoesOnTypes ==
    ASSUME Inv, NEW w \in Workers, Busy(w), NEW todo \in Seq(Commands), NEW clean \in BOOLEAN,
           GoesOn(w, Head(job[w].todo), todo, clean), UNCHANGED happened, StoreTypes',
           todo # <<>> => Proper(todo, Of(w).kind),
           torn' \subseteq Subscribers, excused' \subseteq DOMAIN happened, failures' \in 0..MaxFailures
    PROVE  Inv'
<1>1. /\ job' \in [Workers -> Jobs] /\ \A v \in Workers \ {w} : job'[v] = job[v]
      /\ todo = <<>> => job'[w] = Idle
      /\ todo # <<>> => job'[w].id = job[w].id /\ job'[w].todo = todo
  BY GoesOnJobs
<1>2. \A v \in Workers : job'[v].id = 0 <=> job'[v].todo = <<>>
  BY <1>1 DEF Inv, TypeOK, Idle, Busy
<1>3. marked' \subseteq DOMAIN happened /\ due' \subseteq DOMAIN happened /\ drops' \in 0..MaxDrops
  BY ConstantsAssumption DEF GoesOn, Answers, Inv, TypeOK
<1>4. settled' \in [Subscribers -> Tiers \union {NoTier, Unsure}]
  BY BusyTypes DEF GoesOn, Inv, TypeOK, Of
<1>5. done' \in [Ids -> Nat]
  BY BusyTypes DEF GoesOn, Inv, TypeOK
<1>6. TypeOK'
  BY <1>1, <1>2, <1>3, <1>4, <1>5 DEF Inv, TypeOK, StoreTypes, Jobs
<1>7. Shape'
  <2>1. ASSUME NEW v \in Workers, Busy(v)'
        PROVE  Proper(job'[v].todo, happened'[job'[v].id].kind)
    <3>1. CASE v # w
      BY <1>1, <2>1, <3>1 DEF Inv, Shape, Busy, Of
    <3>2. CASE v = w
      BY <1>1, <2>1, <3>2 DEF Busy, Of, Idle
    <3> QED BY <3>1, <3>2
  <2> QED BY <2>1 DEF Inv, Shape, Of
<1> QED BY <1>6, <1>7 DEF Inv

LEMMA StartsTypes ==
    ASSUME Inv, NEW w \in Workers, NEW n \in due, NEW clean \in BOOLEAN, Starts(w, n, clean),
           UNCHANGED <<happened, cache, tenant, live, stored, due, done, torn, drops>>,
           failures' \in 0..MaxFailures
    PROVE  Inv'
<1>1. /\ n \in DOMAIN happened /\ n # 0 /\ happened[n].of \in Subscribers /\ happened[n].kind \in Kinds
      /\ job' \in [Workers -> Jobs]
      /\ job'[w].id = n /\ job'[w].todo = Append(Work(happened[n].kind), "store")
      /\ \A v \in Workers \ {w} : job'[v].id = job[v].id /\ job'[v].todo = job[v].todo
  BY StartsJobs
<1>2. job'[w].todo # <<>> /\ Proper(job'[w].todo, happened[n].kind)
  BY <1>1, WorkProper DEF Begins
<1>3. \A v \in Workers : job'[v].id = 0 <=> job'[v].todo = <<>>
  BY <1>1, <1>2 DEF Inv, TypeOK
<1>4. /\ marked' \subseteq DOMAIN happened /\ excused' \subseteq DOMAIN happened
      /\ settled' \in [Subscribers -> Tiers \union {NoTier, Unsure}]
  BY <1>1 DEF Starts, Inv, TypeOK
<1>5. TypeOK'
  BY <1>1, <1>3, <1>4 DEF Inv, TypeOK, Jobs
<1>6. Shape'
  <2>1. ASSUME NEW v \in Workers, Busy(v)'
        PROVE  Proper(job'[v].todo, happened'[job'[v].id].kind)
    <3>1. CASE v # w
      BY <1>1, <2>1, <3>1 DEF Inv, Shape, Busy, Of
    <3>2. CASE v = w
      BY <1>1, <1>2, <3>2
    <3> QED BY <3>1, <3>2
  <2> QED BY <2>1 DEF Inv, Shape, Of
<1> QED BY <1>5, <1>6 DEF Inv

LEMMA InvInit == Init => Inv
<1> SUFFICES ASSUME Init PROVE Inv
  OBVIOUS
<1>1. TypeOK
  BY ConstantsAssumption DEF Init, TypeOK, Idle, Ids
<1>2. Shape
  BY DEF Init, Shape, Idle, Busy
<1> QED BY <1>1, <1>2 DEF Inv

LEMMA InvStep == Inv /\ [Next]_vars => Inv'
<1> SUFFICES ASSUME Inv, [Next]_vars PROVE Inv'
  OBVIOUS
<1>1. ASSUME NEW e \in Events, Happens(e) PROVE Inv'
  <2>1. /\ happened' = Append(happened, e) /\ Len(happened) < MaxEvents
        /\ UNCHANGED <<cache, tenant, live, marked, stored, job, settled, done, excused, torn,
                       failures, drops>>
        /\ due' = due \union {Len(happened) + 1}
    BY <1>1 DEF Happens, redis, ghosts, bounds
  <2>2. /\ happened' \in Seq(Events) /\ Len(happened') <= MaxEvents
        /\ DOMAIN happened \subseteq DOMAIN happened' /\ Len(happened) + 1 \in DOMAIN happened'
        /\ \A n \in DOMAIN happened : happened'[n] = happened[n]
        /\ \A n \in DOMAIN happened' : n \in DOMAIN happened \/ happened'[n] = e
    BY <2>1, ConstantsAssumption DEF Inv, TypeOK
  <2>3. job' \in [Workers -> Jobs']
    BY <2>1, <2>2 DEF Inv, TypeOK, Jobs
  <2>4. TypeOK'
    BY <2>1, <2>2, <2>3 DEF Inv, TypeOK, Jobs
  <2>5. e.kind \in {"created", "updated"} <=> e.tier # NoTier
    BY <1>1 DEF Happens
  <2>6. Shape'
    BY <2>1, <2>2, <2>5, BusyTypes DEF Inv, Shape, Busy, Of
  <2> QED BY <2>4, <2>6 DEF Inv
<1>2. ASSUME NEW w \in Workers, Step(w) PROVE Inv'
  <2>1. /\ Busy(w) /\ GoesOn(w, Head(job[w].todo), Tail(job[w].todo), TRUE)
        /\ Does(Head(job[w].todo), job[w].id) /\ UNCHANGED <<happened, excused, failures>>
    BY <1>2 DEF Step, Busy
  <2>2. torn' \subseteq Subscribers
    BY <1>2 DEF Step, Mends, Inv, TypeOK
  <2> QED BY <2>1, <2>2, LeftTypes, DoesTypes, GoesOnTypes DEF Inv, TypeOK
<1>3. ASSUME NEW w \in Workers, StepFails(w), failures' \in 0..MaxFailures, UNCHANGED happened PROVE Inv'
  <2> DEFINE op == Head(job[w].todo)
             todo == AfterError(op, Tail(job[w].todo))
  <2>1. /\ Busy(w) /\ GoesOn(w, op, todo, FALSE)
        /\ Does(op, job[w].id) \/ UNCHANGED <<cache, tenant, live, stored>>
    BY <1>3 DEF StepFails, Busy
  <2>2. torn' \subseteq Subscribers /\ excused' \subseteq DOMAIN happened
    BY <1>3, <2>1, BusyTypes DEF StepFails, Inv, TypeOK, Of
  <2>3. StoreTypes'
    BY <1>3, <2>1, DoesTypes DEF Inv, TypeOK, StoreTypes
  <2>4. todo \in Seq(Commands) /\ (todo # <<>> => Proper(todo, Of(w).kind))
    BY <2>1, LeftTypes
  <2> HIDE DEF todo
  <2> QED BY <1>3, <2>1, <2>2, <2>3, <2>4, GoesOnTypes
<1>4. ASSUME NEW w \in Workers, LookUpFails(w), failures' \in 0..MaxFailures, UNCHANGED happened PROVE Inv'
  BY <1>4, StartsTypes DEF LookUpFails
<1>5. ASSUME NEW w \in Workers, RedisFails(w) PROVE Inv'
  <2>1. failures' \in 0..MaxFailures
    BY <1>5, ConstantsAssumption DEF RedisFails, Inv, TypeOK
  <2> QED BY <1>3, <1>4, <1>5, <2>1 DEF RedisFails
<1>6. ASSUME NEW w \in Workers, Crash(w) PROVE Inv'
  <2>1. /\ Busy(w) /\ job' = [job EXCEPT ![w] = Idle] /\ failures' \in 0..MaxFailures
        /\ UNCHANGED <<happened, due, cache, tenant, live, marked, stored, settled, done, excused, drops>>
    BY <1>6, ConstantsAssumption DEF Crash, Busy, redis, Inv, TypeOK
  <2>2. torn' \subseteq Subscribers
    BY <1>6, <2>1, BusyTypes DEF Crash, Inv, TypeOK, Of
  <2>3. Idle \in Jobs /\ Idle.id = 0 /\ Idle.todo = <<>>
    BY DEF Idle, Jobs
  <2>4. job' \in [Workers -> Jobs] /\ \A v \in Workers : job'[v].id = 0 <=> job'[v].todo = <<>>
    BY <2>1, <2>3 DEF Inv, TypeOK, Jobs
  <2>5. TypeOK'
    BY <2>1, <2>2, <2>4 DEF Inv, TypeOK, Jobs
  <2>6. Shape'
    BY <2>1, <2>3 DEF Inv, TypeOK, Shape, Busy, Of
  <2> QED BY <2>5, <2>6 DEF Inv
<1>7. ASSUME NEW w \in Workers, NEW n \in due, Deliver(w, n) PROVE Inv'
  <2>1. CASE Duplicate(n)
    <3>1. /\ Answers(n)
          /\ UNCHANGED <<happened, cache, tenant, live, marked, stored, job, settled, done, excused, torn,
                         failures>>
      BY <1>7, <2>1 DEF Deliver
    <3>2. due' \subseteq DOMAIN happened /\ drops' \in 0..MaxDrops
      BY <3>1, ConstantsAssumption DEF Answers, Inv, TypeOK
    <3> QED BY <3>1, <3>2 DEF Inv, TypeOK, Shape, Busy, Of
  <2>2. CASE ~Duplicate(n)
    BY <1>7, <2>2, StartsTypes DEF Deliver, Inv, TypeOK
  <2> QED BY <2>1, <2>2
<1>8. ASSUME NEW k \in Keys, LapseKey(k) PROVE Inv'
  <2>1. k = <<k[1], k[2]>> /\ k[1] \in {"cache", "tenant"} /\ k[2] \in Subscribers
    BY DEF Keys
  <2>2. job' \in [Workers -> Jobs] /\ \A v \in Workers : job'[v].id = job[v].id /\ job'[v].todo = job[v].todo
    <3>1. CASE k[1] = "cache"
      BY <1>8, <3>1 DEF LapseKey, Inv, TypeOK, Jobs
    <3>2. CASE k[1] # "cache"
      <4>1. job' = [v \in Workers |->
               [job[v] EXCEPT !.clean = @ /\ (job[v].id = 0 \/ happened[job[v].id].of # k[2])]]
        BY <1>8, <3>2 DEF LapseKey
      <4>2. \A v \in Workers : job[v] \in Jobs
        BY DEF Inv, TypeOK, Jobs
      <4> QED BY <4>1, <4>2 DEF Jobs
    <3> QED BY <3>1, <3>2
  <2>3. /\ UNCHANGED <<happened, due, marked, stored, done, excused, failures, drops>>
        /\ live' = live \ {k} /\ torn' \subseteq Subscribers
        /\ settled' \in [Subscribers -> Tiers \union {NoTier, Unsure}]
        /\ \/ /\ k[1] = "cache" /\ cache' = [cache EXCEPT ![k[2]] = NoTier] /\ UNCHANGED tenant
           \/ /\ k[1] = "tenant" /\ tenant' = [tenant EXCEPT ![k[2]] = NoTier] /\ UNCHANGED cache
    BY <1>8, <2>1 DEF LapseKey, bounds, Inv, TypeOK
  <2>4. StoreTypes'
    BY <2>1, <2>3 DEF StoreTypes, Inv, TypeOK
  <2>5. TypeOK'
    BY <2>2, <2>3, <2>4 DEF Inv, TypeOK, StoreTypes, Jobs
  <2>6. Shape'
    BY <2>2, <2>3 DEF Inv, Shape, Busy, Of
  <2> QED BY <2>5, <2>6 DEF Inv
<1>9. ASSUME NEW n \in Ids, LapseMarker(n) PROVE Inv'
  BY <1>9 DEF LapseMarker, ghosts, bounds, Inv, TypeOK, Shape, Busy, Of
<1>10. ASSUME NEW n \in Ids, LapseResult(n) PROVE Inv'
  BY <1>10 DEF LapseResult, bounds, Inv, TypeOK, Shape, Busy, Of
<1>11. CASE UNCHANGED vars
  BY <1>11 DEF vars, redis, ghosts, bounds, Inv, TypeOK, Shape, Busy, Of
<1> QED BY <1>1, <1>2, <1>5, <1>6, <1>7, <1>8, <1>9, <1>10, <1>11 DEF Next

\* The types, for any workers, subscribers and tiers.
THEOREM TypeCorrect == Spec => []TypeOK
<1>1. Inv => TypeOK
  BY DEF Inv
<1> QED BY <1>1, InvInit, InvStep, PTL DEF Spec

-----------------------------------------------------------------------------
(* An event is processed once. *)

\* Nothing but the bookkeeping of one worker.
LEMMA OnceKept ==
    ASSUME Inv, OnceOK, UNCHANGED done, stored \subseteq stored', excused \subseteq excused',
           \A v \in Workers : job'[v].id # 0 => job'[v].id = job[v].id
    PROVE  OnceOK'
BY DEF OnceOK, Busy, Ids

LEMMA OnceStarts ==
    ASSUME Inv, OnceOK, NEW w \in Workers, NEW n \in due, NEW clean \in BOOLEAN,
           Starts(w, n, clean), job[w].id = 0, clean => n \notin stored, UNCHANGED <<done, stored>>
    PROVE  OnceOK'
<1>1. /\ n \in DOMAIN happened /\ n \in Ids /\ job'[w].id = n
      /\ \A v \in Workers \ {w} : job'[v].id = job[v].id
  BY StartsJobs
<1>2. excused' = IF ~clean \/ \E v \in Others(w, happened[n].of) : job[v].id = n
                 THEN excused \union {n} ELSE excused
  BY DEF Starts
<1>3. n \notin excused' => /\ done[n] = 0
                           /\ \A v \in Workers \ {w} : job[v].id # n
  <2> SUFFICES ASSUME n \notin excused'
               PROVE  done[n] = 0 /\ \A v \in Workers \ {w} : job[v].id # n
    OBVIOUS
  <2>1. clean /\ n \notin excused /\ \A v \in Others(w, happened[n].of) : job[v].id # n
    BY <1>2
  <2>2. done[n] <= 1 /\ done[n] # 1 /\ done[n] \in Nat
    BY <1>1, <2>1 DEF OnceOK, Inv, TypeOK
  <2>3. \A v \in Workers \ {w} : job[v].id # n
    BY <1>1, <2>1 DEF Others, Inv, TypeOK
  <2> QED BY <2>2, <2>3
<1>4. excused \subseteq excused' /\ n # 0
  BY <1>1, <1>2 DEF Ids
<1>5. \A m \in Ids : m \notin excused' => done'[m] <= 1 /\ (done'[m] = 1 => m \in stored')
  BY <1>4 DEF OnceOK
<1>6. ASSUME NEW v \in Workers, job'[v].id # 0, job'[v].id \notin excused'
      PROVE  done'[job'[v].id] = 0 /\ \A x \in Workers \ {v} : job'[x].id # job'[v].id
  <2>1. CASE v = w
    BY <1>1, <1>3, <1>6, <2>1
  <2>2. CASE v # w
    <3>1. job'[v].id = job[v].id /\ job[v].id \notin excused /\ job[v].id # 0
      BY <1>1, <1>4, <1>6, <2>2
    <3>2. done[job[v].id] = 0 /\ \A x \in Workers \ {v} : job[x].id # job[v].id
      BY <3>1 DEF OnceOK, Busy
    <3>3. job[v].id # n
      BY <1>3, <1>6, <2>2, <3>1
    <3> QED BY <1>1, <3>1, <3>2, <3>3
  <2> QED BY <2>1, <2>2
<1> QED BY <1>5, <1>6 DEF OnceOK, Busy

\* A worker goes on: the event is done with the last command, which has stored its result
\* or failed and excuses it.
LEMMA OnceGoesOn ==
    ASSUME Inv, OnceOK, NEW w \in Workers, Busy(w), NEW todo \in Seq(Commands), NEW clean \in BOOLEAN,
           GoesOn(w, Head(job[w].todo), todo, clean), Head(job[w].todo) = "store" => todo = <<>>,
           stored \subseteq stored', excused \subseteq excused',
           Head(job[w].todo) = "store" => job[w].id \in stored' \union excused'
    PROVE  OnceOK'
<1> DEFINE n == job[w].id
           store == Head(job[w].todo) = "store"
<1>1. /\ \A v \in Workers \ {w} : job'[v] = job[v]
      /\ job'[w].id # 0 => job'[w].id = n /\ ~store
      /\ n \in Ids /\ n # 0
  BY GoesOnJobs, BusyTypes DEF Busy, Inv
<1>2. done' = IF store THEN [done EXCEPT ![n] = @ + 1] ELSE done
  BY DEF GoesOn
<1>3. CASE ~store
  <2>1. UNCHANGED done /\ \A v \in Workers : job'[v].id # 0 => job'[v].id = job[v].id
    BY <1>1, <1>2, <1>3
  <2> QED BY <2>1, OnceKept
<1>4. CASE store
  <2>1. job'[w].id = 0 /\ done' = [done EXCEPT ![n] = @ + 1] /\ n \in stored' \union excused'
    BY <1>1, <1>2, <1>4
  <2>2. n \notin excused => done[n] = 0 /\ \A v \in Workers \ {w} : job[v].id # n
    BY DEF OnceOK
  <2>3. \A m \in Ids : done'[m] = IF m = n THEN done[m] + 1 ELSE done[m]
    BY <1>1, <2>1 DEF Inv, TypeOK
  <2> HIDE DEF n, store
  <2>4. \A m \in Ids : m \notin excused' => done'[m] <= 1 /\ (done'[m] = 1 => m \in stored')
    BY <1>1, <2>1, <2>2, <2>3 DEF OnceOK
  <2>5. ASSUME NEW v \in Workers, job'[v].id # 0, job'[v].id \notin excused'
        PROVE  done'[job'[v].id] = 0 /\ \A x \in Workers \ {v} : job'[x].id # job'[v].id
    <3>1. v # w /\ job'[v] = job[v] /\ Busy(v) /\ job[v].id \notin excused
      BY <1>1, <2>1, <2>5 DEF Busy
    <3>2. done[job[v].id] = 0 /\ \A x \in Workers \ {v} : job[x].id # job[v].id
      BY <3>1 DEF OnceOK
    <3>3. job[v].id \in Ids
      BY <3>1, BusyTypes DEF Inv
    <3>4. job[v].id # n
      BY <3>1, <3>2 DEF n
    <3>5. done'[job'[v].id] = 0
      BY <2>3, <3>1, <3>2, <3>3, <3>4
    <3>6. ASSUME NEW x \in Workers \ {v} PROVE job'[x].id # job'[v].id
      BY <1>1, <2>1, <2>5, <3>1, <3>2, <3>6
    <3> QED BY <3>5, <3>6
  <2> QED BY <2>4, <2>5 DEF OnceOK, Busy
<1> QED BY <1>3, <1>4

LEMMA OnceStep == Inv /\ OnceOK /\ [Next]_vars => OnceOK'
<1> SUFFICES ASSUME Inv, OnceOK, [Next]_vars PROVE OnceOK'
  OBVIOUS
<1>1. ASSUME NEW e \in Events, Happens(e) PROVE OnceOK'
  BY <1>1, OnceKept DEF Happens, redis, ghosts, bounds
<1>2. ASSUME NEW w \in Workers, Step(w) PROVE OnceOK'
  <2>1. /\ Busy(w) /\ GoesOn(w, Head(job[w].todo), Tail(job[w].todo), TRUE)
        /\ UNCHANGED excused
    BY <1>2 DEF Step, Busy
  <2>2. /\ stored \subseteq stored'
        /\ Head(job[w].todo) = "store" => job[w].id \in stored'
    BY <1>2 DEF Step, Does
  <2> QED BY <2>1, <2>2, LeftTypes, OnceGoesOn
<1>3. ASSUME NEW w \in Workers, StepFails(w) PROVE OnceOK'
  <2> DEFINE op == Head(job[w].todo)
             todo == AfterError(op, Tail(job[w].todo))
  <2>1. Busy(w) /\ GoesOn(w, op, todo, FALSE) /\ stored \subseteq stored'
    BY <1>3 DEF StepFails, Busy, Does
  <2>2. excused \subseteq excused' /\ (op = "store" => job[w].id \in excused')
    BY <1>3 DEF StepFails
  <2>3. todo \in Seq(Commands) /\ (op = "store" => todo = <<>>)
    BY <2>1, LeftTypes
  <2> HIDE DEF todo
  <2> QED BY <2>1, <2>2, <2>3, OnceGoesOn
<1>4. ASSUME NEW w \in Workers, LookUpFails(w) PROVE OnceOK'
  BY <1>4, OnceStarts DEF LookUpFails
<1>5. ASSUME NEW w \in Workers, NEW n \in due, Deliver(w, n) PROVE OnceOK'
  <2>1. CASE Duplicate(n)
    BY <1>5, <2>1, OnceKept DEF Deliver
  <2>2. CASE ~Duplicate(n)
    BY <1>5, <2>2, OnceStarts DEF Deliver, Duplicate
  <2> QED BY <2>1, <2>2
<1>6. ASSUME NEW w \in Workers, Crash(w) PROVE OnceOK'
  <2>1. /\ job' = [job EXCEPT ![w] = Idle] /\ UNCHANGED <<stored, done, excused>>
    BY <1>6 DEF Crash, redis
  <2>2. \A v \in Workers : job'[v].id # 0 => job'[v].id = job[v].id
    BY <2>1 DEF Idle, Inv, TypeOK
  <2> QED BY <2>1, <2>2, OnceKept
<1>7. ASSUME NEW k \in Keys, LapseKey(k) PROVE OnceOK'
  <2>1. \A v \in Workers : job'[v].id = job[v].id
    <3>1. CASE k[1] = "cache"
      BY <1>7, <3>1 DEF LapseKey
    <3>2. CASE k[1] # "cache"
      BY <1>7, <3>2 DEF LapseKey, Inv, TypeOK
    <3> QED BY <3>1, <3>2
  <2>2. UNCHANGED <<stored, done, excused>>
    BY <1>7 DEF LapseKey
  <2> QED BY <2>1, <2>2, OnceKept
<1>8. ASSUME NEW n \in Ids, LapseMarker(n) PROVE OnceOK'
  BY <1>8, OnceKept DEF LapseMarker, ghosts
<1>9. ASSUME NEW n \in Ids, LapseResult(n) PROVE OnceOK'
  BY <1>9 DEF LapseResult, OnceOK, Busy
<1>10. CASE UNCHANGED vars
  BY <1>10, OnceKept DEF vars, redis, ghosts
<1> QED BY <1>1, <1>2, <1>3, <1>4, <1>5, <1>6, <1>7, <1>8, <1>9, <1>10 DEF Next, RedisFails

\* An event is processed again only after its result has lapsed, after a failure of Redis,
\* or when two workers were at it at once: for any workers, events and failures.
THEOREM AlwaysProcessedOnce == Spec => []ProcessedOnce
<1>1. Init => OnceOK
  BY DEF Init, OnceOK, Busy, Idle
<1>2. Inv /\ OnceOK => ProcessedOnce
  BY DEF Inv, TypeOK, OnceOK, ProcessedOnce
<1> QED BY <1>1, <1>2, InvInit, InvStep, OnceStep, PTL DEF Spec

-----------------------------------------------------------------------------
(* A clean webhook decides. *)

\* Neither what Redis holds nor what is settled changes, and no worker starts.
LEMMA DecidedKept ==
    ASSUME Inv, Decided, UNCHANGED <<cache, tenant, settled>>,
           \A n \in DOMAIN happened : happened'[n] = happened[n],
           \A v \in Workers : job'[v].id # 0 =>
               /\ job'[v].id = job[v].id /\ job'[v].todo = job[v].todo
               /\ job'[v].clean => job[v].clean
    PROVE  Decided'
<1>1. \A v \in Workers : Busy(v)' => /\ Busy(v) /\ Of(v)' = Of(v) /\ Left(v)' = Left(v)
                                     /\ job'[v].clean => job[v].clean
  BY DEF Busy, Of, Left, Inv, TypeOK
<1>2. Alone' /\ Quiet'
  BY <1>1 DEF Decided, Alone, Quiet
<1>3. \A v \in Workers : Progress(v)'
  BY <1>1 DEF Decided, Progress
<1>4. CleanRunDecides'
  BY DEF Decided, CleanRunDecides
<1> QED BY <1>2, <1>3, <1>4 DEF Decided

LEMMA DecidedStarts ==
    ASSUME Inv, Decided, NEW w \in Workers, NEW n \in due, NEW clean \in BOOLEAN,
           Starts(w, n, clean), job[w].id = 0, UNCHANGED <<happened, cache, tenant>>
    PROVE  Decided'
<1> DEFINE s == happened[n].of
           rivals == Others(w, happened[n].of)
<1>1. /\ n \in DOMAIN happened /\ n # 0 /\ s \in Subscribers /\ happened[n].kind \in Kinds
      /\ job'[w].id = n /\ job'[w].todo = Append(Work(happened[n].kind), "store")
      /\ job'[w].clean => rivals = {}
      /\ \A v \in Workers \ {w} :
            /\ job'[v].id = job[v].id /\ job'[v].todo = job[v].todo
            /\ job'[v].clean => job[v].clean /\ v \notin rivals
  <2>1. /\ n \in DOMAIN happened /\ n # 0 /\ s \in Subscribers /\ happened[n].kind \in Kinds
        /\ job'[w].id = n /\ job'[w].todo = Append(Work(happened[n].kind), "store")
    BY StartsJobs
  <2>2. job'[w].clean => rivals = {}
    BY StartsJobs, Zenon
  <2>3. \A v \in Workers \ {w} :
            /\ job'[v].id = job[v].id /\ job'[v].todo = job[v].todo
            /\ job'[v].clean => job[v].clean /\ v \notin rivals
    BY StartsJobs
  <2> QED BY <2>1, <2>2, <2>3
<1>2. Begins(job'[w].todo, happened[n].kind)
  BY <1>1, WorkProper
<1>3. /\ Of(w)' = happened[n] /\ Busy(w)'
      /\ \A v \in Workers \ {w} : Of(v)' = Of(v) /\ Busy(v)' = Busy(v) /\ Left(v)' = Left(v)
  BY <1>1 DEF Of, Busy, Left
<1>4. \A v \in Workers \ {w} : Busy(v) /\ Of(v).of = s <=> v \in rivals
  BY DEF Others, Busy, Of
<1>5. settled' = IF happened[n].kind = "alert" THEN settled ELSE [settled EXCEPT ![s] = Unsure]
  BY <1>2 DEF Begins, Starts
<1> HIDE DEF rivals, s
<1>6. Alone'
  <2> SUFFICES ASSUME NEW v \in Workers, Busy(v)', job'[v].clean, NEW x \in Workers \ {v}, Busy(x)'
               PROVE  Of(x)'.of # Of(v)'.of
    BY DEF Alone
  <2>1. CASE v = w
    BY <1>1, <1>3, <1>4, <2>1 DEF s
  <2>2. CASE x = w
    BY <1>1, <1>3, <1>4, <2>2 DEF s
  <2>3. CASE v # w /\ x # w
    BY <1>1, <1>3, <2>3 DEF Decided, Alone
  <2> QED BY <2>1, <2>2, <2>3
<1>7. ASSUME NEW v \in Workers PROVE Progress(v)'
  <2>1. CASE v = w
    <3>1. happened[n].kind # "alert" => /\ Left(w)' \intersect CacheWrites # {}
                                        /\ Left(w)' \intersect TenantWrites # {}
      BY <1>2 DEF Begins, Left
    <3> QED BY <1>3, <2>1, <3>1 DEF Progress
  <2>2. CASE v # w
    BY <1>1, <1>3, <2>2 DEF Decided, Progress
  <2> QED BY <2>1, <2>2
<1>8. \A u \in Subscribers : settled'[u] # Unsure =>
        /\ settled[u] = settled'[u]
        /\ u = s => happened[n].kind = "alert"
  BY <1>1, <1>5 DEF Inv, TypeOK
<1>9. Quiet'
  <2> SUFFICES ASSUME NEW v \in Workers, Busy(v)', settled'[Of(v)'.of] # Unsure
               PROVE  Of(v)'.kind = "alert"
    BY DEF Quiet
  <2>1. CASE v = w
    BY <1>1, <1>3, <1>8, <2>1 DEF s
  <2>2. CASE v # w
    BY <1>3, <1>8, <2>2, BusyTypes DEF Decided, Quiet, Inv
  <2> QED BY <2>1, <2>2
<1>10. CleanRunDecides'
  BY <1>8 DEF Decided, CleanRunDecides
<1> QED BY <1>6, <1>7, <1>9, <1>10 DEF Decided

\* What a command does to both copies of its subscriber; the others' it leaves alone.
LEMMA DoesCopies ==
    ASSUME Inv, NEW w \in Workers, Busy(w), Does(Head(job[w].todo), job[w].id)
    PROVE  LET op == Head(job[w].todo)
               s  == Of(w).of
           IN  /\ \A u \in Subscribers \ {s} : cache'[u] = cache[u] /\ tenant'[u] = tenant[u]
               /\ op \notin CacheWrites => UNCHANGED cache
               /\ op \notin TenantWrites => UNCHANGED tenant
               /\ op \in CacheWrites => cache'[s] \in {NoTier, Of(w).tier}
               /\ op \in TenantWrites => tenant'[s] = Of(w).tier
<1> DEFINE op == Head(job[w].todo)
           s == Of(w).of
           t == Of(w).tier
<1>1. s \in Subscribers /\ Of(w).kind \in Kinds
  BY BusyTypes DEF Inv
<1>2. op = "drop_tenant" => t = NoTier
  <2>1. op = job[w].todo[1] /\ 1 \in DOMAIN job[w].todo /\ job[w].id \in DOMAIN happened
    BY BusyTypes, TailTypes DEF Inv
  <2> QED BY <2>1 DEF Inv, Shape, Proper, Of
<1>3. \/ op \notin CacheWrites \union TenantWrites /\ UNCHANGED <<cache, tenant>>
      \/ op = "drop_cache" /\ cache' = [cache EXCEPT ![s] = NoTier] /\ UNCHANGED tenant
      \/ op = "set_cache" /\ cache' = [cache EXCEPT ![s] = t] /\ UNCHANGED tenant
      \/ /\ op \in {"create_tenant", "update_tenant"}
         /\ tenant' = [tenant EXCEPT ![s] = t] /\ UNCHANGED cache
      \/ op = "drop_tenant" /\ tenant' = [tenant EXCEPT ![s] = NoTier] /\ UNCHANGED cache
  BY DEF Does, Of, CacheWrites, TenantWrites
<1> HIDE DEF op, s, t
<1>4. /\ \A u \in Subscribers \ {s} : cache'[u] = cache[u] /\ tenant'[u] = tenant[u]
      /\ op \notin CacheWrites => UNCHANGED cache
      /\ op \notin TenantWrites => UNCHANGED tenant
      /\ op \in CacheWrites => cache'[s] \in {NoTier, t}
      /\ op \in TenantWrites => tenant'[s] = t
  BY <1>1, <1>2, <1>3 DEF Inv, TypeOK, CacheWrites, TenantWrites
<1> QED BY <1>4 DEF op, s, t

LEMMA DecidedGoesOn ==
    ASSUME Inv, Decided, NEW w \in Workers, Busy(w), NEW todo \in Seq(Commands), NEW clean \in BOOLEAN,
           GoesOn(w, Head(job[w].todo), todo, clean), Head(job[w].todo) = "store" => todo = <<>>,
           UNCHANGED happened,
           Does(Head(job[w].todo), job[w].id) \/ UNCHANGED <<cache, tenant>>,
           clean => Does(Head(job[w].todo), job[w].id) /\ todo = Tail(job[w].todo)
    PROVE  Decided'
<1> DEFINE op == Head(job[w].todo)
           s == Of(w).of
           t == Of(w).tier
           settles == op = "store" /\ Of(w).kind # "alert" /\ job[w].clean
<1>1. /\ \A v \in Workers \ {w} : job'[v] = job[v] /\ Of(v)' = Of(v) /\ Busy(v)' = Busy(v) /\ Left(v)' = Left(v)
      /\ Busy(w)' => /\ Of(w)' = Of(w) /\ job'[w].todo = todo /\ op # "store" /\ todo # <<>>
                     /\ job'[w].clean = (job[w].clean /\ clean)
  BY GoesOnJobs DEF Of, Busy, Left
<1>2. /\ \A u \in Subscribers \ {s} : cache'[u] = cache[u] /\ tenant'[u] = tenant[u]
      /\ op \notin CacheWrites => UNCHANGED cache
      /\ op \notin TenantWrites => UNCHANGED tenant
      /\ clean /\ op \in CacheWrites => cache'[s] \in {NoTier, t}
      /\ clean /\ op \in TenantWrites => tenant'[s] = t
  BY DoesCopies
<1>3. /\ s \in Subscribers /\ Of(w).kind \in Kinds /\ t \in Tiers \union {NoTier}
      /\ job[w].todo \in Seq(Commands) /\ job[w].todo # <<>> /\ Proper(job[w].todo, Of(w).kind)
  BY BusyTypes DEF Inv, Shape
<1>4. settled' = IF settles THEN [settled EXCEPT ![s] = t] ELSE settled
  <2>1. Work(Of(w).kind) # <<>> <=> Of(w).kind # "alert"
    BY <1>3, WorkProper DEF Begins
  <2> QED BY <2>1 DEF GoesOn, Of
<1>5. \A v \in Workers \ {w} : Busy(v) /\ (job[v].clean \/ job[w].clean) => Of(v).of \in Subscribers \ {s}
  BY BusyTypes DEF Decided, Alone, Inv
<1> HIDE DEF op, s, t, settles
<1>6. Alone'
  <2> SUFFICES ASSUME NEW v \in Workers, Busy(v)', job'[v].clean, NEW x \in Workers \ {v}, Busy(x)'
               PROVE  Of(x)'.of # Of(v)'.of
    BY DEF Alone
  <2>1. CASE v = w
    BY <1>1, <1>5, <2>1 DEF s
  <2>2. CASE x = w
    BY <1>1, <1>5, <2>2 DEF s
  <2>3. CASE v # w /\ x # w
    BY <1>1, <2>3 DEF Decided, Alone
  <2> QED BY <2>1, <2>2, <2>3
<1>7. ASSUME NEW v \in Workers PROVE Progress(v)'
  <2>1. CASE v # w
    BY <1>1, <1>2, <1>5, <2>1 DEF Decided, Progress
  <2>2. CASE v = w
    <3> SUFFICES ASSUME Busy(w)', job'[w].clean, Of(w)'.kind # "alert"
                 PROVE  /\ Left(w)' \intersect CacheWrites = {} => cache'[s] \in {NoTier, t}
                        /\ Left(w)' \intersect TenantWrites = {} => tenant'[s] = t
      BY <1>1, <2>2 DEF Progress, s, t
    <3>1. clean /\ job[w].clean /\ Of(w).kind # "alert" /\ todo = Tail(job[w].todo)
      BY <1>1
    <3>2. Left(w) \subseteq {op} \union Left(w)'
      <4>1. /\ DOMAIN job[w].todo = 1..Len(job[w].todo) /\ Len(job[w].todo) \in Nat
            /\ op = job[w].todo[1]
            /\ \A i \in 1..Len(job[w].todo) - 1 : todo[i] = job[w].todo[i + 1]
            /\ DOMAIN todo = 1..Len(job[w].todo) - 1
        BY <1>3, <3>1, TailTypes DEF op
      <4>2. ASSUME NEW i \in DOMAIN job[w].todo
            PROVE  job[w].todo[i] = op \/ \E j \in DOMAIN todo : todo[j] = job[w].todo[i]
        <5>1. CASE i = 1
          BY <4>1, <5>1
        <5>2. CASE i # 1
          <6>1. i - 1 \in DOMAIN todo /\ (i - 1) + 1 = i
            BY <4>1, <5>2
          <6>2. todo[i - 1] = job[w].todo[(i - 1) + 1]
            BY <4>1, <6>1
          <6> QED BY <6>1, <6>2
        <5> QED BY <5>1, <5>2
      <4> QED BY <1>1, <4>2 DEF Left
    <3>3. /\ Left(w) \intersect CacheWrites = {} => cache[s] \in {NoTier, t}
          /\ Left(w) \intersect TenantWrites = {} => tenant[s] = t
      BY <3>1 DEF Decided, Progress, s, t
    <3>4. Left(w)' \intersect CacheWrites = {} => cache'[s] \in {NoTier, t}
      BY <1>2, <3>1, <3>2, <3>3
    <3>5. Left(w)' \intersect TenantWrites = {} => tenant'[s] = t
      BY <1>2, <3>1, <3>2, <3>3
    <3> QED BY <3>4, <3>5
  <2> QED BY <2>1, <2>2
<1>8. Quiet'
  <2> SUFFICES ASSUME NEW v \in Workers, Busy(v)', settled'[Of(v)'.of] # Unsure
               PROVE  Of(v)'.kind = "alert"
    BY DEF Quiet
  <2>1. CASE v # w
    <3>1. settled'[Of(v).of] = settled[Of(v).of] /\ Busy(v) /\ Of(v)' = Of(v)
      BY <1>1, <1>3, <1>4, <1>5, <2>1 DEF settles, Inv, TypeOK
    <3> QED BY <3>1 DEF Decided, Quiet
  <2>2. CASE v = w
    BY <1>1, <1>4, <2>2 DEF Decided, Quiet, settles
  <2> QED BY <2>1, <2>2
<1>9. CleanRunDecides'
  <2> SUFFICES ASSUME NEW u \in Subscribers, settled'[u] # Unsure
               PROVE  tenant'[u] = settled'[u] /\ cache'[u] \in {NoTier, settled'[u]}
    BY DEF CleanRunDecides
  <2>1. "store" \notin CacheWrites /\ "store" \notin TenantWrites
    BY DEF CacheWrites, TenantWrites
  <2>2. CASE settles /\ u = s
    <3>1. Left(w) = {"store"}
      <4>1. DOMAIN job[w].todo = {1} /\ job[w].todo[1] = "store"
        BY <1>3, <2>2, TailTypes DEF Proper, op, settles
      <4> QED BY <4>1 DEF Left
    <3>2. cache[s] \in {NoTier, t} /\ tenant[s] = t
      BY <2>1, <2>2, <3>1 DEF Decided, Progress, settles, s, t
    <3>3. settled'[u] = t
      BY <1>4, <2>2 DEF Inv, TypeOK
    <3>4. UNCHANGED <<cache, tenant>>
      BY <1>2, <2>1, <2>2 DEF settles
    <3> QED BY <2>2, <3>2, <3>3, <3>4
  <2>3. CASE ~(settles /\ u = s)
    <3>1. settled'[u] = settled[u]
      BY <1>3, <1>4, <2>3 DEF Inv, TypeOK
    <3>2. tenant[u] = settled[u] /\ cache[u] \in {NoTier, settled[u]}
      BY <3>1 DEF Decided, CleanRunDecides
    <3>3. CASE u # s
      BY <1>2, <3>1, <3>2, <3>3
    <3>4. CASE u = s
      <4>1. Of(w).kind = "alert"
        BY <3>1, <3>4 DEF Decided, Quiet, s
      <4>2. op = "store"
        BY <1>3, <4>1, TailTypes DEF Proper, op
      <4> QED BY <1>2, <2>1, <3>1, <3>2, <4>2
    <3> QED BY <3>3, <3>4
  <2> QED BY <2>2, <2>3
<1> QED BY <1>6, <1>7, <1>8, <1>9 DEF Decided

LEMMA DecidedStep == Inv /\ Decided /\ [Next]_vars => Decided'
<1> SUFFICES ASSUME Inv, Decided, [Next]_vars PROVE Decided'
  OBVIOUS
<1>1. ASSUME NEW e \in Events, Happens(e) PROVE Decided'
  <2>1. UNCHANGED <<cache, tenant, settled, job>>
    BY <1>1 DEF Happens, redis, ghosts
  <2>2. \A n \in DOMAIN happened : happened'[n] = happened[n]
    BY <1>1 DEF Happens, Inv, TypeOK
  <2> QED BY <2>1, <2>2, DecidedKept
<1>2. ASSUME NEW w \in Workers, Step(w) PROVE Decided'
  <2>1. /\ Busy(w) /\ GoesOn(w, Head(job[w].todo), Tail(job[w].todo), TRUE)
        /\ Does(Head(job[w].todo), job[w].id) /\ UNCHANGED happened
    BY <1>2 DEF Step, Busy
  <2> QED BY <2>1, LeftTypes, DecidedGoesOn
<1>3. ASSUME NEW w \in Workers, StepFails(w), UNCHANGED happened PROVE Decided'
  <2> DEFINE op == Head(job[w].todo)
             todo == AfterError(op, Tail(job[w].todo))
  <2>1. /\ Busy(w) /\ GoesOn(w, op, todo, FALSE)
        /\ Does(op, job[w].id) \/ UNCHANGED <<cache, tenant>>
    BY <1>3 DEF StepFails, Busy
  <2>2. todo \in Seq(Commands) /\ (op = "store" => todo = <<>>)
    BY <2>1, LeftTypes
  <2> HIDE DEF todo
  <2> QED BY <1>3, <2>1, <2>2, DecidedGoesOn
<1>4. ASSUME NEW w \in Workers, LookUpFails(w), UNCHANGED happened PROVE Decided'
  BY <1>4, DecidedStarts DEF LookUpFails
<1>5. ASSUME NEW w \in Workers, NEW n \in due, Deliver(w, n) PROVE Decided'
  <2>1. CASE Duplicate(n)
    BY <1>5, <2>1, DecidedKept DEF Deliver
  <2>2. CASE ~Duplicate(n)
    BY <1>5, <2>2, DecidedStarts DEF Deliver
  <2> QED BY <2>1, <2>2
<1>6. ASSUME NEW w \in Workers, Crash(w) PROVE Decided'
  <2>1. /\ job' = [job EXCEPT ![w] = Idle] /\ UNCHANGED <<happened, cache, tenant, settled>>
    BY <1>6 DEF Crash, redis
  <2>2. \A v \in Workers : job'[v].id # 0 => job'[v] = job[v]
    BY <2>1 DEF Idle, Inv, TypeOK
  <2> QED BY <2>1, <2>2, DecidedKept
<1>7. ASSUME NEW k \in Keys, LapseKey(k) PROVE Decided'
  <2>1. CASE k[1] = "cache"
    <3>1. /\ k[2] \in Subscribers /\ cache' = [cache EXCEPT ![k[2]] = NoTier]
          /\ UNCHANGED <<happened, tenant, job, settled>>
      BY <1>7, <2>1 DEF LapseKey, Keys
    <3>2. \A u \in Subscribers : cache'[u] \in {cache[u], NoTier}
      BY <3>1 DEF Inv, TypeOK
    <3>3. \A v \in Workers : Busy(v)' = Busy(v) /\ Of(v)' = Of(v) /\ Left(v)' = Left(v)
      BY <3>1 DEF Busy, Of, Left
    <3>4. \A v \in Workers : Progress(v)'
      BY <3>1, <3>2, <3>3, BusyTypes DEF Decided, Progress, Inv
    <3>5. Alone' /\ Quiet' /\ CleanRunDecides'
      BY <3>1, <3>2, <3>3 DEF Decided, Alone, Quiet, CleanRunDecides
    <3> QED BY <3>4, <3>5 DEF Decided
  <2>2. CASE k[1] # "cache"
    <3>1. /\ k[2] \in Subscribers /\ tenant' = [tenant EXCEPT ![k[2]] = NoTier]
          /\ settled' = [settled EXCEPT ![k[2]] = Unsure] /\ UNCHANGED <<happened, cache>>
          /\ job' = [v \in Workers |->
                [job[v] EXCEPT !.clean = @ /\ (job[v].id = 0 \/ happened[job[v].id].of # k[2])]]
      BY <1>7, <2>2 DEF LapseKey, Keys
    <3>2. ASSUME NEW v \in Workers
          PROVE  /\ job'[v].id = job[v].id /\ job'[v].todo = job[v].todo
                 /\ job'[v].clean => job[v].clean /\ (Busy(v) => Of(v).of # k[2])
      <4>1. job[v] \in Jobs
        BY DEF Inv, TypeOK, Jobs
      <4>2. job'[v].clean = (job[v].clean /\ (job[v].id = 0 \/ happened[job[v].id].of # k[2]))
        BY <3>1, <4>1 DEF Jobs
      <4> QED BY <3>1, <4>1, <4>2 DEF Jobs, Busy, Of
    <3>3. \A v \in Workers : Busy(v)' = Busy(v) /\ Of(v)' = Of(v) /\ Left(v)' = Left(v)
      BY <3>1, <3>2 DEF Busy, Of, Left
    <3>4. \A u \in Subscribers \ {k[2]} : tenant'[u] = tenant[u] /\ settled'[u] = settled[u]
      BY <3>1 DEF Inv, TypeOK
    <3>5. settled'[k[2]] = Unsure
      BY <3>1 DEF Inv, TypeOK
    <3>6. \A v \in Workers : Progress(v)'
      BY <3>1, <3>2, <3>3, <3>4, BusyTypes DEF Decided, Progress, Inv
    <3>7. Alone'
      BY <3>2, <3>3 DEF Decided, Alone
    <3>8. Quiet'
      BY <3>3, <3>4, <3>5, BusyTypes DEF Decided, Quiet, Inv
    <3>9. CleanRunDecides'
      BY <3>1, <3>4, <3>5 DEF Decided, CleanRunDecides
    <3> QED BY <3>6, <3>7, <3>8, <3>9 DEF Decided
  <2> QED BY <2>1, <2>2
<1>8. ASSUME NEW n \in Ids, LapseMarker(n) PROVE Decided'
  BY <1>8, DecidedKept DEF LapseMarker, ghosts
<1>9. ASSUME NEW n \in Ids, LapseResult(n) PROVE Decided'
  BY <1>9, DecidedKept DEF LapseResult
<1>10. CASE UNCHANGED vars
  BY <1>10, DecidedKept DEF vars, redis, ghosts
<1> QED BY <1>1, <1>2, <1>3, <1>4, <1>5, <1>6, <1>7, <1>8, <1>9, <1>10 DEF Next, RedisFails

\* A webhook that nobody disturbed leaves both copies at its tier, for any workers,
\* subscribers, tiers, events and failures before it.
THEOREM CleanRunAlwaysDecides == Spec => []CleanRunDecides
<1>1. Init => Decided
  BY DEF Init, Decided, Alone, Progress, Quiet, CleanRunDecides, Busy, Idle
<1>2. Decided => CleanRunDecides
  BY DEF Decided
<1> QED BY <1>1, <1>2, InvInit, InvStep, DecidedStep, PTL DEF Spec
=============================================================================
