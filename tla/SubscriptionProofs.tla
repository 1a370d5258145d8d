------------------------- MODULE SubscriptionProofs -------------------------
(***************************************************************************)
(* The proof that the user's record follows the webhooks nobody disturbed,  *)
(* for any workers, users, plans and numbers of events and failures.        *)
(*                                                                         *)
(* While a webhook is under way the record says nothing of it.  The         *)
(* invariant tells what the commands it has left lead to: the last one that *)
(* writes the user's copy brings the outcome of the event, or it has been   *)
(* brought already.                                                         *)
(***************************************************************************)
EXTENDS Subscription, SequenceTheorems, TLAPS

UserOf(w) == happened[job[w].id].of

\* A clean webhook is the only one of its user.
Alone ==
    \A w \in Workers : job[w].id # 0 /\ job[w].clean =>
        \A v \in Workers \ {w} : job[v].id # 0 => UserOf(v) # UserOf(w)

\* A webhook writes the copies of its user only.
Own ==
    \A w \in Workers : job[w].id # 0 =>
        \A i \in DOMAIN job[w].todo : job[w].todo[i][1][2] = UserOf(w)

\* Once the commands of todo are carried out the copy of user u, now r, is one of copies.
Leads(todo, u, copies, r) == \E o \in copies :
    \/ todo[Len(todo)] = <<<<"user", u>>, o>>
    \/ Len(todo) = 1 /\ todo[1][1] = <<"id", u>> /\ r = o
    \/ Len(todo) = 2 /\ todo[1] = <<<<"user", u>>, o>> /\ todo[2][1] = <<"id", u>>

\* A clean webhook leads to what its event makes of what is expected.
HeadsFor(w) ==
    job[w].id # 0 /\ job[w].clean =>
        Leads(job[w].todo, UserOf(w), Outcomes(happened[job[w].id], expected[UserOf(w)]),
              record[<<"user", UserOf(w)>>])

Heading == \A w \in Workers : HeadsFor(w)

Inv == TypeOK /\ Alone /\ Own /\ Heading /\ RecordFollowsEvents

-----------------------------------------------------------------------------
(* What a webhook does. *)

LEMMA Constants ==
    FreePlan \in Plans /\ NoRecord \notin Records
BY ConstantsAssumption DEF Records

LEMMA Brackets ==
    ASSUME NEW r \in Records, NEW status \in {"active", "cancelling", "cancelled"},
           NEW plan \in Plans
    PROVE  [r EXCEPT !.status = status] \in Records /\ Active(plan) \in Records
BY DEF Records, Active

\* A webhook's commands write both copies of the user, and the last of them that writes
\* the user's own brings the outcome.
LEMMA CommandsLead ==
    ASSUME NEW e \in Events, NEW r \in Anything, Commands(e, r) # <<>>
    PROVE  LET todo == Commands(e, r)
           IN  /\ todo \in Seq(Writes) /\ Len(todo) # 0
               /\ \A i \in DOMAIN todo : todo[i][1][2] = e.of
               /\ Leads(todo, e.of, Outcome(e, r), r)
<1> DEFINE u == e.of
           cancelling == [r EXCEPT !.status = "cancelling"]
           cancelled == [r EXCEPT !.status = "cancelled"]
<1>1. /\ u \in Users /\ e.kind \in Kinds /\ e.plan \in Plans
      /\ <<"user", u>> \in Keys /\ <<"id", u>> \in Keys
  BY DEF Events, Keys
<1>2. CASE e.kind = "activated"
  <2>1. Commands(e, r) = <<<<<<"user", u>>, Active(e.plan)>>, <<<<"id", u>>, Active(e.plan)>>>>
    BY <1>2 DEF Commands, Activate
  <2>2. Active(e.plan) \in Outcome(e, r)
    BY <1>2 DEF Outcome
  <2>3. Active(e.plan) \in Records
    BY <1>1 DEF Records, Active
  <2> QED BY <1>1, <2>1, <2>2, <2>3 DEF Writes, Leads
<1>3. CASE e.kind = "ended"
  <2>1. r \in Records
    BY <1>3 DEF Commands, Anything
  <2>2. cancelled \in Records /\ Active(FreePlan) \in Records
    BY <2>1, Constants, Brackets
  <2>3. cancelled \in Outcome(e, r)
    BY <1>3, <2>1, Constants DEF Outcome, Records
  <2>4. Commands(e, r) = <<<<<<"user", u>>, Active(FreePlan)>>, <<<<"id", u>>, Active(FreePlan)>>>>
                         \o <<<<<<"user", u>>, cancelled>>>>
    BY <1>3, <2>1, Constants DEF Commands, Cancel, Activate
  <2> DEFINE x == <<<<"user", u>>, Active(FreePlan)>>
             y == <<<<"id", u>>, Active(FreePlan)>>
             z == <<<<"user", u>>, cancelled>>
  <2>5. /\ {x, y, z} \subseteq Writes /\ x[1][2] = u /\ y[1][2] = u /\ z[1][2] = u
    BY <1>1, <2>2 DEF Writes
  <2> HIDE DEF cancelled, x, y, z
  <2>6. <<x, y>> \in Seq(Writes) /\ <<z>> \in Seq(Writes) /\ Len(<<x, y>>) = 2 /\ Len(<<z>>) = 1
    BY <2>5
  <2>7. LET todo == <<x, y>> \o <<z>>
        IN  /\ todo \in Seq(Writes) /\ Len(todo) = 3
            /\ todo[1] = x /\ todo[2] = y /\ todo[3] = z
    BY <2>6, ConcatProperties
  <2> QED BY <2>2, <2>3, <2>4, <2>5, <2>7 DEF x, y, z, Leads
<1>4. CASE e.kind = "cancelled"
  <2>1. r \in Records
    BY <1>4 DEF Commands, Anything
  <2>2. cancelling \in Records
    BY <2>1, Constants, Brackets
  <2>3. cancelling \in Outcome(e, r)
    BY <1>4, <2>1, Constants DEF Outcome
  <2>4. Commands(e, r) = <<<<<<"user", u>>, cancelling>>>>
    BY <1>4, <2>1, Constants DEF Commands, Cancel
  <2> HIDE DEF cancelling
  <2> QED BY <1>1, <2>2, <2>3, <2>4 DEF Writes, Leads
<1>5. CASE e.kind = "other"
  BY <1>5 DEF Commands
<1> QED BY <1>1, <1>2, <1>3, <1>4, <1>5 DEF Kinds

\* The outcomes of an event are records or none, and those of more copies include those
\* of each.
LEMMA OutcomeTypes ==
    ASSUME NEW e \in Events, NEW copies \in SUBSET Anything
    PROVE  /\ Outcomes(e, copies) \subseteq Anything
           /\ \A r \in copies : Outcome(e, r) \subseteq Outcomes(e, copies)
<1>1. e.plan \in Plans
  BY DEF Events
<1>2. ASSUME NEW r \in Anything
      PROVE  Outcome(e, r) \subseteq Anything
  <2>1. r \in Records => [r EXCEPT !.status = "cancelling"] \in Records
    BY Brackets, Constants
  <2>2. Active(e.plan) \in Records /\ [plan : Plans, status : {"cancelled"}] \subseteq Records
    BY <1>1 DEF Active, Records
  <2> QED BY <2>1, <2>2, Constants DEF Outcome, Anything
<1> QED BY <1>2 DEF Outcomes

-----------------------------------------------------------------------------
(* Types. *)

Jobs == [id : {0} \union DOMAIN happened, todo : Seq(Writes), clean : BOOLEAN]

LEMMA AtWorkTypes ==
    ASSUME TypeOK, NEW w \in Workers, job[w].id # 0
    PROVE  /\ job[w] \in Jobs /\ job[w].id \in DOMAIN happened
           /\ happened[job[w].id] \in Events /\ UserOf(w) \in Users
           /\ job[w].todo \in Seq(Writes) /\ job[w].todo # <<>> /\ Len(job[w].todo) \in Nat \ {0}
           /\ Head(job[w].todo) = job[w].todo[1] /\ job[w].todo[1] \in Writes
<1>1. /\ job[w] \in Jobs /\ job[w].id \in DOMAIN happened
      /\ job[w].todo \in Seq(Writes) /\ job[w].todo # <<>>
  BY DEF TypeOK, Jobs
<1>2. happened[job[w].id] \in Events
  BY <1>1 DEF TypeOK
<1> QED BY <1>1, <1>2 DEF Events, UserOf

LEMMA WritesTypes ==
    ASSUME NEW x \in Writes
    PROVE  x[1] \in Keys /\ x[2] \in Records /\ x[1][2] \in Users
BY DEF Writes, Keys

LEMMA TailTypes ==
    ASSUME NEW S, NEW s \in Seq(S), s # <<>>
    PROVE  /\ Tail(s) \in Seq(S) /\ Len(Tail(s)) = Len(s) - 1
           /\ Tail(s) = <<>> <=> Len(s) = 1
           /\ \A i \in 1..Len(s) - 1 : Tail(s)[i] = s[i + 1]
<1>1. Tail(s) \in Seq(S) /\ Len(Tail(s)) = Len(s) - 1 /\ Len(s) \in Nat \ {0}
  BY HeadTailProperties, EmptySeq
<1>2. \A i \in 1..Len(s) - 1 : Tail(s)[i] = s[i + 1]
  BY <1>1, HeadTailProperties
<1>3. Tail(s) = <<>> <=> Len(s) = 1
  <2>1. \A t \in Seq(S) : t # <<>> => Len(t) \in Nat \ {0}
    BY EmptySeq
  <2>2. Len(Tail(s)) = 0 => Tail(s) = <<>>
    BY <1>1, <2>1
  <2>3. Tail(s) = <<>> => Len(Tail(s)) = 0
    BY EmptySeq
  <2> QED BY <1>1, <2>2, <2>3
<1> QED BY <1>1, <1>2, <1>3

LEMMA TypeStep == TypeOK /\ [Next]_vars => TypeOK'
<1> SUFFICES ASSUME TypeOK, [Next]_vars PROVE TypeOK'
  OBVIOUS
<1>1. ASSUME NEW e \in Events, Happens(e) PROVE TypeOK'
  <2>1. happened' = Append(happened, e) /\ Len(happened) < MaxEvents
    BY <1>1 DEF Happens
  <2>2. /\ happened' \in Seq(Events) /\ Len(happened') <= MaxEvents
        /\ DOMAIN happened \subseteq DOMAIN happened' /\ Len(happened) + 1 \in DOMAIN happened'
    BY <2>1, ConstantsAssumption DEF TypeOK
  <2>3. due' \subseteq DOMAIN happened'
    BY <1>1, <2>2 DEF Happens, TypeOK
  <2>4. job' \in [Workers -> [id : {0} \union DOMAIN happened', todo : Seq(Writes),
                              clean : BOOLEAN]]
    BY <1>1, <2>2 DEF Happens, TypeOK
  <2> QED BY <1>1, <2>2, <2>3, <2>4 DEF Happens, TypeOK
<1>2. ASSUME NEW w \in Workers, NEW n \in due, Deliver(w, n) PROVE TypeOK'
  <2> DEFINE e == happened[n]
             r == record[<<"user", e.of>>]
             todo == Commands(e, r)
             rivals == Others(w, e.of)
  <2>1. n \in DOMAIN happened /\ e \in Events /\ r \in Anything /\ n # 0
    <3>1. n \in DOMAIN happened /\ e \in Events /\ n # 0
      BY DEF TypeOK
    <3> QED BY <3>1 DEF TypeOK, Events, Keys
  <2>2. due' \subseteq DOMAIN happened /\ drops' \in 0..MaxDrops
    BY <1>2, ConstantsAssumption DEF Deliver, Answers, TypeOK
  <2>3. CASE todo = <<>>
    BY <1>2, <2>2, <2>3 DEF Deliver, TypeOK
  <2>4. CASE todo # <<>>
    <3>1. todo \in Seq(Writes)
      BY <2>1, <2>4, CommandsLead
    <3> HIDE DEF todo, rivals
    <3>2. job' = [v \in Workers |-> CASE v = w -> [id |-> n, todo |-> todo, clean |-> rivals = {}]
                                      [] v \in rivals -> [job[v] EXCEPT !.clean = FALSE]
                                      [] OTHER -> job[v]]
      BY <1>2, <2>4 DEF Deliver, todo, rivals
    <3>3. w \notin rivals
      BY DEF rivals, Others
    <3>4. /\ job' \in [Workers -> Jobs]
          /\ \A v \in Workers : job'[v].id = 0 <=> job'[v].todo = <<>>
      <4> SUFFICES ASSUME NEW v \in Workers
                   PROVE  job'[v] \in Jobs /\ (job'[v].id = 0 <=> job'[v].todo = <<>>)
        BY <3>2
      <4>1. CASE v = w
        <5>1. job'[v] = [id |-> n, todo |-> todo, clean |-> rivals = {}]
          BY <3>2, <3>3, <4>1
        <5> QED BY <5>1, <2>1, <2>4, <3>1 DEF Jobs
      <4>2. CASE v \in rivals
        BY <3>2, <3>3, <4>2 DEF TypeOK, Jobs
      <4>3. CASE v # w /\ v \notin rivals
        BY <3>2, <4>3 DEF TypeOK, Jobs
      <4> QED BY <4>1, <4>2, <4>3
    <3>5. expected' \in [Users -> SUBSET Anything]
      BY <1>2, <2>4 DEF Deliver, TypeOK, todo, rivals
    <3> QED BY <1>2, <2>2, <3>4, <3>5 DEF Deliver, TypeOK, Jobs
  <2> QED BY <2>3, <2>4
<1>3. ASSUME NEW w \in Workers, Step(w) \/ Fails(w) PROVE TypeOK'
  <2>1. job[w].id # 0
    BY <1>3 DEF Step, Fails
  <2>2. /\ job[w].id \in DOMAIN happened /\ happened[job[w].id] \in Events
        /\ UserOf(w) \in Users /\ job[w] \in Jobs
        /\ job[w].todo \in Seq(Writes) /\ job[w].todo # <<>> /\ Head(job[w].todo) \in Writes
    BY <2>1, AtWorkTypes
  <2>3. record' \in [Keys -> Anything]
    BY <1>3, <2>2, WritesTypes DEF Step, Fails, Writes1, TypeOK, Anything
  <2>4. After(job[w]) \in Jobs /\ (After(job[w]).id = 0 <=> After(job[w]).todo = <<>>)
    <3>1. CASE Len(job[w].todo) = 1
      BY <3>1 DEF After, Idle, Jobs
    <3>2. CASE Len(job[w].todo) # 1
      <4>1. Tail(job[w].todo) \in Seq(Writes) /\ Tail(job[w].todo) # <<>>
        BY <2>2, <3>2, TailTypes
      <4>2. After(job[w]) = [job[w] EXCEPT !.todo = Tail(job[w].todo)]
        BY <3>2 DEF After
      <4> QED BY <2>1, <2>2, <4>1, <4>2 DEF Jobs
    <3> QED BY <3>1, <3>2
  <2>5. Idle \in Jobs /\ (Idle.id = 0 <=> Idle.todo = <<>>)
    BY DEF Idle, Jobs
  <2>6. /\ job' \in [Workers -> Jobs]
        /\ \A v \in Workers : job'[v].id = 0 <=> job'[v].todo = <<>>
    BY <1>3, <2>4, <2>5 DEF Step, Fails, TypeOK, Jobs
  <2>7. Outcomes(happened[job[w].id], expected[UserOf(w)]) \subseteq Anything
    BY <2>2, OutcomeTypes DEF TypeOK
  <2>8. expected' \in [Users -> SUBSET Anything]
    BY <1>3, <2>2, <2>7 DEF Step, Fails, TypeOK, UserOf
  <2>9. due' \subseteq DOMAIN happened /\ drops' \in 0..MaxDrops /\ failures' \in 0..MaxFailures
    BY <1>3, ConstantsAssumption DEF Step, Fails, Answers, TypeOK
  <2> QED BY <1>3, <2>3, <2>6, <2>8, <2>9 DEF Step, Fails, TypeOK, Jobs
<1>4. ASSUME NEW k \in Keys, Lapse(k) PROVE TypeOK'
  <2>1. record' \in [Keys -> Anything]
    BY <1>4 DEF Lapse, TypeOK, Anything
  <2>2. expected' \in [Users -> SUBSET Anything]
    BY <1>4 DEF Lapse, TypeOK, Anything
  <2>3. /\ job' \in [Workers -> Jobs]
        /\ \A v \in Workers : job'[v].id = 0 <=> job'[v].todo = <<>>
    <3>1. CASE k[1] = "id"
      BY <1>4, <3>1 DEF Lapse, TypeOK, Jobs
    <3>2. CASE k[1] # "id"
      BY <1>4, <3>2 DEF Lapse, TypeOK, Jobs
    <3> QED BY <3>1, <3>2
  <2> QED BY <1>4, <2>1, <2>2, <2>3 DEF Lapse, TypeOK, Jobs
<1>5. CASE UNCHANGED vars
  BY <1>5 DEF vars, TypeOK
<1> QED BY <1>1, <1>2, <1>3, <1>4, <1>5 DEF Next

-----------------------------------------------------------------------------
(* The invariant. *)

\* What the invariant says of a worker whose webhook goes on, when neither its user's
\* copy nor what is expected of it changes.
LEMMA HeadingKept ==
    ASSUME Heading, NEW v \in Workers, job[v].id # 0, job'[v].clean => job[v].clean,
           job'[v].id = job[v].id, job'[v].todo = job[v].todo,
           happened'[job[v].id] = happened[job[v].id],
           expected'[UserOf(v)] = expected[UserOf(v)],
           record'[<<"user", UserOf(v)>>] = record[<<"user", UserOf(v)>>]
    PROVE  HeadsFor(v)'
<1>1. UserOf(v)' = UserOf(v)
  BY DEF UserOf
<1>2. Outcomes(happened[job[v].id], expected[UserOf(v)])'
      = Outcomes(happened[job[v].id], expected[UserOf(v)])
  BY <1>1 DEF Outcomes, Outcome
<1> QED BY <1>1, <1>2 DEF Heading, HeadsFor, Leads

LEMMA HappensStep ==
    ASSUME Inv, NEW e \in Events, Happens(e)
    PROVE  Alone' /\ Own' /\ Heading' /\ RecordFollowsEvents'
<1>1. /\ UNCHANGED <<record, job, expected>>
      /\ \A n \in DOMAIN happened : happened'[n] = happened[n]
  BY DEF Happens, Inv, TypeOK
<1>2. \A w \in Workers : job[w].id # 0 =>
        /\ happened'[job[w].id] = happened[job[w].id] /\ UserOf(w)' = UserOf(w)
  BY <1>1 DEF Inv, TypeOK, UserOf
<1>3. Alone' /\ Own'
  BY <1>1, <1>2 DEF Inv, Alone, Own
<1>4. Heading'
  <2> SUFFICES ASSUME NEW v \in Workers, job'[v].id # 0 PROVE HeadsFor(v)'
    BY DEF Heading, HeadsFor
  <2> QED BY <1>1, <1>2, HeadingKept DEF Inv
<1>5. RecordFollowsEvents'
  BY <1>1, <1>2 DEF Inv, RecordFollowsEvents, AtWork, UserOf
<1> QED BY <1>3, <1>4, <1>5

LEMMA DeliverStep ==
    ASSUME Inv, NEW w \in Workers, NEW n \in due, Deliver(w, n)
    PROVE  Alone' /\ Own' /\ Heading' /\ RecordFollowsEvents'
<1> DEFINE e == happened[n]
           u == e.of
           r == record[<<"user", u>>]
           todo == Commands(e, r)
           rivals == Others(w, u)
<1>1. n \in DOMAIN happened /\ e \in Events /\ u \in Users /\ r \in Anything
  <2>1. n \in DOMAIN happened /\ e \in Events
    BY DEF Inv, TypeOK
  <2> QED BY <2>1 DEF Inv, TypeOK, Events, Keys
<1>2. CASE todo = <<>>
  <2>1. UNCHANGED <<happened, record, job, expected>>
    BY <1>2 DEF Deliver
  <2> QED BY <2>1 DEF Inv, Alone, Own, Heading, HeadsFor, Leads, RecordFollowsEvents, AtWork, UserOf
<1>3. CASE todo # <<>>
  <2>1. /\ UNCHANGED <<happened, record>> /\ job[w].id = 0
        /\ job' = [v \in Workers |-> CASE v = w -> [id |-> n, todo |-> todo, clean |-> rivals = {}]
                                       [] v \in rivals -> [job[v] EXCEPT !.clean = FALSE]
                                       [] OTHER -> job[v]]
        /\ expected' = IF rivals = {} THEN expected ELSE [expected EXCEPT ![u] = Anything]
    BY <1>3 DEF Deliver
  <2>2. /\ \A i \in DOMAIN todo : todo[i][1][2] = u
        /\ Leads(todo, u, Outcome(e, r), r) /\ todo \in Seq(Writes)
    BY <1>1, <1>3, CommandsLead
  <2> HIDE DEF todo, rivals
  <2>3. w \notin rivals /\ \A v \in Workers \ {w} : job[v].id # 0 /\ UserOf(v) = u <=> v \in rivals
    BY DEF rivals, Others, UserOf
  <2>4. job'[w].id = n /\ job'[w].todo = todo /\ job'[w].clean = (rivals = {})
    BY <2>1, <2>3
  <2>5. \A v \in Workers \ {w} :
          /\ job'[v].id = job[v].id /\ job'[v].todo = job[v].todo
          /\ job'[v].clean => job[v].clean /\ v \notin rivals
    BY <2>1, <2>3 DEF Inv, TypeOK
  <2>6. UserOf(w)' = u /\ \A v \in Workers \ {w} : UserOf(v)' = UserOf(v)
    BY <2>1, <2>4, <2>5 DEF UserOf
  <2>7. Alone'
    <3> SUFFICES ASSUME NEW v \in Workers, job'[v].id # 0, job'[v].clean,
                        NEW x \in Workers \ {v}, job'[x].id # 0
                 PROVE  UserOf(x)' # UserOf(v)'
      BY DEF Alone
    <3>1. CASE v = w
      <4>1. UserOf(v)' = u /\ UserOf(x)' = UserOf(x) /\ job[x].id # 0 /\ rivals = {}
        BY <2>4, <2>5, <2>6, <3>1
      <4> QED BY <2>3, <3>1, <4>1
    <3>2. CASE x = w
      <4>1. UserOf(x)' = u /\ UserOf(v)' = UserOf(v) /\ job[v].id # 0 /\ v \notin rivals
        BY <2>5, <2>6, <3>2
      <4> QED BY <2>3, <3>2, <4>1
    <3>3. CASE v # w /\ x # w
      BY <2>5, <2>6, <3>3 DEF Inv, Alone
    <3> QED BY <3>1, <3>2, <3>3
  <2>8. Own'
    <3>1. ASSUME NEW v \in Workers, job'[v].id # 0
          PROVE  \A i \in DOMAIN job'[v].todo : job'[v].todo[i][1][2] = UserOf(v)'
      BY <2>2, <2>4, <2>5, <2>6, <3>1 DEF Inv, Own
    <3> QED BY <3>1 DEF Own
  <2>9. Heading'
    <3>1. ASSUME rivals = {}
          PROVE  Leads(todo, u, Outcomes(e, expected[u]), r)
      <4>1. ~AtWork(u)
        BY <2>1, <2>3, <3>1 DEF AtWork, UserOf
      <4>2. r \in expected[u] /\ expected[u] \in SUBSET Anything
        BY <1>1, <4>1 DEF Inv, RecordFollowsEvents, TypeOK
      <4>3. Outcome(e, r) \subseteq Outcomes(e, expected[u])
        BY <1>1, <4>2, OutcomeTypes
      <4> QED BY <2>2, <4>3 DEF Leads
    <3>2. ASSUME NEW v \in Workers, job'[v].id # 0, job'[v].clean
          PROVE  HeadsFor(v)'
      <4>1. CASE v = w
        <5>1. Leads(todo, u, Outcomes(e, expected[u]), r) /\ expected' = expected
          BY <2>1, <2>4, <3>1, <3>2, <4>1
        <5>2. /\ job'[v].todo = todo /\ UserOf(v)' = u /\ happened'[job'[v].id] = e
              /\ record'[<<"user", u>>] = r
          BY <2>1, <2>4, <2>6, <4>1
        <5>3. Outcomes(happened[job[v].id], expected[UserOf(v)])' = Outcomes(e, expected[u])
          BY <5>1, <5>2
        <5> QED BY <5>1, <5>2, <5>3 DEF HeadsFor, Leads
      <4>2. CASE v # w
        <5>1. job[v].id # 0 /\ UserOf(v) # u
          BY <2>3, <2>5, <3>2, <4>2
        <5>2. expected'[UserOf(v)] = expected[UserOf(v)]
          BY <2>1, <5>1 DEF Inv, TypeOK
        <5> QED BY <2>1, <2>5, <3>2, <4>2, <5>1, <5>2, HeadingKept DEF Inv
      <4> QED BY <4>1, <4>2
    <3> QED BY <3>2 DEF Heading, HeadsFor
  <2>10. RecordFollowsEvents'
    <3> SUFFICES ASSUME NEW u2 \in Users, ~AtWork(u2)'
                 PROVE  record'[<<"user", u2>>] \in expected'[u2]
      BY DEF RecordFollowsEvents
    <3>1. u2 # u
      BY <1>1, <2>4, <2>6 DEF AtWork, UserOf, Inv, TypeOK
    <3>2. ~AtWork(u2)
      BY <2>1, <2>5, <2>6 DEF AtWork, UserOf
    <3>3. expected'[u2] = expected[u2]
      BY <2>1, <3>1 DEF Inv, TypeOK
    <3> QED BY <2>1, <3>2, <3>3 DEF Inv, RecordFollowsEvents
  <2> QED BY <2>7, <2>8, <2>9, <2>10
<1> QED BY <1>2, <1>3

LEMMA StepStep ==
    ASSUME Inv, NEW w \in Workers, Step(w) \/ Fails(w)
    PROVE  Alone' /\ Own' /\ Heading' /\ RecordFollowsEvents'
<1> DEFINE u == UserOf(w)
           todo == job[w].todo
           x == todo[1]
<1>1. /\ job[w].id # 0 /\ UNCHANGED happened
      /\ \A v \in Workers \ {w} : job'[v] = job[v]
      /\ \A v \in Users : v # u => expected'[v] = expected[v]
      /\ \A v \in Workers \ {w} : UserOf(v)' = UserOf(v)
  BY DEF Step, Fails, Inv, TypeOK, UserOf
<1>2. /\ todo \in Seq(Writes) /\ Len(todo) \in Nat \ {0} /\ todo # <<>> /\ u \in Users
      /\ x \in Writes /\ x[1] \in Keys /\ x[1][2] = u /\ job[w] \in Jobs
  <2>1. /\ todo \in Seq(Writes) /\ Len(todo) \in Nat \ {0} /\ todo # <<>> /\ x \in Writes
        /\ job[w] \in Jobs /\ u \in Users
    BY <1>1, AtWorkTypes DEF Inv
  <2>2. x[1][2] = u
    BY <1>1, <2>1 DEF Inv, Own
  <2> QED BY <2>1, <2>2, WritesTypes
<1>3. record' = [record EXCEPT ![x[1]] = x[2]] \/ UNCHANGED record
  BY <1>1, AtWorkTypes DEF Step, Fails, Writes1, Inv
<1>4. \A v \in Users : v # u => record'[<<"user", v>>] = record[<<"user", v>>]
  BY <1>2, <1>3 DEF Inv, TypeOK, Keys
<1>5. /\ job'[w].id = 0 \/ (/\ Step(w) /\ Len(todo) # 1
                            /\ job'[w] = [job[w] EXCEPT !.todo = Tail(todo)])
      /\ job'[w].id = 0 => (Step(w) /\ Len(todo) = 1) \/ Fails(w)
  <2>1. CASE Step(w)
    <3>1. job'[w] = After(job[w])
      BY <2>1 DEF Step, Inv, TypeOK
    <3> QED BY <1>1, <1>2, <2>1, <3>1 DEF After, Idle, Jobs
  <2>2. CASE Fails(w)
    BY <2>2 DEF Fails, Idle, Inv, TypeOK
  <2> QED BY <2>1, <2>2
<1>6. job'[w].id # 0 =>
        /\ job'[w].id = job[w].id /\ job'[w].clean = job[w].clean /\ job'[w].todo = Tail(todo)
        /\ UserOf(w)' = u
  BY <1>1, <1>2, <1>5 DEF Jobs, UserOf
<1> DEFINE O == Outcomes(happened[job[w].id], expected[u])
           r == record[<<"user", u>>]
           after == record'[<<"user", u>>]
<1> HIDE DEF u, todo, x, O, r, after
<1>7. Alone'
  <2> SUFFICES ASSUME NEW v \in Workers, job'[v].id # 0, job'[v].clean,
                      NEW y \in Workers \ {v}, job'[y].id # 0
               PROVE  UserOf(y)' # UserOf(v)'
    BY DEF Alone
  <2>1. CASE v = w
    BY <1>1, <1>6, <2>1 DEF Inv, Alone, u
  <2>2. CASE y = w
    BY <1>1, <1>6, <2>2 DEF Inv, Alone, u
  <2>3. CASE v # w /\ y # w
    BY <1>1, <2>3 DEF Inv, Alone
  <2> QED BY <2>1, <2>2, <2>3
<1>8. Own'
  <2> SUFFICES ASSUME NEW v \in Workers, job'[v].id # 0, NEW i \in DOMAIN job'[v].todo
               PROVE  job'[v].todo[i][1][2] = UserOf(v)'
    BY DEF Own
  <2>1. CASE v # w
    BY <1>1, <2>1 DEF Inv, Own
  <2>2. CASE v = w
    <3>1. i \in 1..Len(todo) - 1 /\ job'[v].todo[i] = todo[i + 1]
      <4>1. /\ Len(Tail(todo)) = Len(todo) - 1 /\ Tail(todo) \in Seq(Writes)
            /\ \A j \in 1..Len(todo) - 1 : Tail(todo)[j] = todo[j + 1]
        BY <1>2, TailTypes
      <4>2. i \in 1..Len(todo) - 1
        BY <1>6, <2>2, <4>1
      <4> QED BY <1>6, <2>2, <4>1, <4>2
    <3>2. i + 1 \in DOMAIN todo
      BY <1>2, <3>1
    <3> QED BY <1>1, <1>6, <2>2, <3>1, <3>2 DEF Inv, Own, u, todo
  <2> QED BY <2>1, <2>2
<1>9. ASSUME Step(w), job[w].clean
      PROVE  /\ Len(todo) = 1 => after \in O
             /\ Len(todo) # 1 => Leads(Tail(todo), u, O, after)
  <2>1. PICK o \in O : Leads(todo, u, {o}, r)
    BY <1>1, <1>9 DEF Inv, Heading, HeadsFor, Leads, u, todo, O, r
  <2>2. record' = [record EXCEPT ![x[1]] = x[2]]
    BY <1>1, <1>9, AtWorkTypes DEF Step, Writes1, Inv, x, todo
  <2>3. /\ x[1] = <<"user", u>> => after = x[2]
        /\ x[1] = <<"id", u>> => after = r
    BY <1>2, <2>2 DEF Inv, TypeOK, after, r, Keys
  <2>4. CASE Len(todo) = 1
    BY <1>2, <2>1, <2>3, <2>4 DEF Leads, x
  <2>5. CASE Len(todo) # 1
    <3>1. /\ Tail(todo) \in Seq(Writes) /\ Len(Tail(todo)) = Len(todo) - 1
          /\ \A j \in 1..Len(todo) - 1 : Tail(todo)[j] = todo[j + 1]
      BY <1>2, TailTypes
    <3>2. CASE todo[Len(todo)] = <<<<"user", u>>, o>>
      <4>1. Tail(todo)[Len(Tail(todo))] = todo[Len(todo)]
        BY <1>2, <2>5, <3>1
      <4> QED BY <2>5, <3>2, <4>1 DEF Leads
    <3>3. CASE /\ Len(todo) = 2 /\ todo[1] = <<<<"user", u>>, o>>
               /\ todo[2][1] = <<"id", u>>
      <4>1. Len(Tail(todo)) = 1 /\ Tail(todo)[1] = todo[2] /\ after = o
        <5>1. x = <<<<"user", u>>, o>>
          BY <3>3 DEF x
        <5>2. after = o
          BY <2>3, <5>1
        <5>3. 1 \in 1..Len(todo) - 1 /\ Len(Tail(todo)) = 1
          BY <3>1, <3>3
        <5>4. Tail(todo)[1] = todo[1 + 1]
          BY <3>1, <5>3
        <5>5. 1 + 1 = 2
          OBVIOUS
        <5> QED BY <5>2, <5>3, <5>4, <5>5
      <4> QED BY <2>5, <3>3, <4>1 DEF Leads
    <3> QED BY <2>1, <2>5, <3>2, <3>3 DEF Leads
  <2> QED BY <2>4, <2>5
<1>10. Heading'
  <2> SUFFICES ASSUME NEW v \in Workers, job'[v].id # 0, job'[v].clean PROVE HeadsFor(v)'
    BY DEF Heading, HeadsFor
  <2>1. CASE v # w
    <3>1. UserOf(v) # u /\ UserOf(v) \in Users
      BY <1>1, <2>1, AtWorkTypes DEF Inv, Alone, u
    <3>2. /\ job'[v] = job[v] /\ expected'[UserOf(v)] = expected[UserOf(v)]
          /\ record'[<<"user", UserOf(v)>>] = record[<<"user", UserOf(v)>>]
      BY <1>1, <1>4, <2>1, <3>1
    <3> QED BY <1>1, <3>2, HeadingKept DEF Inv
  <2>2. CASE v = w
    <3>1. Step(w) /\ Len(todo) # 1 /\ job[w].clean
      BY <1>5, <1>6, <2>2
    <3>2. expected' = expected
      BY <3>1 DEF Step, todo
    <3>3. Outcomes(happened[job[w].id], expected[UserOf(w)])' = O /\ record'[<<"user", UserOf(w)'>>] = after
      BY <1>1, <1>6, <2>2, <3>2 DEF O, after, Outcomes, Outcome
    <3>4. Leads(Tail(todo), u, O, after)
      BY <1>9, <3>1
    <3> QED BY <1>6, <2>2, <3>3, <3>4 DEF HeadsFor
  <2> QED BY <2>1, <2>2
<1>11. RecordFollowsEvents'
  <2> SUFFICES ASSUME NEW u2 \in Users, ~AtWork(u2)'
               PROVE  record'[<<"user", u2>>] \in expected'[u2]
    BY DEF RecordFollowsEvents
  <2>0. TypeOK' /\ <<"user", u2>> \in Keys
    BY TypeStep DEF Inv, Next, Keys
  <2>1. CASE u2 # u
    <3>1. ~AtWork(u2)
      BY <1>1, <2>1 DEF AtWork, UserOf, u
    <3> QED BY <1>1, <1>4, <2>1, <3>1 DEF Inv, RecordFollowsEvents
  <2>2. CASE u2 = u
    <3>1. job'[w].id = 0
      BY <1>6, <2>2 DEF AtWork, UserOf
    <3>2. CASE Fails(w)
      <4>1. expected'[u] = Anything
        BY <1>2, <3>2 DEF Fails, Inv, TypeOK, u, UserOf
      <4>2. record'[<<"user", u2>>] \in Anything
        BY <2>0 DEF TypeOK
      <4> QED BY <2>2, <4>1, <4>2
    <3>3. CASE Step(w) /\ Len(todo) = 1
      <4>1. expected'[u] = IF job[w].clean THEN O ELSE Anything
        BY <1>2, <3>3 DEF Step, Inv, TypeOK, u, UserOf, todo, O
      <4>2. record'[<<"user", u2>>] \in Anything
        BY <2>0 DEF TypeOK
      <4> QED BY <1>9, <2>2, <3>3, <4>1, <4>2 DEF after
    <3> QED BY <1>5, <3>1, <3>2, <3>3
  <2> QED BY <2>1, <2>2
<1> QED BY <1>7, <1>8, <1>10, <1>11

LEMMA LapseStep ==
    ASSUME Inv, NEW k \in Keys, Lapse(k)
    PROVE  Alone' /\ Own' /\ Heading' /\ RecordFollowsEvents'
<1> DEFINE u == k[2]
<1>1. /\ UNCHANGED happened /\ u \in Users /\ k = <<k[1], u>> /\ k[1] \in {"user", "id"}
      /\ record' = [record EXCEPT ![k] = NoRecord]
  BY DEF Lapse, Keys
<1>2. \A v \in Workers : /\ job'[v].id = job[v].id /\ job'[v].todo = job[v].todo
                         /\ job'[v].clean => job[v].clean
                         /\ job'[v].clean /\ job[v].id # 0 => k[1] = "id" \/ UserOf(v) # u
                         /\ UserOf(v)' = UserOf(v)
  <2>1. CASE k[1] = "id"
    BY <1>1, <2>1 DEF Lapse, UserOf
  <2>2. CASE k[1] # "id"
    <3>1. job' = [w \in Workers |->
             [job[w] EXCEPT !.clean = @ /\ (job[w].id = 0 \/ happened[job[w].id].of # u)]]
      BY <2>2 DEF Lapse
    <3> SUFFICES ASSUME NEW v \in Workers
                 PROVE  /\ job'[v].id = job[v].id /\ job'[v].todo = job[v].todo
                        /\ job'[v].clean = (job[v].clean /\ (job[v].id = 0 \/ happened[job[v].id].of # u))
      BY <1>1 DEF UserOf
    <3>2. job[v] \in Jobs
      BY DEF Inv, TypeOK, Jobs
    <3> QED BY <3>1, <3>2 DEF Jobs
  <2> QED BY <2>1, <2>2
<1>3. Alone' /\ Own'
  BY <1>2 DEF Inv, Alone, Own
<1>4. \A v \in Users : k[1] = "id" \/ v # u =>
        expected'[v] = expected[v] /\ record'[<<"user", v>>] = record[<<"user", v>>]
  BY <1>1 DEF Lapse, Inv, TypeOK, Keys
<1>5. Heading'
  <2> SUFFICES ASSUME NEW v \in Workers, job'[v].id # 0, job'[v].clean PROVE HeadsFor(v)'
    BY DEF Heading, HeadsFor
  <2>1. UserOf(v) \in Users
    BY <1>2, AtWorkTypes DEF Inv
  <2> QED BY <1>1, <1>2, <1>4, <2>1, HeadingKept DEF Inv
<1>6. RecordFollowsEvents'
  <2> SUFFICES ASSUME NEW v \in Users, ~AtWork(v)'
               PROVE  record'[<<"user", v>>] \in expected'[v]
    BY DEF RecordFollowsEvents
  <2>1. ~AtWork(v)
    BY <1>2 DEF AtWork, UserOf
  <2>2. CASE k[1] = "id" \/ v # u
    BY <1>4, <2>1, <2>2 DEF Inv, RecordFollowsEvents
  <2>3. CASE k[1] # "id" /\ v = u
    <3>1. expected'[v] = {NoRecord} /\ k = <<"user", v>>
      BY <1>1, <2>1, <2>3 DEF Lapse, AtWork, Inv, TypeOK
    <3> QED BY <1>1, <3>1 DEF Inv, TypeOK
  <2> QED BY <2>2, <2>3
<1> QED BY <1>3, <1>5, <1>6

-----------------------------------------------------------------------------
LEMMA InvInit == Init => Inv
<1> SUFFICES ASSUME Init PROVE Inv
  OBVIOUS
<1>1. TypeOK
  BY ConstantsAssumption DEF Init, TypeOK, Idle, Anything
<1>2. \A w \in Workers : job[w].id = 0
  BY DEF Init, Idle
<1>3. \A u \in Users : record[<<"user", u>>] \in expected[u]
  BY DEF Init, Keys
<1> QED BY <1>1, <1>2, <1>3 DEF Inv, Alone, Own, Heading, HeadsFor, RecordFollowsEvents

LEMMA InvStep == Inv /\ [Next]_vars => Inv'
<1> SUFFICES ASSUME Inv, [Next]_vars PROVE Alone' /\ Own' /\ Heading' /\ RecordFollowsEvents'
  BY TypeStep DEF Inv
<1>1. CASE UNCHANGED vars
  BY <1>1 DEF vars, Inv, Alone, Own, Heading, HeadsFor, Leads, RecordFollowsEvents, AtWork, UserOf
<1>2. CASE Next
  BY <1>2, HappensStep, DeliverStep, StepStep, LapseStep DEF Next
<1> QED BY <1>1, <1>2

LEMMA AlwaysInv == Spec => []Inv
BY InvInit, InvStep, PTL DEF Spec

\* The types, for any workers, users and numbers of events.
THEOREM TypeCorrect == Spec => []TypeOK
<1>1. Inv => TypeOK
  BY DEF Inv
<1> QED BY <1>1, AlwaysInv, PTL

\* The user's record is what the undisturbed webhooks have made of it, for any workers,
\* users, plans and numbers of events, deaths and lost answers.
THEOREM RecordAlwaysFollows == Spec => []RecordFollowsEvents
<1>1. Inv => RecordFollowsEvents
  BY DEF Inv
<1> QED BY <1>1, AlwaysInv, PTL
=============================================================================
