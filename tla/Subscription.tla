---------------------------- MODULE Subscription ----------------------------
(***************************************************************************)
(* Subscriptions sold through Paddle: the webhook of routes/paddle.py and   *)
(* the records SubscriptionService keeps in Redis, one under the user and   *)
(* one under the id of the subscription.                                    *)
(*                                                                         *)
(* The webhook neither recognises a delivery it has seen nor looks at the   *)
(* order of events.  One worker runs a webhook to its end; two interleave   *)
(* command by command, and a worker may die, or Redis fail, between any two *)
(* commands: Paddle, not told 200, delivers the event again.                *)
(***************************************************************************)
EXTENDS Naturals, Sequences

CONSTANTS
    Workers,      \* processes of the gateway
    Users,        \* customers, each with one subscription
    Plans,        \* what SubscriptionTier names
    FreePlan,     \* the plan of a cancelled subscription
    NoRecord,     \* nothing stored
    MaxEvents,    \* bound: events
    MaxFailures,  \* bound: deaths of workers and commands that raise
    MaxDrops      \* bound: answers that Paddle does not get

ASSUME ConstantsAssumption ==
    /\ FreePlan \in Plans
    /\ {MaxEvents, MaxFailures, MaxDrops} \subseteq Nat
    /\ NoRecord \notin [plan : Plans, status : {"active", "cancelling", "cancelled"}]

Records == [plan : Plans, status : {"active", "cancelling", "cancelled"}]

\* What a copy may be when nothing is known of it.
Anything == Records \union {NoRecord}

\* Both copies of the records: by user, and by the subscription's id.
Keys == {"user", "id"} \X Users

\* activated: created, or updated and active; ended: updated and cancelled; cancelled: at
\* the end of the period; other: whatever asks nothing of the service.
Kinds == {"activated", "ended", "cancelled", "other"}
Events == [of : Users, kind : Kinds, plan : Plans]

VARIABLES
    happened,  \* the events of Paddle, in their order
    due,       \* events it still delivers, not having been told 200
    record,    \* both copies
    job,       \* the event a worker is at, and the SETEX commands it has left
    expected,  \* ghost: what the user's copy may be after the undisturbed webhooks
    failures, drops

vars == <<happened, due, record, job, expected, failures, drops>>

Writes == Keys \X Records

\* clean: nobody else is at work on the user.
Idle == [id |-> 0, todo |-> <<>>, clean |-> TRUE]

TypeOK ==
    /\ happened \in Seq(Events) /\ Len(happened) <= MaxEvents
    /\ due \subseteq DOMAIN happened
    /\ record \in [Keys -> Anything]
    /\ job \in [Workers -> [id : {0} \union DOMAIN happened, todo : Seq(Writes), clean : BOOLEAN]]
    /\ \A w \in Workers : job[w].id = 0 <=> job[w].todo = <<>>
    /\ expected \in [Users -> SUBSET Anything]
    /\ failures \in 0..MaxFailures /\ drops \in 0..MaxDrops

Init ==
    /\ happened = <<>> /\ due = {}
    /\ record = [k \in Keys |-> NoRecord]
    /\ job = [w \in Workers |-> Idle]
    /\ expected = [u \in Users |-> {NoRecord}]
    /\ failures = 0 /\ drops = 0
-----------------------------------------------------------------------------
(* Paddle. *)

\* A customer subscribes, changes the plan, cancels, pays.
Happens(e) ==
    /\ Len(happened) < MaxEvents
    /\ happened' = Append(happened, e)
    /\ due' = due \union {Len(happened) + 1}
    /\ UNCHANGED <<record, job, expected, failures, drops>>

\* It is told 200 for event n, or the answer gets lost.
Answers(n) ==
    \/ due' = due \ {n} /\ UNCHANGED drops
    \/ drops < MaxDrops /\ drops' = drops + 1 /\ UNCHANGED due
-----------------------------------------------------------------------------
(* The service. *)

Active(plan) == [plan |-> plan, status |-> "active"]

\* Slip, no specification uses it: the user's copy is not written over one that is there.
ActivateNX(u, plan) ==
    IF record[<<"user", u>>] = NoRecord
    THEN <<<<<<"user", u>>, Active(plan)>>, <<<<"id", u>>, Active(plan)>>>>
    ELSE <<<<<<"id", u>>, Active(plan)>>>>

\* activate_subscription: both copies are written.
Activate(u, plan) == <<<<<<"user", u>>, Active(plan)>>, <<<<"id", u>>, Active(plan)>>>>

\* Slip, no specification uses it: the status as Paddle spells it.
CancelAsPaddle(u, r, atPeriodEnd) ==
    IF atPeriodEnd THEN <<<<<<"user", u>>, [r EXCEPT !.status = "cancelling"]>>>>
    ELSE Activate(u, FreePlan) \o <<<<<<"user", u>>, [r EXCEPT !.status = "canceled"]>>>>

\* cancel_subscription, of the record r that was read.
Cancel(u, r, atPeriodEnd) ==
    IF atPeriodEnd THEN <<<<<<"user", u>>, [r EXCEPT !.status = "cancelling"]>>>>
    ELSE Activate(u, FreePlan) \o <<<<<<"user", u>>, [r EXCEPT !.status = "cancelled"]>>>>

\* What event e makes of the user's record r.
Commands(e, r) ==
    CASE e.kind = "activated" -> Activate(e.of, e.plan)
      [] e.kind \in {"ended", "cancelled"} /\ r # NoRecord ->
            Cancel(e.of, r, e.kind = "cancelled")
      [] OTHER -> <<>>

\* What an event asks for, where the user's copy was r: of one that ends a subscription at
\* once only the status, for which plan it leaves is the subject of Downgraded.
Outcome(e, r) ==
    CASE e.kind = "activated" -> {Active(e.plan)}
      [] e.kind = "ended" /\ r # NoRecord -> [plan : Plans, status : {"cancelled"}]
      [] e.kind = "cancelled" /\ r # NoRecord -> {[r EXCEPT !.status = "cancelling"]}
      [] OTHER -> {r}

\* The same, where it was one of copies.
Outcomes(e, copies) == UNION {Outcome(e, r) : r \in copies}

\* The other workers that are at work on user u.
Others(w, u) == {v \in Workers \ {w} : job[v].id # 0 /\ happened[job[v].id].of = u}

\* A delivery; a cancellation begins with the GET of the record.
Deliver(w, n) ==
    /\ job[w].id = 0
    /\ n \in due
    /\ LET e == happened[n]
           todo == Commands(e, record[<<"user", e.of>>])
           rivals == Others(w, e.of)
       IN IF todo = <<>>
          THEN Answers(n) /\ UNCHANGED <<job, expected>>
          ELSE /\ job' = [v \in Workers |->
                    CASE v = w -> [id |-> n, todo |-> todo, clean |-> rivals = {}]
                      [] v \in rivals -> [job[v] EXCEPT !.clean = FALSE]
                      [] OTHER -> job[v]]
               /\ expected' = IF rivals = {} THEN expected ELSE [expected EXCEPT ![e.of] = Anything]
               /\ UNCHANGED <<due, drops>>
    /\ UNCHANGED <<happened, record, failures>>

\* SETEX.
Writes1(w) ==
    record' = [record EXCEPT ![Head(job[w].todo)[1]] = Head(job[w].todo)[2]]

\* What is left of a webhook after a command.
After(j) == IF Len(j.todo) = 1 THEN Idle ELSE [j EXCEPT !.todo = Tail(@)]

\* The next command of a webhook, and after the last one the answer.
Step(w) ==
    /\ job[w].id # 0
    /\ Writes1(w)
    /\ job' = [job EXCEPT ![w] = After(@)]
    /\ LET n == job[w].id
           u == happened[n].of
       IN IF Len(job[w].todo) = 1
          THEN /\ Answers(n)
               /\ expected' = [expected EXCEPT ![u] =
                     IF job[w].clean THEN Outcomes(happened[n], @) ELSE Anything]
          ELSE UNCHANGED <<due, expected, drops>>
    /\ UNCHANGED <<happened, failures>>

\* A command raises or the process dies, with the command carried out or not: no 200.
Fails(w) ==
    /\ failures < MaxFailures
    /\ failures' = failures + 1
    /\ job[w].id # 0
    /\ Writes1(w) \/ UNCHANGED record
    /\ job' = [job EXCEPT ![w] = Idle]
    /\ expected' = [expected EXCEPT ![happened[job[w].id].of] = Anything]
    /\ UNCHANGED <<happened, due, drops>>

\* The 35 days of a copy are over.
Lapse(k) ==
    /\ record[k] # NoRecord
    /\ record' = [record EXCEPT ![k] = NoRecord]
    /\ expected' = IF k[1] = "id" THEN expected
                   ELSE [expected EXCEPT ![k[2]] =
                           IF \E w \in Workers : job[w].id # 0 /\ happened[job[w].id].of = k[2]
                           THEN Anything ELSE {NoRecord}]
    /\ job' = IF k[1] = "id" THEN job
              ELSE [w \in Workers |->
                      [job[w] EXCEPT !.clean = @ /\ (job[w].id = 0 \/ happened[job[w].id].of # k[2])]]
    /\ UNCHANGED <<happened, due, failures, drops>>

Next ==
    \/ \E e \in Events : Happens(e)
    \/ \E w \in Workers : Step(w) \/ Fails(w) \/ \E n \in due : Deliver(w, n)
    \/ \E k \in Keys : Lapse(k)

Spec == Init /\ [][Next]_vars
-----------------------------------------------------------------------------
(* Properties. *)

AtWork(u) == \E w \in Workers : job[w].id # 0 /\ happened[job[w].id].of = u

\* What webhooks that neither met another one of the user nor failed have left is what they
\* ask for one after the other; and whatever a disturbed one has left, of two workers, a
\* death or an error, the next undisturbed activation sets right, a cancellation its status.
RecordFollowsEvents ==
    \A u \in Users : ~AtWork(u) => record[<<"user", u>>] \in expected[u]

\* "Downgrade to free tier" (cancel_subscription): a subscription cancelled at once has the
\* free plan.
Downgraded ==
    \A u \in Users : LET r == record[<<"user", u>>]
                     IN r # NoRecord => (r.status = "cancelled" => r.plan = FreePlan)
=============================================================================
