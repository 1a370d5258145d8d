------------------------------ MODULE FreeTier ------------------------------
(***************************************************************************)
(* What a request of the free tier passes before it is proxied: the checks  *)
(* of routes/proxy.py, over counters that RateLimiter, AbuseDetector and    *)
(* FingerprintManager keep in Redis.                                        *)
(*                                                                         *)
(* The checks are synchronous, so a worker runs those of one request to     *)
(* their end; several workers interleave command by command, and a worker   *)
(* may die, or Redis fail, between any two commands.  One action is one     *)
(* command with the decision that follows it.                               *)
(***************************************************************************)
EXTENDS Integers, Sequences, FiniteSets

CONSTANTS
    Workers,        \* processes of the gateway
    Callers,        \* programs that send requests of the free tier
    RouteOf,        \* the route each of them uses, "http" or "llm"
    KindOf,         \* "plain", or what the free tier has not: "stream", "model", "keyed"
    AccountOf,      \* the account id of a caller's key
    IpOf,           \* its address
    StickyOf,       \* the hash of address, agent and key (_make_fingerprint)
    PrintOf,        \* the hash of address, agent and language (create_fingerprint)
    NoIp,           \* the address "unknown"
    NoPrint,        \* no fingerprint stored
    Nobody,         \* the caller of an idle worker
    Limit,          \* requests per window, by family of windows (20, 500, 300, 20)
    MaxAttempts,    \* recorded attempts that ban (5)
    MaxMismatches,  \* mismatches after which an account is banned (5)
    WindowsPerDay,  \* windows of ten minutes in a day (144)
    Multiplier,     \* of the average that is too much (3)
    Lapsing,        \* bound: families of keys that lapse
    MaxRequests,    \* bound: requests
    MaxCrashes,     \* bound: deaths of workers
    MaxFaults       \* bound: commands that raise

Windows == {"ip", "account", "burst", "sticky"}
Families == Windows \union
    {"usage10", "usage24", "anomaly10", "anomaly24", "attempts", "mismatches"}
Accounts == {AccountOf[c] : c \in Callers}
Ips == {IpOf[c] : c \in Callers} \union {NoIp}
Stickies == {StickyOf[c] : c \in Callers}
Prints == {PrintOf[c] : c \in Callers}

\* The counters in Redis, by family and by whom they count.
Counters ==
    ({"ip"} \X Ips) \union ({"sticky"} \X Stickies) \union ({"attempts"} \X (Accounts \union Ips))
    \union ((Families \ {"ip", "sticky", "attempts"}) \X Accounts)

ASSUME ConstantsAssumption ==
    /\ RouteOf \in [Callers -> {"http", "llm"}]
    /\ KindOf \in [Callers -> {"plain", "stream", "model", "keyed"}]
    /\ Limit \in [Windows -> Nat \ {0}]
    /\ {MaxAttempts, WindowsPerDay, Multiplier} \subseteq Nat \ {0}
    /\ MaxMismatches \in Nat
    /\ NoPrint \notin Prints /\ Nobody \notin Callers
    /\ Accounts \intersect Ips = {}
    /\ Lapsing \subseteq Families \union {"print"}
    /\ {MaxRequests, MaxCrashes, MaxFaults} \subseteq Nat
    /\ IsFiniteSet(Workers)

VARIABLES
    count,    \* the value of a counter, 0 when there is none
    ttl,      \* the counters that have a time to live
    print,    \* the fingerprint stored for an account
    job,      \* what a worker is doing
    torn,     \* ghost: counters a command was lost for, by a crash or an error; once such a
              \* counter has lapsed, and nobody has its value in hand, it is whole again
    served,   \* ghost: requests let through that the present window counted
    refused,  \* ghost: requests refused by a limit, by account and address
    left,     \* requests still to come
    crashes, faults

ghosts == <<torn, served, refused>>
bounds == <<left, crashes, faults>>
vars == <<count, ttl, print, job, ghosts, bounds>>

\* The checks of a route in their order.
Checks == [http |-> <<"ip", "account", "sticky", "anomaly">>,
           llm  |-> <<"ban", "ip", "burst", "account", "usage", "print">>]
Stages == {"ban", "ip", "burst", "account", "sticky", "anomaly", "usage", "print", "mismatch"}
Verdicts == {"served", "limited", "banned", "anomaly_detected", "mismatch_found",
             "usage_anomaly", "not_for_free", "died"}

\* The commands a worker has still to issue: INCR and EXPIRE of a counter, or SETEX of
\* the account's fingerprint.
Commands == {"incr", "expire"} \X Counters \union {"set"} \X Accounts

\* todo is the rest of one try block, late the block after it, next where they lead.
Jobs == [who : Callers \union {Nobody}, at : Stages \union {"idle"},
         todo : Seq(Commands), late : Seq(Commands), next : Stages \union Verdicts,
         seen : Seq(Nat), by : SUBSET Counters]

Idle(verdict) == [who |-> Nobody, at |-> "idle", todo |-> <<>>, late |-> <<>>, next |-> verdict,
                  seen |-> <<>>, by |-> {}]

TypeOK ==
    /\ count \in [Counters -> Nat]
    /\ ttl \subseteq Counters
    /\ print \in [Accounts -> Prints \union {NoPrint}]
    /\ job \in [Workers -> Jobs]
    /\ \A w \in Workers : (job[w].at = "idle") <=> (job[w].who = Nobody)
    /\ torn \subseteq Counters
    /\ served \in [Counters -> Nat]
    /\ refused \in [Accounts \union Ips -> Nat]
    /\ left \in 0..MaxRequests /\ crashes \in 0..MaxCrashes /\ faults \in 0..MaxFaults

Init ==
    /\ count = [k \in Counters |-> 0]
    /\ ttl = {}
    /\ print = [a \in Accounts |-> NoPrint]
    /\ job = [w \in Workers |-> Idle("served")]
    /\ torn = {}
    /\ served = [k \in Counters |-> 0]
    /\ refused = [s \in Accounts \union Ips |-> 0]
    /\ left = MaxRequests /\ crashes = 0 /\ faults = 0

-----------------------------------------------------------------------------
(* How a request moves from check to check. *)

\* The counter a caller has in a family.
Key(family, c) ==
    <<family, CASE family = "ip" -> IpOf[c]
                [] family = "sticky" -> StickyOf[c]
                [] OTHER -> AccountOf[c]>>

\* The last checks touch nothing: models and features the free tier does not have.
Features(c) == IF RouteOf[c] = "llm" /\ KindOf[c] # "plain" THEN "not_for_free" ELSE "served"

\* What follows a check that was passed.
After(c, stage) ==
    LET route == Checks[RouteOf[c]]
        later == {i \in DOMAIN route : i > 1 /\ route[i - 1] = stage}
    IN IF later = {} THEN Features(c) ELSE route[CHOOSE i \in later : TRUE]

\* A job whose block is done goes on to the next block, the next check, or its answer.
Settled(j) ==
    CASE j.todo # <<>> -> j
      [] j.todo = <<>> /\ j.late # <<>> -> [j EXCEPT !.todo = j.late, !.late = <<>>]
      [] j.todo = <<>> /\ j.late = <<>> /\ j.next \in Stages ->
            [j EXCEPT !.at = j.next, !.seen = <<>>]
      [] OTHER -> Idle(j.next)

\* Worker w goes on with j; a request that is served counts for the windows it is in.
Becomes(w, j) ==
    /\ job' = [job EXCEPT ![w] = Settled(j)]
    /\ served' = IF Settled(j).at = "idle" /\ j.next = "served"
                 THEN [k \in Counters |-> served[k] + (IF k \in j.by THEN 1 ELSE 0)]
                 ELSE served

\* Straight on to what follows the present check.
Passes(w) == LET j == job[w] IN Becomes(w, [j EXCEPT !.next = After(j.who, j.at)])

\* w is about to make the first command of a check.
Asks(w, stage) == job[w].at = stage /\ job[w].todo = <<>>
-----------------------------------------------------------------------------
(* Commands. *)

Incr(k) == count' = [count EXCEPT ![k] = @ + 1]

\* Slip, no specification uses it: a counter raised without a life.
BothWithoutExpire(k) == <<<<"incr", k>>>>

Both(k) == <<<<"incr", k>>, <<"expire", k>>>>

\* record_limit_bypass_attempt(account, ip).
Attempt(account, ip) == Both(<<"attempts", account>>) \o Both(<<"attempts", ip>>)

\* Slip, no specification uses it: the limit of check_fingerprint_limit recorded as well.
OwnRecordSticky(c, stage) ==
    IF stage = "ip" THEN Both(<<"attempts", IpOf[c]>>) ELSE Attempt(AccountOf[c], NoIp)

\* What a refused check records by itself.  That of the address is under the account
\* "ip", which nobody looks at: only the address is kept here.
OwnRecord(c, stage) ==
    CASE stage = "ip" -> Both(<<"attempts", IpOf[c]>>)
      [] stage = "account" -> Attempt(AccountOf[c], NoIp)
      [] OTHER -> <<>>

\* What the LLM route records on top of it.
RouteRecord(c) == IF RouteOf[c] = "llm" THEN Attempt(AccountOf[c], IpOf[c]) ELSE <<>>

\* The request goes on to the next command of the block.
Next1(w) == Becomes(w, [job[w] EXCEPT !.todo = Tail(@)])

\* INCR of a block.
Increments(w) ==
    /\ job[w].todo # <<>> /\ Head(job[w].todo)[1] = "incr"
    /\ Incr(Head(job[w].todo)[2])
    /\ Next1(w)
    /\ UNCHANGED <<ttl, print, torn, refused, bounds>>

\* EXPIRE: of a key that is gone it does nothing.
Expires(w) ==
    /\ job[w].todo # <<>> /\ Head(job[w].todo)[1] = "expire"
    /\ LET k == Head(job[w].todo)[2]
       IN ttl' = IF count[k] > 0 THEN ttl \union {k} ELSE ttl
    /\ Next1(w)
    /\ UNCHANGED <<count, print, torn, refused, bounds>>

\* Slip, no specification uses it: the rate limiter's own fingerprint is stored.
StoresSticky(w) ==
    /\ job[w].todo # <<>> /\ Head(job[w].todo)[1] = "set"
    /\ print' = [print EXCEPT ![Head(job[w].todo)[2]] = StickyOf[job[w].who]]
    /\ Next1(w)
    /\ UNCHANGED <<count, ttl, torn, refused, bounds>>

\* store_fingerprint.
Stores(w) ==
    /\ job[w].todo # <<>> /\ Head(job[w].todo)[1] = "set"
    /\ print' = [print EXCEPT ![Head(job[w].todo)[2]] = PrintOf[job[w].who]]
    /\ Next1(w)
    /\ UNCHANGED <<count, ttl, torn, refused, bounds>>
-----------------------------------------------------------------------------
(* The checks. *)

\* The route takes a request; streaming is refused before anything is counted.
Arrive(w, c) ==
    /\ job[w].at = "idle"
    /\ left > 0
    /\ left' = left - 1
    /\ LET first == IF RouteOf[c] = "llm" /\ KindOf[c] = "stream" THEN "not_for_free"
                    ELSE Head(Checks[RouteOf[c]])
       IN Becomes(w, [Idle(first) EXCEPT !.who = c])
    /\ UNCHANGED <<count, ttl, print, torn, refused, crashes, faults>>

\* check_auto_ban; the two GETs are one step, for nothing but the two counts is read.
Banned(c) == \E s \in {AccountOf[c], IpOf[c]} : count[<<"attempts", s>>] >= MaxAttempts

CheckBan(w) ==
    /\ Asks(w, "ban")
    /\ IF Banned(job[w].who) THEN Becomes(w, [job[w] EXCEPT !.next = "banned"]) ELSE Passes(w)
    /\ UNCHANGED <<count, ttl, print, torn, refused, bounds>>

\* Slips, no specification uses them: a window that takes one more; EXPIRE with the
\* second request.
OverLate(k) == count[k] > Limit[k[1]]

FirstLate(k) == count[k] = 1

\* What one more INCR of a window finds.
Over(k) == count[k] + 1 > Limit[k[1]]

First(k) == count[k] = 0

\* A window: INCR, for its first request EXPIRE, and a refusal above the limit.
CountRequest(w) ==
    \E stage \in Windows :
      /\ Asks(w, stage)
      /\ LET j == job[w]
             c == j.who
             k == Key(stage, c)
             in == [j EXCEPT !.next = After(c, stage), !.by = @ \union {k}]
         IN /\ Incr(k)
            /\ CASE Over(k) -> Becomes(w, [j EXCEPT
                                !.next = "limited", !.todo = OwnRecord(c, stage),
                                !.late = IF stage = "sticky" THEN <<>> ELSE RouteRecord(c)])
                 [] ~Over(k) /\ First(k) -> Becomes(w, [in EXCEPT !.todo = <<<<"expire", k>>>>])
                 [] OTHER -> Becomes(w, in)
            /\ refused' = IF Over(k) /\ stage # "sticky"
                          THEN [s \in DOMAIN refused |-> refused[s] +
                                  (IF s \in {AccountOf[c], IpOf[c]}
                                        \/ (s = NoIp /\ stage = "account") THEN 1 ELSE 0)]
                          ELSE refused
    /\ UNCHANGED <<ttl, print, torn, bounds>>

\* Slips, no specification uses them: the day is not divided; half of it is too much.
SpikeOfTotal(stage, ten, day) == day > 0 /\ ten > Multiplier * day
SpikeOfHalf(stage, ten, day) == day > 0 /\ 2 * ten >= day

\* More than Multiplier times the average of the day's windows; for the anomalies of the
\* HTTP route, more than one and a half times the whole day.
Spike(stage, ten, day) ==
    day > 0 /\ IF stage = "usage" THEN ten * WindowsPerDay > Multiplier * day ELSE 2 * ten > 3 * day

Ten(stage) == IF stage = "usage" THEN "usage10" ELSE "anomaly10"
Day(stage) == IF stage = "usage" THEN "usage24" ELSE "anomaly24"
Anomaly(stage) == IF stage = "usage" THEN "usage_anomaly" ELSE "anomaly_detected"

\* check_usage_anomaly and check_anomaly_detector: both counts are read, then both are
\* raised, then those that were read decide.
ReadTen(w) ==
    \E stage \in {"usage", "anomaly"} :
      /\ Asks(w, stage) /\ job[w].seen = <<>>
      /\ job' = [job EXCEPT ![w].seen = <<count[Key(Ten(stage), job[w].who)]>>]
      /\ UNCHANGED <<count, ttl, print, ghosts, bounds>>

ReadDay(w) ==
    \E stage \in {"usage", "anomaly"} :
      /\ Asks(w, stage) /\ job[w].seen # <<>>
      /\ LET j == job[w]
             ten == Key(Ten(stage), j.who)
             day == Key(Day(stage), j.who)
         IN Becomes(w, [j EXCEPT
              !.todo = Both(ten) \o Both(day),
              !.next = IF Spike(stage, j.seen[1], count[day]) THEN Anomaly(stage)
                       ELSE After(j.who, stage),
              !.by = @ \union {ten}])
      /\ UNCHANGED <<count, ttl, print, torn, refused, bounds>>

\* check_fingerprint: GET, then SETEX of what was not there or is the same, twice when it
\* was not there.
CheckPrint(w) ==
    /\ Asks(w, "print")
    /\ LET j == job[w]
           a == AccountOf[j.who]
           in == [j EXCEPT !.next = After(j.who, "print")]
       IN CASE print[a] = NoPrint -> Becomes(w, [in EXCEPT !.todo = <<<<"set", a>>, <<"set", a>>>>])
            [] print[a] = PrintOf[j.who] -> Becomes(w, [in EXCEPT !.todo = <<<<"set", a>>>>])
            [] OTHER -> Becomes(w, [j EXCEPT !.next = "mismatch"])
    /\ UNCHANGED <<count, ttl, print, torn, refused, bounds>>

\* record_fingerprint_mismatch.
CountMismatch(w) ==
    /\ Asks(w, "mismatch")
    /\ LET k == Key("mismatches", job[w].who)
       IN /\ Incr(k)
          /\ Becomes(w, [job[w] EXCEPT !.todo = <<<<"expire", k>>>>,
                 !.next = IF count[k] + 1 > MaxMismatches THEN "banned" ELSE "mismatch_found"])
    /\ UNCHANGED <<ttl, print, torn, refused, bounds>>

Check(w) ==
    \/ CheckBan(w) \/ CountRequest(w) \/ ReadTen(w) \/ ReadDay(w) \/ CheckPrint(w)
    \/ CountMismatch(w) \/ Increments(w) \/ Expires(w) \/ Stores(w)
-----------------------------------------------------------------------------
(* Failures and time. *)

\* The counters the commands of a block are about.
About(todo) == {todo[i][2] : i \in {n \in DOMAIN todo : todo[n][1] # "set"}}

Pending(k) == {w \in Workers : k \in About(job[w].todo)}

\* Who has read the counter k and has not decided yet.
InHand(k) ==
    {w \in Workers : /\ job[w].seen # <<>> /\ job[w].todo = <<>>
                     /\ k = Key(Ten(job[w].at), job[w].who)}

\* Redis raises at a command of a block: the rest of the block is skipped and the check
\* goes on as for a request it allows, or for a first mismatch.
BlockFails(w) ==
    LET j == job[w]
        op == Head(j.todo)
    IN /\ j.todo # <<>>
       /\ IF op[1] = "set" THEN Next1(w)
          ELSE Becomes(w, [j EXCEPT !.todo = <<>>,
                  !.next = CASE j.at \in {"usage", "anomaly"} -> After(j.who, j.at)
                             [] j.at = "mismatch" -> "mismatch_found"
                             [] OTHER -> @])
       /\ torn' = torn \union About(j.todo)
       /\ \/ UNCHANGED count
          \/ op[1] = "incr" /\ Incr(op[2])

\* Redis raises at the first command of a check, which was carried out or not.
CheckFails(w) ==
    LET j == job[w]
        k == Key(j.at, j.who)
    IN /\ j.at # "idle" /\ j.todo = <<>>
       /\ CASE j.at = "print" ->
                 Becomes(w, [j EXCEPT !.next = After(j.who, "print"),
                                      !.todo = <<<<"set", AccountOf[j.who]>>>>])
            [] j.at = "mismatch" -> Becomes(w, [j EXCEPT !.next = "mismatch_found"])
            [] OTHER -> Passes(w)
       /\ \/ UNCHANGED <<count, torn>>
          \/ j.at \in Windows /\ Incr(k) /\ torn' = torn \union {k}

RedisFails(w) ==
    /\ faults < MaxFaults
    /\ faults' = faults + 1
    /\ BlockFails(w) \/ CheckFails(w)
    /\ UNCHANGED <<ttl, print, refused, left, crashes>>

\* The process dies; Redis keeps what it has.
Crash(w) ==
    /\ crashes < MaxCrashes
    /\ job[w].at # "idle"
    /\ crashes' = crashes + 1
    /\ torn' = torn \union About(job[w].todo)
    /\ job' = [job EXCEPT ![w] = Idle("died")]
    /\ UNCHANGED <<count, ttl, print, served, refused, left, faults>>

\* The counter of the ten minutes beside that of the day.
TenOf(k) == <<IF k[1] = "usage24" THEN "usage10" ELSE "anomaly10", k[2]>>

\* The day's counter is given its life right after the one of ten minutes, and outlives it.
Outlived(k) ==
    k[1] \in {"usage24", "anomaly24"} =>
        count[TenOf(k)] = 0 \/ TenOf(k) \in torn \/ Pending(k) # {}

\* A counter's time is over.
Lapse(k) ==
    /\ k \in ttl /\ k[1] \in Lapsing
    /\ Outlived(k)
    /\ count' = [count EXCEPT ![k] = 0]
    /\ ttl' = ttl \ {k}
    /\ torn' = CASE Pending(k) # {} -> torn \union {k}
                 [] Pending(k) = {} /\ InHand(k) # {} -> torn
                 [] OTHER -> torn \ {k}
    /\ job' = [w \in Workers |-> [job[w] EXCEPT !.by = @ \ {k}]]
    /\ served' = [served EXCEPT ![k] = 0]
    /\ refused' = IF k[1] = "attempts"
                  THEN [refused EXCEPT ![k[2]] = Cardinality(
                          {w \in Workers : k \in About(job[w].todo \o job[w].late)})]
                  ELSE refused
    /\ UNCHANGED <<print, bounds>>

\* A fingerprint nobody has confirmed for a day.
LapsePrint(a) ==
    /\ "print" \in Lapsing /\ print[a] # NoPrint
    /\ print' = [print EXCEPT ![a] = NoPrint]
    /\ UNCHANGED <<count, ttl, job, ghosts, bounds>>

Next ==
    \/ \E w \in Workers, c \in Callers : Arrive(w, c)
    \/ \E w \in Workers : Check(w) \/ RedisFails(w) \/ Crash(w)
    \/ \E k \in Counters : Lapse(k)
    \/ \E a \in Accounts : LapsePrint(a)

Spec == Init /\ [][Next]_vars

\* A worker goes on with its request, and Redis drops a window that is over: its life is
\* not renewed by later requests.
FairSpec ==
    /\ Spec
    /\ \A w \in Workers : WF_vars(Check(w))
    /\ \A k \in Counters : k[1] \in Windows => WF_vars(Lapse(k))
-----------------------------------------------------------------------------
(* Properties. *)

\* However the commands of two workers mix, a window lets through no more requests than
\* its limit, those still on their way included.
WithinWindow ==
    \A k \in Counters : k[1] \in Windows =>
        served[k] + Cardinality({w \in Workers : k \in job[w].by}) <= Limit[k[1]]

\* A counter that would never lapse is one whose EXPIRE was lost to a crash or an error,
\* or is about to be sent.
StuckOnlyIfTorn ==
    \A k \in Counters : count[k] > 0 /\ k \notin ttl => k \in torn \/ Pending(k) # {}

\* Whoever is above a limit gets a new window, unless its EXPIRE was lost.
WindowsReopen ==
    \A k \in Counters : k[1] \in Windows \intersect Lapsing =>
        (count[k] > Limit[k[1]] ~> count[k] = 0 \/ k \in torn)

\* The attempts that ban an account or an address are of its own refused requests, two
\* for each at most.
AttemptsAreRefusals ==
    \A s \in Accounts \union Ips : count[<<"attempts", s>>] <= 2 * refused[s]

\* With one worker, ten minutes of a free account see no more than one served request and
\* Multiplier times the average of the day.
OneAboveAverage ==
    \A a \in Accounts : {<<"usage10", a>>, <<"usage24", a>>} \intersect torn = {} =>
        (served[<<"usage10", a>>] - 1) * WindowsPerDay <= Multiplier * count[<<"usage24", a>>]

\* With one worker, the anomaly detector of the HTTP route, whose ten minutes are a part
\* of the day it compares them with, finds too much of an account only when a command for
\* one of its two counters was lost.
AnomalyNeedsTear ==
    [][\A w \in Workers :
          job[w].next # "anomaly_detected" /\ job'[w].next = "anomaly_detected" =>
            {Key("anomaly10", job[w].who), Key("anomaly24", job[w].who)} \intersect torn # {}]_vars
=============================================================================
