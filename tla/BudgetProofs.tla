---------------------------- MODULE BudgetProofs ----------------------------
(***************************************************************************)
(* What the caps of a budget bind, for all prices, limits and caps; and    *)
(* that what Admission's calls ask of the buckets is scheduled as          *)
(* RateScheduler says, so that what is proved of the scheduler holds of    *)
(* what the handlers ask it.                                               *)
(***************************************************************************)
EXTENDS Admission, RateSchedulerProofs, TLAPS

\* The configuration of a target.
LEMMA Configured ==
    ASSUME NEW t \in Targets
    PROVE  /\ Config[t].prompt \in Nat /\ Config[t].completion \in Nat
           /\ Config[t].max \in Setting \ {0} /\ Config[t].soft \in Setting
           /\ Config[t].hard \in Setting /\ Unset \notin Nat
BY BudgetAssumption

\* The lower of two limits is one of them and exceeds none.
LEMMA LimitedBounds ==
    ASSUME NEW t \in Targets, NEW asked \in Setting \ {0}
    PROVE  /\ Limited(t, asked) \in Setting \ {0}
           /\ Limited(t, asked) # Unset
              => /\ asked # Unset => Limited(t, asked) <= asked
                 /\ Config[t].max # Unset => Limited(t, asked) <= Config[t].max
           /\ Limited(t, asked) = Unset => asked = Unset
BY Configured DEF Limited, Setting

\* More tokens cost no less.
LEMMA Monotone ==
    ASSUME NEW a \in Nat, NEW b \in Nat, NEW c \in Nat, a <= b
    PROVE  a * c <= b * c
<1>1. PICK d \in Nat : b = a + d
  BY b - a \in Nat, b = a + (b - a)
<1>2. d * c \in Nat /\ a * c \in Nat
  OBVIOUS
<1>3. b * c = a * c + d * c
  BY <1>1
<1> QED BY <1>2, <1>3

\* A quotient of naturals times its divisor is no more than what was divided.
LEMMA Quotient ==
    ASSUME NEW a \in Nat, NEW b \in Nat \ {0}
    PROVE  a \div b \in Nat /\ b * (a \div b) <= a
OBVIOUS

\* Products commute and associate, for the arithmetic the solver leaves alone.
LEMMA Regroup ==
    ASSUME NEW a \in Nat, NEW b \in Nat, NEW c \in Nat
    PROVE  a * b \in Nat /\ a * b = b * a /\ a * (b * c) = (a * b) * c
OBVIOUS

LEMMA Cancel ==
    ASSUME NEW a \in Nat \ {0}, NEW x \in Nat, NEW y \in Nat, x * a <= y * a
    PROVE  x <= y
<1>1. SUFFICES ASSUME y + 1 <= x PROVE FALSE
  OBVIOUS
<1>2. (y + 1) * a <= x * a
  BY <1>1, Monotone
<1>3. (y + 1) * a = y * a + a /\ y * a \in Nat /\ x * a \in Nat
  OBVIOUS
<1> QED BY <1>2, <1>3

\* A reduced limit is no higher than the limit, and a completion of that many
\* tokens, of a price that the estimate has counted, costs nine tenths of the cap.
LEMMA ReducedBounds ==
    ASSUME NEW n \in Nat \ {0}, NEW soft \in Nat, NEW e \in Nat, soft < e,
           NEW c \in Nat, 2 * (n * c) <= e
    PROVE  /\ Reduced(n, soft, e) \in Nat /\ Reduced(n, soft, e) <= n
           /\ 10 * (2 * (Reduced(n, soft, e) * c)) <= 9 * soft
<1> DEFINE q == Reduced(n, soft, e)
<1>1. q \in Nat /\ (10 * e) * q <= 9 * (n * soft)
  <2>1. 9 * (n * soft) \in Nat /\ 10 * e \in Nat \ {0}
    BY Regroup
  <2> HIDE DEF q
  <2> QED BY <2>1, Quotient DEF q, Reduced
<1> HIDE DEF q
<1>2. e * q \in Nat /\ 10 * (e * q) <= 9 * (n * soft) /\ n * soft \in Nat
  <2>1. (10 * e) * q = 10 * (e * q)
    BY <1>1, Regroup, 10 \in Nat
  <2> QED BY <1>1, <2>1, Regroup
<1>3. q <= n
  <2>1. SUFFICES ASSUME n + 1 <= q PROVE FALSE
    BY <1>1
  <2>2. (n + 1) * e <= q * e
    BY <1>1, <2>1, Monotone
  <2>3. (n + 1) * e = n * e + e /\ n * e \in Nat
    OBVIOUS
  <2>4. soft * n <= e * n
    BY Monotone
  <2>5. n * soft = soft * n /\ n * e = e * n /\ q * e = e * q
    BY <1>1, Regroup
  <2> QED BY <1>2, <2>2, <2>3, <2>4, <2>5
<1>4. 10 * (2 * (q * c)) <= 9 * soft
  <2>1. (2 * (n * c)) * q <= e * q
    BY <1>1, Monotone, Regroup, 2 * (n * c) \in Nat
  <2>2. n * c \in Nat /\ q * c \in Nat /\ (n * c) * q \in Nat
    BY <1>1, Regroup
  <2>3. (2 * (n * c)) * q = 2 * ((n * c) * q)
    BY <1>1, <2>2, Regroup, 2 \in Nat
  <2>4. (n * c) * q = (q * c) * n
    <3>1. (n * c) * q = n * (c * q)
      BY <1>1, Regroup
    <3>2. n * (c * q) = (c * q) * n /\ c * q = q * c
      BY <1>1, Regroup
    <3> QED BY <3>1, <3>2
  <2>5. 20 * ((q * c) * n) <= 9 * (n * soft)
    BY <1>2, <2>1, <2>2, <2>3, <2>4
  <2>6. 20 * ((q * c) * n) = (20 * (q * c)) * n /\ 9 * (n * soft) = (9 * soft) * n
    <3>1. 20 * ((q * c) * n) = (20 * (q * c)) * n
      BY <1>1, <2>2, Regroup, 20 \in Nat
    <3>2. n * soft = soft * n /\ 9 * (soft * n) = (9 * soft) * n
      BY Regroup, 9 \in Nat
    <3> QED BY <3>1, <3>2
  <2>7. 20 * (q * c) \in Nat /\ 9 * soft \in Nat
    BY <2>2
  <2>8. (20 * (q * c)) * n <= (9 * soft) * n
    BY <2>5, <2>6
  <2>9. 20 * (q * c) <= 9 * soft
    BY <2>7, <2>8, Cancel
  <2> QED BY <2>2, <2>9
<1> QED BY <1>1, <1>3, <1>4 DEF q

-----------------------------------------------------------------------------
\* What an estimate is, and what it counts of a limit.
LEMMA EstimateOfLimit ==
    ASSUME NEW t \in Targets, NEW p \in Nat, NEW n \in Setting \ {0}
    PROVE  /\ Estimate(t, p, n) \in Nat
           /\ n # Unset => /\ Estimate(t, p, n) = Worst(t, p, n)
                           /\ Completion(t, n) \in Nat /\ Completion(t, n) <= Estimate(t, p, n)
<1>1. p * Config[t].prompt \in Nat /\ p * Config[t].completion \in Nat
  BY Configured, Regroup
<1>2. n # Unset => n * Config[t].completion \in Nat
  BY Configured, Regroup DEF Setting
<1> QED BY <1>1, <1>2 DEF Estimate, Worst, Completion, Setting

\* Fewer tokens cost no more.
LEMMA FewerCostLess ==
    ASSUME NEW t \in Targets, NEW p \in Nat, NEW m \in Nat, NEW n \in Nat, m <= n
    PROVE  Worst(t, p, m) \in Nat /\ Worst(t, p, n) \in Nat /\ Worst(t, p, m) <= Worst(t, p, n)
<1>1. /\ p * Config[t].prompt \in Nat /\ m * Config[t].completion \in Nat
      /\ n * Config[t].completion \in Nat
      /\ m * Config[t].completion <= n * Config[t].completion
  BY Configured, Regroup, Monotone
<1> QED BY <1>1 DEF Worst, Completion

\* What a call is sent with: a limit no higher than the one it would have, at a cost
\* the hard cap allows.
LEMMA SentWithin ==
    ASSUME NEW t \in Targets, NEW p \in Nat, NEW asked \in Setting \ {0},
           Decision(t, p, asked).says \in {"admitted", "throttled"}
    PROVE  LET d == Decision(t, p, asked)
               n == Limited(t, asked)
           IN  /\ d.says = "admitted" => d.tokens = n
               /\ d.says = "throttled" =>
                     /\ n # Unset /\ d.tokens \in Nat /\ d.tokens <= n
                     /\ 10 * Completion(t, d.tokens) <= 9 * Config[t].soft
               /\ ~Over(t, Config[t].hard, Estimate(t, p, n))
<1> DEFINE n == Limited(t, asked)
           e == Estimate(t, p, n)
           d == Decision(t, p, asked)
           Says(word, limit) == [says |-> word, tokens |-> limit]
<1>1. n \in Setting \ {0} /\ e \in Nat
  BY LimitedBounds, EstimateOfLimit
<1>2. /\ ~Over(t, Config[t].hard, e)
      /\ \/ d = Says("admitted", n)
         \/ /\ Over(t, Config[t].soft, e) /\ n # Unset
            /\ d = Says("throttled", Reduced(n, Config[t].soft, e))
  <2> DEFINE over == Over(t, Config[t].soft, e)
  <2>1. d = IF Config[t].provider = Unset THEN Says("no_provider", Unset)
            ELSE IF Over(t, Config[t].hard, e) THEN Says("over_budget", Unset)
            ELSE IF over /\ n = Unset THEN Says("raises", Unset)
            ELSE IF over THEN Says("throttled", Reduced(n, Config[t].soft, e))
            ELSE Says("admitted", n)
    BY DEF Decision
  <2>2. d.says # "no_provider" /\ d.says # "over_budget" /\ d.says # "raises"
    OBVIOUS
  <2>3. /\ Says("no_provider", Unset).says = "no_provider"
        /\ Says("over_budget", Unset).says = "over_budget"
        /\ Says("raises", Unset).says = "raises"
    OBVIOUS
  <2> HIDE DEF n, e, over, Says, d
  <2>4. Config[t].provider # Unset
    BY <2>1, <2>2, <2>3
  <2>5. ~Over(t, Config[t].hard, e) /\ ~(over /\ n = Unset)
    BY <2>1, <2>2, <2>3, <2>4
  <2>6. (over /\ d = Says("throttled", Reduced(n, Config[t].soft, e))) \/ d = Says("admitted", n)
    BY <2>1, <2>4, <2>5
  <2> QED BY <2>5, <2>6 DEF over
<1>3. CASE d.says = "throttled"
  <2>1. /\ Over(t, Config[t].soft, e) /\ n # Unset
        /\ d.tokens = Reduced(n, Config[t].soft, e)
    BY <1>2, <1>3
  <2>2. Config[t].soft \in Nat /\ Config[t].soft < e /\ Config[t].completion \in Nat
    BY <1>1, <2>1, Configured DEF Over, Setting
  <2>3. n \in Nat \ {0} /\ 2 * (n * Config[t].completion) <= e
    BY <1>1, <2>1, EstimateOfLimit DEF Completion, Setting
  <2> HIDE DEF n, e, d
  <2>4. /\ d.tokens \in Nat /\ d.tokens <= n
        /\ 10 * Completion(t, d.tokens) <= 9 * Config[t].soft
    BY <1>1, <2>1, <2>2, <2>3, ReducedBounds DEF Completion
  <2> QED BY <1>2, <1>3, <2>1, <2>4 DEF n, e, d
<1>4. CASE d.says # "throttled"
  BY <1>2, <1>4
<1> QED BY <1>3, <1>4

-----------------------------------------------------------------------------
\* The last decision is that on its call, and only a call that goes on is sent.
LastOK ==
    last # None =>
        /\ last.call \in LlmCalls
        /\ last.tokens = DecisionOn[last.call].tokens /\ last.says = DecisionOn[last.call].says
        /\ last.sent => last.call \in Going

LEMMA AlwaysLastOK == ASpec => []LastOK
<1>1. AInit => LastOK
  BY DEF AInit, LastOK
<1>2. LastOK /\ [ANext]_<<vars, last>> => LastOK'
  <2> SUFFICES ASSUME LastOK, [ANext]_<<vars, last>> PROVE LastOK'
    OBVIOUS
  <2>1. ASSUME NEW l \in LlmCalls, NEW sent, sent => l \in Going, Decides(l, sent)
        PROVE  LastOK'
    BY <2>1 DEF Decides, LastOK, DecisionOn, Going
  <2>2. CASE \E l \in LlmCalls : LlmAnswered(l) \/ Stream(l)
    BY <2>1, <2>2 DEF LlmAnswered, Stream
  <2>3. CASE \E c \in Callers : LlmAsks(c)
    BY <2>1, <2>3 DEF LlmAsks, Going
  <2>4. CASE UNCHANGED last
    BY <2>4 DEF LastOK, DecisionOn, Going
  <2> QED BY <2>2, <2>3, <2>4 DEF ANext, HttpAsks, Passes
<1> QED BY <1>1, <1>2, PTL DEF ASpec

LEMMA CallTypes ==
    ASSUME NEW l \in LlmCalls
    PROVE  l.target \in Targets /\ l.prompt \in Nat /\ l.asked \in Setting \ {0}
BY AdmissionAssumption

\* What is sent with a limit keeps to the limits of its caller and its target and to
\* the hard cap, whatever the prices, the limits and the caps.
THEOREM CapsAlwaysBind == ASpec => []CapsBind
<1>1. LastOK => CapsBind
  <2> SUFFICES ASSUME LastOK, last # None, last.sent, last.tokens \notin {Unset, 0}
               PROVE  CapsBind
    BY DEF CapsBind
  <2> DEFINE l == last.call
             t == l.target
             n == Limited(t, l.asked)
             d == Decision(t, l.prompt, l.asked)
  <2>1. /\ l \in LlmCalls /\ d.says \in {"admitted", "throttled"} /\ last.tokens = d.tokens
    BY DEF LastOK, DecisionOn, Going
  <2>2. t \in Targets /\ l.prompt \in Nat /\ l.asked \in Setting \ {0}
    BY <2>1, CallTypes
  <2>3. /\ d.says = "admitted" => d.tokens = n
        /\ d.says = "throttled" => n # Unset /\ d.tokens \in Nat /\ d.tokens <= n
        /\ ~Over(t, Config[t].hard, Estimate(t, l.prompt, n))
    BY <2>1, <2>2, SentWithin
  <2>4. n \in Setting \ {0}
    BY <2>2, LimitedBounds
  <2>5. last.tokens \in Nat /\ n \in Nat \ {0} /\ n # Unset /\ last.tokens <= n
    BY <2>1, <2>3, <2>4, Configured, <2>2 DEF Setting
  <2>6. Requested(t, last.tokens) = last.tokens
    BY DEF Requested
  <2>7. /\ l.asked \in {Unset, 0} \/ last.tokens <= l.asked
        /\ Config[t].max \in {Unset, 0} \/ last.tokens <= Config[t].max
    <3>1. /\ l.asked # Unset => n <= l.asked
          /\ Config[t].max # Unset => n <= Config[t].max
      BY <2>2, <2>5, LimitedBounds
    <3>2. l.asked \in Nat \union {Unset} /\ Config[t].max \in Nat \union {Unset}
      BY <2>2, Configured DEF Setting
    <3> HIDE DEF n, t, l, d
    <3> QED BY <2>5, <3>1, <3>2
  <2>8. ASSUME Config[t].priced
        PROVE  Config[t].hard \in {Unset, 0} \/ Worst(t, l.prompt, last.tokens) <= Config[t].hard
    <3>1. Estimate(t, l.prompt, n) = Worst(t, l.prompt, n)
      BY <2>2, <2>4, <2>5, EstimateOfLimit
    <3>2. /\ Worst(t, l.prompt, last.tokens) \in Nat /\ Worst(t, l.prompt, n) \in Nat
          /\ Worst(t, l.prompt, last.tokens) <= Worst(t, l.prompt, n)
      BY <2>2, <2>5, FewerCostLess
    <3>3. Config[t].hard \in Nat \union {Unset}
      BY <2>2, Configured DEF Setting
    <3>4. Config[t].hard \in {Unset, 0} \/ ~(Worst(t, l.prompt, n) > Config[t].hard)
      BY <2>3, <2>8, <3>1 DEF Over
    <3> HIDE DEF n, t, l, d
    <3> QED BY <3>2, <3>3, <3>4
  <2> QED BY <2>6, <2>7, <2>8 DEF CapsBind
<1> QED BY <1>1, AlwaysLastOK, PTL

\* The completion that a throttled call asks for fits the soft cap with its margin,
\* whatever the prompt cost, unless the cap lowered its limit to 0.
THEOREM ThrottledAlwaysFits == ASpec => []ThrottledCompletionFits
<1>1. LastOK => ThrottledCompletionFits
  <2> SUFFICES ASSUME LastOK, last # None, last.says = "throttled", last.tokens # 0
               PROVE  10 * Completion(last.call.target, Requested(last.call.target, last.tokens))
                      <= 9 * Config[last.call.target].soft
    BY DEF ThrottledCompletionFits
  <2> DEFINE l == last.call
  <2>1. /\ l \in LlmCalls
        /\ Decision(l.target, l.prompt, l.asked).says = "throttled"
        /\ last.tokens = Decision(l.target, l.prompt, l.asked).tokens
    BY DEF LastOK, DecisionOn
  <2>2. last.tokens \in Nat /\ 10 * Completion(l.target, last.tokens) <= 9 * Config[l.target].soft
    BY <2>1, CallTypes, SentWithin
  <2>3. Requested(l.target, last.tokens) = last.tokens
    BY <2>1, <2>2, CallTypes, Configured DEF Requested
  <2> QED BY <2>2, <2>3
<1> QED BY <1>1, AlwaysLastOK, PTL

-----------------------------------------------------------------------------
(* The handlers and the scheduler.                                         *)

\* What a handler asks is a request of the scheduler's.
LEMMA AsksAreRequests ==
    ASSUME NEW c \in Callers
    PROVE  AskOf(c) \in Requests /\ HttpAskOf(c) \in Requests
BY AdmissionAssumption

\* Whatever the handlers do of their own, the buckets change only by check_rate_limit,
\* the clean-up and the time that passes: a call the budget turns away, one that is
\* answered from a store and a stream leave them alone.
THEOREM AdmissionSchedules == ASpec => Spec
<1>1. AInit => Init
  BY DEF AInit
<1>2. [ANext]_<<vars, last>> => [Next]_vars
  <2>1. ASSUME NEW c \in Callers, LlmAsks(c) \/ HttpAsks(c)
        PROVE  Next
    BY <2>1, AsksAreRequests DEF LlmAsks, HttpAsks, Next
  <2> QED BY <2>1 DEF ANext, LlmAnswered, Stream, Passes, Next
<1> QED BY <1>1, <1>2, PTL DEF ASpec, Spec

\* So, over LLM calls with the three buckets of their caller and HTTP calls with that of
\* their key alone, no bucket grants the calls that ask it more than its highest limit,
\* and the one dropped for another is the one unused for longest.
THEOREM CallsAreScheduled ==
    ASpec => []TypeOK /\ []WithinRate /\ []StaleBucketsAreFull /\ []OldestFirst
BY AdmissionSchedules, TypeCorrect, RatesAreKept, StaleAreFull, OrderIsOfAccesses, PTL
=============================================================================
