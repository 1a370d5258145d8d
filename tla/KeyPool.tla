------------------------------- MODULE KeyPool -------------------------------
(***************************************************************************)
(* The keys of one provider in KeyPoolManager: selection by load, health   *)
(* tracking and the decay of error scores.  Every method holds the         *)
(* manager's lock from its first line to its last, so it is one step; a    *)
(* handler that makes several of them without an await takes them in one.  *)
(*                                                                         *)
(* An error score is a whole number of units, rounded down when it decays. *)
(***************************************************************************)
EXTENDS Naturals, FiniteSets

CONSTANTS
    Keys,          \* the provider's keys
    Rank,          \* their places in the pool's list
    LoadPerHit,    \* units of load of one request in the window; 0 without qps_limit
    MaxHits,       \* bound: requests in the window that are told apart
    DegradeAt,     \* consecutive errors that degrade a key (5)
    ExhaustAt,     \* consecutive errors that exhaust it (10)
    Penalty,       \* units an error adds: "429" 0.1, "5xx" 0.05, the others 0.02
    MaxScore,      \* the cap on the score (1.0)
    RecoverBelow   \* a degraded key under this score recovers (0.3)

ErrorTypes == {"429", "5xx", "network", "other"}

Statuses == {"active", "degraded", "exhausted"}

ASSUME PoolAssumption ==
    /\ Rank \in [Keys -> Nat]
    /\ \A k, j \in Keys : Rank[k] = Rank[j] => k = j
    /\ LoadPerHit \in [Keys -> Nat]
    /\ Penalty \in [ErrorTypes -> Nat]
    /\ {MaxScore, RecoverBelow} \subseteq Nat /\ MaxHits \in Nat \ {0}
    /\ DegradeAt \in Nat \ {0} /\ ExhaustAt \in Nat /\ DegradeAt <= ExhaustAt

VARIABLE pool

\* One key: its status, recent_error_score, consecutive_errors (saturating), and
\* current_qps, as the requests in the window when it was last computed.
ProviderKeys == [status : Statuses, score : 0..MaxScore, errors : 0..ExhaustAt,
                 load : 0..MaxHits]

PoolTypeOK == pool \in [Keys -> ProviderKeys]

PoolInit ==
    pool = [k \in Keys |-> [status |-> "active", score |-> 0, errors |-> 0, load |-> 0]]

AtMost(n, cap) == IF n < cap THEN n ELSE cap

Decayed(score, percent) == (score * percent) \div 100

-----------------------------------------------------------------------------
(* Slips a change could make, to be put in the place of what they are named  *)
(* after; no specification uses them.                                        *)

\* The threshold is exceeded and not reached.
FailedLate(p, type) ==
    LET errors == AtMost(p.errors + 1, ExhaustAt)
    IN  [p EXCEPT !.errors = errors,
                  !.score  = AtMost(p.score + Penalty[type], MaxScore),
                  !.status = IF p.status = "active" /\ errors > DegradeAt THEN "degraded"
                             ELSE IF p.status # "active" /\ errors >= ExhaustAt
                             THEN "exhausted" ELSE p.status]

\* A success recovers a key whatever its status.
SucceededAlways(p) ==
    LET score == Decayed(p.score, 95)
    IN  [p EXCEPT !.errors = 0, !.score = score,
                  !.status = IF score < RecoverBelow THEN "active" ELSE p.status]

\* The score is not capped.
FailedUncapped(p, type) ==
    LET errors == AtMost(p.errors + 1, ExhaustAt)
    IN  [p EXCEPT !.errors = errors, !.score = @ + Penalty[type],
                  !.status = IF errors < DegradeAt THEN p.status
                             ELSE IF p.status = "active" THEN "degraded"
                             ELSE IF errors >= ExhaustAt THEN "exhausted" ELSE p.status]

-----------------------------------------------------------------------------
(* What the methods do to a key, and whom select_key chooses. *)

\* record_success
Succeeded(p) ==
    LET score == Decayed(p.score, 95)
    IN  [p EXCEPT !.errors = 0, !.score = score,
                  !.status = IF p.status = "degraded" /\ score < RecoverBelow
                             THEN "active" ELSE p.status]

\* record_error
Failed(p, type) ==
    LET errors == AtMost(p.errors + 1, ExhaustAt)
    IN  [p EXCEPT !.errors = errors,
                  !.score  = AtMost(p.score + Penalty[type], MaxScore),
                  !.status = IF errors < DegradeAt THEN p.status
                             ELSE IF p.status = "active" THEN "degraded"
                             ELSE IF errors >= ExhaustAt THEN "exhausted" ELSE p.status]

\* _update_qps of the key that was selected: of the requests in the window the
\* last time, any number have left it since, and one is added.  The load of the
\* other keys stays as it was computed, however long ago.
Loads(p) == 1..AtMost(p.load + 1, MaxHits)

\* Active keys that are not excluded, or else degraded ones.
Candidates(P, exclude) ==
    LET having(s) == {k \in Keys \ exclude : P[k].status = s}
    IN  IF having("active") # {} THEN having("active") ELSE having("degraded")

\* calculate_load_score of an active key.
LoadScore(P, k) == P[k].load * LoadPerHit[k] + P[k].score

\* min over the candidates takes the first of the lowest; the score of a
\* degraded key is infinite, so among those it is the first in the list.
Preferred(P, k, j) ==
    \/ P[k].status = "active" /\ LoadScore(P, k) < LoadScore(P, j)
    \/ /\ P[k].status = "active" => LoadScore(P, k) = LoadScore(P, j)
       /\ Rank[k] < Rank[j]

\* select_key answers k.
Selects(P, exclude, k) ==
    LET C == Candidates(P, exclude)
    IN  k \in C /\ \A j \in C \ {k} : Preferred(P, k, j)

\* One pass of the decay thread over all keys.
Decay ==
    pool' = [k \in Keys |-> [pool[k] EXCEPT !.score = Decayed(@, 90)]]

-----------------------------------------------------------------------------

\* In whatever order late successes, errors and decays arrive, a key in rotation
\* has failed fewer times in a row than degrade a key (record_error).
ActiveIsHealthy ==
    \A k \in Keys : pool[k].status = "active" => pool[k].errors < DegradeAt

=============================================================================
