----------------------------- MODULE Coalescing -----------------------------
(***************************************************************************)
(* What an idempotency key promises to the clients of the gateway, without *)
(* Redis, workers, markers or waiting: the calls that share a key are      *)
(* executed one at a time, a success is stored, and while it is stored the *)
(* others are answered with it instead of being executed.                  *)
(***************************************************************************)
CONSTANTS Requests, Keys, KeyOf, BodyOf, Nobody

VARIABLES
    phase,    \* "pending", "running" or "answered"
    reply,    \* the call whose response a request was answered with
    stored    \* per key, the call whose response is kept

vars == <<phase, reply, stored>>

Init ==
    /\ phase = [r \in Requests |-> "pending"]
    /\ reply = [r \in Requests |-> Nobody]
    /\ stored = [k \in Keys |-> Nobody]

\* A call goes to the upstream: nobody with its key is there, nothing is stored.
Begin(r) ==
    /\ phase[r] = "pending"
    /\ stored[KeyOf[r]] = Nobody
    /\ \A q \in Requests : phase[q] = "running" => KeyOf[q] # KeyOf[r]
    /\ phase' = [phase EXCEPT ![r] = "running"]
    /\ UNCHANGED <<reply, stored>>

Succeed(r) ==
    /\ phase[r] = "running"
    /\ phase' = [phase EXCEPT ![r] = "answered"]
    /\ reply' = [reply EXCEPT ![r] = r]
    /\ stored' = [stored EXCEPT ![KeyOf[r]] = r]

\* The stored response of a call with the same key and body is given out again.
Replay(r) ==
    /\ phase[r] = "pending"
    /\ \E q \in Requests : /\ stored[KeyOf[r]] = q
                           /\ BodyOf[q] = BodyOf[r]
                           /\ reply' = [reply EXCEPT ![r] = q]
    /\ phase' = [phase EXCEPT ![r] = "answered"]
    /\ UNCHANGED stored

\* A call fails, or is turned away (conflict, rate limit).
GiveUp(r) ==
    /\ phase[r] \in {"pending", "running"}
    /\ phase' = [phase EXCEPT ![r] = "answered"]
    /\ UNCHANGED <<reply, stored>>

\* A stored response lives for a while only.
Forget(k) ==
    /\ stored' = [stored EXCEPT ![k] = Nobody]
    /\ UNCHANGED <<phase, reply>>

Next ==
    \/ \E r \in Requests : Begin(r) \/ Succeed(r) \/ Replay(r) \/ GiveUp(r)
    \/ \E k \in Keys : Forget(k)

Spec == Init /\ [][Next]_vars
=============================================================================
