----------------------------- MODULE DirectGate -----------------------------
(***************************************************************************)
(* The key-rejection gate of the direct route                              *)
(* (crates/tinyconnectors/src/client/route/direct.rs).                     *)
(*                                                                         *)
(* One DirectRoute is shared by every bus call in flight.  A request goes  *)
(* through `call`: check_gate (under the mutex), the await of the          *)
(* transport, then record (under the mutex).  The mutex is not held across *)
(* the await, so the requests of several callers overlap, and the answer   *)
(* that is recorded was computed by Composio at an earlier moment.         *)
(*                                                                         *)
(* A member is one request ("post": list_connections, list_tools, an       *)
(* execute without a connection, ...) or an account_owner lookup followed  *)
(* by that request (an execute with a connection).                         *)
(***************************************************************************)
EXTENDS Integers, FiniteSets

CONSTANTS
    Callers,    \* the bus calls that may be in flight at once
    Threshold   \* INVALID_API_KEY_THRESHOLD

ASSUME GateAssumption ==
    /\ IsFiniteSet(Callers)
    /\ Threshold \in Nat \ {0}

VARIABLES
    failures,   \* failures[key_fingerprint], 0 when the map has no entry
    stage,      \* the request a caller's member is at
    req,        \* what has become of that request
    strikes,    \* history: rejections this member has recorded
    key         \* external: what Composio thinks of the key

vars == <<failures, stage, req, strikes, key>>

Stages   == {"idle", "lookup", "post"}
Outcomes == {"ok", "rejected", "error"}
Requests == {"none", "sent"} \cup Outcomes

\* The key is known bad: the gate refuses.
Closed == failures >= Threshold

\* The callers whose request has passed the gate and is not recorded yet.
InFlight == {c \in Callers : req[c] # "none"}

TypeOK ==
    /\ failures \in Nat
    /\ stage \in [Callers -> Stages]
    /\ req \in [Callers -> Requests]
    /\ strikes \in [Callers -> Nat]
    /\ key \in {"valid", "revoked"}

-----------------------------------------------------------------------------
Mut_check_gate_late == failures <= Threshold
Mut_check_gate_never == TRUE

\* check_gate: TRUE when it returns Ok.
check_gate == failures < Threshold

Mut_record_clears_on_error(outcome) ==
    IF outcome = "rejected" THEN failures + 1 ELSE 0

Mut_record_saturates(outcome) ==
    IF outcome = "ok" THEN 0
    ELSE IF outcome = "rejected" /\ failures + 1 < Threshold THEN failures + 1
                                                             ELSE failures

\* record: the count after an outcome.  Only a success clears it and only a
\* 401 about the API key (is_invalid_api_key) adds to it.
record(outcome) ==
    IF outcome = "ok" THEN 0
    ELSE IF outcome = "rejected" THEN failures + 1 ELSE failures

Mut_after_record_retries(s, outcome) ==
    IF s = "lookup" THEN "post" ELSE "idle"

\* Where a member goes once its request is recorded.  account_owner swallows
\* every failure but a rejected key, and the member then goes on to its own
\* request; that request's answer, of whatever kind, ends the member.
after_record(s, outcome) ==
    IF s = "lookup" /\ outcome # "rejected" THEN "post" ELSE "idle"

-----------------------------------------------------------------------------
Init ==
    /\ failures = 0
    /\ stage = [c \in Callers |-> "idle"]
    /\ req = [c \in Callers |-> "none"]
    /\ strikes = [c \in Callers |-> 0]
    /\ key = "valid"

\* A bus call enters a member of the route.
Begin(c, s) ==
    /\ stage[c] = "idle"
    /\ stage' = [stage EXCEPT ![c] = s]
    /\ strikes' = [strikes EXCEPT ![c] = 0]
    /\ UNCHANGED <<failures, req, key>>

\* call, first half: the gate is open and the request leaves.
Dispatch(c) ==
    /\ stage[c] # "idle"
    /\ req[c] = "none"
    /\ check_gate
    /\ req' = [req EXCEPT ![c] = "sent"]
    /\ UNCHANGED <<failures, stage, strikes, key>>

\* call, first half: DirectAuthGated, which account_owner returns as it is.
Gated(c) ==
    /\ stage[c] # "idle"
    /\ req[c] = "none"
    /\ ~check_gate
    /\ stage' = [stage EXCEPT ![c] = "idle"]
    /\ UNCHANGED <<failures, req, strikes, key>>

\* External: Composio serves the request by what it thinks of the key now.
AnswerByKey(c) ==
    /\ req[c] = "sent"
    /\ req' = [req EXCEPT ![c] = IF key = "valid" THEN "ok" ELSE "rejected"]
    /\ UNCHANGED <<failures, stage, strikes, key>>

\* External: the request fails for a reason that says nothing of the key.
AnswerError(c) ==
    /\ req[c] = "sent"
    /\ req' = [req EXCEPT ![c] = "error"]
    /\ UNCHANGED <<failures, stage, strikes, key>>

\* call, second half: the await ends and the outcome is recorded.
Record(c) ==
    /\ req[c] \in Outcomes
    /\ failures' = record(req[c])
    /\ strikes' = [strikes EXCEPT ![c] = IF req[c] = "rejected" THEN @ + 1 ELSE @]
    /\ stage' = [stage EXCEPT ![c] = after_record(@, req[c])]
    /\ req' = [req EXCEPT ![c] = "none"]
    /\ UNCHANGED key

\* External: the user revokes the key at Composio, or restores it.
SetKey(k) ==
    /\ key # k
    /\ key' = k
    /\ UNCHANGED <<failures, stage, req, strikes>>

Next ==
    \/ \E c \in Callers :
          \/ \E s \in {"lookup", "post"} : Begin(c, s)
          \/ Dispatch(c)
          \/ Gated(c)
          \/ AnswerByKey(c)
          \/ AnswerError(c)
          \/ Record(c)
    \/ \E k \in {"valid", "revoked"} : SetKey(k)

Spec == Init /\ [][Next]_vars

\* A begun member runs: the executor polls it (Dispatch, Gated, Record), and
\* every request ends, if only in the transport's timeout.  A caller that
\* keeps asking is not always answered by an outage: AnswerByKey is strong.
\* Nothing is assumed of the host (Begin) or of the user (SetKey).
Fairness ==
    \A c \in Callers :
        /\ WF_vars(Dispatch(c) \/ Gated(c))
        /\ WF_vars(AnswerByKey(c) \/ AnswerError(c))
        /\ SF_vars(AnswerByKey(c))
        /\ WF_vars(Record(c))

FairSpec == Spec /\ Fairness

-----------------------------------------------------------------------------
\* The gate overshoots by at most the requests that were already past it:
\* however the callers interleave, `record` never sees more consecutive
\* rejections than the threshold plus one less than the callers in flight.
BoundedOvershoot == failures <= Threshold - 1 + Cardinality(Callers)

\* The strengthening of BoundedOvershoot that is inductive: a request in
\* flight may still be one more rejection.
OvershootInv == failures + Cardinality(InFlight) <= Threshold - 1 + Cardinality(Callers)

\* An execute whose owner lookup is refused for its key does not ask again
\* with that key, so one member of the route is at most one strike.
OneStrikePerMember == \A c \in Callers : strikes[c] <= 1

\* A closed gate reopens only on the recorded success of a request that was
\* let through before it closed; an outage ("error") never reopens it.
ReopensOnlyOnSuccess ==
    [][(Closed /\ ~Closed')
         => \E c \in Callers : req[c] = "ok" /\ req'[c] = "none"]_vars

\* Once the gate is closed and nothing is in flight, this route sends no
\* request ever again, whatever becomes of the key: only another route (a
\* Configure) resumes.
ClosedIsFinal ==
    [][(Closed /\ InFlight = {}) => (Closed' /\ InFlight' = {})]_vars

\* A key that stays revoked is not asked about for ever, even when outages
\* hide some of the rejections and the host never stops polling.
RevokedKeyGoesQuiet == <>[](key = "revoked") => <>[](InFlight = {})

=============================================================================
