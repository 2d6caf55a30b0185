---------------------------- MODULE ActionOnce ----------------------------
(***************************************************************************)
(* What a caller of Execute is promised: a request is decided, and then    *)
(* refused, given up, or performed at the provider once; and every request *)
(* ends.  Nothing is performed that was not allowed, and performing ends   *)
(* the request.  How often the route is called, how the preference is      *)
(* looked up and which policy retries are the implementation's.            *)
(***************************************************************************)
EXTENDS Naturals

VARIABLES
    stage,      \* "idle", "deciding" or "allowed"
    performed   \* how often the provider performed the last request

vars == <<stage, performed>>

Init == stage = "idle" /\ performed = 0

\* A request comes in; one that names no toolkit needs no decision.
Request ==
    /\ stage = "idle"
    /\ stage' \in {"deciding", "allowed"}
    /\ performed' = 0

Allow ==
    /\ stage = "deciding"
    /\ stage' = "allowed"
    /\ UNCHANGED performed

\* Refused, or given up with nothing done.
Refuse ==
    /\ stage # "idle"
    /\ stage' = "idle"
    /\ UNCHANGED performed

Perform ==
    /\ stage = "allowed"
    /\ stage' = "idle"
    /\ performed' = performed + 1

End == Refuse \/ Perform

Next == Request \/ Allow \/ End

Spec == Init /\ [][Next]_vars

FairSpec == Spec /\ WF_vars(End)

=============================================================================
