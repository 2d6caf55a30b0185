------------------------------ MODULE Execute ------------------------------
(***************************************************************************)
(* One Execute (or output probe): the stored preference is looked up, the  *)
(* client is taken, the arguments are prepared and the action is sent,     *)
(* with both retry policies                                                *)
(* (crates/tinyconnectors/src/tinybus_module/mod.rs execute_checked,       *)
(* crates/tinyconnectors/src/execute/retry.rs).                            *)
(*                                                                         *)
(* Calls share only the preferences and the client, which SetUserScopes    *)
(* and Configure change between any two awaits of this one.  The names an  *)
(* action's slug starts with, one per underscore, are levels 1..Depth, the *)
(* longest last; what matters of a preference is whether it allows the     *)
(* action's scope.                                                         *)
(***************************************************************************)
EXTENDS Integers, FiniteSets

CONSTANTS
    Depth,          \* toolkit names the slug starts with
    Tenants,        \* routes Configure may install
    NoRoute,           \* no client
    MaxAttempts     \* RATE_LIMIT_MAX_ATTEMPTS

ASSUME ExecuteAssumption ==
    /\ Depth \in Nat \ {0}
    /\ NoRoute \notin Tenants
    /\ MaxAttempts \in Nat \ {0}

VARIABLES
    prefs,      \* name -> what is saved for it
    byDefault,  \* whether UserScopePref::default allows the action's scope
    client,     \* the service's client slot
    pc, tool, level, route, attempt,
    calls,      \* history: route calls of this Execute
    effects,    \* history: how often the provider performed the action for it
    seen,       \* history: the governing preference allowed it during the lookup
    saves       \* history: preferences saved during the lookup, 2 is "several"

lookup == <<seen, saves>>
sent == <<calls, effects>>
vars == <<prefs, byDefault, client, pc, tool, level, route, attempt, lookup, sent>>

\* An allow-listed action (RATE_LIMIT_RETRY_TOOLS), any other, and a slug with
\* no toolkit.
Tools == {"history", "other", "blank"}

\* External: what route.execute comes back with.
Outcomes == {"ok", "refused", "not_ready", "rate_limited", "lost"}

Levels == 1..Depth

TypeOK ==
    /\ prefs \in [Levels -> {"unset", "allow", "deny"}]
    /\ byDefault \in BOOLEAN
    /\ client \in Tenants \cup {NoRoute}
    /\ pc \in {"idle", "get", "load", "client", "send", "resend"}
    /\ tool \in Tools
    /\ level \in 0..Depth
    /\ route \in Tenants \cup {NoRoute}
    /\ attempt \in 0..MaxAttempts
    /\ calls \in Nat
    /\ effects \in Nat
    /\ seen \in BOOLEAN
    /\ saves \in 0..2

Saved(p) == {l \in Levels : p[l] # "unset"}

\* What the documentation of pref_for calls the governing preference: the one
\* saved under the longest name, or the default.
Governs(p, allows) ==
    IF Saved(p) = {} THEN allows
    ELSE \E l \in Saved(p) : p[l] = "allow" /\ \A m \in Saved(p) : m <= l

-----------------------------------------------------------------------------
Init ==
    /\ prefs \in [Levels -> {"unset", "allow", "deny"}]
    /\ byDefault \in BOOLEAN
    /\ client \in Tenants \cup {NoRoute}
    /\ pc = "idle"
    /\ tool = "other"
    /\ level = 0
    /\ route = NoRoute
    /\ attempt = 0
    /\ calls = 0
    /\ effects = 0
    /\ seen = FALSE
    /\ saves = 0

\* execute_checked and permits: a slug without a toolkit needs no preference.
Begin(t) ==
    /\ pc = "idle"
    /\ tool' = t
    /\ IF t = "blank"
       THEN pc' = "client" /\ level' = 0
       ELSE pc' = "get" /\ level' = Depth
    /\ route' = NoRoute
    /\ attempt' = 0
    /\ calls' = 0
    /\ effects' = 0
    /\ seen' = Governs(prefs, byDefault)
    /\ saves' = 0
    /\ UNCHANGED <<prefs, byDefault, client>>

\* permits answers: on to the client, or refused.
Decide(allowed) == pc' = IF allowed THEN "client" ELSE "idle"

\* Only the first segment of the slug is looked up.
Mut_get_skips_longest ==
    /\ pc = "get"
    /\ IF level = 1 /\ prefs[1] = "unset" THEN Decide(byDefault) /\ UNCHANGED level
       ELSE IF level = 1 THEN pc' = "load" /\ UNCHANGED level
       ELSE pc' = "get" /\ level' = level - 1
    /\ UNCHANGED <<prefs, byDefault, client, tool, route, attempt, lookup, sent>>

\* The loop does not shorten the name.
Mut_get_never_shortens ==
    /\ pc = "get"
    /\ prefs[level] # "unset"
    /\ pc' = "load"
    /\ UNCHANGED <<prefs, byDefault, client, tool, level, route, attempt, lookup, sent>>

\* pref_for's loop: is anything saved under this name?
get ==
    /\ pc = "get"
    /\ \/ /\ prefs[level] # "unset"
          /\ pc' = "load"
          /\ UNCHANGED level
       \/ /\ prefs[level] = "unset"
          /\ level > 1
          /\ level' = level - 1
          /\ UNCHANGED pc
       \/ /\ prefs[level] = "unset"
          /\ level = 1
          /\ Decide(byDefault)
          /\ UNCHANGED level
    /\ UNCHANGED <<prefs, byDefault, client, tool, route, attempt, lookup, sent>>

\* UserScopePref::load reads the row a second time; rows are never removed.
load ==
    /\ pc = "load"
    /\ Decide(prefs[level] = "allow")
    /\ UNCHANGED <<prefs, byDefault, client, tool, level, route, attempt, lookup, sent>>

\* The store fails or the row does not decode: the action is refused.
refuse ==
    /\ pc \in {"get", "load"}
    /\ pc' = "idle"
    /\ UNCHANGED <<prefs, byDefault, client, tool, level, route, attempt, lookup, sent>>

\* client(), then prepare_execute_arguments: no route, or arguments that do
\* not validate, end the call before anything is sent.
start ==
    /\ pc = "client"
    /\ \/ pc' = "idle" /\ UNCHANGED <<route, attempt>>
       \/ /\ client # NoRoute
          /\ pc' = "send"
          /\ route' = client
          /\ attempt' = 1
    /\ UNCHANGED <<prefs, byDefault, client, tool, level, lookup, sent>>

\* External: how often the provider may have performed the action.  A refusal
\* changes nothing; a lost answer may follow an action that was performed.
Performed(outcome) ==
    IF outcome = "ok" THEN {1} ELSE IF outcome = "lost" THEN {0, 1} ELSE {0}

\* A call whose answer was lost is sent again.
Mut_retries_resends_lost(outcome) ==
    \/ outcome = "lost" /\ pc = "send" /\ attempt = 1
       /\ pc' = "resend" /\ UNCHANGED attempt
    \/ ~(outcome = "lost" /\ pc = "send" /\ attempt = 1)
       /\ pc' = "idle" /\ UNCHANGED attempt

\* The readiness retry is paid on every attempt.
Mut_retries_stack(outcome) ==
    \/ outcome = "not_ready" /\ pc = "send"
       /\ pc' = "resend" /\ UNCHANGED attempt
    \/ outcome = "rate_limited" /\ tool = "history" /\ attempt < MaxAttempts
       /\ pc' = "send" /\ attempt' = attempt + 1
    \/ /\ ~(outcome = "not_ready" /\ pc = "send")
       /\ ~(outcome = "rate_limited" /\ tool = "history" /\ attempt < MaxAttempts)
       /\ pc' = "idle" /\ UNCHANGED attempt

\* with_post_oauth_retry around the first call, with_rate_limit_retry around
\* that: whether an answer is followed by another call.
retries(outcome) ==
    \/ outcome = "not_ready" /\ pc = "send" /\ attempt = 1
       /\ pc' = "resend" /\ UNCHANGED attempt
    \/ outcome = "rate_limited" /\ tool = "history" /\ attempt < MaxAttempts
       /\ pc' = "send" /\ attempt' = attempt + 1
    \/ /\ ~(outcome = "not_ready" /\ pc = "send" /\ attempt = 1)
       /\ ~(outcome = "rate_limited" /\ tool = "history" /\ attempt < MaxAttempts)
       /\ pc' = "idle" /\ UNCHANGED attempt

\* route.execute, and what is made of its answer.
call(outcome) ==
    /\ pc \in {"send", "resend"}
    /\ calls' = calls + 1
    /\ \E n \in Performed(outcome) : effects' = effects + n
    /\ retries(outcome)
    /\ UNCHANGED <<prefs, byDefault, client, tool, level, route, lookup>>

\* set_user_scopes, by another caller.
set_user_scopes(l, value) ==
    /\ prefs' = [prefs EXCEPT ![l] = value]
    /\ IF pc \in {"get", "load"}
       THEN /\ seen' = (seen \/ Governs(prefs', byDefault))
            /\ saves' = IF saves < 2 THEN saves + 1 ELSE saves
       ELSE UNCHANGED lookup
    /\ UNCHANGED <<byDefault, client, pc, tool, level, route, attempt, sent>>

\* configure, by the host.
configure(c) ==
    /\ client' = c
    /\ UNCHANGED <<prefs, byDefault, pc, tool, level, route, attempt, lookup, sent>>

Step ==
    \/ get
    \/ load
    \/ start
    \/ \E outcome \in Outcomes : call(outcome)

Next ==
    \/ \E t \in Tools : Begin(t)
    \/ Step
    \/ refuse
    \/ \E l \in Levels, value \in {"allow", "deny"} : set_user_scopes(l, value)
    \/ \E c \in Tenants \cup {NoRoute} : configure(c)

Spec == Init /\ [][Next]_vars

\* The executor polls the call, storage calls answer, and every route call
\* comes back: the HTTP client times out.
FairSpec == Spec /\ WF_vars(Step)

-----------------------------------------------------------------------------
\* However the provider, the gateway and the network answer, one Execute has
\* the provider perform its action at most once: only answers that say that
\* nothing was done are followed by another call.
AtMostOneEffect == effects <= 1

\* The two policies do not stack: one extra call for a connection that is not
\* ready, and the attempts for a rate limit only for an allow-listed action.
BoundedCalls == calls <= IF tool = "history" THEN MaxAttempts + 1 ELSE 2

\* An action is sent only if the governing preference allowed it at some
\* instant of the lookup, although the lookup reads the names one by one.  Two
\* saves inside one lookup can defeat that, a single one cannot.
SentOnlyIfAllowed ==
    (pc \in {"client", "send", "resend"} /\ tool # "blank") => (seen \/ saves = 2)

\* How far a request is, for its caller.
Stage ==
    IF pc = "idle" THEN "idle" ELSE IF pc \in {"get", "load"} THEN "deciding" ELSE "allowed"

Once == INSTANCE ActionOnce WITH stage <- Stage, performed <- effects

\* The pipeline implements what its caller is promised: a request is decided,
\* then given up or performed once, and always ends, whatever the provider
\* keeps answering and whoever saves preferences or replaces the route.
ImplementsOnce == Once!FairSpec

=============================================================================
