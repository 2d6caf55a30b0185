-------------------------- MODULE GateCacheProofs ---------------------------
(***************************************************************************)
(* What the gate of the direct route (DirectGate) promises for every set   *)
(* of callers and every threshold, and the service's caches (ContractCache)*)
(* for any number of calls, toolkits and tenants.                          *)
(***************************************************************************)
EXTENDS DirectGate, ContractCache, FiniteSetTheorems, TLAPS

-----------------------------------------------------------------------------
\* Type correctness of the gate: the count that `record` keeps never leaves
\* the naturals, whatever the outcomes and their order.
THEOREM TypeCorrect == Spec => []TypeOK
<1>1. Init => TypeOK
  BY DEF Init, TypeOK, Stages, Requests
<1>2. TypeOK /\ [Next]_vars => TypeOK'
  <2> SUFFICES ASSUME TypeOK, [Next]_vars PROVE TypeOK'
    OBVIOUS
  <2> USE DEF TypeOK, Stages, Requests, Outcomes
  <2>1. ASSUME NEW c \in Callers, NEW s \in {"lookup", "post"}, Begin(c, s)
        PROVE  TypeOK'
    BY <2>1 DEF Begin
  <2>2. ASSUME NEW c \in Callers, Dispatch(c) PROVE TypeOK'
    BY <2>2 DEF Dispatch
  <2>3. ASSUME NEW c \in Callers, Gated(c) PROVE TypeOK'
    BY <2>3 DEF Gated
  <2>4. ASSUME NEW c \in Callers, AnswerByKey(c) PROVE TypeOK'
    BY <2>4 DEF AnswerByKey
  <2>5. ASSUME NEW c \in Callers, AnswerError(c) PROVE TypeOK'
    BY <2>5 DEF AnswerError
  <2>6. ASSUME NEW c \in Callers, Record(c) PROVE TypeOK'
    BY <2>6 DEF Record, record, after_record
  <2>7. ASSUME NEW k \in {"valid", "revoked"}, SetKey(k) PROVE TypeOK'
    BY <2>7 DEF SetKey
  <2>8. CASE UNCHANGED vars
    BY <2>8 DEF vars
  <2> QED
    BY <2>1, <2>2, <2>3, <2>4, <2>5, <2>6, <2>7, <2>8 DEF Next
<1> QED
  BY <1>1, <1>2, PTL DEF Spec

-----------------------------------------------------------------------------
\* The requests in flight are finitely many, and never more than the callers.
LEMMA InFlightFinite ==
    /\ IsFiniteSet(InFlight)
    /\ Cardinality(InFlight) \in Nat
    /\ Cardinality(Callers) \in Nat
    /\ Cardinality(InFlight) <= Cardinality(Callers)
<1>1. InFlight \subseteq Callers
  BY DEF InFlight
<1> QED
  BY <1>1, GateAssumption, FS_Subset, FS_CardinalityType

\* A request that passes check_gate joins the requests in flight; before it
\* does, at least one caller has none.
LEMMA DispatchCounts ==
    ASSUME TypeOK, NEW c \in Callers, Dispatch(c)
    PROVE  /\ Cardinality(InFlight') = Cardinality(InFlight) + 1
           /\ Cardinality(InFlight') <= Cardinality(Callers)
           /\ Cardinality(InFlight) \in Nat
<1>1. InFlight' = InFlight \cup {c} /\ c \notin InFlight
  BY DEF InFlight, Dispatch, TypeOK
<1>2. InFlight' \subseteq Callers
  BY <1>1 DEF InFlight
<1> QED
  BY <1>1, <1>2, InFlightFinite, GateAssumption, FS_AddElement, FS_Subset,
     FS_CardinalityType

\* A recorded request leaves the requests in flight.
LEMMA RecordCounts ==
    ASSUME TypeOK, NEW c \in Callers, Record(c)
    PROVE  /\ Cardinality(InFlight') = Cardinality(InFlight) - 1
           /\ Cardinality(InFlight) \in Nat
<1>1. InFlight' = InFlight \ {c} /\ c \in InFlight
  BY DEF InFlight, Record, TypeOK, Outcomes
<1> QED
  BY <1>1, InFlightFinite, FS_RemoveElement

\* No other step moves a request across the gate.
LEMMA OthersKeepInFlight ==
    ASSUME TypeOK, [Next]_vars,
           ~ \E c \in Callers : Dispatch(c) \/ Record(c)
    PROVE  InFlight' = InFlight /\ failures' = failures
<1> USE DEF InFlight, TypeOK, Outcomes
<1>1. ASSUME NEW c \in Callers, NEW s \in {"lookup", "post"}, Begin(c, s)
      PROVE  InFlight' = InFlight /\ failures' = failures
  BY <1>1 DEF Begin
<1>2. ASSUME NEW c \in Callers, Gated(c)
      PROVE  InFlight' = InFlight /\ failures' = failures
  BY <1>2 DEF Gated
<1>3. ASSUME NEW c \in Callers, AnswerByKey(c)
      PROVE  InFlight' = InFlight /\ failures' = failures
  BY <1>3 DEF AnswerByKey
<1>4. ASSUME NEW c \in Callers, AnswerError(c)
      PROVE  InFlight' = InFlight /\ failures' = failures
  BY <1>4 DEF AnswerError
<1>5. ASSUME NEW k \in {"valid", "revoked"}, SetKey(k)
      PROVE  InFlight' = InFlight /\ failures' = failures
  BY <1>5 DEF SetKey
<1>6. CASE UNCHANGED vars
  BY <1>6 DEF vars
<1> QED
  BY <1>1, <1>2, <1>3, <1>4, <1>5, <1>6 DEF Next

\* The gate overshoots the threshold by at most the requests already past it,
\* for every number of callers: check_gate bounds the count when a request
\* leaves, and each request in flight can add one.
THEOREM GateOvershoot == Spec => []BoundedOvershoot
<1>1. Init => OvershootInv
  <2> SUFFICES ASSUME Init PROVE OvershootInv
    OBVIOUS
  <2>1. InFlight = {}
    BY DEF Init, InFlight
  <2> QED
    BY <2>1, FS_EmptySet, InFlightFinite, GateAssumption DEF Init, OvershootInv
<1>2. TypeOK /\ OvershootInv /\ [Next]_vars => OvershootInv'
  <2> SUFFICES ASSUME TypeOK, OvershootInv, [Next]_vars PROVE OvershootInv'
    OBVIOUS
  <2>1. ASSUME NEW c \in Callers, Dispatch(c) PROVE OvershootInv'
    <3>1. failures' = failures /\ failures < Threshold /\ failures \in Nat
      BY <2>1 DEF Dispatch, check_gate, TypeOK
    <3> QED
      BY <2>1, <3>1, DispatchCounts, InFlightFinite, GateAssumption DEF OvershootInv
  <2>2. ASSUME NEW c \in Callers, Record(c) PROVE OvershootInv'
    <3>1. failures' \in Nat /\ failures' <= failures + 1 /\ failures \in Nat
      BY <2>2 DEF Record, record, TypeOK
    <3> QED
      BY <2>2, <3>1, RecordCounts, InFlightFinite, GateAssumption DEF OvershootInv
  <2>3. CASE ~ \E c \in Callers : Dispatch(c) \/ Record(c)
    BY <2>3, OthersKeepInFlight DEF OvershootInv
  <2> QED
    BY <2>1, <2>2, <2>3
<1>3. TypeOK /\ OvershootInv => BoundedOvershoot
  BY InFlightFinite, GateAssumption DEF OvershootInv, BoundedOvershoot, TypeOK
<1> QED
  BY <1>1, <1>2, <1>3, TypeCorrect, PTL DEF Spec

-----------------------------------------------------------------------------
\* What makes OneStrikePerMember inductive: a member still at work has no
\* strike yet, and only a member at work has a request.
StrikeInv ==
    \A c \in Callers :
        /\ strikes[c] <= 1
        /\ stage[c] # "idle" => strikes[c] = 0
        /\ req[c] # "none" => stage[c] # "idle"

\* One member of the route adds at most one strike to the count, because
\* account_owner returns a rejected key instead of swallowing it.
THEOREM OneStrike == Spec => []OneStrikePerMember
<1>1. Init => StrikeInv
  BY DEF Init, StrikeInv
<1>2. TypeOK /\ StrikeInv /\ [Next]_vars => StrikeInv'
  <2> SUFFICES ASSUME TypeOK, StrikeInv, [Next]_vars PROVE StrikeInv'
    OBVIOUS
  <2> USE DEF StrikeInv, TypeOK, Stages, Requests, Outcomes
  <2>1. ASSUME NEW c \in Callers, NEW s \in {"lookup", "post"}, Begin(c, s)
        PROVE  StrikeInv'
    BY <2>1 DEF Begin
  <2>2. ASSUME NEW c \in Callers, Dispatch(c) PROVE StrikeInv'
    BY <2>2 DEF Dispatch
  <2>3. ASSUME NEW c \in Callers, Gated(c) PROVE StrikeInv'
    BY <2>3 DEF Gated
  <2>4. ASSUME NEW c \in Callers, AnswerByKey(c) PROVE StrikeInv'
    BY <2>4 DEF AnswerByKey
  <2>5. ASSUME NEW c \in Callers, AnswerError(c) PROVE StrikeInv'
    BY <2>5 DEF AnswerError
  <2>6. ASSUME NEW c \in Callers, Record(c) PROVE StrikeInv'
    BY <2>6 DEF Record, after_record
  <2>7. ASSUME NEW k \in {"valid", "revoked"}, SetKey(k) PROVE StrikeInv'
    BY <2>7 DEF SetKey
  <2>8. CASE UNCHANGED vars
    BY <2>8 DEF vars
  <2> QED
    BY <2>1, <2>2, <2>3, <2>4, <2>5, <2>6, <2>7, <2>8 DEF Next
<1>3. StrikeInv => OneStrikePerMember
  BY DEF StrikeInv, OneStrikePerMember
<1> QED
  BY <1>1, <1>2, <1>3, TypeCorrect, PTL DEF Spec

-----------------------------------------------------------------------------
\* A closed gate reopens only when the success of a request that had already
\* left is recorded; no outage and no further rejection reopens it.
THEOREM GateReopens == Spec => ReopensOnlyOnSuccess
<1>1. TypeOK /\ [Next]_vars
        => [(Closed /\ ~Closed')
              => \E c \in Callers : req[c] = "ok" /\ req'[c] = "none"]_vars
  <2> SUFFICES ASSUME TypeOK, [Next]_vars, Closed, ~Closed'
               PROVE  \E c \in Callers : req[c] = "ok" /\ req'[c] = "none"
    OBVIOUS
  <2>1. failures' # failures
    BY DEF Closed
  <2>2. ASSUME NEW c \in Callers, Dispatch(c) PROVE FALSE
    BY <2>1, <2>2 DEF Dispatch
  <2>3. PICK c \in Callers : Record(c)
    BY <2>1, <2>2, OthersKeepInFlight
  <2>4. req[c] = "ok"
    BY <2>3, GateAssumption DEF Record, record, Closed, TypeOK, Outcomes
  <2>5. req'[c] = "none"
    BY <2>3 DEF Record, TypeOK
  <2> QED
    BY <2>4, <2>5
<1> QED
  BY <1>1, TypeCorrect, PTL DEF Spec, ReopensOnlyOnSuccess

\* A closed gate with nothing in flight is closed for the rest of the route's
\* life: no request leaves it again.
THEOREM GateStaysClosed == Spec => ClosedIsFinal
<1>1. TypeOK /\ [Next]_vars
        => [(Closed /\ InFlight = {}) => (Closed' /\ InFlight' = {})]_vars
  <2> SUFFICES ASSUME TypeOK, [Next]_vars, Closed, InFlight = {}
               PROVE  Closed' /\ InFlight' = {}
    OBVIOUS
  <2>1. ASSUME NEW c \in Callers, Dispatch(c) PROVE FALSE
    BY <2>1, GateAssumption DEF Dispatch, check_gate, Closed, TypeOK
  <2>2. ASSUME NEW c \in Callers, Record(c) PROVE FALSE
    BY <2>2 DEF Record, InFlight, Outcomes
  <2> QED
    BY <2>1, <2>2, OthersKeepInFlight DEF Closed
<1> QED
  BY <1>1, TypeCorrect, PTL DEF Spec, ClosedIsFinal

-----------------------------------------------------------------------------
(***************************************************************************)
(* What the contract caches promise for any number of calls, toolkits and  *)
(* tenants: the theorems of module ContractCache.                          *)
(***************************************************************************)

\* Type correctness of the service's state, with what each call in flight
\* knows: every member leaves the caches, locks and locals well formed.
THEOREM CachesTypeCorrect == CacheSpec => []CacheTypeOK
<1>1. CacheInit => CacheTypeOK
  <2> SUFFICES ASSUME CacheInit PROVE CacheTypeOK
    OBVIOUS
  <2>1. raced \in BOOLEAN
    BY Zenon DEF CacheInit
  <2> QED
    BY <2>1 DEF CacheInit, CacheTypeOK, States, Writing
<1>2. CacheTypeOK /\ [CacheNext]_cache_vars => CacheTypeOK'
  <2> SUFFICES ASSUME CacheTypeOK, [CacheNext]_cache_vars PROVE CacheTypeOK'
    OBVIOUS
  <2> USE CacheAssumption DEF CacheTypeOK, States, Writing
  <2>1. ASSUME NEW n \in Tenants \cup {None}, configure(n) PROVE CacheTypeOK'
    BY <2>1 DEF configure, clear
  <2>2. ASSUME NEW c \in Calls, NEW t \in Toolkits, toolkit_contracts(c, t) PROVE CacheTypeOK'
    BY <2>2 DEF toolkit_contracts, Goto
  <2>3. ASSUME NEW c \in Calls, NEW t \in Toolkits, probe_output(c, t) PROVE CacheTypeOK'
    BY <2>3 DEF probe_output, Goto
  <2>4. ASSUME NEW c \in Calls, fetch(c) PROVE CacheTypeOK'
    BY <2>4 DEF fetch, Goto
  <2>5. ASSUME NEW c \in Calls, settle(c) PROVE CacheTypeOK'
    BY <2>5 DEF settle, Return, Goto
  <2>6. ASSUME NEW c \in Calls, fetched(c) PROVE CacheTypeOK'
    BY <2>6 DEF fetched, Return, Goto, remember_catalog, release
  <2>7. ASSUME NEW c \in Calls, fetch_failed(c) PROVE CacheTypeOK'
    BY <2>7 DEF fetch_failed, Return, Goto, release
  <2>8. ASSUME NEW c \in Calls, probe_connected(c) PROVE CacheTypeOK'
    BY <2>8 DEF probe_connected, Goto
  <2>9. ASSUME NEW c \in Calls, probe_permitted(c) PROVE CacheTypeOK'
    BY <2>9 DEF probe_permitted, Goto
  <2>10. ASSUME NEW c \in Calls, probed(c) PROVE CacheTypeOK'
    BY <2>10 DEF probed, Return, Goto, remember_probe
  <2>11. ASSUME NEW c \in Calls, probe_refused(c) PROVE CacheTypeOK'
    BY <2>11 DEF probe_refused, Return, Goto
  <2>12. ASSUME NEW t \in Toolkits, expire_catalog(t) PROVE CacheTypeOK'
    BY <2>12 DEF expire_catalog
  <2>13. ASSUME NEW t \in Toolkits, expire_probe(t) PROVE CacheTypeOK'
    BY <2>13 DEF expire_probe
  <2>14. CASE UNCHANGED cache_vars
    BY <2>14 DEF cache_vars
  <2> QED
    BY <2>1, <2>2, <2>3, <2>4, <2>5, <2>6, <2>7, <2>8, <2>9, <2>10, <2>11, <2>12, <2>13, <2>14 DEF CacheNext
<1> QED
  BY <1>1, <1>2, PTL DEF CacheSpec

-----------------------------------------------------------------------------
\* What makes IsolatedUnlessRaced inductive: while no Configure has overtaken
\* a writing call, every writing call asks as the client in place.
IsolationInv ==
    ~raced => /\ \A t \in Toolkits : {catalogs[t], probes[t]} \subseteq {client, None}
              /\ \A c \in Calls : pc[c] \in Writing => snap[c] = client

\* A cached catalog or probe answers for its own tenant only, as long as no
\* Configure overtakes a call that has still to write: the clear in configure
\* covers everything but the calls in flight.
THEOREM Isolation == CacheSpec => []IsolatedUnlessRaced
<1>1. CacheInit => IsolationInv
  BY DEF CacheInit, IsolationInv, Writing
<1>2. CacheTypeOK /\ IsolationInv /\ [CacheNext]_cache_vars => IsolationInv'
  <2> SUFFICES ASSUME CacheTypeOK, IsolationInv, [CacheNext]_cache_vars PROVE IsolationInv'
    OBVIOUS
  <2> USE CacheAssumption DEF CacheTypeOK, States, Writing, IsolationInv
  <2>1. ASSUME NEW n \in Tenants \cup {None}, configure(n) PROVE IsolationInv'
    BY <2>1 DEF configure, clear
  <2>2. ASSUME NEW c \in Calls, NEW t \in Toolkits, toolkit_contracts(c, t) PROVE IsolationInv'
    BY <2>2 DEF toolkit_contracts, Goto
  <2>3. ASSUME NEW c \in Calls, NEW t \in Toolkits, probe_output(c, t) PROVE IsolationInv'
    BY <2>3 DEF probe_output, Goto
  <2>4. ASSUME NEW c \in Calls, fetch(c) PROVE IsolationInv'
    BY <2>4 DEF fetch, Goto
  <2>5. ASSUME NEW c \in Calls, settle(c) PROVE IsolationInv'
    BY <2>5 DEF settle, Return, Goto
  <2>6. ASSUME NEW c \in Calls, fetched(c) PROVE IsolationInv'
    BY <2>6 DEF fetched, Return, Goto, remember_catalog, release
  <2>7. ASSUME NEW c \in Calls, fetch_failed(c) PROVE IsolationInv'
    BY <2>7 DEF fetch_failed, Return, Goto, release
  <2>8. ASSUME NEW c \in Calls, probe_connected(c) PROVE IsolationInv'
    BY <2>8 DEF probe_connected, Goto
  <2>9. ASSUME NEW c \in Calls, probe_permitted(c) PROVE IsolationInv'
    BY <2>9 DEF probe_permitted, Goto
  <2>10. ASSUME NEW c \in Calls, probed(c) PROVE IsolationInv'
    BY <2>10 DEF probed, Return, Goto, remember_probe
  <2>11. ASSUME NEW c \in Calls, probe_refused(c) PROVE IsolationInv'
    BY <2>11 DEF probe_refused, Return, Goto
  <2>12. ASSUME NEW t \in Toolkits, expire_catalog(t) PROVE IsolationInv'
    BY <2>12 DEF expire_catalog
  <2>13. ASSUME NEW t \in Toolkits, expire_probe(t) PROVE IsolationInv'
    BY <2>13 DEF expire_probe
  <2>14. CASE UNCHANGED cache_vars
    BY <2>14 DEF cache_vars
  <2> QED
    BY <2>1, <2>2, <2>3, <2>4, <2>5, <2>6, <2>7, <2>8, <2>9, <2>10, <2>11, <2>12, <2>13, <2>14 DEF CacheNext
<1>3. IsolationInv => IsolatedUnlessRaced
  BY DEF IsolationInv, IsolatedUnlessRaced
<1> QED
  BY <1>1, <1>2, <1>3, CachesTypeCorrect, PTL DEF CacheSpec

-----------------------------------------------------------------------------
\* What makes OneFillPerInvalidation inductive: a call that fetches holds its
\* toolkit's lock and the toolkit has no catalog, so no other call stored one
\* since the last invalidation.
FillInv ==
    /\ \A t \in Toolkits : /\ fills[t] <= 1
                           /\ catalogs[t] = None => fills[t] = 0
    /\ \A c \in Calls : pc[c] = "fetch" => /\ lock[tk[c]] = c
                                            /\ catalogs[tk[c]] = None

\* Concurrent misses of a toolkit share one fetch: the per-toolkit lock and the
\* second look at the cache let one catalog in between two invalidations.
THEOREM SingleFill == CacheSpec => []OneFillPerInvalidation
<1>1. CacheInit => FillInv
  BY DEF CacheInit, FillInv
<1>2. CacheTypeOK /\ FillInv /\ [CacheNext]_cache_vars => FillInv'
  <2> SUFFICES ASSUME CacheTypeOK, FillInv, [CacheNext]_cache_vars PROVE FillInv'
    OBVIOUS
  <2> USE CacheAssumption DEF CacheTypeOK, States, Writing, FillInv
  <2>1. ASSUME NEW n \in Tenants \cup {None}, configure(n) PROVE FillInv'
    BY <2>1 DEF configure, clear
  <2>2. ASSUME NEW c \in Calls, NEW t \in Toolkits, toolkit_contracts(c, t) PROVE FillInv'
    BY <2>2 DEF toolkit_contracts, Goto
  <2>3. ASSUME NEW c \in Calls, NEW t \in Toolkits, probe_output(c, t) PROVE FillInv'
    BY <2>3 DEF probe_output, Goto
  <2>4. ASSUME NEW c \in Calls, fetch(c) PROVE FillInv'
    BY <2>4 DEF fetch, Goto
  <2>5. ASSUME NEW c \in Calls, settle(c) PROVE FillInv'
    BY <2>5 DEF settle, Return, Goto
  <2>6. ASSUME NEW c \in Calls, fetched(c) PROVE FillInv'
    BY <2>6 DEF fetched, Return, Goto, remember_catalog, release
  <2>7. ASSUME NEW c \in Calls, fetch_failed(c) PROVE FillInv'
    BY <2>7 DEF fetch_failed, Return, Goto, release
  <2>8. ASSUME NEW c \in Calls, probe_connected(c) PROVE FillInv'
    BY <2>8 DEF probe_connected, Goto
  <2>9. ASSUME NEW c \in Calls, probe_permitted(c) PROVE FillInv'
    BY <2>9 DEF probe_permitted, Goto
  <2>10. ASSUME NEW c \in Calls, probed(c) PROVE FillInv'
    BY <2>10 DEF probed, Return, Goto, remember_probe
  <2>11. ASSUME NEW c \in Calls, probe_refused(c) PROVE FillInv'
    BY <2>11 DEF probe_refused, Return, Goto
  <2>12. ASSUME NEW t \in Toolkits, expire_catalog(t) PROVE FillInv'
    BY <2>12 DEF expire_catalog
  <2>13. ASSUME NEW t \in Toolkits, expire_probe(t) PROVE FillInv'
    BY <2>13 DEF expire_probe
  <2>14. CASE UNCHANGED cache_vars
    BY <2>14 DEF cache_vars
  <2> QED
    BY <2>1, <2>2, <2>3, <2>4, <2>5, <2>6, <2>7, <2>8, <2>9, <2>10, <2>11, <2>12, <2>13, <2>14 DEF CacheNext
<1>3. FillInv => OneFillPerInvalidation
  BY DEF FillInv, OneFillPerInvalidation
<1> QED
  BY <1>1, <1>2, <1>3, CachesTypeCorrect, PTL DEF CacheSpec

=============================================================================
