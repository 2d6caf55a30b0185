---------------------------- MODULE TriggerProofs ----------------------------
(***************************************************************************)
(* What the members for trigger subscriptions promise for any number of    *)
(* calls in flight, users, connections and pages.                          *)
(***************************************************************************)
EXTENDS DirectTriggers, PageTheorems

\* A call that has not answered has no result and a page left to ask for.
InFlight ==
    \A c \in Callers : pc[c] # "idle" => result[c] = None /\ pages[c] < MaxPages

\* The ids are finitely many naturals.
LEMMA IdsFinite == IsFiniteSet(Ids) /\ Ids \subseteq Nat
BY TriggersAssumption, FS_Interval DEF Ids

\* A page of a listing, and the cursor it comes with.
LEMMA ListedPage ==
    ASSUME TypeOK, NEW c \in Callers
    PROVE  LET page == PageOf(Left(c), PageSize) IN
           /\ page \subseteq Left(c) /\ page \subseteq Ids
           /\ page # Left(c) => /\ Max(page) \in page
                                /\ \A i \in Left(c) : i <= Max(page) => i \in page
<1> DEFINE page == PageOf(Left(c), PageSize)
<1>1. Left(c) \subseteq Ids /\ Ids \subseteq Nat /\ PageSize \in Nat \ {0}
  <2>1. live \subseteq Ids
    BY DEF TypeOK
  <2>2. Left(c) \subseteq Ids
    BY <2>1 DEF Left
  <2>3. Ids \subseteq Nat /\ PageSize \in Nat \ {0}
    BY TriggersAssumption, IdsFinite
  <2> QED
    BY <2>2, <2>3
<1>2. IsFiniteSet(Left(c))
  BY <1>1, IdsFinite, FS_Subset
<1>3. Left(c) \subseteq Nat
  BY <1>1
<1>4. /\ page \subseteq Left(c) /\ IsFiniteSet(page)
      /\ \A j \in Left(c), k \in page : j < k => j \in page
      /\ page = {} => Left(c) = {}
  BY <1>1, <1>2, <1>3, PageIsPrefix
<1> HIDE DEF page
<1>5. ASSUME page # Left(c)
      PROVE  Max(page) \in page /\ \A i \in Left(c) : i <= Max(page) => i \in page
  <2>1. page # {} /\ page \subseteq Nat
    BY <1>3, <1>4, <1>5
  <2>2. Max(page) \in page
    BY <1>4, <2>1, LeastAndGreatest
  <2>3. ASSUME NEW i \in Left(c), i <= Max(page) PROVE i \in page
    <3>1. i \in Nat /\ Max(page) \in Nat
      BY <1>3, <2>1, <2>2
    <3>2. i = Max(page) \/ i < Max(page)
      BY <2>3, <3>1
    <3> QED
      BY <1>4, <2>2, <3>2
  <2> QED
    BY <2>2, <2>3
<1> QED
  BY <1>1, <1>4, <1>5 DEF page

\* What reading a page does to the call that reads it.
LEMMA ReadPage ==
    ASSUME TypeOK, NEW c \in Callers, NEW stuck \in BOOLEAN, list_page(c, stuck)
    PROVE  LET page == PageOf(Left(c), PageSize)
               all == rows[c] \cup page
           IN /\ pc[c] = "page" /\ rows' = [rows EXCEPT ![c] = all]
              /\ pages' = [pages EXCEPT ![c] = @ + 1]
              /\ UNCHANGED <<service, filters, names, params, steady>>
              /\ \/ page = Left(c) /\ Finish(c, all) /\ cursor' = cursor
                 \/ /\ page # Left(c) /\ cursor' = [cursor EXCEPT ![c] = Max(page)]
                    /\ \/ Fail(c)
                       \/ pages[c] + 1 # MaxPages /\ UNCHANGED <<pc, result>>
                 \/ Fail(c) /\ cursor' = cursor
BY DEF list_page, PageOf, Incomplete

\* An upsert answers for one instance, there already or new under a fresh id.
LEMMA Upsert ==
    ASSUME TypeOK, NEW c \in Callers, NEW i \in Ids, pc[c] = "upsert", Upserted(c, i)
    PROVE  /\ inst'[i] \in Instance /\ inst'[i] # None
           /\ inst'[i].owner = Entity[c] /\ inst'[i].config = config[c]
           /\ IF conn[c] = None THEN Owner[inst'[i].conn] = Entity[c] ELSE inst'[i].conn = conn[c]
           /\ \/ UNCHANGED service
              \/ /\ inst[i] = None /\ live' = live \cup {i}
                 /\ inst' = [inst EXCEPT ![i] = inst'[i]]
<1>1. inst \in [Ids -> Instance \cup {None}] /\ live \subseteq {j \in Ids : inst[j] # None}
  BY DEF TypeOK
<1>2. PICK k \in IF conn[c] = None THEN {k \in Conns : Owner[k] = Entity[c]} ELSE {conn[c]} :
          LET new == [owner |-> Entity[c], conn |-> k, config |-> config[c]] IN
          \/ i \in live /\ inst[i] = new /\ UNCHANGED service
          \/ /\ {j \in Ids : inst[j] # None} = 1..(i - 1)
             /\ live' = live \cup {i}
             /\ inst' = [inst EXCEPT ![i] = new]
  BY DEF Upserted
<1> DEFINE new == [owner |-> Entity[c], conn |-> k, config |-> config[c]]
<1>3. k \in Conns
  BY <1>2 DEF TypeOK
<1>4. new \in Instance
  BY <1>3 DEF Instance, TypeOK, Users
<1>5. new # None
  BY <1>4, TriggersAssumption
<1>6. IF conn[c] = None THEN Owner[k] = Entity[c] ELSE k = conn[c]
  BY <1>2
<1>7. new.owner = Entity[c] /\ new.config = config[c] /\ new.conn = k
  OBVIOUS
<1>8. CASE i \in live /\ inst[i] = new /\ UNCHANGED service
  <2>1. inst'[i] = new
    BY <1>8 DEF service
  <2> HIDE DEF new
  <2> QED
    BY <1>4, <1>5, <1>6, <1>7, <1>8, <2>1
<1>9. CASE /\ {j \in Ids : inst[j] # None} = 1..(i - 1)
           /\ live' = live \cup {i}
           /\ inst' = [inst EXCEPT ![i] = new]
  <2>1. i \notin 1..(i - 1)
    BY TriggersAssumption DEF Ids
  <2>2. inst[i] = None
    BY <1>9, <2>1
  <2> HIDE DEF new
  <2>3. inst'[i] = new
    BY <1>1, <1>9
  <2> QED
    BY <1>4, <1>5, <1>6, <1>7, <1>9, <2>2, <2>3
<1> QED
  BY <1>2, <1>8, <1>9

\* Type correctness, with the page limit: a call in flight has not answered
\* and may still read a page.
THEOREM TypeCorrect == Spec => [](TypeOK /\ InFlight)
<1> USE TriggersAssumption
<1>1. Init => TypeOK /\ InFlight
  <2> SUFFICES ASSUME Init PROVE TypeOK /\ InFlight
    OBVIOUS
  <2>1. filters \in BOOLEAN /\ names \in BOOLEAN
    BY Zenon DEF Init
  <2>2. live \subseteq {i \in Ids : inst[i] # None} /\ inst \in [Ids -> Instance \cup {None}]
    BY DEF Init
  <2>3. pages \in [Callers -> 0..MaxPages]
    BY DEF Init
  <2>4. /\ rows \in [Callers -> SUBSET Ids] /\ steady \in [Callers -> SUBSET Ids]
        /\ result \in [Callers -> (SUBSET Ids) \cup {None}]
    BY DEF Init
  <2>6. InFlight
    BY DEF Init, InFlight
  <2>5. /\ pc \in [Callers -> {"idle", "owner", "upsert", "page", "lookup", "delete"}]
        /\ op \in [Callers -> {"create", "list", "disable"}]
        /\ conn \in [Callers -> Conns \cup {None}] /\ config \in [Callers -> Configs \cup {None}]
        /\ target \in [Callers -> Ids \cup {None}] /\ cursor \in [Callers -> Ids \cup {None}]
    BY DEF Init
  <2> QED
    BY <2>1, <2>2, <2>3, <2>4, <2>5, <2>6 DEF TypeOK
<1>2. TypeOK /\ InFlight /\ [Next]_vars => TypeOK' /\ InFlight'
  <2> SUFFICES ASSUME TypeOK, InFlight, [Next]_vars PROVE TypeOK' /\ InFlight'
    OBVIOUS
  <2>0. live \subseteq Ids /\ inst \in [Ids -> Instance \cup {None}]
    BY DEF TypeOK
  <2>a. ASSUME NEW c \in Callers, NEW ids \in SUBSET Ids, Fail(c) \/ Answer(c, ids)
        PROVE  /\ pc' \in [Callers -> {"idle", "owner", "upsert", "page", "lookup", "delete"}]
               /\ result' \in [Callers -> (SUBSET Ids) \cup {None}]
               /\ pc'[c] = "idle" /\ \A d \in Callers \ {c} : pc'[d] = pc[d] /\ result'[d] = result[d]
    BY <2>a DEF Fail, Answer, Goto, TypeOK
  <2>b. ASSUME NEW c \in Callers, NEW o \in {"create", "list", "disable"}, NEW k \in Conns \cup {None},
               NEW f \in Configs \cup {None}, NEW t \in Ids \cup {None},
               NEW s \in {"owner", "upsert", "page", "lookup"}, Begin(c, o, k, f, t, s)
        PROVE  TypeOK' /\ InFlight'
    <3>1. Mine(c) \in SUBSET Ids
      BY <2>0 DEF Mine
    <3>2. steady' \in [Callers -> SUBSET Ids]
      BY <2>b, <3>1 DEF Begin, TypeOK
    <3>3. InFlight'
      <4>1. result'[c] = None /\ pages'[c] = 0 /\ 0 < MaxPages
        BY <2>b DEF Begin, TypeOK
      <4>2. \A d \in Callers \ {c} : pc'[d] = pc[d] /\ result'[d] = result[d] /\ pages'[d] = pages[d]
        BY <2>b DEF Begin, Goto, TypeOK
      <4> QED
        BY <4>1, <4>2 DEF InFlight
    <3>4. /\ inst' = inst /\ live' = live /\ filters' = filters /\ names' = names
          /\ pc' \in [Callers -> {"idle", "owner", "upsert", "page", "lookup", "delete"}]
      BY <2>b DEF Begin, Goto, TypeOK, service
    <3>5. /\ op' \in [Callers -> {"create", "list", "disable"}]
          /\ conn' \in [Callers -> Conns \cup {None}]
          /\ config' \in [Callers -> Configs \cup {None}]
          /\ target' \in [Callers -> Ids \cup {None}]
      BY <2>b DEF Begin, TypeOK
    <3>6. /\ rows' \in [Callers -> SUBSET Ids]
          /\ cursor' \in [Callers -> Ids \cup {None}]
          /\ result' \in [Callers -> (SUBSET Ids) \cup {None}]
      BY <2>b DEF Begin, TypeOK
    <3>7. pages' \in [Callers -> 0..MaxPages]
      <4>1. 0 \in 0..MaxPages
        OBVIOUS
      <4> QED
        BY <2>b, <4>1 DEF Begin, TypeOK
    <3> QED
      BY <3>2, <3>3, <3>4, <3>5, <3>6, <3>7 DEF TypeOK
  <2>1. ASSUME NEW c \in Callers, NEW k \in Conns \cup {None}, NEW f \in Configs \cup {None},
               create_trigger(c, k, f)
        PROVE  TypeOK' /\ InFlight'
    BY <2>1, <2>b DEF create_trigger
  <2>2. ASSUME NEW c \in Callers, list_triggers(c) PROVE TypeOK' /\ InFlight'
    BY <2>2, <2>b DEF list_triggers
  <2>3. ASSUME NEW c \in Callers, NEW i \in Ids, disable_trigger(c, i) PROVE TypeOK' /\ InFlight'
    BY <2>3, <2>b DEF disable_trigger
  <2>4. ASSUME NEW c \in Callers, NEW said \in Users \cup {None}, ensure_owned(c, said)
        PROVE  TypeOK' /\ InFlight'
    BY <2>4 DEF ensure_owned, Goto, TypeOK, InFlight, service, params, paging
  <2>5. ASSUME NEW c \in Callers, NEW i \in Ids, upsert(c, i) PROVE TypeOK' /\ InFlight'
    <3>1. inst' \in [Ids -> Instance \cup {None}] /\ live' \subseteq {j \in Ids : inst'[j] # None}
      <4>1. /\ inst'[i] \in Instance /\ inst'[i] # None
            /\ \/ UNCHANGED service
               \/ live' = live \cup {i} /\ inst' = [inst EXCEPT ![i] = inst'[i]]
        BY <2>5, Upsert DEF upsert
      <4>2. CASE UNCHANGED service
        BY <4>2 DEF service, TypeOK
      <4>3. CASE live' = live \cup {i} /\ inst' = [inst EXCEPT ![i] = inst'[i]]
        <5>1. PICK new : new = inst'[i]
          OBVIOUS
        <5>2. inst' = [inst EXCEPT ![i] = new] /\ new \in Instance /\ new # None
          BY <4>1, <4>3, <5>1
        <5> QED
          BY <4>3, <5>2 DEF TypeOK
      <4> QED
        BY <4>1, <4>2, <4>3
    <3>2. /\ pc' \in [Callers -> {"idle", "owner", "upsert", "page", "lookup", "delete"}]
          /\ result' \in [Callers -> (SUBSET Ids) \cup {None}]
          /\ pc'[c] \in {"idle", "page"} /\ (pc'[c] = "page" => result' = result)
          /\ \A d \in Callers \ {c} : pc'[d] = pc[d] /\ result'[d] = result[d]
      <4>1. {i} \in SUBSET Ids
        OBVIOUS
      <4>2. CASE Fail(c) \/ Answer(c, {i})
        BY <2>a, <4>1, <4>2
      <4>3. CASE Goto(c, "page") /\ UNCHANGED result
        BY <4>3 DEF Goto, TypeOK
      <4> QED
        BY <2>5, <4>2, <4>3 DEF upsert
    <3>3. UNCHANGED <<filters, names, params, paging, steady>> /\ pc[c] = "upsert"
      BY <2>5 DEF upsert
    <3>4. TypeOK'
      BY <3>1, <3>2, <3>3 DEF TypeOK, params, paging
    <3>5. InFlight'
      BY <3>2, <3>3 DEF InFlight, paging
    <3> QED
      BY <3>4, <3>5
  <2>6. ASSUME NEW c \in Callers, NEW stuck \in BOOLEAN, list_page(c, stuck) PROVE TypeOK' /\ InFlight'
    <3> DEFINE page == PageOf(Left(c), PageSize)
               all == rows[c] \cup page
    <3>1. /\ pc[c] = "page" /\ rows' = [rows EXCEPT ![c] = all]
          /\ pages' = [pages EXCEPT ![c] = @ + 1]
          /\ UNCHANGED <<service, filters, names, params, steady>>
          /\ \/ page = Left(c) /\ Finish(c, all) /\ cursor' = cursor
             \/ /\ page # Left(c) /\ cursor' = [cursor EXCEPT ![c] = Max(page)]
                /\ Fail(c) \/ (pages[c] + 1 # MaxPages /\ UNCHANGED <<pc, result>>)
             \/ Fail(c) /\ cursor' = cursor
      BY <2>6, ReadPage
    <3>2. page \subseteq Ids /\ (page # Left(c) => Max(page) \in page)
      BY ListedPage
    <3>3. all \in SUBSET Ids
      BY <3>2 DEF TypeOK
    <3> HIDE DEF page
    <3>4. rows' \in [Callers -> SUBSET Ids]
      BY <3>1, <3>3 DEF TypeOK
    <3>5. cursor' \in [Callers -> Ids \cup {None}]
      BY <3>1, <3>2 DEF TypeOK
    <3>6. pages[c] \in 0..MaxPages /\ pages[c] < MaxPages
      BY <3>1 DEF TypeOK, InFlight
    <3>7. pages' \in [Callers -> 0..MaxPages]
      BY <3>1, <3>6 DEF TypeOK
    <3>8. Finish(c, all) => \E ids \in SUBSET Ids : Fail(c) \/ Answer(c, ids)
      BY <3>3 DEF Finish, Matches
    <3>9. /\ pc' \in [Callers -> {"idle", "owner", "upsert", "page", "lookup", "delete"}]
          /\ result' \in [Callers -> (SUBSET Ids) \cup {None}]
          /\ pc'[c] = "idle" \/ (pages[c] + 1 # MaxPages /\ UNCHANGED <<pc, result>>)
          /\ \A d \in Callers \ {c} : pc'[d] = pc[d] /\ result'[d] = result[d]
      <4>1. CASE \E ids \in SUBSET Ids : Fail(c) \/ Answer(c, ids)
        BY <2>a, <4>1
      <4>2. CASE pages[c] + 1 # MaxPages /\ UNCHANGED <<pc, result>>
        BY <4>2 DEF TypeOK
      <4> QED
        BY <3>1, <3>8, <4>1, <4>2
    <3>10. TypeOK'
      BY <3>1, <3>4, <3>5, <3>7, <3>9 DEF TypeOK, service, params
    <3>11. pages'[c] = pages[c] + 1 /\ \A d \in Callers \ {c} : pages'[d] = pages[d]
      BY <3>1 DEF TypeOK
    <3>12. pages[c] + 1 # MaxPages => pages'[c] < MaxPages
      BY <3>6, <3>11
    <3>13. InFlight'
      BY <3>1, <3>9, <3>11, <3>12 DEF InFlight
    <3> QED
      BY <3>10, <3>13
  <2>7. ASSUME NEW c \in Callers, lookup(c) PROVE TypeOK' /\ InFlight'
    BY <2>7 DEF lookup, Goto, TypeOK, InFlight, service, params, paging
  <2>8. ASSUME NEW c \in Callers, delete(c) PROVE TypeOK' /\ InFlight'
    <3>1. target[c] \in live => {target[c]} \in SUBSET Ids
      BY <2>0
    <3>2. \E ids \in SUBSET Ids : Fail(c) \/ Answer(c, ids)
      BY <2>8, <3>1 DEF delete
    <3>3. /\ pc' \in [Callers -> {"idle", "owner", "upsert", "page", "lookup", "delete"}]
          /\ result' \in [Callers -> (SUBSET Ids) \cup {None}]
          /\ pc'[c] = "idle" /\ \A d \in Callers \ {c} : pc'[d] = pc[d] /\ result'[d] = result[d]
      BY <2>a, <3>2
    <3>4. live' \subseteq live /\ inst' = inst /\ steady' \in [Callers -> SUBSET Ids]
          /\ UNCHANGED <<filters, names, params, paging>>
      BY <2>8 DEF delete, TypeOK
    <3>5. TypeOK'
      BY <3>3, <3>4 DEF TypeOK, params, paging
    <3>6. InFlight'
      BY <3>3, <3>4 DEF InFlight, paging
    <3> QED
      BY <3>5, <3>6
  <2>9. ASSUME NEW c \in Callers, fail(c) PROVE TypeOK' /\ InFlight'
    BY <2>9 DEF fail, Fail, Goto, TypeOK, InFlight, service, params, paging
  <2>10. CASE UNCHANGED vars
    BY <2>10 DEF vars, TypeOK, InFlight, service, params, paging
  <2> QED
    BY <2>1, <2>2, <2>3, <2>4, <2>5, <2>6, <2>7, <2>8, <2>9, <2>10 DEF Next
<1> QED
  BY <1>1, <1>2, PTL DEF Spec

-----------------------------------------------------------------------------
\* What a call relies on between its requests.
\*  - a disable that was let through named an instance of its own user, and a
\*    connection that was let through belongs to its caller;
\*  - the rows read so far are instances, of the caller where the service
\*    filters.
CallInv(c) ==
    /\ op[c] = "list" => pc[c] \in {"idle", "page"}
    /\ pc[c] \in {"lookup", "delete"} => op[c] = "disable"
    /\ pc[c] = "upsert" /\ conn[c] # None => Owner[conn[c]] = Entity[c]
    /\ pc[c] = "delete" => target[c] \in Ids /\ inst[target[c]] # None /\ inst[target[c]].owner = Entity[c]
    /\ \A i \in rows[c] : inst[i] # None /\ (filters => inst[i].owner = Entity[c])

\* The instances that were there since a listing began are its own user's, and
\* those behind the cursor have been read.
ListInv(c) ==
    op[c] = "list" =>
        /\ pc[c] = "page" => /\ steady[c] \subseteq Mine(c)
                             /\ \A i \in steady[c] : cursor[c] # None /\ i <= cursor[c] => i \in rows[c]
        /\ pc[c] = "idle" /\ result[c] # None => steady[c] \subseteq result[c]

TriggersInv ==
    /\ EventsStayHome
    /\ \A c \in Callers : CallInv(c) /\ ListInv(c)

\* What an id stands for never changes.
LEMMA InstStays ==
    ASSUME TypeOK, [Next]_vars, NEW i \in Ids, inst[i] # None
    PROVE  inst'[i] = inst[i]
<1>1. ASSUME NEW c \in Callers, NEW j \in Ids, upsert(c, j) PROVE inst'[i] = inst[i]
  <2>1. \/ UNCHANGED service
        \/ inst[j] = None /\ inst' = [inst EXCEPT ![j] = inst'[j]]
    BY <1>1, Upsert DEF upsert
  <2> QED
    BY <2>1 DEF service, TypeOK
<1>2. ASSUME \/ UNCHANGED vars
             \/ \E c \in Callers :
                   \/ \E k \in Conns \cup {None}, f \in Configs \cup {None} : create_trigger(c, k, f)
                   \/ list_triggers(c)
                   \/ \E j \in Ids : disable_trigger(c, j)
                   \/ \E said \in Users \cup {None} : ensure_owned(c, said)
                   \/ \E stuck \in BOOLEAN : list_page(c, stuck)
                   \/ lookup(c) \/ delete(c) \/ fail(c)
      PROVE  inst' = inst
  BY <1>2 DEF vars, create_trigger, list_triggers, disable_trigger, ensure_owned, list_page, lookup,
              delete, fail, Begin, service
<1> QED
  BY <1>1, <1>2 DEF Next

\* The calls of others are not disturbed: at most an instance they count on
\* goes away, and from what they count on.
LEMMA OtherCalls ==
    ASSUME TypeOK, [Next]_vars, NEW d \in Callers, CallInv(d), ListInv(d),
           pc'[d] = pc[d], op'[d] = op[d], conn'[d] = conn[d], target'[d] = target[d],
           rows'[d] = rows[d], cursor'[d] = cursor[d], result'[d] = result[d], filters' = filters,
           \E gone \in SUBSET Ids : live \ gone \subseteq live' /\ steady'[d] = steady[d] \ gone
    PROVE  CallInv(d)' /\ ListInv(d)'
<1>1. rows[d] \subseteq Ids /\ steady[d] \subseteq Ids /\ live \subseteq {i \in Ids : inst[i] # None}
  BY DEF TypeOK
<1>2. \A i \in Ids : inst[i] # None => inst'[i] = inst[i]
  BY InstStays
<1>3. CallInv(d)'
  BY <1>1, <1>2 DEF CallInv
<1>4. Mine(d) \cap live' \subseteq Mine(d)'
  BY <1>1, <1>2 DEF Mine
<1>5. steady'[d] \subseteq steady[d] /\ (steady[d] \subseteq live => steady'[d] \subseteq live')
  OBVIOUS
<1>6. Mine(d) \subseteq live
  BY DEF Mine
<1>7. ListInv(d)'
  BY <1>4, <1>5, <1>6 DEF ListInv
<1> QED
  BY <1>3, <1>7

\* What the calls rely on holds between any two requests.
LEMMA TriggersRight == Spec => []TriggersInv
<1> USE TriggersAssumption
<1>1. Init => TriggersInv
  <2> SUFFICES ASSUME Init PROVE TriggersInv
    OBVIOUS
  <2>1. EventsStayHome
    BY DEF Init, EventsStayHome
  <2>2. ASSUME NEW c \in Callers PROVE CallInv(c) /\ ListInv(c)
    BY DEF Init, CallInv, ListInv
  <2> QED
    BY <2>1, <2>2 DEF TriggersInv
<1>2. TypeOK /\ InFlight /\ TriggersInv /\ [Next]_vars => TriggersInv'
  <2> SUFFICES ASSUME TypeOK, InFlight, TriggersInv, [Next]_vars PROVE TriggersInv'
    OBVIOUS
  <2>0. /\ inst \in [Ids -> Instance \cup {None}] /\ live \subseteq {i \in Ids : inst[i] # None}
        /\ pc \in [Callers -> {"idle", "owner", "upsert", "page", "lookup", "delete"}]
        /\ op \in [Callers -> {"create", "list", "disable"}]
        /\ conn \in [Callers -> Conns \cup {None}] /\ target \in [Callers -> Ids \cup {None}]
        /\ rows \in [Callers -> SUBSET Ids] /\ cursor \in [Callers -> Ids \cup {None}]
        /\ steady \in [Callers -> SUBSET Ids] /\ result \in [Callers -> (SUBSET Ids) \cup {None}]
    BY DEF TypeOK
  <2>1. EventsStayHome /\ \A d \in Callers : CallInv(d) /\ ListInv(d)
    BY DEF TriggersInv
  <2>2. live' \subseteq live => EventsStayHome'
    <3>1. \A i \in live : inst'[i] = inst[i]
      BY <2>0, InstStays
    <3> QED
      BY <2>1, <3>1 DEF EventsStayHome
  \* A step of one call that removes no instance.
  <2>k. ASSUME NEW c \in Callers, CallInv(c)', ListInv(c)', EventsStayHome', filters' = filters,
               live \subseteq live',
               \A d \in Callers \ {c} :
                  /\ pc'[d] = pc[d] /\ op'[d] = op[d] /\ conn'[d] = conn[d] /\ target'[d] = target[d]
                  /\ rows'[d] = rows[d] /\ cursor'[d] = cursor[d] /\ result'[d] = result[d]
                  /\ steady'[d] = steady[d]
        PROVE  TriggersInv'
    <3>1. ASSUME NEW d \in Callers \ {c} PROVE CallInv(d)' /\ ListInv(d)'
      <4>1. {} \in SUBSET Ids /\ live \ {} \subseteq live' /\ steady'[d] = steady[d] \ {}
        BY <2>k
      <4> QED
        BY <2>1, <2>k, <4>1, OtherCalls
    <3> QED
      BY <2>k, <3>1 DEF TriggersInv
  <2>b. ASSUME NEW c \in Callers, NEW o \in {"create", "list", "disable"}, NEW k \in Conns \cup {None},
               NEW f \in Configs \cup {None}, NEW t \in Ids \cup {None},
               NEW s \in {"owner", "upsert", "page", "lookup"}, Begin(c, o, k, f, t, s),
               s = "upsert" => k = None, o = "list" => s = "page", s = "lookup" => o = "disable"
        PROVE  TriggersInv'
    <3>1. /\ pc'[c] = s /\ op'[c] = o /\ conn'[c] = k /\ rows'[c] = {} /\ cursor'[c] = None
          /\ result'[c] = None /\ steady'[c] = Mine(c)
      BY <2>0, <2>b DEF Begin, Goto
    <3>2. inst' = inst /\ live' = live /\ filters' = filters
      BY <2>b DEF Begin, service
    <3>3. CallInv(c)'
      BY <2>b, <3>1 DEF CallInv
    <3>4. Mine(c)' = Mine(c)
      BY <3>2 DEF Mine
    <3>5. ListInv(c)'
      BY <2>b, <3>1, <3>4 DEF ListInv
    <3>6. \A d \in Callers \ {c} :
             /\ pc'[d] = pc[d] /\ op'[d] = op[d] /\ conn'[d] = conn[d] /\ target'[d] = target[d]
             /\ rows'[d] = rows[d] /\ cursor'[d] = cursor[d] /\ result'[d] = result[d]
             /\ steady'[d] = steady[d]
      BY <2>0, <2>b DEF Begin, Goto
    <3> QED
      BY <2>2, <2>k, <3>2, <3>3, <3>5, <3>6
  <2>3. ASSUME NEW c \in Callers, NEW k \in Conns \cup {None}, NEW f \in Configs \cup {None},
               create_trigger(c, k, f)
        PROVE  TriggersInv'
    BY <2>3, <2>b DEF create_trigger
  <2>4. ASSUME NEW c \in Callers, list_triggers(c) PROVE TriggersInv'
    BY <2>4, <2>b DEF list_triggers
  <2>5. ASSUME NEW c \in Callers, NEW i \in Ids, disable_trigger(c, i) PROVE TriggersInv'
    BY <2>5, <2>b DEF disable_trigger
  <2>6. ASSUME NEW c \in Callers, NEW said \in Users \cup {None}, ensure_owned(c, said) PROVE TriggersInv'
    <3>1. /\ pc[c] = "owner" /\ pc'[c] \in {"upsert", "idle"} /\ \A d \in Callers \ {c} : pc'[d] = pc[d]
          /\ pc'[c] = "upsert" => Owner[conn[c]] = Entity[c]
      <4>1. Entity[c] # None
        BY DEF Users
      <4> QED
        BY <2>0, <2>6, <4>1 DEF ensure_owned, Goto
    <3>2. UNCHANGED <<service, filters, names, params, paging, steady, result>>
      BY <2>6 DEF ensure_owned
    <3>3. op[c] # "list"
      BY <2>1, <3>1 DEF CallInv
    <3>4. CallInv(c)'
      BY <2>1, <3>1, <3>2, <3>3 DEF CallInv, service, params, paging
    <3>5. ListInv(c)'
      BY <3>2, <3>3 DEF ListInv, params
    <3> QED
      BY <2>2, <2>k, <3>1, <3>2, <3>4, <3>5 DEF service, params, paging
  <2>7. ASSUME NEW c \in Callers, NEW i \in Ids, upsert(c, i) PROVE TriggersInv'
    <3>1. /\ inst'[i].owner = Entity[c]
          /\ IF conn[c] = None THEN Owner[inst'[i].conn] = Entity[c] ELSE inst'[i].conn = conn[c]
          /\ \/ UNCHANGED service
             \/ live' = live \cup {i}
      BY <2>7, Upsert DEF upsert
    <3>2. live \subseteq live' /\ live' \subseteq live \cup {i}
      BY <3>1 DEF service
    <3>3. /\ pc[c] = "upsert" /\ pc'[c] \in {"idle", "page"}
          /\ \A d \in Callers \ {c} : pc'[d] = pc[d] /\ result'[d] = result[d]
      BY <2>0, <2>7 DEF upsert, Answer, Fail, Goto
    <3>4. Owner[inst'[i].conn] = inst'[i].owner
      BY <2>1, <3>1, <3>3 DEF CallInv
    <3>5. EventsStayHome'
      <4>1. \A j \in live : inst'[j] = inst[j]
        BY <2>0, InstStays
      <4> QED
        BY <2>1, <3>2, <3>4, <4>1 DEF EventsStayHome
    <3>6. UNCHANGED <<filters, names, params, paging, steady>>
      BY <2>7 DEF upsert
    <3>7. op[c] # "list"
      BY <2>1, <3>3 DEF CallInv
    <3>8. \A j \in rows[c] : inst[j] # None /\ inst'[j] = inst[j]
      BY <2>0, <2>1, InstStays DEF CallInv
    <3>9. CallInv(c)'
      BY <2>1, <3>3, <3>6, <3>7, <3>8 DEF CallInv, params, paging
    <3>10. ListInv(c)'
      BY <3>6, <3>7 DEF ListInv, params
    <3> QED
      BY <2>k, <3>2, <3>3, <3>5, <3>6, <3>9, <3>10 DEF params, paging
  <2>8. ASSUME NEW c \in Callers, NEW stuck \in BOOLEAN, list_page(c, stuck) PROVE TriggersInv'
    <3> DEFINE page == PageOf(Left(c), PageSize)
               all == rows[c] \cup page
    <3>1. /\ pc[c] = "page" /\ rows' = [rows EXCEPT ![c] = all]
          /\ UNCHANGED <<service, filters, names, params, steady>>
          /\ \/ page = Left(c) /\ Finish(c, all) /\ cursor' = cursor
             \/ /\ page # Left(c) /\ cursor' = [cursor EXCEPT ![c] = Max(page)]
                /\ Fail(c) \/ UNCHANGED <<pc, result>>
             \/ Fail(c) /\ cursor' = cursor
      BY <2>8, ReadPage
    <3>2. /\ page \subseteq Left(c) /\ page \subseteq Ids
          /\ page # Left(c) => /\ Max(page) \in page
                               /\ \A i \in Left(c) : i <= Max(page) => i \in page
      BY ListedPage
    <3> HIDE DEF page
    <3>3. rows'[c] = all /\ \A d \in Callers \ {c} : rows'[d] = rows[d] /\ cursor'[d] = cursor[d]
      BY <2>0, <3>1
    <3>4. /\ pc'[c] \in {"idle", "page"}
          /\ \A d \in Callers \ {c} : pc'[d] = pc[d] /\ result'[d] = result[d]
      BY <2>0, <3>1 DEF Finish, Answer, Fail, Goto
    <3>5. \A i \in page : i \in live /\ inst[i] # None /\ (filters => inst[i].owner = Entity[c])
      BY <2>0, <3>2 DEF Left
    <3>6. CallInv(c)'
      BY <2>1, <3>1, <3>3, <3>4, <3>5 DEF CallInv, service, params
    <3>7. ASSUME op[c] = "list"
          PROVE  /\ pc'[c] = "page" =>
                       \A i \in steady[c] : cursor'[c] # None /\ i <= cursor'[c] => i \in all
                 /\ pc'[c] = "idle" /\ result'[c] # None => steady[c] \subseteq result'[c]
      <4>1. /\ steady[c] \subseteq Mine(c) /\ result[c] = None
            /\ \A i \in steady[c] : cursor[c] # None /\ i <= cursor[c] => i \in rows[c]
        BY <2>1, <3>1, <3>7 DEF ListInv, InFlight
      <4>2. ASSUME NEW i \in steady[c] PROVE i \in rows[c] \/ i \in Left(c)
        <5>1. i \in Mine(c) /\ i \in Nat
          BY <2>0, <4>1 DEF Ids
        <5>2. i \in live /\ inst[i].owner = Entity[c]
          BY <5>1 DEF Mine
        <5>3. CASE cursor[c] # None /\ i <= cursor[c]
          BY <4>1, <5>3
        <5>4. CASE ~(cursor[c] # None /\ i <= cursor[c])
          <6>1. cursor[c] # None => cursor[c] \in Nat
            BY <2>0 DEF Ids
          <6>2. cursor[c] # None => i > cursor[c]
            BY <5>1, <5>4, <6>1
          <6> QED
            BY <5>2, <6>2 DEF Left
        <5> QED
          BY <5>3, <5>4
      <4>3. CASE page = Left(c) /\ Finish(c, all) /\ cursor' = cursor
        <5>1. Answer(c, {i \in all : owned_by(i, Entity[c])})
          BY <3>7, <4>3 DEF Finish
        <5>2. pc'[c] = "idle" /\ result'[c] = {i \in all : owned_by(i, Entity[c])}
          BY <2>0, <5>1 DEF Answer, Goto
        <5>3. \A i \in steady[c] : i \in all /\ owned_by(i, Entity[c])
          BY <4>1, <4>2, <4>3 DEF Mine, owned_by
        <5> QED
          BY <5>2, <5>3
      <4>4. CASE Fail(c)
        <5>1. pc'[c] = "idle" /\ result'[c] = None
          BY <2>0, <4>1, <4>4 DEF Fail, Goto
        <5> QED
          BY <5>1
      <4>5. CASE page # Left(c) /\ cursor' = [cursor EXCEPT ![c] = Max(page)] /\ UNCHANGED <<pc, result>>
        <5>1. cursor'[c] = Max(page) /\ pc'[c] = "page"
          BY <2>0, <3>1, <4>5
        <5>2. \A i \in steady[c] : i <= Max(page) => i \in all
          BY <3>2, <4>2, <4>5
        <5> QED
          BY <5>1, <5>2
      <4> QED
        BY <3>1, <4>3, <4>4, <4>5
    <3>8. ListInv(c)'
      <4>1. Mine(c)' = Mine(c)
        BY <3>1 DEF Mine, service
      <4>2. steady' = steady /\ op' = op
        BY <3>1 DEF params
      <4>3. op[c] = "list" => steady[c] \subseteq Mine(c)
        BY <2>1, <3>1 DEF ListInv
      <4> QED
        BY <3>3, <3>7, <4>1, <4>2, <4>3 DEF ListInv
    <3> QED
      BY <2>2, <2>k, <3>1, <3>3, <3>4, <3>6, <3>8 DEF service, params
  <2>9. ASSUME NEW c \in Callers, lookup(c) PROVE TriggersInv'
    <3>1. /\ pc[c] = "lookup" /\ pc'[c] \in {"delete", "idle"} /\ \A d \in Callers \ {c} : pc'[d] = pc[d]
          /\ pc'[c] = "delete" => target[c] \in live /\ inst[target[c]].owner = Entity[c]
      BY <2>0, <2>9 DEF lookup, Goto, names_owner
    <3>2. UNCHANGED <<service, filters, names, params, paging, steady, result>>
      BY <2>9 DEF lookup
    <3>3. op[c] = "disable"
      BY <2>1, <3>1 DEF CallInv
    <3>4. CallInv(c)'
      BY <2>0, <2>1, <3>1, <3>2, <3>3 DEF CallInv, service, params, paging
    <3>5. ListInv(c)'
      BY <3>2, <3>3 DEF ListInv, params
    <3> QED
      BY <2>2, <2>k, <3>1, <3>2, <3>4, <3>5 DEF service, params, paging
  <2>10. ASSUME NEW c \in Callers, delete(c) PROVE TriggersInv'
    <3>1. /\ pc[c] = "delete" /\ pc'[c] = "idle"
          /\ \A d \in Callers \ {c} : pc'[d] = pc[d] /\ result'[d] = result[d]
      BY <2>0, <2>10 DEF delete, Answer, Fail, Goto
    <3>2. op[c] = "disable" /\ target[c] \in Ids
      BY <2>1, <3>1 DEF CallInv
    <3>3. /\ live' = live \ {target[c]} /\ steady' = [d \in Callers |-> steady[d] \ {target[c]}]
          /\ UNCHANGED <<inst, filters, names, params, paging>>
      BY <2>10 DEF delete
    <3>4. CallInv(c)'
      BY <2>1, <3>1, <3>2, <3>3 DEF CallInv, params, paging
    <3>5. ListInv(c)'
      BY <3>2, <3>3 DEF ListInv, params
    <3>6. ASSUME NEW d \in Callers \ {c} PROVE CallInv(d)' /\ ListInv(d)'
      <4>1. {target[c]} \in SUBSET Ids /\ live \ {target[c]} \subseteq live'
            /\ steady'[d] = steady[d] \ {target[c]}
        BY <3>2, <3>3
      <4>2. CallInv(d) /\ ListInv(d)
        BY <2>1
      <4> QED
        BY <3>1, <3>3, <4>1, <4>2, OtherCalls DEF params, paging
    <3> QED
      BY <2>2, <3>3, <3>4, <3>5, <3>6 DEF TriggersInv
  <2>11. ASSUME NEW c \in Callers, fail(c) PROVE TriggersInv'
    <3>1. /\ pc[c] # "idle" /\ pc'[c] = "idle" /\ result' = result /\ result[c] = None
          /\ \A d \in Callers \ {c} : pc'[d] = pc[d]
      BY <2>0, <2>11 DEF fail, Fail, Goto, InFlight
    <3>2. UNCHANGED <<service, filters, names, params, paging, steady>>
      BY <2>11 DEF fail
    <3>3. CallInv(c)'
      BY <2>1, <3>1, <3>2 DEF CallInv, service, params, paging
    <3>4. ListInv(c)'
      BY <3>1, <3>2 DEF ListInv
    <3> QED
      BY <2>2, <2>k, <3>1, <3>2, <3>3, <3>4 DEF service, params, paging
  <2>12. CASE UNCHANGED vars
    BY <2>12 DEF vars, service, params, paging, TriggersInv, EventsStayHome, CallInv, ListInv, Mine
  <2> QED
    BY <2>3, <2>4, <2>5, <2>6, <2>7, <2>8, <2>9, <2>10, <2>11, <2>12 DEF Next
<1> QED
  BY <1>1, <1>2, TypeCorrect, PTL DEF Spec

\* Every subscription routes the events of an account of its own user.
THEOREM OwnEventsOnly == Spec => []EventsStayHome
<1>1. TriggersInv => EventsStayHome
  BY DEF TriggersInv
<1> QED
  BY <1>1, TriggersRight, PTL

\* A listing that answers has every subscription of its user that was there
\* from its beginning to its end, however many pages it took.
THEOREM CompleteListing == Spec => []ListingIsComplete
<1>1. TriggersInv => ListingIsComplete
  BY DEF TriggersInv, ListInv, ListingIsComplete
<1> QED
  BY <1>1, TriggersRight, PTL

\* An instance goes away only in a disable of its own user.
THEOREM OwnerDisables == Spec => OnlyOwnerDisables
<1> DEFINE Disabled == \A i \in live \ live' :
                          \E c \in Callers : pc[c] = "delete" /\ target[c] = i /\ Entity[c] = inst[i].owner
<1>1. TypeOK /\ TriggersInv /\ [Next]_vars => Disabled
  <2> SUFFICES ASSUME TypeOK, TriggersInv, [Next]_vars, NEW i \in live, i \notin live'
               PROVE  \E c \in Callers : pc[c] = "delete" /\ target[c] = i /\ Entity[c] = inst[i].owner
    OBVIOUS
  <2>1. ASSUME NEW c \in Callers, delete(c)
        PROVE  pc[c] = "delete" /\ target[c] = i /\ Entity[c] = inst[i].owner
    BY <2>1 DEF delete, TriggersInv, CallInv
  <2>2. ASSUME NEW c \in Callers, NEW j \in Ids, upsert(c, j) PROVE FALSE
    <3>1. UNCHANGED service \/ live' = live \cup {j}
      BY <2>2, Upsert DEF upsert
    <3> QED
      BY <3>1 DEF service
  <2>3. ASSUME \/ UNCHANGED vars
               \/ \E c \in Callers :
                     \/ \E k \in Conns \cup {None}, f \in Configs \cup {None} : create_trigger(c, k, f)
                     \/ list_triggers(c)
                     \/ \E j \in Ids : disable_trigger(c, j)
                     \/ \E said \in Users \cup {None} : ensure_owned(c, said)
                     \/ \E stuck \in BOOLEAN : list_page(c, stuck)
                     \/ lookup(c) \/ fail(c)
        PROVE FALSE
    BY <2>3 DEF vars, create_trigger, list_triggers, disable_trigger, ensure_owned, list_page, lookup,
                fail, Begin, service
  <2> QED
    BY <2>1, <2>2, <2>3 DEF Next
<1>2. OnlyOwnerDisables <=> [][Disabled]_vars
  BY DEF OnlyOwnerDisables
<1> HIDE DEF Disabled
<1> QED
  BY <1>1, <1>2, TypeCorrect, TriggersRight, PTL DEF Spec

\* The id a create answers with is of an instance of what was asked for.
THEOREM RightInstance == Spec => AnswersTheRightInstance
<1> USE TriggersAssumption
<1> DEFINE Right == \A c \in Callers : (op[c] = "create" /\ result[c] = None /\ result'[c] # None) =>
                       \E i \in Ids :
                          /\ result'[c] = {i}
                          /\ (filters \/ names) => inst'[i].owner = Entity[c]
                          /\ conn[c] \in {None, inst'[i].conn}
                          /\ config[c] \in {None, inst'[i].config}
<1>1. TypeOK /\ InFlight /\ TriggersInv /\ [Next]_vars => Right
  <2> SUFFICES ASSUME TypeOK, InFlight, TriggersInv, [Next]_vars,
                      NEW c \in Callers, op[c] = "create", result[c] = None, result'[c] # None
               PROVE  \E i \in Ids :
                          /\ result'[c] = {i}
                          /\ (filters \/ names) => inst'[i].owner = Entity[c]
                          /\ conn[c] \in {None, inst'[i].conn}
                          /\ config[c] \in {None, inst'[i].config}
    OBVIOUS
  <2>0. result \in [Callers -> (SUBSET Ids) \cup {None}] /\ CallInv(c)
    BY DEF TypeOK, TriggersInv
  <2>1. ASSUME NEW d \in Callers, NEW i \in Ids, upsert(d, i)
        PROVE  /\ result'[c] = {i} /\ inst'[i].owner = Entity[c]
               /\ conn[c] \in {None, inst'[i].conn} /\ config[c] \in {None, inst'[i].config}
    <3>1. d = c /\ result'[c] = {i}
      BY <2>0, <2>1 DEF upsert, Answer, Fail
    <3>2. /\ inst'[i].owner = Entity[c] /\ inst'[i].config = config[c]
          /\ IF conn[c] = None THEN Owner[inst'[i].conn] = Entity[c] ELSE inst'[i].conn = conn[c]
      BY <2>1, <3>1, Upsert DEF upsert
    <3> QED
      BY <3>1, <3>2
  <2>2. ASSUME NEW d \in Callers, NEW stuck \in BOOLEAN, list_page(d, stuck)
        PROVE  \E i \in Ids :
                  /\ result'[c] = {i}
                  /\ (filters \/ names) => inst'[i].owner = Entity[c]
                  /\ conn[c] \in {None, inst'[i].conn}
                  /\ config[c] \in {None, inst'[i].config}
    <3> DEFINE page == PageOf(Left(d), PageSize)
               all == rows[d] \cup page
    <3>1. /\ UNCHANGED <<service, filters, names, params, steady>>
          /\ \/ page = Left(d) /\ Finish(d, all)
             \/ Fail(d) \/ UNCHANGED <<pc, result>>
      BY <2>2, ReadPage
    <3>2. page \subseteq Left(d) /\ page \subseteq Ids
      BY ListedPage
    <3> HIDE DEF page
    <3>3. Finish(d, all) /\ d = c
      BY <2>0, <3>1 DEF Fail, Finish, Answer
    <3>4. Cardinality(Matches(c, all)) = 1 /\ result'[c] = Matches(c, all)
      BY <2>0, <3>3 DEF Finish, Answer, Fail
    <3>5. IsFiniteSet(Matches(c, all)) /\ Matches(c, all) \subseteq Ids
      <4>1. Matches(c, all) \subseteq Ids
        <5>1. rows[c] \subseteq Ids /\ all \subseteq Ids
          BY <3>2, <3>3 DEF TypeOK
        <5> QED
          BY <5>1 DEF Matches
      <4> QED
        BY <4>1, IdsFinite, FS_Subset
    <3>6. PICK i : Matches(c, all) = {i}
      BY <3>4, <3>5, FS_Singleton
    <3>7. /\ i \in all /\ i \in Ids /\ owned_by(i, Entity[c])
          /\ conn[c] \in {None, inst[i].conn} /\ config[c] \in {None, inst[i].config}
      BY <3>5, <3>6 DEF Matches
    <3>8. filters => inst[i].owner = Entity[c]
      BY <2>0, <3>2, <3>3, <3>7 DEF CallInv, Left
    <3>9. (filters \/ names) => inst[i].owner = Entity[c]
      BY <3>7, <3>8 DEF owned_by
    <3>10. inst' = inst
      BY <3>1 DEF service
    <3> QED
      BY <3>4, <3>6, <3>7, <3>9, <3>10
  <2>3. ASSUME NEW d \in Callers, delete(d) PROVE FALSE
    <3>1. d # c
      BY <2>0, <2>3 DEF delete, CallInv
    <3> QED
      BY <2>0, <2>3, <3>1 DEF delete, Answer, Fail
  <2>4. ASSUME NEW d \in Callers, NEW o, NEW k, NEW f, NEW t, NEW s, Begin(d, o, k, f, t, s) PROVE FALSE
    BY <2>0, <2>4 DEF Begin
  <2>5. ASSUME \/ UNCHANGED vars
               \/ \E d \in Callers : \/ \E said \in Users \cup {None} : ensure_owned(d, said)
                                     \/ lookup(d) \/ fail(d)
        PROVE FALSE
    BY <2>5 DEF vars, ensure_owned, lookup, fail, Fail
  <2> QED
    BY <2>1, <2>2, <2>3, <2>4, <2>5 DEF Next, create_trigger, list_triggers, disable_trigger
<1>2. AnswersTheRightInstance <=> [][Right]_vars
  BY DEF AnswersTheRightInstance
<1> HIDE DEF Right
<1> QED
  BY <1>1, <1>2, TypeCorrect, TriggersRight, PTL DEF Spec

=============================================================================
