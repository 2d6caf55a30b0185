--------------------------- MODULE DirectTriggers ---------------------------
(***************************************************************************)
(* Trigger subscriptions on the direct route, where one Composio key holds *)
(* many users: creating, enabling, listing and disabling a subscription    *)
(* are several requests each, and calls of different users interleave      *)
(* (crates/tinyconnectors/src/client/route/direct.rs and                   *)
(* crates/tinyconnectors/src/client/route/direct_triggers.rs).             *)
(*                                                                         *)
(* The instances live at Composio, under ids that are never reused.  What  *)
(* a listing leaves out or drops is not to be relied on: it may ignore     *)
(* user_ids, its rows may name no user, an upsert may answer without the   *)
(* id, and a cursor may not advance.  One slug stands for all; requests    *)
(* for different slugs never match each other's rows.                      *)
(* The route is built with_webhooks: without, every member refuses at once *)
(* (require_webhooks).                                                     *)
(***************************************************************************)
EXTENDS Integers, FiniteSets, FiniteSetsExt

CONSTANTS
    Callers,    \* calls in flight
    Entity,     \* caller -> the entity_id of its route
    Owner,      \* connection -> the user it belongs to
    Configs,    \* trigger configurations
    None,       \* a parameter left out, no instance, no cursor
    PageSize,   \* rows to a page
    MaxPages,   \* MAX_PAGES
    MaxIds      \* bound: instances ever made

Users == {Entity[c] : c \in Callers}
Conns == DOMAIN Owner
Ids == 1..MaxIds

Instance == [owner : Users, conn : Conns, config : Configs \cup {None}]

ASSUME TriggersAssumption ==
    /\ DOMAIN Entity = Callers
    /\ None \notin Conns \cup Configs \cup Users \cup Ids \cup Instance
    /\ PageSize \in Nat \ {0} /\ MaxPages \in Nat \ {0} /\ MaxIds \in Nat

VARIABLES
    inst,       \* what each id stands for at Composio, None if not yet given
    live,       \* the instances that are there
    filters,    \* listings honour user_ids
    names,      \* rows carry user_id
    pc, op,     \* each call's step and member
    conn, config,   \* the parameters of a create, the id of a disable in `target`
    target,
    rows, cursor, pages,    \* list_pages: ids read, next cursor, pages read
    steady,     \* history: own instances that were there since the listing began
    result      \* the ids a call answered with; None while it has not, or failed

service == <<inst, live>>
params == <<op, conn, config, target>>
paging == <<rows, cursor, pages>>
vars == <<service, filters, names, pc, params, paging, steady, result>>

TypeOK ==
    /\ inst \in [Ids -> Instance \cup {None}]
    /\ live \subseteq {i \in Ids : inst[i] # None}
    /\ filters \in BOOLEAN /\ names \in BOOLEAN
    /\ pc \in [Callers -> {"idle", "owner", "upsert", "page", "lookup", "delete"}]
    /\ op \in [Callers -> {"create", "list", "disable"}]
    /\ conn \in [Callers -> Conns \cup {None}]
    /\ config \in [Callers -> Configs \cup {None}]
    /\ target \in [Callers -> Ids \cup {None}]
    /\ rows \in [Callers -> SUBSET Ids]
    /\ cursor \in [Callers -> Ids \cup {None}]
    /\ pages \in [Callers -> 0..MaxPages]
    /\ steady \in [Callers -> SUBSET Ids]
    /\ result \in [Callers -> (SUBSET Ids) \cup {None}]

Goto(c, s) == pc' = [pc EXCEPT ![c] = s]

Mine(c) == {i \in live : inst[i].owner = Entity[c]}

\* What a row says of its owner is what the service chooses to show.
owned_by(i, user) == ~names \/ inst[i].owner = user

Mut_names_owner_trusts_filter(i, user) == owned_by(i, user)

names_owner(i, user) == names /\ inst[i].owner = user

-----------------------------------------------------------------------------
Init ==
    /\ inst = [i \in Ids |-> None]
    /\ live = {}
    /\ filters \in BOOLEAN
    /\ names \in BOOLEAN
    /\ pc = [c \in Callers |-> "idle"]
    /\ op = [c \in Callers |-> "list"]
    /\ conn = [c \in Callers |-> None]
    /\ config = [c \in Callers |-> None]
    /\ target = [c \in Callers |-> None]
    /\ rows = [c \in Callers |-> {}]
    /\ cursor = [c \in Callers |-> None]
    /\ pages = [c \in Callers |-> 0]
    /\ steady = [c \in Callers |-> {}]
    /\ result = [c \in Callers |-> None]

Begin(c, o, k, f, t, s) ==
    /\ pc[c] = "idle"
    /\ Goto(c, s)
    /\ op' = [op EXCEPT ![c] = o]
    /\ conn' = [conn EXCEPT ![c] = k]
    /\ config' = [config EXCEPT ![c] = f]
    /\ target' = [target EXCEPT ![c] = t]
    /\ rows' = [rows EXCEPT ![c] = {}]
    /\ cursor' = [cursor EXCEPT ![c] = None]
    /\ pages' = [pages EXCEPT ![c] = 0]
    /\ steady' = [steady EXCEPT ![c] = Mine(c)]
    /\ result' = [result EXCEPT ![c] = None]
    /\ UNCHANGED <<service, filters, names>>

\* create_trigger, and enable_trigger when a connection is given.
create_trigger(c, k, f) == Begin(c, "create", k, f, None, IF k = None THEN "upsert" ELSE "owner")

list_triggers(c) == Begin(c, "list", None, None, None, "page")

disable_trigger(c, i) == inst[i] # None /\ Begin(c, "disable", None, None, i, "lookup")

Fail(c) ==
    /\ Goto(c, "idle")
    /\ UNCHANGED result

Answer(c, ids) ==
    /\ Goto(c, "idle")
    /\ result' = [result EXCEPT ![c] = ids]

\* account_owner's fallback of execute: a lookup that fails is let through.
Mut_ensure_owned_fails_open(c, said) ==
    /\ pc[c] = "owner"
    /\ IF said \in {Entity[c], None} THEN Goto(c, "upsert") ELSE Goto(c, "idle")
    /\ UNCHANGED <<service, filters, names, params, paging, steady, result>>

\* ensure_owned: the account's owner as looked up, None for a lookup that
\* failed or named nobody.
ensure_owned(c, said) ==
    /\ pc[c] = "owner"
    /\ said \in {Owner[conn[c]], None}
    /\ IF said = Entity[c] THEN Goto(c, "upsert") ELSE Goto(c, "idle")
    /\ UNCHANGED <<service, filters, names, params, paging, steady, result>>

\* External: the instance of this user, account and configuration, made if
\* it is not there.  Composio does not check the account's owner, and picks
\* one of the user's own accounts when none is given.
Upserted(c, i) ==
    \E k \in IF conn[c] = None THEN {k \in Conns : Owner[k] = Entity[c]} ELSE {conn[c]} :
        LET new == [owner |-> Entity[c], conn |-> k, config |-> config[c]] IN
        \/ i \in live /\ inst[i] = new /\ UNCHANGED service
        \/ /\ \A j \in live : inst[j] # new
           /\ {j \in Ids : inst[j] # None} = 1..(i - 1)
           /\ live' = live \cup {i}
           /\ inst' = [inst EXCEPT ![i] = new]

\* upsert: the reply carries the id, or the instance has to be found; or the
\* reply is lost.
upsert(c, i) ==
    /\ pc[c] = "upsert"
    /\ Upserted(c, i)
    /\ \/ Answer(c, {i})
       \/ Goto(c, "page") /\ UNCHANGED result
       \/ Fail(c)
    /\ UNCHANGED <<filters, names, params, paging, steady>>

\* What find_active_trigger makes of the rows: the only match, or nothing.
Matches(c, ids) ==
    {i \in ids : /\ owned_by(i, Entity[c])
                 /\ conn[c] \in {None, inst[i].conn}
                 /\ config[c] \in {None, inst[i].config}}

Mut_Finish_first_match(c, ids) ==
    IF op[c] = "list" THEN Answer(c, {i \in ids : owned_by(i, Entity[c])})
    ELSE IF ids = {} THEN Fail(c) ELSE Answer(c, {Min(ids)})

\* The last page: the rows are filtered, or searched.
Finish(c, ids) ==
    IF op[c] = "list" THEN Answer(c, {i \in ids : owned_by(i, Entity[c])})
    ELSE IF Cardinality(Matches(c, ids)) = 1 THEN Answer(c, Matches(c, ids)) ELSE Fail(c)

Left(c) ==
    {i \in live : /\ filters => inst[i].owner = Entity[c]
                  /\ cursor[c] # None => i > cursor[c]}

\* A listing that cannot be completed is cut short.
Mut_Incomplete_is_partial(c, ids) == Finish(c, ids)

\* Error::ListingIncomplete.
Incomplete(c, ids) == Fail(c)

\* list_pages: one page.  The cursor may be the same again.
list_page(c, stuck) ==
    LET page == {i \in Left(c) : Cardinality({j \in Left(c) : j < i}) < PageSize}
        all  == rows[c] \cup page
    IN
    /\ pc[c] = "page"
    /\ stuck => cursor[c] # None
    /\ rows' = [rows EXCEPT ![c] = all]
    /\ pages' = [pages EXCEPT ![c] = @ + 1]
    /\ \/ /\ page = Left(c) /\ ~stuck
          /\ Finish(c, all)
          /\ UNCHANGED cursor
       \/ /\ page # Left(c) /\ ~stuck
          /\ cursor' = [cursor EXCEPT ![c] = Max(page)]
          /\ IF pages[c] + 1 = MaxPages THEN Incomplete(c, all) ELSE UNCHANGED <<pc, result>>
       \/ /\ stuck
          /\ Incomplete(c, all)
          /\ UNCHANGED cursor
    /\ UNCHANGED <<service, filters, names, params, steady>>

\* disable_trigger's lookup, which needs the owner on the row.
lookup(c) ==
    LET i == target[c] IN
    /\ pc[c] = "lookup"
    /\ IF i \in live /\ names_owner(i, Entity[c]) THEN Goto(c, "delete") ELSE Goto(c, "idle")
    /\ UNCHANGED <<service, filters, names, params, paging, steady, result>>

\* disable_trigger's delete.  Deleting what is gone fails.
delete(c) ==
    LET i == target[c] IN
    /\ pc[c] = "delete"
    /\ IF i \in live THEN Answer(c, {i}) ELSE Fail(c)
    /\ live' = live \ {i}
    /\ steady' = [d \in Callers |-> steady[d] \ {i}]
    /\ UNCHANGED <<inst, filters, names, params, paging>>

\* A request fails.
fail(c) ==
    /\ pc[c] # "idle"
    /\ Fail(c)
    /\ UNCHANGED <<service, filters, names, params, paging, steady>>

Next ==
    \E c \in Callers :
        \/ \E k \in Conns \cup {None}, f \in Configs \cup {None} : create_trigger(c, k, f)
        \/ list_triggers(c)
        \/ \E i \in Ids : disable_trigger(c, i)
        \/ \E said \in Users \cup {None} : ensure_owned(c, said)
        \/ \E i \in Ids : upsert(c, i)
        \/ \E stuck \in BOOLEAN : list_page(c, stuck)
        \/ lookup(c)
        \/ delete(c)
        \/ fail(c)

Spec == Init /\ [][Next]_vars

-----------------------------------------------------------------------------
\* A subscription only ever routes the events of the subscriber's own account,
\* although nobody but ensure_owned checks.
EventsStayHome == \A i \in live : Owner[inst[i].conn] = inst[i].owner

\* An instance disappears only in a disable by its own user, whatever the
\* listing left out or showed, and however long after the lookup.
OnlyOwnerDisables ==
    [][\A i \in live \ live' :
          \E c \in Callers : pc[c] = "delete" /\ target[c] = i /\ Entity[c] = inst[i].owner]_vars

\* A listing that answers has every subscription of its user that was there
\* all along: rows made and removed under the pages, a cursor that sticks and
\* the page limit never make a live one look deleted.
ListingIsComplete ==
    \A c \in Callers : (op[c] = "list" /\ pc[c] = "idle" /\ result[c] # None) => steady[c] \subseteq result[c]

\* The id a create answers with, even one it had to look for, is of an instance
\* of the account and configuration asked for, and of this user unless the
\* service hides both.
AnswersTheRightInstance ==
    [][\A c \in Callers : (op[c] = "create" /\ result[c] = None /\ result'[c] # None) =>
          \E i \in Ids :
             /\ result'[c] = {i}
             /\ (filters \/ names) => inst'[i].owner = Entity[c]
             /\ conn[c] \in {None, inst'[i].conn}
             /\ config[c] \in {None, inst'[i].config}]_vars

=============================================================================
