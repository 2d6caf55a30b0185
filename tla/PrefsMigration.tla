--------------------------- MODULE PrefsMigration ---------------------------
(***************************************************************************)
(* The preference step of the storage migration, run by every module       *)
(* instance that opens the host's storage                                  *)
(* (crates/tinyconnectors/src/state/migration.rs and                       *)
(* crates/tinyconnectors/src/tinybus_module/storage.rs).                   *)
(*                                                                         *)
(* An opener is one module instance; StorageLink's slot lets one open run  *)
(* at a time in it.  Each storage call is one step on the host's store, so *)
(* openers, a user of an instance already open and an older module that    *)
(* still writes the legacy collection all interleave between calls.  Any   *)
(* call may fail and any instance may stop: both leave the slot empty and  *)
(* the next use starts over.                                               *)
(*                                                                         *)
(* A row is its body and expiry together, the two things compared.         *)
(***************************************************************************)
EXTENDS Integers, FiniteSets, FiniteSetsExt

CONSTANTS
    Openers,    \* module instances over one storage scope
    Keys,       \* ids of the legacy collection, in query order: a finite set of naturals
    Ids,        \* ids of the current collection
    legacy_key, \* legacy id -> the id it is encoded as, or None where that is no key
    Bodies,     \* encoded preference bodies with their expiry
    None,       \* no row, no cursor, no key
    PageSize,   \* PAGE_SIZE
    MaxLegacy,  \* bound: writes of an older module
    MaxSets,    \* bound: preferences set through an open instance
    MaxFaults   \* bound: failed calls and stopped instances

\* A row of the current collection.  `by` is history: who wrote it.
Row == [body : Bodies, version : Nat, by : {"migration", "user"}]

\* The legacy ids that can be encoded.
Keyed == {k \in Keys : legacy_key[k] # None}

\* The escapes and the hash tell two legacy ids apart.
ASSUME PrefsAssumption ==
    /\ IsFiniteSet(Keys) /\ Keys \subseteq Nat
    /\ None \notin Keys \cup Ids \cup Bodies \cup Row
    /\ legacy_key \in [Keys -> Ids \cup {None}]
    /\ \A j, k \in Keyed : legacy_key[j] = legacy_key[k] => j = k
    /\ PageSize \in Nat \ {0}
    /\ MaxLegacy \in Nat /\ MaxSets \in Nat /\ MaxFaults \in Nat

VARIABLES
    legacy,     \* LEGACY_PREFS_NAMESPACE: key -> body or None
    target,     \* PREFS_NAMESPACE: id -> row or None
    versions,   \* external: writes so far per id, the store's next version
    done,       \* the PREFS_STEP marker
    pc,         \* where each opener is
    rows,       \* the rows of its page not migrated yet: key -> body
    more,       \* the page's cursor: the last key read, or None at the end
    tver,       \* target_version
    latest,     \* the legacy row as last re-read
    late,       \* history: keys an older module wrote when no opener held their copy
    drained,    \* the host stopped older modules first, as it must
    budget      \* what is left of the three bounds

vars == <<legacy, target, versions, done, pc, rows, more, tver, latest, late, drained, budget>>
stores == <<legacy, target, versions, done>>
locals == <<rows, more, tver, latest>>
host == <<late, drained>>

States == {"closed", "query", "put", "inspect", "reread", "delete", "update", "mark", "open"}

\* What is left of a page: some keys, each with its body.
Page == UNION {[ks -> Bodies] : ks \in SUBSET Keys}

TypeOK ==
    /\ legacy \in [Keys -> Bodies \cup {None}]
    /\ target \in [Ids -> Row \cup {None}]
    /\ versions \in [Ids -> Nat]
    /\ done \in BOOLEAN
    /\ pc \in [Openers -> States]
    /\ rows \in [Openers -> Page]
    /\ more \in [Openers -> Keys \cup {None}]
    /\ tver \in [Openers -> Nat]
    /\ latest \in [Openers -> Bodies \cup {None}]
    /\ late \subseteq Keys
    /\ drained \in BOOLEAN
    /\ budget \in [{"legacy", "set", "fault"} -> Nat]

NoRows == [k \in {} |-> None]

Spend(what) ==
    /\ budget[what] > 0
    /\ budget' = [budget EXCEPT ![what] = @ - 1]

-----------------------------------------------------------------------------
\* External: the document store's write of one row.
Write(i, body, by) ==
    /\ target' = [target EXCEPT ![i] = [body |-> body, version |-> versions[i] + 1, by |-> by]]
    /\ versions' = [versions EXCEPT ![i] = @ + 1]

\* External: Precondition::Version(v) holds of the row.
Unmoved(i, v) == target[i] # None /\ target[i].version = v

Goto(o, s) == pc' = [pc EXCEPT ![o] = s]

\* The row the opener is at: rows of a page are migrated in order.
Current(o) == Min(DOMAIN rows[o])

\* The id its copy has.
Id(o) == legacy_key[Current(o)]

\* Some opener wrote or adopted the target row and has yet to re-read its source.
Held(k) ==
    \E o \in Openers : pc[o] \in {"reread", "delete", "update"} /\ Current(o) = k /\ Unmoved(Id(o), tver[o])

\* The row is settled: on to the next one of the page, the next page, or the
\* marker when the scan is over.
NextRow(o) ==
    LET left == DOMAIN rows[o] \ {Current(o)} IN
    /\ rows' = [rows EXCEPT ![o] = [k \in left |-> rows[o][k]]]
    /\ Goto(o, IF left # {} THEN "put" ELSE IF more[o] # None THEN "query" ELSE "mark")
    /\ tver' = [tver EXCEPT ![o] = 0]
    /\ latest' = [latest EXCEPT ![o] = None]
    /\ UNCHANGED more

Reset(o) ==
    /\ rows' = [rows EXCEPT ![o] = NoRows]
    /\ more' = [more EXCEPT ![o] = None]
    /\ tver' = [tver EXCEPT ![o] = 0]
    /\ latest' = [latest EXCEPT ![o] = None]

-----------------------------------------------------------------------------
Init ==
    /\ legacy \in [Keys -> Bodies \cup {None}]
    /\ target \in [Ids -> {None} \cup [body : Bodies, version : {0}, by : {"user"}]]
    /\ versions = [i \in Ids |-> 0]
    /\ done = FALSE
    /\ pc = [o \in Openers |-> "closed"]
    /\ rows = [o \in Openers |-> NoRows]
    /\ more = [o \in Openers |-> None]
    /\ tver = [o \in Openers |-> 0]
    /\ latest = [o \in Openers |-> None]
    /\ late = {}
    /\ drained \in BOOLEAN
    /\ budget = [legacy |-> MaxLegacy, set |-> MaxSets, fault |-> MaxFaults]

\* scoped, then prepare: the marker says whether the step is needed.
prepare(o) ==
    /\ pc[o] = "closed"
    /\ Goto(o, IF done THEN "open" ELSE "query")
    /\ UNCHANGED <<stores, locals, host, budget>>

\* The cursor is dropped: only the first page is migrated.
Mut_query_first_page(o) ==
    LET from == {k \in Keys : legacy[k] # None}
        page == {k \in from : Cardinality({j \in from : j < k}) < PageSize}
    IN
    /\ pc[o] = "query"
    /\ rows' = [rows EXCEPT ![o] = [k \in page |-> legacy[k]]]
    /\ Goto(o, IF page = {} THEN "mark" ELSE "put")
    /\ UNCHANGED <<stores, more, tver, latest, host, budget>>

\* migrate_preferences: one page of the legacy collection after the cursor.
\* An empty page ends the scan, and so does a page without a cursor.
query(o) ==
    LET from  == {k \in Keys : legacy[k] # None /\ (more[o] # None => k > more[o])}
        page  == {k \in from : Cardinality({j \in from : j < k}) < PageSize}
        last  == page # {} /\ page # from
    IN
    /\ pc[o] = "query"
    /\ rows' = [rows EXCEPT ![o] = [k \in page |-> legacy[k]]]
    /\ more' = [more EXCEPT ![o] = IF last THEN Max(page) ELSE None]
    /\ Goto(o, IF page = {} THEN "mark" ELSE "put")
    /\ UNCHANGED <<stores, tver, latest, host, budget>>

\* legacy_key: an id that cannot be encoded is an error, and the open fails.
unaddressed(o) ==
    /\ pc[o] = "put"
    /\ Id(o) = None
    /\ Reset(o)
    /\ Goto(o, "closed")
    /\ UNCHANGED <<stores, host, budget>>

\* The copy is put with no precondition.
Mut_put_overwrites(o) ==
    /\ pc[o] = "put"
    /\ Id(o) # None
    /\ Write(Id(o), rows[o][Current(o)], "migration")
    /\ tver' = [tver EXCEPT ![o] = versions[Id(o)] + 1]
    /\ Goto(o, "reread")
    /\ UNCHANGED <<legacy, done, rows, more, latest, host, budget>>

\* put_preference with Precondition::Absent: the target is free.
put_absent(o) ==
    /\ pc[o] = "put"
    /\ Id(o) # None
    /\ target[Id(o)] = None
    /\ Write(Id(o), rows[o][Current(o)], "migration")
    /\ tver' = [tver EXCEPT ![o] = versions[Id(o)] + 1]
    /\ Goto(o, "reread")
    /\ UNCHANGED <<legacy, done, rows, more, latest, host, budget>>

\* put_preference with Precondition::Absent: Conflict.
put_conflict(o) ==
    /\ pc[o] = "put"
    /\ Id(o) # None
    /\ target[Id(o)] # None
    /\ Goto(o, "inspect")
    /\ UNCHANGED <<stores, locals, host, budget>>

\* The conflicting target is re-read: gone, the conflict is returned and the
\* open fails; the same body, its version is adopted.
inspect(o) ==
    /\ pc[o] = "inspect"
    /\ \/ /\ target[Id(o)] = None
          /\ Reset(o)
          /\ Goto(o, "closed")
       \/ /\ target[Id(o)] # None
          /\ target[Id(o)].body = rows[o][Current(o)]
          /\ tver' = [tver EXCEPT ![o] = target[Id(o)].version]
          /\ Goto(o, "reread")
          /\ UNCHANGED <<rows, more, latest>>
    /\ UNCHANGED <<stores, host, budget>>

\* A target that differs is an error, as it is for streams.
Mut_preserve_fails(o) ==
    /\ pc[o] = "inspect"
    /\ target[Id(o)] # None
    /\ target[Id(o)].body # rows[o][Current(o)]
    /\ Reset(o)
    /\ Goto(o, "closed")
    /\ UNCHANGED <<stores, host, budget>>

\* The conflicting target differs: it is kept, and the row is settled.
preserve(o) ==
    /\ pc[o] = "inspect"
    /\ target[Id(o)] # None
    /\ target[Id(o)].body # rows[o][Current(o)]
    /\ NextRow(o)
    /\ UNCHANGED <<stores, host, budget>>

\* The source is not read again.
Mut_reread_trusts_page(o) ==
    /\ pc[o] = "reread"
    /\ NextRow(o)
    /\ UNCHANGED <<stores, host, budget>>

\* The legacy row is read again: unchanged settles it, gone or changed must
\* be followed.
reread(o) ==
    LET k == Current(o) IN
    /\ pc[o] = "reread"
    /\ \/ /\ legacy[k] = rows[o][k]
          /\ NextRow(o)
       \/ /\ legacy[k] # rows[o][k]
          /\ latest' = [latest EXCEPT ![o] = legacy[k]]
          /\ Goto(o, IF legacy[k] = None THEN "delete" ELSE "update")
          /\ UNCHANGED <<rows, more, tver>>
    /\ UNCHANGED <<stores, host, budget>>

\* The legacy row was deleted: so is the target, unless it moved on.
delete(o) ==
    /\ pc[o] = "delete"
    /\ target' = IF Unmoved(Id(o), tver[o]) THEN [target EXCEPT ![Id(o)] = None] ELSE target
    /\ NextRow(o)
    /\ UNCHANGED <<legacy, versions, done, host, budget>>

\* The legacy row was updated: the target follows, and is checked again.
update(o) ==
    /\ pc[o] = "update"
    /\ Unmoved(Id(o), tver[o])
    /\ Write(Id(o), latest[o], "migration")
    /\ tver' = [tver EXCEPT ![o] = versions[Id(o)] + 1]
    /\ rows' = [rows EXCEPT ![o][Current(o)] = latest[o]]
    /\ latest' = [latest EXCEPT ![o] = None]
    /\ Goto(o, "reread")
    /\ UNCHANGED <<legacy, done, more, host, budget>>

\* The target moved on under the update: it is kept.
update_conflict(o) ==
    /\ pc[o] = "update"
    /\ ~Unmoved(Id(o), tver[o])
    /\ NextRow(o)
    /\ UNCHANGED <<stores, host, budget>>

\* mark_done, then the slot is set.  A marker that is already there conflicts
\* and is then read back as done, which is accepted.
mark_done(o) ==
    /\ pc[o] = "mark"
    /\ done' = TRUE
    /\ Goto(o, "open")
    /\ UNCHANGED <<legacy, target, versions, locals, host, budget>>

\* A storage call fails, or the instance stops: nothing of it remains.
fail(o) ==
    /\ pc[o] # "closed"
    /\ Spend("fault")
    /\ Reset(o)
    /\ Goto(o, "closed")
    /\ UNCHANGED <<stores, host>>

\* DocumentPrefsStore::set through an open instance, at the id the toolkit's name
\* is encoded as, with no precondition.
set(o, i, b) ==
    /\ pc[o] = "open"
    /\ Spend("set")
    /\ Write(i, b, "user")
    /\ UNCHANGED <<legacy, done, pc, locals, host>>

\* External: an older module, not drained, writes or deletes a legacy row.
LegacyWrite(k, b) ==
    /\ ~drained
    /\ legacy[k] # b
    /\ Spend("legacy")
    /\ legacy' = [legacy EXCEPT ![k] = b]
    /\ late' = IF k \in Keyed /\ target[legacy_key[k]] # None /\ ~Held(k) THEN late \cup {k} ELSE late
    /\ UNCHANGED <<target, versions, done, pc, locals, drained>>

Step(o) ==
    \/ prepare(o)
    \/ query(o)
    \/ unaddressed(o)
    \/ put_absent(o)
    \/ put_conflict(o)
    \/ inspect(o)
    \/ preserve(o)
    \/ reread(o)
    \/ delete(o)
    \/ update(o)
    \/ update_conflict(o)
    \/ mark_done(o)

Next ==
    \/ \E o \in Openers : Step(o) \/ fail(o)
    \/ \E o \in Openers, i \in Ids, b \in Bodies : set(o, i, b)
    \/ \E k \in Keys, b \in Bodies \cup {None} : LegacyWrite(k, b)

Spec == Init /\ [][Next]_vars

\* The executor polls an open that has begun, and the host keeps using the
\* module, so that one that failed is tried again.
Fairness == \A o \in Openers : WF_vars(Step(o))

FairSpec == Spec /\ Fairness

-----------------------------------------------------------------------------
\* The marker is put only once no legacy preference is left behind: with the
\* older modules drained, every legacy row then has a target at its id, which is
\* its copy or somebody's later choice, and none is passed over because its id
\* cannot be encoded.
DoneMeansMigrated ==
    (drained /\ done) =>
        \A k \in Keys : legacy[k] # None =>
            LET row == target[legacy_key[k]] IN
            /\ k \in Keyed
            /\ row # None
            /\ row.by = "migration" => row.body = legacy[k]

\* A legacy row that an older module changes during the scan is followed: the
\* copy only differs from its source while an opener that can still correct it
\* is on its way to.  A fault in between, or a change after the last re-read,
\* is beyond the migration.
CopyFollowsSource ==
    \A k \in Keyed \ late :
        LET row == target[legacy_key[k]] IN
        (row # None /\ row.by = "migration" /\ row.body # legacy[k])
            => (Held(k) \/ budget["fault"] < MaxFaults)

\* On a host that stopped its older modules first, an opener, even one that is
\* still migrating while another instance serves its user, never undoes a
\* preference the user set.  (While an older module writes, the migration may
\* follow its row over a choice that happens to equal the copy.)
UserChoiceSurvives ==
    [][\A i \in Ids :
          (drained /\ target[i] # None /\ target[i].by = "user" /\ target'[i] # target[i])
             => (target'[i] # None /\ target'[i].by = "user")]_vars

\* No interleaving of openers, legacy writers and faults wedges an open: every
\* instance ends up with the storage open and stays able to serve, unless the
\* legacy collection keeps a row whose id cannot be encoded.
EveryOpenerOpens ==
    (<>[](\A k \in Keys \ Keyed : legacy[k] = None)) => \A o \in Openers : []<>(pc[o] = "open")

=============================================================================
