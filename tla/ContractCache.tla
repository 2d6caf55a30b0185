---------------------------- MODULE ContractCache ----------------------------
(***************************************************************************)
(* The contract caches of the connector service and the members that race  *)
(* on them: Configure, ListToolContracts / GetToolContract and             *)
(* ProbeToolOutput                                                         *)
(* (crates/tinyconnectors/src/tinybus_module/{mod,contracts}.rs and        *)
(* crates/tinyconnectors/src/contracts/mod.rs).                            *)
(*                                                                         *)
(* The service runs its members as tasks of one worker thread: code        *)
(* between two awaits is one step, and every await lets other members run. *)
(* A member takes a snapshot of the client before it awaits the backend    *)
(* and writes what it got into the caches afterwards.                      *)
(*                                                                         *)
(* A cached value is abstracted to the tenant it was fetched for, an       *)
(* action slug to its toolkit (one probed read action per toolkit).  A     *)
(* lookup that hits changes nothing and is a stuttering step.              *)
(***************************************************************************)
EXTENDS Naturals, FiniteSets

CONSTANTS
    Calls,      \* concurrent bus calls
    Toolkits,   \* normalized toolkit keys
    Tenants,    \* the identities a route can act for
    None        \* no route, no entry, no lock holder

ASSUME CacheAssumption == None \notin Tenants \cup Calls \cup Toolkits

VARIABLES
    client,     \* the route the service holds, or None
    catalogs,   \* per toolkit, the tenant whose catalog is cached, or None
    probes,     \* per action (toolkit), the tenant whose probe is cached
    lock,       \* per toolkit, the holder of its fetch lock
    pc,         \* where each call is
    tk,         \* the toolkit each call is about
    snap,       \* the client a call took before its await
    raced,      \* history: the last Configure overtook a call bound to write
    fills       \* history: catalogs stored since the last clear or expiry

cache_vars == <<client, catalogs, probes, lock, pc, tk, snap, raced, fills>>

\* "waiting": on the fetch lock; "fetch": list_tools; then the probe's three
\* awaits: list_connections, the preference, the provider call.
States == {"idle", "waiting", "fetch", "connections", "permits", "execute"}

\* A call in one of these writes its snapshot's answer into a cache.
Writing == {"fetch", "execute"}

\* A call in flight knows its toolkit, and one that is about to write asks as
\* some tenant: no member goes on without a route.
CacheTypeOK ==
    /\ client \in Tenants \cup {None}
    /\ catalogs \in [Toolkits -> Tenants \cup {None}]
    /\ probes \in [Toolkits -> Tenants \cup {None}]
    /\ lock \in [Toolkits -> Calls \cup {None}]
    /\ pc \in [Calls -> States]
    /\ tk \in [Calls -> Toolkits \cup {None}]
    /\ snap \in [Calls -> Tenants \cup {None}]
    /\ raced \in BOOLEAN
    /\ fills \in [Toolkits -> Nat]
    /\ \A c \in Calls :
          /\ pc[c] # "idle" => tk[c] \in Toolkits
          /\ pc[c] \in Writing => snap[c] \in Tenants

-----------------------------------------------------------------------------
Mut_clear_catalogs_only ==
    /\ catalogs' = [t \in Toolkits |-> None]
    /\ fills' = [t \in Toolkits |-> 0]
    /\ UNCHANGED probes

\* ContractCaches::clear: both caches; the fetch locks stay.
clear ==
    /\ catalogs' = [t \in Toolkits |-> None]
    /\ probes' = [t \in Toolkits |-> None]
    /\ fills' = [t \in Toolkits |-> 0]

\* ContractCaches::remember_catalog
remember_catalog(t, n) ==
    /\ catalogs' = [catalogs EXCEPT ![t] = n]
    /\ fills' = [fills EXCEPT ![t] = @ + 1]

\* ContractCaches::remember_probe
remember_probe(t, n) == probes' = [probes EXCEPT ![t] = n]

Mut_release_leaks(t) == lock' = lock

\* The guard of fetch_lock(t) is dropped, on every way out.
release(t) == lock' = [lock EXCEPT ![t] = None]

Goto(c, s) == pc' = [pc EXCEPT ![c] = s]

\* The member returns and its locals are gone.
Return(c) ==
    /\ Goto(c, "idle")
    /\ tk' = [tk EXCEPT ![c] = None]
    /\ snap' = [snap EXCEPT ![c] = None]

-----------------------------------------------------------------------------
CacheInit ==
    /\ client \in Tenants \cup {None}
    /\ catalogs = [t \in Toolkits |-> None]
    /\ probes = [t \in Toolkits |-> None]
    /\ lock = [t \in Toolkits |-> None]
    /\ pc = [c \in Calls |-> "idle"]
    /\ tk = [c \in Calls |-> None]
    /\ snap = [c \in Calls |-> None]
    /\ raced = FALSE
    /\ fills = [t \in Toolkits |-> 0]

\* configure: the client is replaced whatever it was, then the caches are
\* cleared, with no await between.  n = None is a sign-out.
configure(n) ==
    /\ client' = n
    /\ clear
    /\ raced' = (\E c \in Calls : pc[c] \in Writing /\ snap[c] # n)
    /\ UNCHANGED <<lock, pc, tk, snap>>

\* toolkit_contracts up to its first await: a miss queues for the fetch lock.
toolkit_contracts(c, t) ==
    /\ pc[c] = "idle"
    /\ catalogs[t] = None
    /\ Goto(c, "waiting")
    /\ tk' = [tk EXCEPT ![c] = t]
    /\ UNCHANGED <<client, catalogs, probes, lock, snap, raced, fills>>

Mut_fetch_without_recheck(c) ==
    /\ pc[c] = "waiting"
    /\ lock[tk[c]] = None
    /\ client # None
    /\ lock' = [lock EXCEPT ![tk[c]] = c]
    /\ snap' = [snap EXCEPT ![c] = client]
    /\ Goto(c, "fetch")
    /\ UNCHANGED <<client, catalogs, probes, tk, raced, fills>>

\* The lock is granted, the cache still misses and there is a client: the
\* listing is asked for with the lock held.
fetch(c) ==
    /\ pc[c] = "waiting"
    /\ lock[tk[c]] = None
    /\ catalogs[tk[c]] = None
    /\ client # None
    /\ lock' = [lock EXCEPT ![tk[c]] = c]
    /\ snap' = [snap EXCEPT ![c] = client]
    /\ Goto(c, "fetch")
    /\ UNCHANGED <<client, catalogs, probes, tk, raced, fills>>

\* The lock is granted, but the call answers at once: another call filled the
\* cache, or no route is configured.  The guard is dropped on return.
settle(c) ==
    /\ pc[c] = "waiting"
    /\ lock[tk[c]] = None
    /\ catalogs[tk[c]] # None \/ client = None
    /\ Return(c)
    /\ UNCHANGED <<client, catalogs, probes, lock, raced, fills>>

\* list_tools answers: the listing is stored and the guard dropped.
fetched(c) ==
    /\ pc[c] = "fetch"
    /\ remember_catalog(tk[c], snap[c])
    /\ release(tk[c])
    /\ Return(c)
    /\ UNCHANGED <<client, probes, raced>>

\* list_tools fails: nothing is stored, the guard is dropped.
fetch_failed(c) ==
    /\ pc[c] = "fetch"
    /\ release(tk[c])
    /\ Return(c)
    /\ UNCHANGED <<client, catalogs, probes, raced, fills>>

\* probe_output of a confirmed read action: the connections of the client of
\* the moment are listed.
probe_output(c, t) ==
    /\ pc[c] = "idle"
    /\ client # None
    /\ Goto(c, "connections")
    /\ tk' = [tk EXCEPT ![c] = t]
    /\ snap' = [snap EXCEPT ![c] = client]
    /\ UNCHANGED <<client, catalogs, probes, lock, raced, fills>>

\* The toolkit has an active connection: execute_checked awaits `permits`.
probe_connected(c) ==
    /\ pc[c] = "connections"
    /\ Goto(c, "permits")
    /\ UNCHANGED <<client, catalogs, probes, lock, tk, snap, raced, fills>>

\* The preference permits it: execute_checked takes the client anew.
probe_permitted(c) ==
    /\ pc[c] = "permits"
    /\ client # None
    /\ snap' = [snap EXCEPT ![c] = client]
    /\ Goto(c, "execute")
    /\ UNCHANGED <<client, catalogs, probes, lock, tk, raced, fills>>

\* The provider call succeeded: its redacted shape is stored.
probed(c) ==
    /\ pc[c] = "execute"
    /\ remember_probe(tk[c], snap[c])
    /\ Return(c)
    /\ UNCHANGED <<client, catalogs, lock, raced, fills>>

\* Every other way out of probe_output: listing failed, not connected, not
\* permitted, no route left, the call failed or was refused.
probe_refused(c) ==
    /\ pc[c] \in {"connections", "permits", "execute"}
    /\ Return(c)
    /\ UNCHANGED <<client, catalogs, probes, lock, raced, fills>>

\* CATALOG_CACHE_TTL passes: TtlCache::get stops answering the entry.
expire_catalog(t) ==
    /\ catalogs[t] # None
    /\ catalogs' = [catalogs EXCEPT ![t] = None]
    /\ fills' = [fills EXCEPT ![t] = 0]
    /\ UNCHANGED <<client, probes, lock, pc, tk, snap, raced>>

expire_probe(t) ==
    /\ probes[t] # None
    /\ probes' = [probes EXCEPT ![t] = None]
    /\ UNCHANGED <<client, catalogs, lock, pc, tk, snap, raced, fills>>

CacheNext ==
    \/ \E n \in Tenants \cup {None} : configure(n)
    \/ \E c \in Calls :
          \/ \E t \in Toolkits : toolkit_contracts(c, t) \/ probe_output(c, t)
          \/ fetch(c)
          \/ settle(c)
          \/ fetched(c)
          \/ fetch_failed(c)
          \/ probe_connected(c)
          \/ probe_permitted(c)
          \/ probed(c)
          \/ probe_refused(c)
    \/ \E t \in Toolkits : expire_catalog(t) \/ expire_probe(t)

CacheSpec == CacheInit /\ [][CacheNext]_cache_vars

\* The executor polls every call, every backend request ends (the transport
\* has a timeout), and tokio's Mutex grants its waiters in turn, so a waiter
\* that finds the lock free again and again is granted it.
CacheFairness ==
    \A c \in Calls :
        /\ SF_cache_vars(fetch(c) \/ settle(c))
        /\ WF_cache_vars(fetched(c) \/ fetch_failed(c))
        /\ WF_cache_vars(probe_connected(c) \/ probe_permitted(c) \/ probed(c) \/ probe_refused(c))

CacheFairSpec == CacheSpec /\ CacheFairness

-----------------------------------------------------------------------------
\* A cached answer belongs to the tenant of the route in place, unless the
\* last Configure overtook a call that still had to write its answer.
IsolatedUnlessRaced ==
    ~raced => \A t \in Toolkits : {catalogs[t], probes[t]} \subseteq {client, None}

\* Concurrent misses share a fetch: between two invalidations of a toolkit
\* its catalog is fetched and stored at most once.
OneFillPerInvalidation == \A t \in Toolkits : fills[t] <= 1

\* A call that waits for the fetch lock is answered, whoever holds it and
\* however that fetch ends.
WaiterAnswered == \A c \in Calls : (pc[c] = "waiting") ~> (pc[c] = "idle")

\* What configure's comment asks of the caches, without exception: nothing
\* fetched for an earlier tenant is left to answer for this one.
OldTenantNeverAnswers ==
    \A t \in Toolkits : {catalogs[t], probes[t]} \subseteq {client, None}

=============================================================================
