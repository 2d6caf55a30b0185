------------------------------- MODULE Service -------------------------------
(***************************************************************************)
(* The members of the connector service that make several requests or      *)
(* reads, and what may change under them                                   *)
(* (crates/tinyconnectors/src/tinybus_module/{mod,contracts,restricted}.rs,*)
(* contracts/overview.rs, providers/actions.rs).                           *)
(*                                                                         *)
(* ListTools filters tool by tool, with one preference read each; the      *)
(* overview of connected integrations makes up to three requests and a     *)
(* read per toolkit; an identity refresh lists the connections and then    *)
(* runs one provider action for each.  Between any two of these awaits the *)
(* host may replace the route, the user save a preference, and the rows at *)
(* the provider change.  These members only read the service's state, so   *)
(* one of them in flight at a time stands for any number.                  *)
(*                                                                         *)
(* The lookup inside a preference read, and the two awaits of an Execute,  *)
(* are module Execute's; here each is one step.                            *)
(***************************************************************************)
EXTENDS ScopePolicy

CONSTANTS
    Toolkits,     \* toolkits with connections and live actions
    Names,        \* the names preferences are saved under
    Choices,      \* the preferences the user saves
    Live,         \* the actions the provider publishes for them
    Routes,       \* the routes Configure installs: [via, tenant]
    Statuses,     \* of a connection row, "ACTIVE" among them
    InitialRows,  \* the rows a tenant may begin with
    Offers,       \* the offers a host may load the module with
    Modes,        \* runtime modes
    Setups,       \* setup calls of the module
    MaxChanges    \* bound on changes from outside during a behaviour

ASSUME ServiceAssumption ==
    /\ Live \subseteq Actions(Toolkits)
    /\ Toolkits \subseteq Names
    /\ Choices \subseteq Prefs
    /\ InitialRows \subseteq SUBSET (Toolkits \X Statuses)
    /\ None \notin Modes
    /\ MaxChanges \in Nat

VARIABLES
    mode,      \* the admitted runtime mode, or None
    setups,    \* per setup call: its mode and where it is
    client,    \* the route in the slot, or NoRoute
    prefs,     \* the saved preferences, by name
    offered,   \* the host's offer, fixed at load
    rows,      \* external: the connection rows of every tenant
    call,      \* the member in flight or just answered
    changes    \* the changes from outside so far

vars == <<mode, setups, client, prefs, offered, rows, call, changes>>

NoRoute == [via |-> None, tenant |-> None]

Tenants == {r.tenant : r \in Routes}

\* A member in flight, or its answer: what it does, where it is, the route it
\* took, the actions or rows it still has to visit and what it has so far.
\* seen and moved are history: the preferences in force since it began, and
\* whether the slot was replaced since.
Call(op, at, route, todo, got) ==
    [op |-> op, at |-> at, route |-> route, todo |-> todo, got |-> got,
     seen |-> {prefs}, moved |-> FALSE]

Idle == [op |-> "idle", at |-> "done", route |-> NoRoute, todo |-> {}, got |-> {},
         seen |-> {}, moved |-> FALSE]

\* The classic service is there to be called.
Up == \E s \in Setups : setups[s] = [mode |-> "classic", at |-> "served"]

Free == Up /\ call.at = "done"

Active(rs) == {r[1] : r \in {x \in rs : x[2] = "ACTIVE"}}

\* The route each step of a member asks is recorded in got.asked.
Asked(c, r) == [c.got EXCEPT !.asked = @ \cup {r}]

Same == UNCHANGED <<mode, setups, client, prefs, offered, rows, changes>>

Answer(got) == call' = [call EXCEPT !.at = "done", !.todo = {}, !.got = got]

Step(at, todo, got) == call' = [call EXCEPT !.at = at, !.todo = todo, !.got = got]

\* Any member that answers with an error.
Error == call' = [call EXCEPT !.op = "error", !.at = "done", !.todo = {}, !.got = {}]

-----------------------------------------------------------------------------
Init ==
    /\ mode = None
    /\ setups = [s \in Setups |-> [mode |-> None, at |-> "new"]]
    /\ client = NoRoute
    /\ prefs \in [{} -> Prefs]
    /\ offered \in Offers
    /\ rows \in [Tenants -> InitialRows]
    /\ call = Idle
    /\ changes = 0

\* The mode is not sealed until a setup has succeeded.
Mut_admit_on_success(s, m) ==
    /\ setups[s].at = "new"
    /\ setups' = [setups EXCEPT ![s] = [mode |-> m, at |-> IF mode \in {None, m} THEN "admitted" ELSE "refused"]]
    /\ UNCHANGED <<mode, client, prefs, offered, rows, call, changes>>

\* setup_factory: under the mode's lock, refuse a second mode or seal the
\* first, before anything of it is set up.
admit(s, m) ==
    /\ setups[s].at = "new"
    /\ setups' = [setups EXCEPT ![s] =
                     [mode |-> m, at |-> IF mode \in {None, m} THEN "admitted" ELSE "refused"]]
    /\ mode' = IF mode = None THEN m ELSE mode
    /\ UNCHANGED <<client, prefs, offered, rows, call, changes>>

\* setup: a classic service starts with the configured route, or none; the
\* restricted one has no slot for one.
setup(s, r) ==
    /\ setups[s].at = "admitted"
    /\ r # NoRoute => setups[s].mode = "classic"
    /\ setups' = [setups EXCEPT ![s].at = "served"]
    /\ client' = r
    /\ call' = Idle
    /\ UNCHANGED <<mode, prefs, offered, rows, changes>>

\* The route is refused (its URL would expose the credential) or the bus
\* does not take the object or the name: the mode stays sealed.
setup_failed(s) ==
    /\ setups[s].at = "admitted"
    /\ setups' = [setups EXCEPT ![s].at = "failed"]
    /\ UNCHANGED <<mode, client, prefs, offered, rows, call, changes>>

-----------------------------------------------------------------------------
\* Changes from outside, at any moment.

Change == changes < MaxChanges /\ changes' = changes + 1

\* configure: the slot is replaced, whatever is in flight.
configure(r) ==
    /\ Up /\ Change
    /\ client' = r
    /\ call' = [call EXCEPT !.moved = TRUE]
    /\ UNCHANGED <<mode, setups, prefs, offered, rows>>

\* set_user_scopes: the whole preference of one name is saved.
set_user_scopes(n, p) ==
    /\ Up /\ Change
    /\ prefs' = [m \in DOMAIN prefs \cup {n} |-> IF m = n THEN p ELSE prefs[m]]
    /\ call' = [call EXCEPT !.seen = @ \cup {prefs'}]
    /\ UNCHANGED <<mode, setups, client, offered, rows>>

\* External: a row appears or goes away at the provider.
RowChange(n, r) ==
    /\ Up /\ Change
    /\ rows' = [rows EXCEPT ![n] = IF r \in @ THEN @ \ {r} ELSE @ \cup {r}]
    /\ UNCHANGED <<mode, setups, client, prefs, offered, call>>

-----------------------------------------------------------------------------
\* Preferences.

\* pref_for: the row of the longest saved name the slug begins with.
pref_for(a, ps) ==
    CASE a.name \in DOMAIN ps -> ps[a.name]
      [] a.name \notin DOMAIN ps /\ Segment(a.name) \in DOMAIN ps -> ps[Segment(a.name)]
      [] OTHER -> default_pref

\* UserScopePref::load: the row of one name.
load(n, ps) == IF n \in DOMAIN ps THEN ps[n] ELSE default_pref

\* permits and listed, with the preference that governs.
permits(a, ps) == permits_with(a, pref_for(a, ps))

listed(a, ps) == is_action_visible_with_pref(a, pref_for(a, ps))

-----------------------------------------------------------------------------
\* ListTools.

list_tools ==
    /\ Free
    /\ client # NoRoute
    /\ call' = Call("list", "tools", client, {}, [asked |-> {}, tools |-> {}, allowed |-> {}])
    /\ Same

\* The first filter: tools of toolkits the host does not offer are dropped.
offer(tools) == {a \in tools : offers(offered, sync_toolkit(a.name))}

\* The listing of the toolkits asked for comes back and is narrowed to the
\* offer; without apply_user_scopes that is the answer.
list_tools_answered(ts, scoped) ==
    /\ call.op = "list" /\ call.at = "tools"
    /\ LET got == [Asked(call, call.route) EXCEPT !.tools = offer({a \in Live : a.name \in ts})]
       IN  IF scoped
           THEN Step("filter", got.tools, got)
           ELSE call' = [call EXCEPT !.op = "list_all", !.at = "done",
                                     !.got = [got EXCEPT !.allowed = got.tools]]
    /\ Same

\* `listed` is awaited for one tool after the other.
list_tool(a) ==
    /\ call.op = "list" /\ call.at = "filter"
    /\ a \in call.todo
    /\ Step("filter", call.todo \ {a},
            IF listed(a, prefs) THEN [call.got EXCEPT !.allowed = @ \cup {a}] ELSE call.got)
    /\ Same

list_tools_done ==
    /\ call.op = "list" /\ call.at = "filter"
    /\ call.todo = {}
    /\ Answer(call.got)
    /\ Same

\* Execute of one action: refused, or sent over the client of the moment.
execute(a) ==
    /\ Free
    /\ client # NoRoute
    /\ permits(a, prefs)
    /\ call' = [Call("execute", "done", client, {}, {a}) EXCEPT !.moved = FALSE]
    /\ Same

-----------------------------------------------------------------------------
\* ListConnectedIntegrations.

\* connected_integrations: one client for all its requests; the request names
\* the route it expects.
connected_integrations(via) ==
    /\ Free
    /\ client # NoRoute
    /\ via = client.via
    /\ call' = Call("overview", IF via = "proxy" THEN "toolkits" ELSE "connections", client, {},
                    [asked |-> {}, allow |-> {}, rows |-> {}, tools |-> {}, prefs |-> <<>>, listed |-> TRUE])
    /\ Same

\* connectable_toolkit_slugs: the enabled entries of the catalog, the flat
\* list only for a backend that has no catalog.
connectable_toolkit_slugs(flat, catalog) ==
    IF catalog = {} THEN flat ELSE {e[1] : e \in {x \in catalog : x[2]}}

overview_toolkits(flat, catalog) ==
    /\ call.op = "overview" /\ call.at = "toolkits"
    /\ LET got == [Asked(call, call.route) EXCEPT !.allow = connectable_toolkit_slugs(flat, catalog)]
       IN  IF got.allow = {} THEN Answer(got) ELSE Step("connections", {}, got)
    /\ Same

\* The slot is read anew for the second request.
Mut_overview_connections_reread ==
    /\ call.op = "overview" /\ call.at = "connections"
    /\ client # NoRoute
    /\ LET rs == rows[client.tenant]
           got == [Asked(call, client) EXCEPT !.rows = rs,
                      !.allow = IF call.route.via = "proxy" THEN @ ELSE Active(rs)]
       IN  IF got.allow = {} THEN Answer(got)
           ELSE Step(IF Active(rs) = {} THEN "prefs" ELSE "tools", Active(rs), got)
    /\ Same

\* list_connections answers.  The direct route has no allowlist: its active
\* connections are the universe of toolkits.
overview_connections ==
    /\ call.op = "overview" /\ call.at = "connections"
    /\ LET rs == rows[call.route.tenant]
           got == [Asked(call, call.route) EXCEPT !.rows = rs,
                      !.allow = IF call.route.via = "proxy" THEN @ ELSE Active(rs)]
       IN  IF got.allow = {} THEN Answer(got)
           ELSE Step(IF Active(rs) = {} THEN "prefs" ELSE "tools", Active(rs), got)
    /\ Same

\* list_tools answers for the connected toolkits.
overview_tools ==
    /\ call.op = "overview" /\ call.at = "tools"
    /\ Step("prefs", call.todo,
            [Asked(call, call.route) EXCEPT !.tools = {a \in Live : a.name \in call.todo}])
    /\ Same

\* The one failure that is tolerated is the direct route's tool listing.
tolerated(via) == via = "direct"

overview_tools_failed ==
    /\ call.op = "overview" /\ call.at = "tools"
    /\ IF tolerated(call.route.via)
       THEN Step("prefs", call.todo, [Asked(call, call.route) EXCEPT !.listed = FALSE])
       ELSE Error
    /\ Same

\* The preference of one active toolkit is loaded.
overview_pref(t) ==
    /\ call.op = "overview" /\ call.at = "prefs"
    /\ t \in call.todo
    /\ Step("prefs", call.todo \ {t},
            [call.got EXCEPT !.prefs = [u \in DOMAIN @ \cup {t} |-> IF u = t THEN load(t, prefs) ELSE @[u]]])
    /\ Same

overview_done ==
    /\ call.op = "overview" /\ call.at = "prefs"
    /\ call.todo = {}
    /\ Answer(call.got)
    /\ Same

\* list_toolkits or list_connections fails, the listing of a ListTools, a
\* preference cannot be read: the member answers with the error.
request_failed ==
    /\ call.at \in {"toolkits", "connections", "filter", "prefs"} \/ (call.op = "list" /\ call.at = "tools")
    /\ call.at \in {"filter", "prefs"} => call.todo # {}
    /\ Error
    /\ Same

status_priority(s) ==
    CASE s = "EXPIRED" -> 4
      [] s \in {"FAILED", "ERROR"} -> 3
      [] s \in {"INITIATED", "INITIALIZING", "PENDING"} -> 2
      [] OTHER -> 1

\* non_active_status_by_toolkit, for a toolkit without an active connection.
non_active_status(t, rs) ==
    LET mine == {r[2] : r \in {x \in rs : x[1] = t}}
    IN  IF mine = {} THEN None
        ELSE CHOOSE s \in mine : \A u \in mine : status_priority(u) <= status_priority(s)

\* split_tools: what the preference shows, and the curated actions it hides.
split_tools(t, g) ==
    LET p == load(t, g.prefs)
        mine == {a \in g.tools : a.name = t}
        visible == {a \in mine : is_action_visible_with_pref(a, p)}
    IN  [tools |-> visible,
         gated |-> {a \in mine \ visible : curated_scope_for(a) # None}]

\* assemble: one entry per toolkit of the allowlist.
assemble(g) ==
    [t \in g.allow |->
        IF t \in Active(g.rows)
        THEN [connected |-> TRUE, split |-> split_tools(t, g), status |-> None]
        ELSE [connected |-> FALSE, split |-> [tools |-> {}, gated |-> {}],
              status |-> non_active_status(t, g.rows)]]

-----------------------------------------------------------------------------
\* RefreshAllIdentities and GetUserProfile.

refresh_all_identities ==
    /\ Free
    /\ client # NoRoute
    /\ call' = Call("refresh", "connections", client, {}, [asked |-> {}, listed |-> {}, profiles |-> {}, failures |-> {}])
    /\ Same

\* list_connections answers: every active connection is to be read.
refresh_listed ==
    /\ call.op = "refresh" /\ call.at = "connections"
    /\ LET active == Active(rows[call.route.tenant])
       IN  Step("profiles", active, [Asked(call, call.route) EXCEPT !.listed = active])
    /\ Same

\* get_user_profile: of the connection that is named, or of the toolkit's
\* first active one.
get_user_profile(t, named) ==
    /\ Free
    /\ named \/ client # NoRoute
    /\ call' = Call("profile", IF named THEN "profiles" ELSE "connections", client, {t},
                    [asked |-> {}, listed |-> IF named THEN {t} ELSE {}, profiles |-> {}, failures |-> {}])
    /\ Same

first_active_connection ==
    /\ call.op = "profile" /\ call.at = "connections"
    /\ IF call.todo \subseteq Active(rows[call.route.tenant])
       THEN Step("profiles", call.todo, [Asked(call, call.route) EXCEPT !.listed = call.todo])
       ELSE Error
    /\ Same

\* profile_of through ClientActions::run, which reads the slot anew: the
\* provider of the toolkit runs its one action over the client of the moment.
profile_read(t) ==
    /\ call.at = "profiles" /\ t \in call.todo
    /\ t \in default_registry
    /\ client # NoRoute
    /\ Step("profiles", call.todo \ {t},
            [Asked(call, client) EXCEPT !.profiles = @ \cup {<<t, client.tenant>>}])
    /\ Same

\* One failed profile ends the refresh.
Mut_profile_failed_ends(t) ==
    /\ call.at = "profiles" /\ t \in call.todo
    /\ Step("profiles", {}, [call.got EXCEPT !.failures = @ \cup {t}])
    /\ Same

\* No provider, no route, or the action failed or was refused: a failure of
\* this connection only.
profile_failed(t) ==
    /\ call.at = "profiles" /\ t \in call.todo
    /\ Step("profiles", call.todo \ {t}, [call.got EXCEPT !.failures = @ \cup {t}])
    /\ Same

profiles_done ==
    /\ call.at = "profiles" /\ call.todo = {}
    /\ IF call.op = "profile" /\ call.got.profiles = {} THEN Error ELSE Answer(call.got)
    /\ Same

-----------------------------------------------------------------------------
Next ==
    \/ \E s \in Setups :
          \/ \E m \in Modes : admit(s, m)
          \/ \E r \in Routes \cup {NoRoute} : setup(s, r)
          \/ setup_failed(s)
    \/ \E r \in Routes \cup {NoRoute} : configure(r)
    \/ \E n \in Names, p \in Choices : set_user_scopes(n, p)
    \/ \E n \in Tenants, r \in Toolkits \X Statuses : RowChange(n, r)
    \/ list_tools
    \/ \E ts \in SUBSET Toolkits, scoped \in BOOLEAN : list_tools_answered(ts, scoped)
    \/ \E a \in Live : list_tool(a) \/ execute(a)
    \/ list_tools_done
    \/ \E via \in {"proxy", "direct"} : connected_integrations(via)
    \/ \E flat \in SUBSET Toolkits, catalog \in SUBSET (Toolkits \X BOOLEAN) : overview_toolkits(flat, catalog)
    \/ overview_connections
    \/ overview_tools
    \/ overview_tools_failed
    \/ \E t \in Toolkits : overview_pref(t) \/ profile_read(t) \/ profile_failed(t)
    \/ \E t \in Toolkits, named \in BOOLEAN : get_user_profile(t, named)
    \/ overview_done
    \/ request_failed
    \/ refresh_all_identities
    \/ refresh_listed
    \/ first_active_connection
    \/ profiles_done

Spec == Init /\ [][Next]_vars

-----------------------------------------------------------------------------
\* Execution and listing take an action's scope from the same place: a
\* provider's catalog, or for a toolkit without a catalog the words of the
\* slug, on which the two heuristics differ only for a preference that is not
\* a limit.
Agreed(a, ps) ==
    \/ a.name \in default_registry
    \/ catalog_for_toolkit(bus_toolkit(a.name)) = {} /\ pref_for(a, ps) \in Thresholds

\* A scoped listing offers exactly what the preferences showed at some moment
\* while it ran, and nothing the host does not offer; what it offers, Execute
\* would have sent at that moment, wherever the two agree on the scope.
ListingIsEnforced ==
    call.op = "list" /\ call.at = "done" =>
        \A a \in call.got.tools :
            /\ offers(offered, a.name)
            /\ a \in call.got.allowed =>
                 \E ps \in call.seen : listed(a, ps) /\ (Agreed(a, ps) => permits(a, ps))
            /\ a \notin call.got.allowed => \E ps \in call.seen : ~listed(a, ps)

\* An overview speaks of one tenant, the one of the route it began with,
\* whatever Configure did meanwhile.  A connected toolkit is shown connected
\* with every curated action either callable or gated, unless the direct
\* route failed to list the tools; of one that is not connected, the status
\* that asks most of the user is shown.
OverviewIsTruthful ==
    call.op = "overview" /\ call.at = "done" =>
        LET g == call.got
            view == assemble(g)
        IN  /\ g.asked \subseteq {call.route}
            /\ \A t \in DOMAIN view :
                 /\ view[t].connected =>
                      \/ call.route.via = "direct" /\ ~g.listed
                      \/ \A a \in {x \in Live : x.name = t /\ x.entry # None} :
                            a \in view[t].split.tools \cup view[t].split.gated
                 /\ \A r \in g.rows :
                      r[1] = t => \/ view[t].connected
                                  \/ r[2] # "ACTIVE" /\ status_priority(view[t].status) >= status_priority(r[2])

\* A refresh reports every connection that was active when it listed them,
\* once: read, or failed on its own.  A profile is read as the tenant that was
\* listed unless a Configure fell in between.
RefreshAccountsForAll ==
    call.op \in {"refresh", "profile"} /\ call.at = "done" =>
        LET g == call.got
            read == {x[1] : x \in g.profiles}
        IN  /\ g.listed = read \cup g.failures
            /\ read \cap g.failures = {}
            /\ Cardinality(g.profiles) = Cardinality(read)
            /\ ~call.moved => g.asked \subseteq {call.route}

\* One runtime mode per module instance, however setups overlap and whichever
\* of them fail: nothing is ever served beside a service of the other mode,
\* and a restricted instance never holds a route.
OneModeServed ==
    LET served == {setups[s].mode : s \in {x \in Setups : setups[x].at = "served"}}
    IN  /\ Cardinality(served) <= 1
        /\ served = {"restricted"} => client = NoRoute /\ call = Idle

\* What the comment on `permits` says of every toolkit: an action that the
\* toolkit's catalog lists is sent only under a preference that allows the
\* scope the catalog gives it.
SentWithinCuratedScope ==
    call.op = "execute" =>
        \A a \in call.got :
            curated_scope_for(a) # None =>
                \E ps \in call.seen : allows(pref_for(a, ps), curated_scope_for(a))

=============================================================================
