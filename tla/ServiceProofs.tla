---------------------------- MODULE ServiceProofs ----------------------------
(***************************************************************************)
(* What the module's service promises: the members that make several       *)
(* requests (module Service), for any number of setups, toolkits, routes   *)
(* and changes from outside; and racing Authorize calls (Authorize).       *)
(***************************************************************************)
EXTENDS Service, Authorize, FiniteSetTheorems, TLAPS

CallFields == {"op", "at", "route", "todo", "got", "seen", "moved"}

SetupStates == {"new", "admitted", "refused", "served", "failed"}

\* Every setup that was admitted has the sealed mode, and there is a route or a
\* call only once a classic service is up.
ModeInv ==
    /\ setups \in [Setups -> [mode : Modes \cup {None}, at : SetupStates]]
    /\ \A s \in Setups : setups[s].at \in {"admitted", "served", "failed"} => setups[s].mode = mode /\ mode # None
    /\ client # NoRoute \/ call # Idle => Up
    /\ DOMAIN call = CallFields

\* The steps of a member that is in flight.
MemberStep ==
    \/ \E ts \in SUBSET Toolkits, scoped \in BOOLEAN : list_tools_answered(ts, scoped)
    \/ \E a \in Live : list_tool(a)
    \/ list_tools_done
    \/ \E flat \in SUBSET Toolkits, catalog \in SUBSET (Toolkits \X BOOLEAN) : overview_toolkits(flat, catalog)
    \/ overview_connections
    \/ overview_tools
    \/ overview_tools_failed
    \/ \E t \in Toolkits : overview_pref(t) \/ profile_read(t) \/ profile_failed(t)
    \/ overview_done
    \/ request_failed
    \/ refresh_listed
    \/ first_active_connection
    \/ profiles_done

\* The first step of a member.
MemberBegins ==
    \/ list_tools
    \/ \E a \in Live : execute(a)
    \/ \E via \in {"proxy", "direct"} : connected_integrations(via)
    \/ \E t \in Toolkits, named \in BOOLEAN : get_user_profile(t, named)
    \/ refresh_all_identities

\* What a step of a member does to the call, and to nothing else.
LEMMA MemberSteps ==
    ASSUME MemberStep, DOMAIN call = CallFields
    PROVE  /\ Same /\ call.at # "done" /\ DOMAIN call' = CallFields
           /\ call'.route = call.route /\ call'.seen = call.seen /\ call'.moved = call.moved
           /\ call'.op \in {call.op, "error", "list_all"}
BY DEF MemberStep, CallFields, list_tools_answered, list_tool, list_tools_done, overview_toolkits,
       overview_connections, overview_tools, overview_tools_failed, overview_pref, profile_read,
       profile_failed, overview_done, request_failed, refresh_listed, first_active_connection,
       profiles_done, Step, Answer, Error

\* The first step of a member finds the service up and free.
LEMMA MemberBegun ==
    ASSUME MemberBegins
    PROVE  /\ Same /\ Up /\ call.at = "done" /\ DOMAIN call' = CallFields
           /\ call'.route = client /\ call'.seen = {prefs} /\ call'.moved = FALSE
           /\ call'.op \in {"list", "execute", "overview", "profile", "refresh"}
<1> USE DEF Call, Free, CallFields
<1>1. CASE list_tools
  BY <1>1 DEF list_tools
<1>2. CASE \E a \in Live : execute(a)
  BY <1>2 DEF execute
<1>3. CASE \E via \in {"proxy", "direct"} : connected_integrations(via)
  BY <1>3 DEF connected_integrations
<1>4. CASE \E t \in Toolkits, named \in BOOLEAN : get_user_profile(t, named)
  BY <1>4 DEF get_user_profile
<1>5. CASE refresh_all_identities
  BY <1>5 DEF refresh_all_identities
<1> QED
  BY <1>1, <1>2, <1>3, <1>4, <1>5 DEF MemberBegins

\* The steps, by who takes them.
LEMMA NextSteps ==
    ASSUME [Next]_vars
    PROVE  \/ \E s \in Setups :
                 \/ \E m \in Modes : admit(s, m)
                 \/ \E r \in Routes \cup {NoRoute} : setup(s, r)
                 \/ setup_failed(s)
           \/ \E r \in Routes \cup {NoRoute} : configure(r)
           \/ \E n \in Names, p \in Choices : set_user_scopes(n, p)
           \/ \E n \in Tenants, r \in Toolkits \X Statuses : RowChange(n, r)
           \/ MemberBegins
           \/ MemberStep
           \/ UNCHANGED vars
BY Zenon DEF Next, MemberBegins, MemberStep

-----------------------------------------------------------------------------
\* The sealed mode is the mode of every setup that was let in, in every state.
LEMMA ModesRight == Spec => []ModeInv
<1>1. Init => ModeInv
  BY DEF Init, ModeInv, SetupStates, CallFields, Idle
<1>2. ModeInv /\ [Next]_vars => ModeInv'
  <2> SUFFICES ASSUME ModeInv, [Next]_vars PROVE ModeInv'
    OBVIOUS
  <2> USE DEF ModeInv, SetupStates
  <2>1. ASSUME NEW s \in Setups, NEW m \in Modes, admit(s, m) PROVE ModeInv'
    BY <2>1, ServiceAssumption DEF admit, Up
  <2>2. ASSUME NEW s \in Setups, NEW r \in Routes \cup {NoRoute}, setup(s, r) PROVE ModeInv'
    <3>1. setups' \in [Setups -> [mode : Modes \cup {None}, at : SetupStates]]
      BY <2>2 DEF setup
    <3>2. \A x \in Setups : setups'[x].mode = setups[x].mode
      BY <2>2 DEF setup
    <3>3. \A x \in Setups : setups'[x].at \in {"admitted", "served", "failed"}
                              => setups[x].at \in {"admitted", "served", "failed"}
      BY <2>2 DEF setup
    <3>4. client' # NoRoute \/ call' # Idle => Up'
      BY <2>2 DEF setup, Up
    <3>5. DOMAIN call' = CallFields
      BY <2>2 DEF setup, Idle, CallFields
    <3> QED
      BY <2>2, <3>1, <3>2, <3>3, <3>4, <3>5 DEF setup
  <2>3. ASSUME NEW s \in Setups, setup_failed(s) PROVE ModeInv'
    BY <2>3 DEF setup_failed, Up
  <2>4. ASSUME NEW r \in Routes \cup {NoRoute}, configure(r) PROVE ModeInv'
    BY <2>4 DEF configure, Change, Up
  <2>5. ASSUME NEW n \in Names, NEW p \in Choices, set_user_scopes(n, p) PROVE ModeInv'
    BY <2>5 DEF set_user_scopes, Change, Up
  <2>6. ASSUME NEW n \in Tenants, NEW r \in Toolkits \X Statuses, RowChange(n, r) PROVE ModeInv'
    BY <2>6 DEF RowChange, Change, Up
  <2>7. CASE MemberBegins
    BY <2>7, MemberBegun DEF Same, Up
  <2>8. CASE MemberStep
    <3>1. Up
      BY <2>8, MemberSteps DEF Idle
    <3> QED
      BY <2>8, <3>1, MemberSteps DEF Same, Up
  <2>9. CASE UNCHANGED vars
    BY <2>9 DEF vars, Up
  <2> QED
    BY <2>1, <2>2, <2>3, <2>4, <2>5, <2>6, <2>7, <2>8, <2>9, NextSteps
<1> QED
  BY <1>1, <1>2, PTL DEF Spec

\* Whatever the order in which setups are admitted, succeed and fail, one mode
\* is served, and a restricted instance holds no route and serves no member.
THEOREM OneMode == Spec => []OneModeServed
<1>1. ModeInv => OneModeServed
  <2> SUFFICES ASSUME ModeInv PROVE OneModeServed
    OBVIOUS
  <2> DEFINE served == {setups[s].mode : s \in {x \in Setups : setups[x].at = "served"}}
  <2>1. served \subseteq {mode}
    BY DEF ModeInv
  <2>2. Cardinality(served) <= 1
    <3>1. served = {} \/ served = {mode}
      BY <2>1
    <3> HIDE DEF served
    <3>2. Cardinality({}) = 0 /\ Cardinality({mode}) = 1
      BY FS_EmptySet, FS_Singleton
    <3> QED
      BY <3>1, <3>2
  <2>3. ASSUME served = {"restricted"} PROVE client = NoRoute /\ call = Idle
    <3>1. ~Up
      <4> SUFFICES ASSUME NEW s \in Setups, setups[s] = [mode |-> "classic", at |-> "served"]
                   PROVE  FALSE
        BY DEF Up
      <4>1. setups[s].mode \in served
        OBVIOUS
      <4> QED
        BY <4>1, <2>3
    <3> QED
      BY <3>1 DEF ModeInv
  <2> QED
    BY <2>2, <2>3 DEF OneModeServed
<1> QED
  BY <1>1, ModesRight, PTL

-----------------------------------------------------------------------------
\* The toolkits that profiles were read of.
ReadOf(P) == {x[1] : x \in P}

\* No toolkit has two profiles.
OnceEach(P) == IsFiniteSet(P) /\ IsFiniteSet(ReadOf(P)) /\ Cardinality(P) = Cardinality(ReadOf(P))

\* One more profile, of a toolkit that has none, adds one toolkit.
LEMMA OneProfileEach ==
    ASSUME NEW P, NEW t, NEW n, OnceEach(P), t \notin ReadOf(P)
    PROVE  OnceEach(P \cup {<<t, n>>}) /\ ReadOf(P \cup {<<t, n>>}) = ReadOf(P) \cup {t}
<1> DEFINE Q == P \cup {<<t, n>>}
           read == ReadOf(P)
<1>1. ReadOf(Q) = read \cup {t}
  <2>1. \A y \in ReadOf(Q) : y \in read \cup {t}
    BY DEF ReadOf
  <2>2. <<t, n>> \in Q /\ <<t, n>>[1] = t /\ \A x \in P : x \in Q
    OBVIOUS
  <2>3. \A y \in read \cup {t} : y \in ReadOf(Q)
    BY <2>2 DEF ReadOf
  <2> QED
    BY <2>1, <2>3
<1>2. <<t, n>> \notin P
  BY DEF ReadOf
<1>3. IsFiniteSet(Q) /\ Cardinality(Q) = Cardinality(P) + 1
  BY <1>2, FS_AddElement DEF OnceEach
<1>4. IsFiniteSet(read \cup {t}) /\ Cardinality(read \cup {t}) = Cardinality(read) + 1
  <2> HIDE DEF read
  <2> QED
    BY FS_AddElement DEF OnceEach, read
<1> QED
  BY <1>1, <1>3, <1>4 DEF OnceEach

\* No profile yet.
LEMMA NoProfiles == OnceEach({}) /\ ReadOf({}) = {}
<1>1. ReadOf({}) = {}
  BY DEF ReadOf
<1> QED
  BY <1>1, FS_EmptySet DEF OnceEach

\* A refresh has read, given up or still to read every connection it listed,
\* each of them once, and until a Configure overtakes it the slot holds the
\* route it began with.
RefreshInv ==
    call.op \in {"refresh", "profile"} =>
        LET g == call.got
            read == ReadOf(g.profiles)
        IN  /\ DOMAIN g = {"asked", "listed", "profiles", "failures"}
            /\ call.at \in {"connections", "profiles", "done"}
            /\ call.at = "connections" => g.listed = {} /\ g.profiles = {} /\ g.failures = {}
            /\ call.at = "done" => call.todo = {}
            /\ call.at # "connections" => g.listed = read \cup g.failures \cup call.todo
            /\ call.at # "connections" => call.todo \cap (read \cup g.failures) = {}
            /\ read \cap g.failures = {}
            /\ OnceEach(g.profiles)
            /\ ~call.moved => g.asked \subseteq {call.route}
            /\ ~call.moved /\ call.at # "done" => client = call.route

\* A refresh reports each connection it listed once, as read or as failed, and
\* reads them as the tenant it listed unless a Configure overtook it.
THEOREM RefreshComplete == Spec => []RefreshAccountsForAll
<1>1. Init => RefreshInv
  BY DEF Init, Idle, RefreshInv
<1>2. ModeInv /\ RefreshInv /\ [Next]_vars => RefreshInv'
  <2> SUFFICES ASSUME ModeInv, RefreshInv, [Next]_vars PROVE RefreshInv'
    OBVIOUS
  <2>0. DOMAIN call = CallFields
    BY DEF ModeInv
  <2>1. ASSUME NEW s \in Setups, NEW m \in Modes, admit(s, m) PROVE RefreshInv'
    BY <2>1 DEF admit, RefreshInv
  <2>2. ASSUME NEW s \in Setups, NEW r \in Routes \cup {NoRoute}, setup(s, r) PROVE RefreshInv'
    BY <2>2 DEF setup, Idle, RefreshInv
  <2>3. ASSUME NEW s \in Setups, setup_failed(s) PROVE RefreshInv'
    BY <2>3 DEF setup_failed, RefreshInv
  <2>4. ASSUME NEW r \in Routes \cup {NoRoute}, configure(r) PROVE RefreshInv'
    <3>1. /\ call'.op = call.op /\ call'.at = call.at /\ call'.todo = call.todo
          /\ call'.got = call.got /\ call'.moved
      BY <2>0, <2>4 DEF configure, CallFields
    <3> QED
      BY <3>1, Zenon DEF RefreshInv
  <2>5. ASSUME NEW n \in Names, NEW p \in Choices, set_user_scopes(n, p) PROVE RefreshInv'
    <3>1. /\ call'.op = call.op /\ call'.at = call.at /\ call'.todo = call.todo
          /\ call'.got = call.got /\ call'.moved = call.moved /\ call'.route = call.route
          /\ client' = client
      BY <2>0, <2>5 DEF set_user_scopes, CallFields
    <3> QED
      BY <3>1, Zenon DEF RefreshInv
  <2>6. ASSUME NEW n \in Tenants, NEW r \in Toolkits \X Statuses, RowChange(n, r) PROVE RefreshInv'
    BY <2>6 DEF RowChange, RefreshInv
  <2>7. CASE MemberBegins
    <3> SUFFICES ASSUME call'.op \in {"refresh", "profile"} PROVE RefreshInv'
      BY DEF RefreshInv
    <3> DEFINE Begun == /\ call'.route = client' /\ call'.got.asked = {} /\ call'.got.profiles = {}
                        /\ call'.got.failures = {} /\ call'.at \in {"connections", "profiles"}
                        /\ DOMAIN call'.got = {"asked", "listed", "profiles", "failures"}
                        /\ call'.got.listed = IF call'.at = "connections" THEN {} ELSE call'.todo
    <3>1. Begun
      <4>1. refresh_all_identities \/ \E t \in Toolkits, named \in BOOLEAN : get_user_profile(t, named)
        <5>1. ~list_tools
          BY DEF list_tools, Call
        <5>2. ~\E a \in Live : execute(a)
          BY DEF execute, Call
        <5>3. ~\E via \in {"proxy", "direct"} : connected_integrations(via)
          BY DEF connected_integrations, Call
        <5> QED
          BY <2>7, <5>1, <5>2, <5>3 DEF MemberBegins
      <4>2. CASE refresh_all_identities
        BY <4>2 DEF refresh_all_identities, Call, Same
      <4>3. ASSUME NEW t \in Toolkits, NEW named \in BOOLEAN, get_user_profile(t, named) PROVE Begun
        <5>1. CASE named
          BY <4>3, <5>1 DEF get_user_profile, Call, Same
        <5>2. CASE ~named
          BY <4>3, <5>2 DEF get_user_profile, Call, Same
        <5> QED
          BY <5>1, <5>2
      <4> QED
        BY <4>1, <4>2, <4>3
    <3> QED
      BY <3>1, NoProfiles DEF RefreshInv
  <2>8. CASE MemberStep
    <3> SUFFICES ASSUME call'.op \in {"refresh", "profile"} PROVE RefreshInv'
      BY DEF RefreshInv
    <3>0. call.op \in {"refresh", "profile"}
      BY <2>0, <2>8, MemberSteps
    <3>1. /\ client' = client /\ call'.route = call.route /\ call'.moved = call.moved
          /\ call.at # "done"
      BY <2>0, <2>8, MemberSteps DEF Same
    <3> DEFINE g == call.got
               h == call'.got
    <3>2. CASE refresh_listed \/ first_active_connection
      <4>1. /\ call.at = "connections" /\ call'.at = "profiles"
            /\ DOMAIN h = DOMAIN g /\ h.asked = g.asked \cup {call.route} /\ h.listed = call'.todo
            /\ h.profiles = g.profiles /\ h.failures = g.failures
        <5>1. DOMAIN g = {"asked", "listed", "profiles", "failures"}
          BY <3>0 DEF RefreshInv
        <5>2. CASE refresh_listed
          BY <2>0, <5>1, <5>2 DEF refresh_listed, Step, Asked, CallFields
        <5>3. CASE first_active_connection
          <6>1. call.at = "connections" /\ (\/ Step("profiles", call.todo, [Asked(call, call.route) EXCEPT !.listed = call.todo])
                                            \/ Error)
            BY <5>3, Zenon DEF first_active_connection
          <6>2. ~Error
            BY <2>0 DEF Error, CallFields
          <6>3. Step("profiles", call.todo, [Asked(call, call.route) EXCEPT !.listed = call.todo])
            BY <6>1, <6>2, Zenon
          <6> QED
            BY <2>0, <5>1, <6>1, <6>3 DEF Step, Asked, CallFields
        <5> QED
          BY <3>2, <5>2, <5>3
      <4> QED
        BY <3>0, <3>1, <4>1, NoProfiles DEF RefreshInv
    <3>3. ASSUME NEW t \in Toolkits, profile_read(t) PROVE RefreshInv'
      <4>1. /\ call.at = "profiles" /\ call'.at = "profiles" /\ t \in call.todo /\ call'.todo = call.todo \ {t}
            /\ DOMAIN h = DOMAIN g /\ h.asked = g.asked \cup {client} /\ h.listed = g.listed
            /\ h.profiles = g.profiles \cup {<<t, client.tenant>>} /\ h.failures = g.failures
        <5>1. DOMAIN g = {"asked", "listed", "profiles", "failures"}
          BY <3>0 DEF RefreshInv
        <5> QED
          BY <2>0, <3>3, <5>1 DEF profile_read, Step, Asked, CallFields
      <4>2. t \notin ReadOf(g.profiles) /\ t \notin g.failures /\ OnceEach(g.profiles)
        BY <3>0, <4>1 DEF RefreshInv
      <4>3. OnceEach(h.profiles) /\ ReadOf(h.profiles) = ReadOf(g.profiles) \cup {t}
        <5>1. PICK P : P = g.profiles
          OBVIOUS
        <5>2. OnceEach(P) /\ t \notin ReadOf(P)
          BY <4>2, <5>1
        <5>3. /\ OnceEach(P \cup {<<t, client.tenant>>})
              /\ ReadOf(P \cup {<<t, client.tenant>>}) = ReadOf(P) \cup {t}
          BY <5>2, OneProfileEach, Zenon
        <5>4. h.profiles = P \cup {<<t, client.tenant>>}
          BY <4>1, <5>1
        <5> QED
          BY <5>1, <5>3, <5>4
      <4>4. /\ g.listed = ReadOf(g.profiles) \cup g.failures \cup call.todo
            /\ call.todo \cap (ReadOf(g.profiles) \cup g.failures) = {}
            /\ ReadOf(g.profiles) \cap g.failures = {}
            /\ DOMAIN g = {"asked", "listed", "profiles", "failures"}
            /\ ~call.moved => g.asked \subseteq {call.route} /\ client = call.route
        BY <3>0, <3>1, <4>1 DEF RefreshInv
      <4>5. /\ h.listed = ReadOf(h.profiles) \cup h.failures \cup call'.todo
            /\ call'.todo \cap (ReadOf(h.profiles) \cup h.failures) = {}
            /\ ReadOf(h.profiles) \cap h.failures = {}
        <5>1. PICK R, F, T : R = ReadOf(g.profiles) /\ F = g.failures /\ T = call.todo
          OBVIOUS
        <5>2. /\ ReadOf(h.profiles) = R \cup {t} /\ h.failures = F /\ call'.todo = T \ {t}
              /\ h.listed = R \cup F \cup T
          BY <4>1, <4>3, <4>4, <5>1
        <5>3. t \in T /\ t \notin F /\ T \cap (R \cup F) = {} /\ R \cap F = {}
          BY <4>1, <4>2, <4>4, <5>1
        <5>4. /\ R \cup F \cup T = (R \cup {t}) \cup F \cup (T \ {t})
              /\ (T \ {t}) \cap ((R \cup {t}) \cup F) = {}
              /\ (R \cup {t}) \cap F = {}
          BY <5>3
        <5> QED
          BY <5>2, <5>4
      <4>6. ~call'.moved => h.asked \subseteq {call'.route} /\ client' = call'.route
        BY <3>1, <4>1, <4>4
      <4> QED
        BY <4>1, <4>3, <4>4, <4>5, <4>6 DEF RefreshInv
    <3>4. ASSUME NEW t \in Toolkits, profile_failed(t) PROVE RefreshInv'
      <4>1. /\ call.at = "profiles" /\ call'.at = "profiles" /\ t \in call.todo /\ call'.todo = call.todo \ {t}
            /\ DOMAIN h = DOMAIN g /\ h.asked = g.asked /\ h.listed = g.listed
            /\ h.profiles = g.profiles /\ h.failures = g.failures \cup {t}
        BY <2>0, <3>0, <3>4 DEF profile_failed, Step, CallFields, RefreshInv
      <4> QED
        BY <3>0, <3>1, <4>1 DEF RefreshInv
    <3>5. CASE profiles_done
      <4>1. call'.at = "done" /\ call'.todo = {} /\ call.todo = {} /\ h = g /\ call.at = "profiles"
        BY <2>0, <3>0, <3>5 DEF profiles_done, Answer, Error, CallFields
      <4> QED
        BY <3>0, <3>1, <4>1 DEF RefreshInv
    <3>6. \/ refresh_listed \/ first_active_connection
          \/ \E t \in Toolkits : profile_read(t) \/ profile_failed(t)
          \/ profiles_done
      BY <2>0, <2>8, <3>0 DEF MemberStep, Error, CallFields, list_tools_answered, list_tool, list_tools_done, overview_toolkits,
         overview_connections, overview_tools, overview_tools_failed, overview_pref, overview_done,
         request_failed
    <3> QED
      BY <3>2, <3>3, <3>4, <3>5, <3>6
  <2>9. CASE UNCHANGED vars
    BY <2>9 DEF vars, RefreshInv
  <2> QED
    BY <2>1, <2>2, <2>3, <2>4, <2>5, <2>6, <2>7, <2>8, <2>9, NextSteps
<1>3. RefreshInv => RefreshAccountsForAll
  BY DEF RefreshInv, RefreshAccountsForAll, OnceEach, ReadOf
<1> QED
  BY <1>1, <1>2, <1>3, ModesRight, PTL DEF Spec

-----------------------------------------------------------------------------
\* The toolkits have names that both crates read from a slug as they are: no
\* alias (google_drive, ...) and not google_maps, which the sync crate takes
\* for toolkit google.
OwnNames == \A t \in Toolkits : sync_toolkit(t) = t

\* Such a name is no alias, and every toolkit with a provider has a catalog.
LEMMA OwnNamesRead ==
    ASSUME OwnNames, NEW t \in Toolkits
    PROVE  t \notin DOMAIN ALIASED_TOOLKIT_PREFIXES /\ bus_toolkit(t) = t
<1>1. sync_toolkit(t) = t
  BY DEF OwnNames
<1>2. t \notin DOMAIN ALIASED_TOOLKIT_PREFIXES
  BY <1>1 DEF sync_toolkit, Segment, MULTI_SEGMENT_TOOLKITS, ALIASED_TOOLKIT_PREFIXES
<1>3. bus_toolkit(t) = t
  BY <1>1, <1>2 DEF sync_toolkit, bus_toolkit, MULTI_SEGMENT_TOOLKIT_PREFIXES, MULTI_SEGMENT_TOOLKITS
<1> QED
  BY <1>2, <1>3

\* Each of the six toolkits with a provider has a catalog.
LEMMA ProvidersCurate == \A t \in default_registry : catalog_for_toolkit(t) # {}
<1>1. \A A, B, C : "reads" \in A => <<"reads", "Read">> \in Curate(A, B, C)
  BY DEF Curate
<1>2. /\ CLICKUP_CURATED # {} /\ GITHUB_CURATED # {} /\ GMAIL_CURATED # {}
      /\ LINEAR_CURATED # {} /\ NOTION_CURATED # {} /\ SLACK_CURATED # {}
  BY <1>1 DEF CLICKUP_CURATED, GITHUB_CURATED, GMAIL_CURATED, LINEAR_CURATED, NOTION_CURATED, SLACK_CURATED
<1>3. /\ catalog_for_toolkit("clickup") = CLICKUP_CURATED
      /\ catalog_for_toolkit("github") = GITHUB_CURATED
      /\ catalog_for_toolkit("gmail") = GMAIL_CURATED
      /\ catalog_for_toolkit("linear") = LINEAR_CURATED
      /\ catalog_for_toolkit("notion") = NOTION_CURATED
      /\ catalog_for_toolkit("slack") = SLACK_CURATED
  BY DEF catalog_for_toolkit
<1> QED
  BY <1>2, <1>3 DEF default_registry

\* The rows of a catalog are pairs.
LEMMA CatalogRows == \A t : \A row \in catalog_for_toolkit(t) : row = <<row[1], row[2]>>
<1>1. \A A, B, C : \A row \in Curate(A, B, C) : row = <<row[1], row[2]>>
  BY DEF Curate
<1>2. \A t : catalog_for_toolkit(t) = {} \/ \E A, B, C : catalog_for_toolkit(t) = Curate(A, B, C)
  BY DEF catalog_for_toolkit, SHOPIFY_CURATED, STRIPE_CURATED, HUBSPOT_CURATED, SALESFORCE_CURATED,
     AIRTABLE_CURATED, FIGMA_CURATED, CLICKUP_CURATED, GITHUB_CURATED, GMAIL_CURATED,
     GOOGLECALENDAR_CURATED, GOOGLEDRIVE_CURATED, GOOGLEDOCS_CURATED, GOOGLESHEETS_CURATED,
     LINEAR_CURATED, SLACK_CURATED, DISCORD_CURATED, TELEGRAM_CURATED, WHATSAPP_CURATED,
     MICROSOFT_TEAMS_CURATED, ONE_DRIVE_CURATED, EXCEL_CURATED, NOTION_CURATED, OUTLOOK_CURATED,
     JIRA_CURATED, TRELLO_CURATED, ASANA_CURATED, DROPBOX_CURATED, TODOIST_CURATED, TWITTER_CURATED,
     SPOTIFY_CURATED, YOUTUBE_CURATED
<1> QED
  BY <1>1, <1>2

\* An action's name is that of a toolkit, and its entry that of the catalog.
LEMMA LiveNames ==
    \A a \in Live :
        /\ a.name \in Toolkits
        /\ a.entry # None => <<a.kind, a.entry>> \in catalog_for_toolkit(bus_toolkit(a.name))
<1> SUFFICES ASSUME NEW a \in Live
             PROVE  /\ a.name \in Toolkits
                    /\ a.entry # None => <<a.kind, a.entry>> \in catalog_for_toolkit(bus_toolkit(a.name))
  OBVIOUS
<1>1. PICK n \in Toolkits : \E row \in catalog_for_toolkit(bus_toolkit(n)) \cup (Kinds \X {None}) :
                               a = [name |-> n, kind |-> row[1], entry |-> row[2]]
  BY ServiceAssumption DEF Actions
<1>2. PICK row \in catalog_for_toolkit(bus_toolkit(n)) \cup (Kinds \X {None}) :
              a = [name |-> n, kind |-> row[1], entry |-> row[2]]
  BY <1>1
<1>3. a.name = n /\ a.kind = row[1] /\ a.entry = row[2]
  BY <1>2
<1>4. row \in Kinds \X {None} => a.entry = None
  BY <1>3
<1>5. row \in catalog_for_toolkit(bus_toolkit(n)) => row = <<row[1], row[2]>>
  BY CatalogRows
<1> QED
  BY <1>3, <1>4, <1>5

\* What a listing shows, Execute sends under the same preferences, wherever the
\* two take the scope from the same place.
LEMMA ShownIsSent ==
    ASSUME OwnNames, NEW a \in Live, NEW ps, listed(a, ps), Agreed(a, ps)
    PROVE  permits(a, ps)
<1> DEFINE p == pref_for(a, ps)
<1>1. sync_toolkit(a.name) = a.name /\ bus_toolkit(a.name) = a.name
  <2>1. a.name \in Toolkits
    BY LiveNames, Zenon
  <2>2. sync_toolkit(a.name) = a.name
    BY <2>1 DEF OwnNames
  <2> QED
    BY <2>1, <2>2, OwnNamesRead
<1>2. is_action_visible_with_pref(a, p)
  BY DEF listed
<1>3. CASE a.name \in default_registry
  <2>1. curated_scope_for(a) # None /\ allows(p, curated_scope_for(a))
    BY <1>1, <1>2, <1>3, ProvidersCurate DEF is_action_visible_with_pref
  <2>2. execute_scope(a) = curated_scope_for(a)
    BY <1>1, <1>3, <2>1 DEF execute_scope, curated_scope_for
  <2> QED
    BY <2>1, <2>2 DEF permits, permits_with
<1>4. CASE a.name \notin default_registry
  <2>1. catalog_for_toolkit(bus_toolkit(a.name)) = {} /\ p \in Thresholds
    BY <1>4 DEF Agreed
  <2>2. bus_classify_unknown(a) \in p
    BY <1>2, <2>1 DEF is_action_visible_with_pref, allows
  <2>3. execute_scope(a) = sync_classify_unknown(a)
    BY <1>1, <1>4 DEF execute_scope
  <2>4. sync_classify_unknown(a) \in {bus_classify_unknown(a), "Read"}
    BY <1>1 DEF sync_classify_unknown, bus_classify_unknown
  <2>5. "Read" \in p
    BY <2>1, <2>2 DEF Thresholds, Scopes
  <2> QED
    BY <2>2, <2>3, <2>4, <2>5 DEF permits, permits_with, allows
<1> QED
  BY <1>3, <1>4

\* A tool a listing has looked at was shown or hidden under preferences that
\* were in force since the listing began.
ListInv ==
    call.op = "list" =>
        LET g == call.got
        IN  /\ DOMAIN g = {"asked", "tools", "allowed"}
            /\ call.at \in {"tools", "filter", "done"}
            /\ call.at # "done" => prefs \in call.seen
            /\ call.at = "tools" => g.tools = {} /\ g.allowed = {} /\ call.todo = {}
            /\ call.at = "done" => call.todo = {}
            /\ \A a \in g.tools : a \in Live /\ offers(offered, sync_toolkit(a.name))
            /\ \A a \in g.tools \ call.todo :
                  /\ a \in g.allowed => \E ps \in call.seen : listed(a, ps)
                  /\ a \notin g.allowed => \E ps \in call.seen : ~listed(a, ps)
            /\ call.todo \cap g.allowed = {}

\* A scoped listing shows what the preferences of some moment of it show, and
\* Execute agrees, for toolkits that go by their own names.
THEOREM ListingEnforced ==
    ASSUME OwnNames
    PROVE  Spec => []ListingIsEnforced
<1>1. Init => ListInv
  BY DEF Init, Idle, ListInv
<1>2. ModeInv /\ ListInv /\ [Next]_vars => ListInv'
  <2> SUFFICES ASSUME ModeInv, ListInv, [Next]_vars PROVE ListInv'
    OBVIOUS
  <2>0. DOMAIN call = CallFields
    BY DEF ModeInv
  <2>1. ASSUME NEW s \in Setups, NEW m \in Modes, admit(s, m) PROVE ListInv'
    BY <2>1 DEF admit, ListInv, listed
  <2>2. ASSUME NEW s \in Setups, NEW r \in Routes \cup {NoRoute}, setup(s, r) PROVE ListInv'
    BY <2>2 DEF setup, Idle, ListInv
  <2>3. ASSUME NEW s \in Setups, setup_failed(s) PROVE ListInv'
    BY <2>3 DEF setup_failed, ListInv
  <2>4. ASSUME NEW r \in Routes \cup {NoRoute}, configure(r) PROVE ListInv'
    <3>1. /\ call'.op = call.op /\ call'.at = call.at /\ call'.todo = call.todo
          /\ call'.got = call.got /\ call'.seen = call.seen
          /\ prefs' = prefs /\ offered' = offered
      BY <2>0, <2>4 DEF configure, CallFields
    <3> QED
      BY <3>1 DEF ListInv
  <2>5. ASSUME NEW n \in Names, NEW p \in Choices, set_user_scopes(n, p) PROVE ListInv'
    <3>1. /\ call'.op = call.op /\ call'.at = call.at /\ call'.todo = call.todo
          /\ call'.got = call.got /\ call'.seen = call.seen \cup {prefs'}
          /\ offered' = offered
      BY <2>0, <2>5 DEF set_user_scopes, CallFields
    <3> QED
      BY <3>1 DEF ListInv
  <2>6. ASSUME NEW n \in Tenants, NEW r \in Toolkits \X Statuses, RowChange(n, r) PROVE ListInv'
    BY <2>6 DEF RowChange, ListInv
  <2>7. CASE MemberBegins
    <3> SUFFICES ASSUME call'.op = "list" PROVE ListInv'
      BY DEF ListInv
    <3>1. list_tools
      <4>1. ~\E a \in Live : execute(a)
        BY DEF execute, Call
      <4>2. ~\E via \in {"proxy", "direct"} : connected_integrations(via)
        BY DEF connected_integrations, Call
      <4>3. ~\E t \in Toolkits, named \in BOOLEAN : get_user_profile(t, named)
        BY DEF get_user_profile, Call
      <4>4. ~refresh_all_identities
        BY DEF refresh_all_identities, Call
      <4> QED
        BY <2>7, <4>1, <4>2, <4>3, <4>4 DEF MemberBegins
    <3> QED
      BY <3>1 DEF list_tools, Call, Same, ListInv
  <2>8. CASE MemberStep
    <3> SUFFICES ASSUME call'.op = "list" PROVE ListInv'
      BY DEF ListInv
    <3>0. call.op = "list" /\ ~Error
      BY <2>0, <2>8, MemberSteps DEF Error, CallFields
    <3>1. /\ prefs' = prefs /\ offered' = offered /\ call'.seen = call.seen /\ call.at # "done"
      BY <2>0, <2>8, MemberSteps DEF Same
    <3> DEFINE g == call.got
               h == call'.got
    <3>2. DOMAIN g = {"asked", "tools", "allowed"} /\ prefs \in call.seen
      BY <3>0, <3>1 DEF ListInv
    <3>3. ASSUME NEW ts \in SUBSET Toolkits, NEW scoped \in BOOLEAN, list_tools_answered(ts, scoped)
          PROVE  ListInv'
      <4> DEFINE shown == offer({x \in Live : x.name \in ts})
                 answer == [Asked(call, call.route) EXCEPT !.tools = shown]
      <4>1. call.at = "tools" /\ g.allowed = {}
        BY <3>0, <3>3 DEF list_tools_answered, ListInv
      <4>2. answer.tools = shown /\ answer.allowed = {} /\ DOMAIN answer = DOMAIN g
        BY <3>2, <4>1 DEF Asked
      <4>3. \A a \in shown : a \in Live /\ offers(offered, sync_toolkit(a.name))
        BY DEF offer
      <4>4. Step("filter", answer.tools, answer)
        <5>1. ~(call' = [call EXCEPT !.op = "list_all", !.at = "done",
                                     !.got = [answer EXCEPT !.allowed = answer.tools]])
          BY <2>0 DEF CallFields
        <5> QED
          BY <3>3, <5>1, Zenon DEF list_tools_answered
      <4> HIDE DEF answer, shown
      <4>5. call'.at = "filter" /\ call'.todo = shown /\ h = answer
        BY <2>0, <4>2, <4>4 DEF Step, CallFields
      <4> QED
        BY <3>1, <3>2, <4>2, <4>3, <4>5 DEF ListInv
    <3>4. ASSUME NEW a \in Live, list_tool(a) PROVE ListInv'
      <4>1. /\ call.at = "filter" /\ a \in call.todo
            /\ call'.at = "filter" /\ call'.todo = call.todo \ {a}
            /\ h = IF listed(a, prefs) THEN [g EXCEPT !.allowed = @ \cup {a}] ELSE g
        BY <2>0, <3>4 DEF list_tool, Step, CallFields
      <4>2. /\ DOMAIN h = DOMAIN g /\ h.tools = g.tools
            /\ h.allowed = IF listed(a, prefs) THEN g.allowed \cup {a} ELSE g.allowed
        BY <3>2, <4>1
      <4>3. a \notin g.allowed
        BY <3>0, <4>1 DEF ListInv
      <4>4. \A x \in h.tools \ call'.todo :
              /\ x \in h.allowed => \E ps \in call.seen : listed(x, ps)
              /\ x \notin h.allowed => \E ps \in call.seen : ~listed(x, ps)
        <5> SUFFICES ASSUME NEW x \in g.tools, x \notin call.todo \/ x = a
                     PROVE  /\ x \in h.allowed => \E ps \in call.seen : listed(x, ps)
                            /\ x \notin h.allowed => \E ps \in call.seen : ~listed(x, ps)
          BY <4>1, <4>2
        <5>1. CASE x = a
          BY <3>2, <4>2, <4>3, <5>1
        <5>2. CASE x # a
          BY <3>0, <4>2, <5>2 DEF ListInv
        <5> QED
          BY <5>1, <5>2
      <4>5. call'.todo \cap h.allowed = {}
        BY <3>0, <4>1, <4>2 DEF ListInv
      <4> QED
        BY <3>0, <3>1, <3>2, <4>1, <4>2, <4>4, <4>5 DEF ListInv
    <3>5. CASE list_tools_done
      <4>1. call'.at = "done" /\ call'.todo = {} /\ call.todo = {} /\ h = g
        BY <2>0, <3>5 DEF list_tools_done, Answer, CallFields
      <4> QED
        BY <3>0, <3>1, <4>1 DEF ListInv
    <3>6. \/ \E ts \in SUBSET Toolkits, scoped \in BOOLEAN : list_tools_answered(ts, scoped)
          \/ \E a \in Live : list_tool(a)
          \/ list_tools_done
      <4>1. call.at \in {"tools", "filter"}
        BY <3>0, <3>1 DEF ListInv
      <4> QED
        BY <2>8, <3>0, <4>1 DEF MemberStep, overview_toolkits, overview_connections, overview_tools,
           overview_tools_failed, overview_pref, overview_done, request_failed, refresh_listed,
           first_active_connection, profile_read, profile_failed, profiles_done
    <3> QED
      BY <3>3, <3>4, <3>5, <3>6
  <2>9. CASE UNCHANGED vars
    BY <2>9 DEF vars, ListInv
  <2> QED
    BY <2>1, <2>2, <2>3, <2>4, <2>5, <2>6, <2>7, <2>8, <2>9, NextSteps
<1>3. ListInv => ListingIsEnforced
  <2> SUFFICES ASSUME ListInv, call.op = "list", call.at = "done", NEW a \in call.got.tools
               PROVE  /\ offers(offered, a.name)
                      /\ a \in call.got.allowed =>
                           \E ps \in call.seen : listed(a, ps) /\ (Agreed(a, ps) => permits(a, ps))
                      /\ a \notin call.got.allowed => \E ps \in call.seen : ~listed(a, ps)
    BY DEF ListingIsEnforced
  <2>1. a \in Live /\ offers(offered, sync_toolkit(a.name)) /\ a \notin call.todo
    BY DEF ListInv
  <2>2. sync_toolkit(a.name) = a.name
    <3>1. a.name \in Toolkits
      BY <2>1, LiveNames, Zenon
    <3> QED
      BY <3>1 DEF OwnNames
  <2>3. \A ps : listed(a, ps) /\ Agreed(a, ps) => permits(a, ps)
    BY <2>1, ShownIsSent
  <2> QED
    BY <2>1, <2>2, <2>3 DEF ListInv
<1> QED
  BY <1>1, <1>2, <1>3, ModesRight, PTL DEF Spec

-----------------------------------------------------------------------------
OverviewFields == {"asked", "allow", "rows", "tools", "prefs", "listed"}

\* An overview asks the route it began with only, and from the answer of
\* list_tools on it holds every live action of the toolkits that its rows show
\* active, unless the direct route did not list them or there is nothing to show.
OverviewInv ==
    call.op = "overview" =>
        LET g == call.got
        IN  /\ DOMAIN g = OverviewFields
            /\ call.at \in {"toolkits", "connections", "tools", "prefs", "done"}
            /\ g.asked \subseteq {call.route}
            /\ call.at \in {"toolkits", "connections"} => g.rows = {}
            /\ call.at \in {"toolkits", "connections", "tools"} => g.tools = {}
            /\ call.at = "tools" => call.todo = Active(g.rows)
            /\ call.at \in {"prefs", "done"} =>
                 \/ g.allow = {}
                 \/ call.route.via = "direct" /\ ~g.listed
                 \/ g.tools = {a \in Live : a.name \in Active(g.rows)}

\* The status that is shown asks at least as much of the user as any other.
LEMMA GravestShown ==
    ASSUME NEW t, NEW rs, NEW r \in rs, r[1] = t
    PROVE  status_priority(non_active_status(t, rs)) >= status_priority(r[2])
<1> DEFINE mine == {x[2] : x \in {y \in rs : y[1] = t}}
           Gravest(s) == \A u \in mine : status_priority(u) <= status_priority(s)
<1>1. r[2] \in mine
  OBVIOUS
<1>2. \A s : status_priority(s) \in 1..4
  BY DEF status_priority
<1>3. \E s \in mine : Gravest(s)
  <2> HIDE DEF mine
  <2>1. CASE \E s \in mine : status_priority(s) = 4
    BY <1>2, <2>1
  <2>2. CASE (\E s \in mine : status_priority(s) = 3) /\ ~\E s \in mine : status_priority(s) = 4
    BY <1>2, <2>2
  <2>3. CASE (\E s \in mine : status_priority(s) = 2) /\ ~\E s \in mine : status_priority(s) \in {3, 4}
    BY <1>2, <2>3
  <2>4. CASE ~\E s \in mine : status_priority(s) \in {2, 3, 4}
    BY <1>1, <1>2, <2>4
  <2> QED
    BY <2>1, <2>2, <2>3, <2>4
<1>4. non_active_status(t, rs) = CHOOSE s \in mine : Gravest(s)
  BY <1>1 DEF non_active_status
<1>5. Gravest(non_active_status(t, rs))
  <2> HIDE DEF mine, Gravest
  <2> QED
    BY <1>3, <1>4
<1> QED
  BY <1>1, <1>2, <1>5

\* The curated actions of a toolkit are shown or gated, whatever the
\* preference that was read for it.
LEMMA CuratedShown ==
    ASSUME OwnNames, NEW t, NEW g, NEW a \in g.tools, a \in Live, a.name = t, a.entry # None
    PROVE  a \in split_tools(t, g).tools \cup split_tools(t, g).gated
<1>1. a.name \in Toolkits /\ <<a.kind, a.entry>> \in catalog_for_toolkit(bus_toolkit(a.name))
  BY LiveNames
<1>2. a.name \notin DOMAIN ALIASED_TOOLKIT_PREFIXES
  BY <1>1, OwnNamesRead
<1>3. curated_scope_for(a) # None
  BY <1>1, <1>2 DEF curated_scope_for, find_curated
<1> QED
  BY <1>3 DEF split_tools

\* An overview is about the tenant of its route, shows or gates every curated
\* action of a connected toolkit, and the gravest status of any other.
THEOREM OverviewTruthful ==
    ASSUME OwnNames
    PROVE  Spec => []OverviewIsTruthful
<1>1. Init => OverviewInv
  BY DEF Init, Idle, OverviewInv
<1>2. ModeInv /\ OverviewInv /\ [Next]_vars => OverviewInv'
  <2> SUFFICES ASSUME ModeInv, OverviewInv, [Next]_vars PROVE OverviewInv'
    OBVIOUS
  <2>0. DOMAIN call = CallFields
    BY DEF ModeInv
  <2>1. ASSUME /\ call'.op = call.op /\ call'.at = call.at /\ call'.todo = call.todo
               /\ call'.got = call.got /\ call'.route = call.route
        PROVE  OverviewInv'
    BY <2>1 DEF OverviewInv
  <2>2. ASSUME NEW s \in Setups, NEW r \in Routes \cup {NoRoute}, setup(s, r) PROVE OverviewInv'
    BY <2>2 DEF setup, Idle, OverviewInv
  <2>3. CASE UNCHANGED call
    BY <2>1, <2>3
  <2>4. ASSUME NEW r \in Routes \cup {NoRoute}, configure(r) PROVE OverviewInv'
    BY <2>0, <2>1, <2>4 DEF configure, CallFields
  <2>5. ASSUME NEW n \in Names, NEW p \in Choices, set_user_scopes(n, p) PROVE OverviewInv'
    BY <2>0, <2>1, <2>5 DEF set_user_scopes, CallFields
  <2>7. CASE MemberBegins
    <3> SUFFICES ASSUME call'.op = "overview" PROVE OverviewInv'
      BY DEF OverviewInv
    <3>1. PICK via \in {"proxy", "direct"} : connected_integrations(via)
      <4>1. ~\E a \in Live : execute(a)
        BY DEF execute, Call
      <4>2. ~list_tools
        BY DEF list_tools, Call
      <4>3. ~\E t \in Toolkits, named \in BOOLEAN : get_user_profile(t, named)
        BY DEF get_user_profile, Call
      <4>4. ~refresh_all_identities
        BY DEF refresh_all_identities, Call
      <4> QED
        BY <2>7, <4>1, <4>2, <4>3, <4>4 DEF MemberBegins
    <3>2. /\ call'.at \in {"toolkits", "connections"} /\ DOMAIN call'.got = OverviewFields
          /\ call'.got.asked = {} /\ call'.got.rows = {} /\ call'.got.tools = {}
      BY <3>1 DEF connected_integrations, Call, OverviewFields
    <3> QED
      BY <3>2 DEF OverviewInv
  <2>8. CASE MemberStep
    <3> SUFFICES ASSUME call'.op = "overview" PROVE OverviewInv'
      BY DEF OverviewInv
    <3>0. call.op = "overview" /\ ~Error
      BY <2>0, <2>8, MemberSteps DEF Error, CallFields
    <3>1. call'.route = call.route /\ call.at # "done"
      BY <2>0, <2>8, MemberSteps
    <3> DEFINE g == call.got
               h == call'.got
    <3>2. /\ DOMAIN g = {"asked", "allow", "rows", "tools", "prefs", "listed"}
          /\ g.asked \subseteq {call.route}
      BY <3>0 DEF OverviewInv, OverviewFields
    <3>3. ASSUME NEW flat \in SUBSET Toolkits, NEW catalog \in SUBSET (Toolkits \X BOOLEAN),
                 overview_toolkits(flat, catalog)
          PROVE  OverviewInv'
      <4>1. /\ call.at = "toolkits" /\ call'.at \in {"done", "connections"}
            /\ DOMAIN h = DOMAIN g /\ h.asked = g.asked \cup {call.route}
            /\ h.rows = g.rows /\ h.tools = g.tools
        <5> DEFINE answer == [Asked(call, call.route) EXCEPT !.allow = connectable_toolkit_slugs(flat, catalog)]
        <5>1. /\ DOMAIN answer = DOMAIN g /\ answer.asked = g.asked \cup {call.route}
              /\ answer.rows = g.rows /\ answer.tools = g.tools
          BY <3>2 DEF Asked
        <5>2. call.at = "toolkits" /\ (Answer(answer) \/ Step("connections", {}, answer))
          BY <3>3, Zenon DEF overview_toolkits
        <5> HIDE DEF answer
        <5>3. CASE Answer(answer)
          BY <2>0, <5>1, <5>2, <5>3 DEF Answer, CallFields
        <5>4. CASE Step("connections", {}, answer)
          BY <2>0, <5>1, <5>2, <5>4 DEF Step, CallFields
        <5> QED
          BY <5>2, <5>3, <5>4
      <4> QED
        BY <3>0, <3>1, <3>2, <4>1 DEF OverviewInv, OverviewFields, Active
    <3>4. CASE overview_connections
      <4>1. PICK rs : rs = rows[call.route.tenant]
        OBVIOUS
      <4>2. /\ call.at = "connections" /\ call'.at \in {"done", "prefs", "tools"}
            /\ DOMAIN h = DOMAIN g /\ h.asked = g.asked \cup {call.route}
            /\ h.rows = rs /\ h.tools = g.tools
            /\ call'.at \in {"done", "prefs"} => Active(rs) = {} \/ h.allow = {}
            /\ call'.at = "tools" => call'.todo = Active(rs)
        <5> DEFINE answer == [Asked(call, call.route) EXCEPT !.rows = rs,
                                !.allow = IF call.route.via = "proxy" THEN @ ELSE Active(rs)]
        <5>1. /\ DOMAIN answer = DOMAIN g /\ answer.asked = g.asked \cup {call.route}
              /\ answer.rows = rs /\ answer.tools = g.tools
              /\ answer.allow = IF call.route.via = "proxy" THEN g.allow ELSE Active(rs)
          BY <3>2 DEF Asked
        <5>2. call.at = "connections"
          BY <3>4 DEF overview_connections
        <5>3. \/ answer.allow = {} /\ Answer(answer)
              \/ answer.allow # {} /\ Step(IF Active(rs) = {} THEN "prefs" ELSE "tools", Active(rs), answer)
          BY <3>4, <4>1 DEF overview_connections
        <5> HIDE DEF answer
        <5>4. CASE Answer(answer) /\ answer.allow = {}
          BY <2>0, <5>1, <5>2, <5>4 DEF Answer, CallFields
        <5>5. CASE Step(IF Active(rs) = {} THEN "prefs" ELSE "tools", Active(rs), answer)
          BY <2>0, <5>1, <5>2, <5>5 DEF Step, CallFields
        <5> QED
          BY <5>3, <5>4, <5>5
      <4> QED
        BY <3>0, <3>1, <3>2, <4>2 DEF OverviewInv, OverviewFields
    <3>5. CASE overview_tools
      <4>1. /\ call.at = "tools" /\ call'.at = "prefs"
            /\ DOMAIN h = DOMAIN g /\ h.asked = g.asked \cup {call.route}
            /\ h.rows = g.rows /\ h.tools = {a \in Live : a.name \in call.todo}
        BY <2>0, <3>2, <3>5 DEF overview_tools, Asked, Step, CallFields
      <4> QED
        BY <3>0, <3>1, <3>2, <4>1 DEF OverviewInv, OverviewFields
    <3>6. CASE overview_tools_failed
      <4>1. call.route.via = "direct" /\ Step("prefs", call.todo, [Asked(call, call.route) EXCEPT !.listed = FALSE])
        BY <3>0, <3>6, Zenon DEF overview_tools_failed, tolerated
      <4>2. /\ call.at = "tools" /\ call'.at = "prefs"
            /\ DOMAIN h = DOMAIN g /\ h.asked = g.asked \cup {call.route} /\ ~h.listed
        BY <2>0, <3>2, <3>6, <4>1 DEF overview_tools_failed, Asked, Step, CallFields
      <4> QED
        BY <3>0, <3>1, <3>2, <4>1, <4>2 DEF OverviewInv, OverviewFields
    <3>7. ASSUME NEW t \in Toolkits, overview_pref(t) PROVE OverviewInv'
      <4>1. /\ call.at = "prefs" /\ call'.at = "prefs"
            /\ DOMAIN h = DOMAIN g /\ h.asked = g.asked
            /\ h.rows = g.rows /\ h.tools = g.tools /\ h.listed = g.listed /\ h.allow = g.allow
        BY <2>0, <3>2, <3>7 DEF overview_pref, Step, CallFields
      <4> QED
        BY <3>0, <3>1, <3>2, <4>1 DEF OverviewInv
    <3>8. CASE overview_done
      <4>1. call.at = "prefs" /\ call'.at = "done" /\ h = g
        BY <2>0, <3>8 DEF overview_done, Answer, CallFields
      <4> QED
        BY <3>0, <3>1, <3>2, <4>1 DEF OverviewInv
    <3>9. \/ \E flat \in SUBSET Toolkits, catalog \in SUBSET (Toolkits \X BOOLEAN) : overview_toolkits(flat, catalog)
          \/ overview_connections \/ overview_tools \/ overview_tools_failed
          \/ \E t \in Toolkits : overview_pref(t)
          \/ overview_done
      <4>1. call.at # "profiles"
        BY <3>0 DEF OverviewInv
      <4> QED
        BY <2>8, <3>0, <4>1 DEF MemberStep, list_tools_answered, list_tool, list_tools_done, request_failed,
           refresh_listed, first_active_connection, profile_read, profile_failed, profiles_done
    <3> QED
      BY <3>3, <3>4, <3>5, <3>6, <3>7, <3>8, <3>9
  <2> QED
    BY <2>2, <2>3, <2>4, <2>5, <2>7, <2>8, NextSteps DEF admit, setup_failed, RowChange, vars
<1>3. OverviewInv => OverviewIsTruthful
  <2> SUFFICES ASSUME OverviewInv, call.op = "overview", call.at = "done" PROVE OverviewIsTruthful
    BY DEF OverviewIsTruthful
  <2> DEFINE g == call.got
             view == assemble(g)
  <2>1. g.asked \subseteq {call.route}
    BY DEF OverviewInv
  <2>2. \A t \in DOMAIN view : view[t].connected <=> t \in Active(g.rows)
    BY DEF assemble
  <2>3. ASSUME NEW t \in DOMAIN view, view[t].connected, ~(call.route.via = "direct" /\ ~g.listed),
               NEW a \in Live, a.name = t, a.entry # None
        PROVE  a \in view[t].split.tools \cup view[t].split.gated
    <3>1. t \in Active(g.rows)
      BY <2>2, <2>3
    <3>2. a \in g.tools
      BY <2>3, <3>1 DEF OverviewInv, assemble
    <3>3. view[t].split = split_tools(t, g)
      BY <3>1 DEF assemble
    <3> QED
      BY <2>3, <3>2, <3>3, CuratedShown
  <2>4. ASSUME NEW t \in DOMAIN view, NEW r \in g.rows, r[1] = t, ~view[t].connected
        PROVE  r[2] # "ACTIVE" /\ status_priority(view[t].status) >= status_priority(r[2])
    <3>1. t \notin Active(g.rows)
      BY <2>2, <2>4
    <3>2. r[2] # "ACTIVE"
      BY <2>4, <3>1 DEF Active
    <3>3. view[t].status = non_active_status(t, g.rows)
      BY <3>1 DEF assemble
    <3> QED
      BY <2>4, <3>2, <3>3, GravestShown
  <2> QED
    BY <2>1, <2>3, <2>4 DEF OverviewIsTruthful
<1> QED
  BY <1>1, <1>2, <1>3, ModesRight, PTL DEF Spec

-----------------------------------------------------------------------------
(***************************************************************************)
(* What racing Authorize calls promise for any number of calls, rows and   *)
(* attempts: the theorems of module Authorize.                             *)
(***************************************************************************)

\* Type correctness: the attempts of a call stay within the limit and the rows
\* it is answered with, lists or deletes are rows that were made.
THEOREM OAuthTypeCorrect == OAuthSpec => []OAuthTypeOK
<1> USE AuthorizeAssumption DEF OAuthTypeOK, Rows, RowStatuses
<1>1. OAuthInit => OAuthTypeOK
  <2> SUFFICES ASSUME OAuthInit PROVE OAuthTypeOK
    OBVIOUS
  <2>1. meta \in BOOLEAN /\ failed \in BOOLEAN
    BY Zenon DEF OAuthInit
  <2>2. status \in [Rows -> RowStatuses]
    <3>1. PICK s \in {"inflight", "failed", "active", "other"} :
            status = [r \in Rows |-> IF r = 1 THEN s ELSE "none"]
      BY DEF OAuthInit
    <3> QED
      BY <3>1
  <2> QED
    BY <2>1, <2>2 DEF OAuthInit
<1>2. OAuthTypeOK /\ [OAuthNext]_oauth_vars => OAuthTypeOK'
  <2> SUFFICES ASSUME OAuthTypeOK, [OAuthNext]_oauth_vars PROVE OAuthTypeOK'
    OBVIOUS
  <2>1. ASSUME NEW c \in Callers, Begin(c) PROVE OAuthTypeOK'
    BY <2>1 DEF Begin, Attempt, Goto, history
  <2>2. ASSUME NEW c \in Callers, list(c) PROVE OAuthTypeOK'
    BY <2>2 DEF list, clearable, Goto, history
  <2>3. ASSUME NEW c \in Callers, list_fails(c) PROVE OAuthTypeOK'
    BY <2>3 DEF list_fails, Goto, history
  <2>4. ASSUME NEW c \in Callers, NEW r \in stale[c], delete(c, r) PROVE OAuthTypeOK'
    BY <2>4 DEF delete, Goto
  <2>5. ASSUME NEW c \in Callers, authorize(c) PROVE OAuthTypeOK'
    BY <2>5 DEF authorize, MakeRow, Goto, history
  <2>6. ASSUME NEW c \in Callers, rate_limited(c) PROVE OAuthTypeOK'
    BY <2>6 DEF rate_limited, Attempt, Goto, history
  <2>7. ASSUME NEW c \in Callers, rejected(c) PROVE OAuthTypeOK'
    <3>1. status' \in [Rows -> RowStatuses] /\ made' \in 0..MaxRows
      BY <2>7 DEF rejected, MakeRow
    <3>2. failed' \in BOOLEAN
      BY <2>7, Zenon DEF rejected
    <3> QED
      BY <2>7, <3>1, <3>2 DEF rejected, Goto
  <2>8. ASSUME NEW r \in Rows, Finish(r) PROVE OAuthTypeOK'
    BY <2>8 DEF Finish
  <2>9. ASSUME NEW r \in Rows, Lapse(r) PROVE OAuthTypeOK'
    BY <2>9 DEF Lapse, history
  <2>10. CASE UNCHANGED oauth_vars
    BY <2>10 DEF oauth_vars
  <2> QED
    BY <2>1, <2>2, <2>3, <2>4, <2>5, <2>6, <2>7, <2>8, <2>9, <2>10 DEF OAuthNext, OAuthStep
<1> QED
  BY <1>1, <1>2, PTL DEF OAuthSpec

-----------------------------------------------------------------------------
\* What makes UsableSurvives inductive: a row that some cleanup is still to
\* delete was not active when it was listed, so if it is active now the user
\* finished it in between.
CleanupInv ==
    /\ cut \subseteq raced
    /\ \A c \in Callers : \A r \in stale[c] : status[r] = "active" => r \in raced

\* A cleanup deletes a usable connection only if the user finished that very
\* handoff between the cleanup's listing and its delete.
THEOREM Survival == OAuthSpec => []UsableSurvives
<1>1. OAuthInit => CleanupInv
  BY DEF OAuthInit, CleanupInv
<1>2. OAuthTypeOK /\ CleanupInv /\ [OAuthNext]_oauth_vars => CleanupInv'
  <2> SUFFICES ASSUME OAuthTypeOK, CleanupInv, [OAuthNext]_oauth_vars PROVE CleanupInv'
    OBVIOUS
  <2> USE AuthorizeAssumption DEF OAuthTypeOK, Rows, RowStatuses, CleanupInv
  <2>1. ASSUME NEW c \in Callers, Begin(c) PROVE CleanupInv'
    BY <2>1 DEF Begin, history
  <2>2. ASSUME NEW c \in Callers, list(c) PROVE CleanupInv'
    <3>1. \A r \in clearable : status[r] # "active"
      BY DEF clearable
    <3>2. stale' = [stale EXCEPT ![c] = clearable] /\ UNCHANGED <<status, cut, raced>>
      BY <2>2 DEF list, history
    <3> QED
      BY <3>1, <3>2
  <2>3. ASSUME NEW c \in Callers, list_fails(c) PROVE CleanupInv'
    BY <2>3 DEF list_fails, history
  <2>4. ASSUME NEW c \in Callers, NEW r \in stale[c], delete(c, r) PROVE CleanupInv'
    BY <2>4 DEF delete
  <2>5. ASSUME NEW c \in Callers, authorize(c) PROVE CleanupInv'
    BY <2>5 DEF authorize, MakeRow, history
  <2>6. ASSUME NEW c \in Callers, rate_limited(c) PROVE CleanupInv'
    BY <2>6 DEF rate_limited, history
  <2>7. ASSUME NEW c \in Callers, rejected(c) PROVE CleanupInv'
    BY <2>7 DEF rejected, MakeRow
  <2>8. ASSUME NEW r \in Rows, Finish(r) PROVE CleanupInv'
    BY <2>8 DEF Finish
  <2>9. ASSUME NEW r \in Rows, Lapse(r) PROVE CleanupInv'
    BY <2>9 DEF Lapse, history
  <2>10. CASE UNCHANGED oauth_vars
    BY <2>10 DEF oauth_vars
  <2> QED
    BY <2>1, <2>2, <2>3, <2>4, <2>5, <2>6, <2>7, <2>8, <2>9, <2>10 DEF OAuthNext, OAuthStep
<1>3. CleanupInv => UsableSurvives
  BY DEF CleanupInv, UsableSurvives
<1> QED
  BY <1>1, <1>2, <1>3, OAuthTypeCorrect, PTL DEF OAuthSpec

-----------------------------------------------------------------------------
\* What makes LastHandoffLives inductive: the newest row is gone only while
\* some call is under way, which will make a newer one or fail.
HandoffInv == (~failed /\ made > 0) => (Present(made) \/ \E c \in Callers : pc[c] # "idle")

\* However the cleanups of racing calls take each other's handoffs away, when
\* they are over the newest one is still there, or a caller was told of an
\* error.
THEOREM Handoff == OAuthSpec => []LastHandoffLives
<1>1. OAuthInit => HandoffInv
  <2> SUFFICES ASSUME OAuthInit, made > 0 PROVE Present(made)
    BY DEF HandoffInv
  <2>1. PICK s \in {"inflight", "failed", "active", "other"} :
          status = [r \in Rows |-> IF r = 1 THEN s ELSE "none"]
    BY DEF OAuthInit
  <2>2. made = 1 /\ 1 \in Rows
    BY AuthorizeAssumption DEF OAuthInit, Rows
  <2> QED
    BY <2>1, <2>2 DEF Present
<1>2. OAuthTypeOK /\ HandoffInv /\ [OAuthNext]_oauth_vars => HandoffInv'
  <2> SUFFICES ASSUME OAuthTypeOK, HandoffInv, [OAuthNext]_oauth_vars PROVE HandoffInv'
    OBVIOUS
  <2> USE AuthorizeAssumption DEF OAuthTypeOK, Rows, RowStatuses, HandoffInv
  <2>1. ASSUME NEW c \in Callers, Begin(c) PROVE HandoffInv'
    BY <2>1 DEF Begin, Attempt, Goto, Present, history
  <2>2. ASSUME NEW c \in Callers, list(c) PROVE HandoffInv'
    <3>1. pc'[c] # "idle"
      BY <2>2 DEF list, Goto
    <3> QED
      BY <3>1
  <2>3. ASSUME NEW c \in Callers, list_fails(c) PROVE HandoffInv'
    <3>1. pc'[c] # "idle"
      BY <2>3 DEF list_fails, Goto
    <3> QED
      BY <3>1
  <2>4. ASSUME NEW c \in Callers, NEW r \in stale[c], delete(c, r) PROVE HandoffInv'
    <3>1. pc'[c] # "idle"
      BY <2>4 DEF delete, Goto
    <3> QED
      BY <3>1
  <2>5. ASSUME NEW c \in Callers, authorize(c) PROVE HandoffInv'
    BY <2>5 DEF authorize, MakeRow, Present
  <2>6. ASSUME NEW c \in Callers, rate_limited(c) PROVE HandoffInv'
    <3>1. pc'[c] # "idle"
      BY <2>6 DEF rate_limited, Attempt, Goto
    <3> QED
      BY <3>1
  <2>7. ASSUME NEW c \in Callers, rejected(c) PROVE HandoffInv'
    BY <2>7 DEF rejected
  <2>8. ASSUME NEW r \in Rows, Finish(r) PROVE HandoffInv'
    BY <2>8 DEF Finish, Present
  <2>9. ASSUME NEW r \in Rows, Lapse(r) PROVE HandoffInv'
    BY <2>9 DEF Lapse, Present, history
  <2>10. CASE UNCHANGED oauth_vars
    BY <2>10 DEF oauth_vars, Present
  <2> QED
    BY <2>1, <2>2, <2>3, <2>4, <2>5, <2>6, <2>7, <2>8, <2>9, <2>10 DEF OAuthNext, OAuthStep
<1>3. HandoffInv => LastHandoffLives
  BY DEF HandoffInv, LastHandoffLives
<1> QED
  BY <1>1, <1>2, <1>3, OAuthTypeCorrect, PTL DEF OAuthSpec

=============================================================================
