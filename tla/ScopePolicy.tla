----------------------------- MODULE ScopePolicy -----------------------------
(***************************************************************************)
(* Which scope an action has, as execution sees it and as listings see it: *)
(* the curated catalogs, the two verb heuristics, the provider registry,   *)
(* the user's preference and the host's offer                              *)
(* (crates/tinyconnectors-sync/src/{scope,toolkits,provider},              *)
(* crates/tinyconnectors-bus/src/vocabulary,                               *)
(* crates/tinyconnectors/src/vocabulary, tinybus_module/mod.rs).           *)
(*                                                                         *)
(* An action slug is abstracted to what this code reads of it: the toolkit *)
(* name it begins with, the kind of its verb and nouns, and the scope its  *)
(* own toolkit's catalog lists it under, if it does.  Two actions of one   *)
(* catalog that agree on these are one: the code cannot tell them apart.   *)
(***************************************************************************)
EXTENDS Naturals, FiniteSets

None == "none"

Scopes == {"Read", "Write", "Admin"}

\* What the heuristics tell apart in a slug: one of the ADMIN words anywhere;
\* a leading READ verb without or with a WRITE word further on (LIST_DRAFTS);
\* a WRITE word under another verb; none of these (CANCEL_SUBSCRIPTION).
Kinds == {"destroys", "reads", "reads_noun", "writes", "plain"}

-----------------------------------------------------------------------------
\* The catalogs, each a set of rows: which kinds of action it lists as which
\* scope.

Curate(read, write, admin) ==
    (read \X {"Read"}) \cup (write \X {"Write"}) \cup (admin \X {"Admin"})

SHOPIFY_CURATED ==
    Curate({"reads", "plain"}, {"writes", "plain"}, {"destroys", "plain"})

STRIPE_CURATED ==
    Curate({"reads"}, {"writes", "plain"}, {"writes", "plain"})

HUBSPOT_CURATED ==
    Curate({"reads", "plain"}, {"writes"}, {"plain"})

SALESFORCE_CURATED ==
    Curate({"reads", "plain"}, {"writes", "plain"}, {"writes", "destroys"})

AIRTABLE_CURATED ==
    Curate({"reads"}, {"writes", "plain"}, {"writes", "destroys"})

FIGMA_CURATED ==
    Curate({"reads", "plain"}, {"writes", "destroys"}, {"destroys"})

CLICKUP_CURATED ==
    Curate({"reads"}, {"writes"}, {"destroys"})

GITHUB_CURATED ==
    Curate({"reads"}, {"writes", "plain"}, {"writes", "destroys", "plain"})

GMAIL_CURATED ==
    Curate({"reads", "reads_noun"}, {"writes", "plain"}, {"destroys"})

GOOGLECALENDAR_CURATED ==
    Curate({"reads", "plain"}, {"writes", "destroys", "plain"}, {"writes", "destroys", "plain"})

GOOGLEDRIVE_CURATED ==
    Curate({"reads"}, {"writes", "plain"}, {"writes", "destroys"})

GOOGLEDOCS_CURATED ==
    Curate({"reads"}, {"writes", "plain"}, {"destroys"})

GOOGLESHEETS_CURATED ==
    Curate({"reads", "plain"}, {"reads", "writes", "plain"}, {"writes", "destroys", "plain"})

LINEAR_CURATED ==
    Curate({"reads"}, {"writes"}, {"destroys"})

SLACK_CURATED ==
    Curate({"reads", "plain"}, {"writes", "plain"}, {"destroys", "plain"})

DISCORD_CURATED ==
    Curate({"reads", "plain"}, {}, {})

TELEGRAM_CURATED ==
    Curate({"reads", "reads_noun"}, {"writes", "plain"}, {"writes", "destroys", "plain"})

WHATSAPP_CURATED ==
    Curate({"reads"}, {"writes", "plain"}, {"writes", "destroys"})

MICROSOFT_TEAMS_CURATED ==
    Curate({"reads", "plain"}, {"writes"}, {"destroys", "plain"})

ONE_DRIVE_CURATED ==
    Curate({"reads"}, {"writes", "destroys", "plain"}, {"destroys", "plain"})

EXCEL_CURATED ==
    Curate({"reads"}, {"writes", "plain"}, {"destroys", "plain"})

NOTION_CURATED ==
    Curate({"reads"}, {"writes", "plain"}, {"destroys", "plain"})

OUTLOOK_CURATED ==
    Curate({"reads"}, {"writes"}, {"writes", "destroys", "plain"})

JIRA_CURATED ==
    Curate({"reads"}, {"writes", "plain"}, {"writes", "destroys"})

TRELLO_CURATED ==
    Curate({"reads"}, {"writes"}, {"destroys", "plain"})

ASANA_CURATED ==
    Curate({"reads"}, {"writes"}, {"destroys"})

DROPBOX_CURATED ==
    Curate({"reads", "destroys", "plain"}, {"writes", "destroys", "plain"}, {"writes", "destroys", "plain"})

TODOIST_CURATED ==
    Curate({"reads"}, {"writes", "plain"}, {"destroys"})

TWITTER_CURATED ==
    Curate({"reads", "writes", "plain"}, {"writes", "plain"}, {"destroys"})

SPOTIFY_CURATED ==
    Curate({"reads"}, {"writes", "plain"}, {"destroys", "plain"})

YOUTUBE_CURATED ==
    Curate({"reads"}, {"writes", "plain"}, {"destroys"})

\* catalog_for_toolkit, aliases included; {} where the code has None.
catalog_for_toolkit(t) ==
    CASE t = "shopify" -> SHOPIFY_CURATED
      [] t = "stripe" -> STRIPE_CURATED
      [] t = "hubspot" -> HUBSPOT_CURATED
      [] t = "salesforce" -> SALESFORCE_CURATED
      [] t = "airtable" -> AIRTABLE_CURATED
      [] t = "figma" -> FIGMA_CURATED
      [] t = "clickup" -> CLICKUP_CURATED
      [] t = "github" -> GITHUB_CURATED
      [] t = "gmail" -> GMAIL_CURATED
      [] t \in {"googlecalendar", "google_calendar"} -> GOOGLECALENDAR_CURATED
      [] t \in {"googledrive", "google_drive"} -> GOOGLEDRIVE_CURATED
      [] t \in {"googledocs", "google_docs"} -> GOOGLEDOCS_CURATED
      [] t \in {"googlesheets", "google_sheets"} -> GOOGLESHEETS_CURATED
      [] t = "linear" -> LINEAR_CURATED
      [] t = "slack" -> SLACK_CURATED
      [] t = "discord" -> DISCORD_CURATED
      [] t = "telegram" -> TELEGRAM_CURATED
      [] t = "whatsapp" -> WHATSAPP_CURATED
      [] t \in {"microsoft_teams", "microsoft"} -> MICROSOFT_TEAMS_CURATED
      [] t \in {"one_drive", "one", "onedrive"} -> ONE_DRIVE_CURATED
      [] t = "excel" -> EXCEL_CURATED
      [] t = "notion" -> NOTION_CURATED
      [] t = "outlook" -> OUTLOOK_CURATED
      [] t = "jira" -> JIRA_CURATED
      [] t = "trello" -> TRELLO_CURATED
      [] t = "asana" -> ASANA_CURATED
      [] t = "dropbox" -> DROPBOX_CURATED
      [] t = "todoist" -> TODOIST_CURATED
      [] t = "twitter" -> TWITTER_CURATED
      [] t = "spotify" -> SPOTIFY_CURATED
      [] t = "youtube" -> YOUTUBE_CURATED
      [] OTHER -> {}

-----------------------------------------------------------------------------
\* Names.

CURATED_TOOLKITS == {
    "gmail", "notion", "slack", "clickup", "github", "discord",
    "googlecalendar", "googledrive", "googledocs", "googlesheets", "outlook",
    "microsoft_teams", "linear", "jira", "trello", "asana", "dropbox",
    "twitter", "spotify", "telegram", "whatsapp", "shopify", "stripe",
    "hubspot", "salesforce", "airtable", "figma", "youtube", "one_drive",
    "excel", "todoist"}

\* scopes::agent_ready_toolkits: the names a host may badge as ready.
agent_ready_toolkits == CURATED_TOOLKITS \cup {
    "google_calendar", "google_drive", "google_docs", "google_sheets",
    "microsoft", "onedrive", "one"}

\* default_registry: the toolkits with a provider in this build.
default_registry == {"clickup", "github", "gmail", "linear", "notion", "slack"}

\* Names with a separator that are names of one toolkit, in the sync crate...
MULTI_SEGMENT_TOOLKITS == {"microsoft_teams", "one_drive", "zoho_mail"}

\* ... and in the bus crate.
MULTI_SEGMENT_TOOLKIT_PREFIXES == MULTI_SEGMENT_TOOLKITS \cup {"google_maps"}

\* Spellings of toolkits whose slugs have no separator.
ALIASED_TOOLKIT_PREFIXES ==
    [n \in {"google_drive", "google_calendar", "google_sheets", "google_docs",
            "google_meet", "google_tasks", "google_slides", "google_photos", "microsoft_outlook"} |->
        CASE n = "google_drive" -> "googledrive"
          [] n = "google_calendar" -> "googlecalendar"
          [] n = "google_sheets" -> "googlesheets"
          [] n = "google_docs" -> "googledocs"
          [] n = "google_meet" -> "googlemeet"
          [] n = "google_tasks" -> "googletasks"
          [] n = "google_slides" -> "googleslides"
          [] n = "google_photos" -> "googlephotos"
          [] n = "microsoft_outlook" -> "outlook"]

\* The first segment of a name.
Segment(n) ==
    CASE n \in {"google_maps"} \cup {m \in DOMAIN ALIASED_TOOLKIT_PREFIXES : m # "microsoft_outlook"} -> "google"
      [] n \in {"microsoft_teams", "microsoft_outlook"} -> "microsoft"
      [] n = "one_drive" -> "one"
      [] n = "zoho_mail" -> "zoho"
      [] OTHER -> n

\* toolkit_from_slug of the sync crate, for a slug that begins with name n.
sync_toolkit(n) == IF n \in MULTI_SEGMENT_TOOLKITS THEN n ELSE Segment(n)

\* toolkit_from_slug of the bus crate.
bus_toolkit(n) ==
    CASE n \in MULTI_SEGMENT_TOOLKIT_PREFIXES -> n
      [] n \in DOMAIN ALIASED_TOOLKIT_PREFIXES -> ALIASED_TOOLKIT_PREFIXES[n]
      [] OTHER -> Segment(n)

\* The actions of the toolkits ns: what the catalogs list, and of every kind
\* one that no catalog lists (the live catalogs are far longer).
Actions(ns) ==
    UNION {{[name |-> n, kind |-> row[1], entry |-> row[2]] :
              row \in catalog_for_toolkit(bus_toolkit(n)) \cup (Kinds \X {None})} : n \in ns}

\* canonical_action_slug: the slug an aliased spelling stands for.
canonical_action_slug(a) ==
    IF a.name \in DOMAIN ALIASED_TOOLKIT_PREFIXES
    THEN [a EXCEPT !.name = ALIASED_TOOLKIT_PREFIXES[@]]
    ELSE a

\* find_curated compares whole slugs: an aliased spelling is in no catalog.
find_curated(catalog, a) ==
    IF /\ a.name \notin DOMAIN ALIASED_TOOLKIT_PREFIXES
       /\ <<a.kind, a.entry>> \in catalog
    THEN a.entry
    ELSE None

-----------------------------------------------------------------------------
\* Scopes.

\* classify_unknown of the sync crate: destructive words, then the leading
\* verb if it reads, then write words.  The verb is what follows the toolkit,
\* so a name the crate cuts at its first segment hides it.
sync_classify_unknown(a) ==
    CASE a.kind = "destroys" -> "Admin"
      [] a.kind = "writes" -> "Write"
      [] a.kind = "reads_noun" /\ sync_toolkit(a.name) # a.name -> "Write"
      [] OTHER -> "Read"

\* classify_unknown of the bus crate: words only, the verb counts for nothing.
bus_classify_unknown(a) ==
    CASE a.kind = "destroys" -> "Admin"
      [] a.kind \in {"writes", "reads_noun"} -> "Write"
      [] OTHER -> "Read"

\* A preference is the set of scopes it allows; its flags are independent.
Prefs == SUBSET Scopes

default_pref == {"Read", "Write"}

allows(p, s) == s \in p

\* The preferences that are a limit, as ToolScope's order suggests.
Thresholds == {{}, {"Read"}, {"Read", "Write"}, Scopes}

\* Execution looks at no catalog.
Mut_execute_scope_heuristic(a) == sync_classify_unknown(a)

\* permits: the scope execution asks for, from the registry's six providers.
execute_scope(a) ==
    LET curated == IF sync_toolkit(a.name) \in default_registry
                   THEN find_curated(catalog_for_toolkit(sync_toolkit(a.name)), a)
                   ELSE None
    IN  IF curated # None THEN curated ELSE sync_classify_unknown(a)

permits_with(a, p) == allows(p, execute_scope(a))

\* curated_scope_for
curated_scope_for(a) == find_curated(catalog_for_toolkit(bus_toolkit(a.name)), a)

\* A toolkit with a catalog shows the rest of its actions too.
Mut_visible_uncurated(a, p) ==
    IF curated_scope_for(a) # None
    THEN allows(p, curated_scope_for(a))
    ELSE allows(p, bus_classify_unknown(a))

\* is_action_visible_with_pref: a toolkit with a catalog shows only what the
\* catalog lists.
is_action_visible_with_pref(a, p) ==
    IF catalog_for_toolkit(bus_toolkit(a.name)) # {}
    THEN curated_scope_for(a) # None /\ allows(p, curated_scope_for(a))
    ELSE allows(p, bus_classify_unknown(a))

\* list_visible_tools: the rows of the catalog that the preference allows.
list_visible_tools(t, p) == {row \in catalog_for_toolkit(t) : allows(p, row[2])}

\* OfferedToolkits::permits; key drops the separators of a name.
offer_key(n) ==
    CASE n \in DOMAIN ALIASED_TOOLKIT_PREFIXES \ {"microsoft_outlook"} -> ALIASED_TOOLKIT_PREFIXES[n]
      [] n = "one_drive" -> "onedrive"
      [] n = "microsoft_teams" -> "microsoftteams"
      [] OTHER -> n

offers(offered, n) ==
    /\ \A d \in offered.deny : offer_key(d) # offer_key(n)
    /\ \/ offered.allow = {}
       \/ \E m \in offered.allow : offer_key(m) = offer_key(n)

=============================================================================
