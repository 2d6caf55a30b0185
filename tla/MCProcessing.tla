---------------------------- MODULE MCProcessing ----------------------------
EXTENDS Processing

Tool(slug) == [slug |-> slug, padded |-> FALSE]

Zone == Value("text", <<7>>)
Instant(n) == Value("instant", <<n>>)
Number == Value("number", <<>>)

\* Every object over at most two of the keys.
Objects(keys, values) ==
    {Object(f) : f \in UNION {[ks -> values] : ks \in {ks \in SUBSET keys : Cardinality(ks) <= 2}}}

\* A common and two secular years, a leap year, and days and months around
\* every boundary.
Dates == {<<y, m, d>> : y \in {1900, 2000, 2023, 2024}, m \in 0..13, d \in {0, 1, 28, 29, 30, 31, 32}}

Strange == {[is |-> "other", of |-> m] : m \in {{}, {"rate"}, {"gateway"}, {"not_found"}}}

\* The values a key may have: blank, a text, a number, a good and a bad date,
\* an instant.
Bounds == {Blank, Value("text", <<>>), Number, Value("date", <<2024, 2, 29>>),
           Value("date", <<2023, 2, 29>>), Instant(1)}

Contexts == {<<z, s>> : z \in {Absent, Zone}, s \in {Absent, Instant(1), Value("text", <<>>)}}

Asked(tool, all) ==
    {[tool |-> tool, args |-> args, zone |-> c[1], since |-> c[2]] :
        args \in all \cup Strange \cup {Absent, Null}, c \in Contexts}

MCRequests ==
    UNION {Asked([slug |-> s, padded |-> b],
                 Objects(TimeBounds \cup {"timeZone", "singleEvents"}, Bounds)) :
             s \in {"GOOGLECALENDAR_EVENTS_LIST", "GOOGLECALENDAR_CREATE_EVENT"}, b \in BOOLEAN}
    \cup {[tool |-> Tool("GOOGLECALENDAR_FIND_EVENT"), args |-> Object([k \in {"timeMin"} |-> Value("date", d)]),
           zone |-> Absent, since |-> Absent] : d \in Dates}
    \cup Asked(Tool("NOTION_FETCH_DATA"),
               Objects({"fetch_type", "fetchType", "filter"},
                       {Blank, Number, Value("text", <<2>>), Value("filter", <<2>>)}))
    \cup Asked(Tool("GMAIL_SEND_EMAIL"), Objects({"to", "recipient_email"}, {Blank, Number, Value("text", <<>>)}))
    \cup Asked(Tool("GMAIL_ADD_LABEL_TO_EMAIL"),
               Objects({"message_id", "add_label_ids", "removeLabelIds"},
                       {Blank, Value("text", <<>>), Value("labels", <<>>), Value("empty", <<>>)}))
    \cup UNION {Asked(Tool(s), Objects({spec_for(s).order, "modified_since"}, {Value("text", <<>>), Instant(2)})) :
                  s \in TaskSlugs}

\* Rows that were made and changed before, at or after the boundaries, and
\* show nothing, one time, every time, or times in the wrong form.
CreationFields == {"created_time", "created_at", "added_at"}
ChangeFields == {"updatedAt", "date_updated", "last_edited_time", "modified_at", "updated_at"}

Shown(c, m, fields, form) ==
    [k \in fields |-> [form |-> form, time |-> IF k \in CreationFields THEN c ELSE m]]

Rows ==
    {[created |-> c, modified |-> m, shows |-> Shown(c, m, s[1], s[2])] :
        c \in {0, 1}, m \in {1, 2},
        s \in {<<{}, "rfc3339">>, <<CreationFields, "rfc3339">>, <<ChangeFields, "rfc3339">>,
               <<CreationFields \cup ChangeFields, "rfc3339">>, <<ChangeFields, "digits">>,
               <<ChangeFields, "number">>, <<ChangeFields, "huge">>}}

\* Any row, alone or followed by an old or a young one.
MCBacklogs ==
    {<<>>} \cup {<<r>> : r \in Rows}
    \cup {<<r, q>> : r \in Rows, q \in {x \in Rows : x.created = 0 /\ DOMAIN x.shows = CreationFields \cup ChangeFields}}

MCEnvelopes ==
    {{}, {"data"}, {"results"}, {"data.tasks"}, {"nodes"}, {"data.results", "results"}}

\* Deliveries of every version.  Logged ones come with a log_id.
Ids(name, log, account, toolkit, payload) ==
    Event(toolkit, name, Metadata("e", log, "user", account, "ti"), payload)

Body(has, metadata, data, top) ==
    [has |-> {"object"} \cup has, metadata |-> metadata, data |-> data, top |-> top]

Fields(pairs) == [k \in {p[1] : p \in pairs} |-> (CHOOSE p \in pairs : p[1] = k)[2]]

Names == {"gmail", "microsoft_teams"}

\* What may be under keys that the version has elsewhere.
Elsewhere == {<<k, "other">> : k \in {"user_id", "log_id", "connection_id", "trigger_id"}}

Log(log) == {<<"log_id", log>>}

\* Where a delivery may name a toolkit.
Labels == {{}} \cup {{<<k, "named">>} : k \in {"toolkit_slug", "toolkit"}}

Label(l) == IF l = {} THEN "" ELSE "named"

V3(n, log, inner, outer) ==
    [event |-> Ids(n, log, "ca", Label(inner \cup outer), "data"),
     body |-> Body({"metadata", "data", "timestamp"},
                   Fields({<<"trigger_slug", n>>, <<"connected_account_id", "ca">>, <<"trigger_id", "ti">>,
                           <<"user_id", "user">>} \cup Log(log) \cup inner),
                   Fields(Elsewhere), Fields({<<"type", V3_TRIGGER_TYPE>>, <<"id", "e">>} \cup Elsewhere \cup outer))]

\* connection_id is another id of the connection, used only if it is alone.
V2(n, log, keys, inner) ==
    [event |-> Ids(n, log, IF keys = {"connection_id"} THEN "uuid" ELSE "ca", Label(inner), "data"),
     body |-> Body({"data", "timestamp"}, Fields(Elsewhere),
                   Fields({<<k, IF k = "connection_id" THEN "uuid" ELSE "ca">> : k \in keys}
                          \cup {<<"trigger_nano_id", "ti">>, <<"trigger_id", "uuid">>, <<"user_id", "user">>} \cup inner),
                   Fields({<<"type", n>>, <<"id", "e">>, <<"user_id", "other">>} \cup Log(log)
                          \cup IF inner = {} THEN {} ELSE {<<"toolkit", "envelope">>}))]

V1(n, log, outer) ==
    [event |-> Ids(n, log, "ca", Label(outer), "payload"),
     body |-> Body({"payload"}, Fields(Elsewhere), Fields(Elsewhere),
                   Fields({<<"trigger_name", n>>, <<"connection_id", "ca">>, <<"trigger_id", "ti">>,
                           <<"id", "e">>, <<"user_id", "user">>} \cup Log(log) \cup outer))]

\* What is of no version: V2's type with V3's metadata, no connection, no
\* timestamp, no slug, no payload, no object.
Stray ==
    {[event |-> Undecodable, body |-> b] : b \in
        {[V2("gmail", "l", {"connection_id"}, {}).body EXCEPT !.has = @ \cup {"metadata"}],
         V2("gmail", "l", {}, {}).body,
         [V2("gmail", "l", {"connection_id"}, {}).body EXCEPT !.has = @ \ {"timestamp"}],
         [V3("gmail", "l", {}, {}).body EXCEPT !.metadata = Fields({})],
         [V3("gmail", "l", {}, {}).body EXCEPT !.has = @ \ {"metadata"}],
         [V1("gmail", "l", {}).body EXCEPT !.has = {"object"}],
         [V1("gmail", "l", {}).body EXCEPT !.has = {}]}}

Bodies ==
    {V3(n, l, i, o) : n \in Names, l \in {"", "l"}, i \in Labels, o \in Labels}
    \cup {V2(n, l, ks, i) : n \in Names, l \in {"", "l"}, i \in Labels,
             ks \in SUBSET {"connection_nano_id", "connected_account_id", "connection_id"} \ {{}}}
    \cup {V1(n, l, o) : n \in Names, l \in {"", "l"}, o \in Labels}
    \cup Stray

Entry(scheme, secret, decodes) == [scheme |-> scheme, secret |-> secret, decodes |-> decodes]

Signatures == SUBSET {Entry("v1", "new", TRUE), Entry("bare", "old", TRUE),
                      Entry("v1a", "new", TRUE), Entry("v1", "new", FALSE)} \ {{}}

Delivery(d, entries) == [event |-> d.event, body |-> d.body, entries |-> entries]

MCDeliveries ==
    {Delivery(d, {Entry("v1", "new", TRUE)}) : d \in Bodies}
    \cup {Delivery(V3("gmail", "l", {}, {}), s) : s \in Signatures}

MCKnown == {{}, {"gmail", "microsoft", "microsoft_teams"}}

MCNamed == agent_ready_toolkits \cup {"zoom", "zoho_mail", "google_maps", "google_meet", "google_tasks",
    "google_slides", "google_photos", "microsoft_outlook"}

MCMessages == SUBSET Signals

=============================================================================
