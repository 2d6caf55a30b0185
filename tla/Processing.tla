----------------------------- MODULE Processing -----------------------------
(***************************************************************************)
(* The members that compute without the service's state, in the sequences  *)
(* a host calls them: prepare, let the provider answer, filter; report a   *)
(* failure, format it, classify it; verify a delivery, decode it; evaluate *)
(* an action (crates/tinyconnectors/src/tinybus_module/{mod,processing}.rs,*)
(* docs/specs/module-processing.md).  What the provider, the network and   *)
(* the gateway in between do are actions of their own.                     *)
(***************************************************************************)
EXTENDS Preparation, Webhook

CONSTANTS
    Requests,     \* of PrepareArguments: [tool, args, zone, since]
    Backlogs,     \* sequences of rows a provider may have
    Envelopes,    \* sets of paths it may put them under
    Floors,       \* the boundaries of FilterResponse
    Messages,     \* signal sets of a provider's failure message
    Deliveries,   \* what the provider sends: [event, body, entries]
    Sent,         \* when it sends
    Clock,        \* the host's clock when a delivery arrives
    Tolerance,    \* of the host
    Secrets,      \* the host may be configured with, "" among them
    Known,        \* the sets of toolkits a host passes to decode
    Named         \* toolkit names of evaluated actions

\* What a request is: its arguments, if they are an object, a function of
\* values, of which a bare date has the numbers of its year, month and day.
IsValue(v) == v = Value(v.is, v.v) /\ (v.is = "date" => v.v \in Nat \X Nat \X Nat)

IsObject(f) == f = [k \in DOMAIN f |-> f[k]] /\ \A k \in DOMAIN f : IsValue(f[k])

IsRequest(r) ==
    /\ r = [tool |-> r.tool, args |-> r.args, zone |-> r.zone, since |-> r.since]
    /\ r.args.is # "other" => IsObject(r.args.of)

\* What a backlog is: a sequence of rows that show times.
IsBacklog(rows) ==
    /\ rows \in Seq({rows[n] : n \in DOMAIN rows})
    /\ \A n \in DOMAIN rows : \A k \in DOMAIN rows[n].shows : rows[n].shows[k].time \in Nat

\* What a delivery is: a body of one version that names what its event is, in
\* the places that version has for it, or of none, which is no event.  It may
\* have other ids under the same keys where its version does not put them.
TextsOf(object, keys) == {text(object, k) : k \in keys} \ {""}

\* A toolkit is named in the inner object, or else in the outer one.
NamesToolkit(e, inner, outer) ==
    LET named(o) == TextsOf(o, {"toolkit_slug", "toolkit"})
    IN  {e.toolkit} \ {""} = IF named(inner) # {} THEN named(inner) ELSE named(outer)

CarriesV3(e, body) ==
    /\ {"object", "metadata"} \subseteq body.has
    /\ text(body.top, "type") = V3_TRIGGER_TYPE
    /\ e.trigger # "" /\ e.trigger = text(body.metadata, "trigger_slug")
    /\ e.metadata = Metadata(text(body.top, "id"), text(body.metadata, "log_id"), text(body.metadata, "user_id"),
                             text(body.metadata, "connected_account_id"), text(body.metadata, "trigger_id"))
    /\ NamesToolkit(e, body.metadata, body.top)
    /\ e.payload = "data"

\* connection_id is another id of the connection, used only if it is alone, and
\* trigger_id another of the subscription.
CarriesV2(e, body) ==
    /\ {"object", "data", "timestamp"} \subseteq body.has /\ "metadata" \notin body.has
    /\ e.trigger \notin {"", V3_TRIGGER_TYPE} /\ e.trigger = text(body.top, "type")
    /\ LET account == e.metadata.connected_account_id
           instance == e.metadata.trigger_id
           connection == TextsOf(body.data, {"connection_nano_id", "connected_account_id"})
           subscription == TextsOf(body.data, {"trigger_nano_id"})
       IN  /\ account # ""
           /\ {account} = IF connection # {} THEN connection ELSE TextsOf(body.data, {"connection_id"})
           /\ {instance} \ {""} = IF subscription # {} THEN subscription ELSE TextsOf(body.data, {"trigger_id"})
           /\ e.metadata = Metadata(text(body.top, "id"), text(body.top, "log_id"), text(body.data, "user_id"),
                                    account, instance)
    /\ NamesToolkit(e, body.data, body.top)
    /\ e.payload = "data"

CarriesV1(e, body) ==
    /\ {"object", "payload"} \subseteq body.has /\ "metadata" \notin body.has
    /\ text(body.top, "type") \in {"", V3_TRIGGER_TYPE}
    /\ e.trigger # "" /\ e.trigger = text(body.top, "trigger_name")
    /\ "" \notin {text(body.top, "connection_id"), text(body.top, "trigger_id")}
    /\ e.metadata = Metadata(text(body.top, "id"), text(body.top, "log_id"), text(body.top, "user_id"),
                             text(body.top, "connection_id"), text(body.top, "trigger_id"))
    /\ NamesToolkit(e, body.top, body.top)
    /\ e.payload = "payload"

\* What no version is without: V3 its slug, the older two no metadata, V2 a
\* connection and a timestamp, V1 a payload and its three names.
OfNoVersion(body) ==
    \/ "object" \notin body.has
    \/ /\ "metadata" \in body.has
       /\ text(body.top, "type") # V3_TRIGGER_TYPE \/ text(body.metadata, "trigger_slug") = ""
    \/ /\ "metadata" \notin body.has
       /\ text(body.top, "type") \notin {"", V3_TRIGGER_TYPE}
       /\ \/ ~({"data", "timestamp"} \subseteq body.has)
          \/ TextsOf(body.data, {"connection_nano_id", "connected_account_id", "connection_id"}) = {}
    \/ /\ "metadata" \notin body.has
       /\ text(body.top, "type") \in {"", V3_TRIGGER_TYPE}
       /\ \/ "payload" \notin body.has
          \/ \E k \in {"trigger_name", "connection_id", "trigger_id"} : text(body.top, k) = ""

IsDelivery(d) ==
    /\ "has" \in DOMAIN d.body
    /\ \/ CarriesV3(d.event, d.body) \/ CarriesV2(d.event, d.body) \/ CarriesV1(d.event, d.body)
       \/ d.event = Undecodable /\ OfNoVersion(d.body)

ASSUME ProcessingAssumption ==
    /\ \A request \in Requests : IsRequest(request)
    /\ \A rows \in Backlogs : IsBacklog(rows)
    /\ Floors \subseteq Nat
    /\ Sent \in Nat
    /\ Clock \subseteq Nat
    /\ Tolerance \in Nat
    /\ Messages \subseteq SUBSET Signals
    /\ \A d \in Deliveries : IsDelivery(d)

VARIABLE job    \* the sequence in hand, and what its steps answered

JobInit == job = [at |-> "idle"]

-----------------------------------------------------------------------------
\* Arguments and rows.

\* PrepareArguments
prepare_arguments(request) ==
    /\ job.at = "idle"
    /\ LET answer == prepare(request)
       IN  job' = [at |-> IF answer.is = "refused" THEN "unprepared" ELSE "prepared",
                   request |-> request, answer |-> answer]

\* External: the rows a provider that honours modified_since leaves out.
Narrowed(rows, args) ==
    IF "modified_since" \in DOMAIN args /\ args["modified_since"].is = "instant"
    THEN Among(rows, {rows[n] : n \in {m \in DOMAIN rows : rows[m].modified >= args["modified_since"].v[1]}})
    ELSE rows

\* External: the provider answers a task fetch, with or without regard to the
\* floor, the rows under some of the paths it is known to use.
answer_tasks(rows, paths, honours, successful) ==
    /\ job.at = "prepared"
    /\ job.request.tool.slug \in TaskSlugs /\ ~job.request.tool.padded
    /\ paths \subseteq {spec_for(job.request.tool.slug).paths[i] :
                           i \in DOMAIN spec_for(job.request.tool.slug).paths}
    /\ LET shown == IF honours THEN Narrowed(rows, job.answer.of) ELSE rows
           resp == [successful |-> successful, arrays |-> [p \in paths |-> shown], markdown |-> TRUE]
       IN  job' = [at |-> "answered", slug |-> job.request.tool.slug, since |-> job.request.since,
                   own |-> "modified_since" \in DOMAIN job.request.args.of, backlog |-> rows,
                   first |-> resp, resp |-> resp, floor |-> 0]

\* FilterResponse, which a host may repeat as its boundary moves on.
filter(floor) ==
    /\ job.at \in {"answered", "filtered"}
    /\ floor >= job.floor
    /\ job' = [job EXCEPT !.at = "filtered", !.floor = floor,
                          !.resp = filter_response(job.slug, job.resp, floor)]

-----------------------------------------------------------------------------
\* Failures.

\* External: an action fails with a message.
report(known, m) ==
    /\ job.at = "idle"
    /\ job' = [at |-> "reported", known |-> known, cause |-> m, message |-> m, class |-> "", first |-> ""]

\* External: a gateway wraps the provider's failure in a status of its own.
wrap ==
    /\ job.at = "reported"
    /\ "gateway" \notin job.message
    /\ job' = [job EXCEPT !.message = @ \cup {"gateway"}]

\* format_failure: Execute's answer to its caller.
format_failure ==
    /\ job.at = "reported"
    /\ job' = [job EXCEPT !.at = "formatted",
                          !.class = classify_composio_error(job.known, job.message),
                          !.message = format_provider_error(job.known, job.message)]

\* ClassifyError, of a message as it came or as Execute formatted it.
classify_error ==
    /\ job.at \in {"reported", "formatted"}
    /\ job' = [job EXCEPT !.at = IF @ = "reported" THEN "classified" ELSE "reclassified",
                          !.first = job.class,
                          !.class = classify_composio_error(job.known, job.message)]

-----------------------------------------------------------------------------
\* Deliveries.

\* External: the provider signs and sends an event, under one secret or, while
\* it is rotated, under two.
send(d) ==
    /\ job.at = "idle"
    /\ LET timestamp == [is |-> "number", at |-> Sent]
           sign(e) == [scheme |-> e.scheme, decodes |-> e.decodes,
                       mac |-> Mac(e.secret, "msg", timestamp, d.body)]
       IN  job' = [at |-> "transit", sent |-> d, body |-> d.body, intact |-> TRUE,
                   headers |-> [id |-> "msg", timestamp |-> timestamp,
                                entries |-> {sign(e) : e \in d.entries}]]

\* External: on its way a delivery loses or changes one of its parts.
corrupt ==
    /\ job.at = "transit" /\ job.intact
    /\ \/ \E id \in {"", "other"} : job' = [job EXCEPT !.intact = FALSE, !.headers.id = id]
       \/ \E t \in [is : {"", "text"}, at : {Sent}] \cup [is : {"number"}, at : Clock \ {Sent}] :
             job' = [job EXCEPT !.intact = FALSE, !.headers.timestamp = t]
       \/ job' = [job EXCEPT !.intact = FALSE, !.headers.entries = {}]
       \/ \E part \in job.body.has : job' = [job EXCEPT !.intact = FALSE, !.body.has = @ \ {part}]

\* The host verifies what arrived, by its own clock and secret.
receive(secret, now) ==
    /\ job.at = "transit"
    /\ LET verdict == verify(secret, job.headers, job.body, now, Tolerance)
       IN  job' = [at |-> IF verdict = "Ok" THEN "verified" ELSE "rejected", sent |-> job.sent,
                   body |-> job.body, intact |-> job.intact, secret |-> secret, now |-> now]

decode(known) ==
    /\ job.at = "verified"
    /\ job' = [at |-> "decoded", sent |-> job.sent, known |-> known,
               event |-> decode_with_toolkits(job.body, known)]

-----------------------------------------------------------------------------
\* Vocabulary.

\* evaluate_actions: both spellings of a slug are one action; the profile
\* chooses the heuristic for what no catalog lists.
evaluated_scope(a, profile) ==
    CASE curated_scope_for(a) # None -> curated_scope_for(a)
      [] curated_scope_for(a) = None /\ profile = "LeadingVerb" -> sync_classify_unknown(a)
      [] OTHER -> bus_classify_unknown(a)

evaluated_visible(a, profile, p) ==
    IF profile = "SubstringCompatibility" THEN is_action_visible_with_pref(a, p)
    ELSE /\ catalog_for_toolkit(bus_toolkit(a.name)) = {} \/ curated_scope_for(a) # None
         /\ allows(p, evaluated_scope(a, profile))

evaluate_actions(a, profile, p) ==
    /\ job.at = "idle"
    /\ LET c == canonical_action_slug(a)
       IN  job' = [at |-> "evaluated", action |-> c, profile |-> profile, pref |-> p,
                   visible |-> evaluated_visible(c, profile, p),
                   rows |-> list_visible_tools(bus_toolkit(c.name), p)]

-----------------------------------------------------------------------------
\* The first step of each sequence.
JobBegin ==
    /\ job.at = "idle"
    /\ \/ \E request \in Requests : prepare_arguments(request)
       \/ \E known \in BOOLEAN, m \in Messages : report(known, m)
       \/ \E d \in Deliveries : send(d)
       \/ \E a \in Actions(Named), profile \in {"LeadingVerb", "SubstringCompatibility"}, p \in Prefs :
             evaluate_actions(a, profile, p)

JobNext ==
    \/ JobBegin
    \/ /\ job.at = "prepared"
       /\ \E rows \in Backlogs, paths \in Envelopes, honours, successful \in BOOLEAN :
             answer_tasks(rows, paths, honours, successful)
    \/ \E floor \in Floors : filter(floor)
    \/ wrap
    \/ format_failure
    \/ classify_error
    \/ corrupt
    \/ \E secret \in Secrets, now \in Clock : receive(secret, now)
    \/ \E known \in Known : decode(known)

JobSpec == JobInit /\ [][JobNext]_job

-----------------------------------------------------------------------------
\* The civil calendar, counted from March 1 of year 0 in cycles of 400 years: a
\* reference without a table of month lengths.  mp counts months from March.
DaysBeforeYear(yoe) == 365 * yoe + yoe \div 4 - yoe \div 100
YearOf(doe) == (doe - doe \div 1460 + doe \div 36524 - doe \div 146096) \div 365
DaysBeforeMonth(mp) == (153 * mp + 2) \div 5
MonthOf(doy) == (5 * doy + 2) \div 153
CivilMonth(mp) == IF mp < 10 THEN mp + 3 ELSE mp - 9

\* The number of the day of a date, and the date of a day's number.
DayNumber(y, m, d) ==
    LET from == IF m <= 2 THEN y - 1 ELSE y
    IN  146097 * (from \div 400) + DaysBeforeYear(from % 400) + DaysBeforeMonth((m + 9) % 12) + d - 1

CivilDate(n) ==
    LET yoe == YearOf(n % 146097)
        doy == (n % 146097) - DaysBeforeYear(yoe)
        mp == MonthOf(doy)
        m == CivilMonth(mp)
    IN  <<yoe + 400 * (n \div 146097) + (IF m <= 2 THEN 1 ELSE 0), m, doy - DaysBeforeMonth(mp) + 1>>

InCalendar(d) == d[2] \in 1..12 /\ d[3] >= 1 /\ CivilDate(DayNumber(d[1], d[2], d[3])) = d

\* Execute prepares once more what PrepareArguments has prepared, and a host
\* may too: neither changes it.  What the caller supplied is kept, except that
\* a date becomes its midnight and an unusable fetch_type is replaced.  Dates
\* are let through if and only if the calendar has them.  Null is the exception:
\* the defaults pass it over, and fill in the empty object it has become when
\* the host prepares again.
PreparedIsStable ==
    job.at \in {"prepared", "unprepared"} /\ job.request.args.is # "other" =>
        LET given == job.request.args.of
            tool == job.request.tool
            dates == {k \in TimeBounds \cap DOMAIN given : given[k].is = "date"}
        IN  /\ job.at = "prepared" =>
                 /\ job.request.args.is # "null" =>
                       prepare([job.request EXCEPT !.args = job.answer]) = job.answer
                 /\ prepare_execute_arguments(tool, job.answer) = job.answer
                 /\ \A k \in DOMAIN given \ {"fetch_type"} :
                       job.answer.of[k] = IF tool.slug \in Calendar /\ k \in dates
                                          THEN Value("instant", given[k].v) ELSE given[k]
                 /\ "fetch_type" \in DOMAIN given /\ Says(given["fetch_type"]) =>
                       job.answer.of["fetch_type"] = given["fetch_type"]
            /\ tool.slug \in Calendar /\ DOMAIN given = dates /\ job.request.since = Absent =>
                 (job.at = "prepared" <=> \A k \in dates : InCalendar(given[k].v))

\* Of a sequence the elements at some positions, in their order.
Selects(rows, all, at) ==
    /\ Len(rows) = Cardinality(at)
    /\ \A n \in at : rows[Cardinality({m \in at : m <= n})] = all[n]

\* A row that shows when it changed, readably.
ShowsChange(row, spec) ==
    \E k \in DOMAIN row.shows \cap spec.fields :
        row.shows[k].time = row.modified /\ parses(row.shows[k], spec.format)

\* Filtering, once or again with a later boundary, leaves the rows in order
\* and drops exactly those that show only times before the boundary; the
\* markdown of an answer never says more than its rows.  Whatever the provider
\* made of the injected floor, a row that shows a change within the window is
\* still there, unless the caller asked for less.
WindowIsExact ==
    job.at = "filtered" /\ job.resp.successful =>
        LET spec == spec_for(job.slug)
            i == located(spec, job.first)
            times(row) == {row.shows[k].time : k \in {x \in DOMAIN row.shows \cap spec.fields :
                                                         parses(row.shows[x], spec.format)}}
            young(row) == times(row) = {} \/ ~(\A t \in times(row) : t < job.floor)
        IN  /\ job.resp.markdown => job.resp = job.first
            /\ i # 0 =>
                 LET path == spec.paths[i]
                     left == job.resp.arrays[path]
                     all == job.first.arrays[path]
                 IN  /\ Selects(left, all, {n \in DOMAIN all : young(all[n])})
                     /\ \A p \in DOMAIN job.first.arrays \ {path} : job.resp.arrays[p] = job.first.arrays[p]
                     /\ \A n \in DOMAIN job.backlog :
                          LET row == job.backlog[n]
                          IN  /\ row.modified >= job.floor
                              /\ ShowsChange(row, spec)
                              /\ ~job.own
                              /\ job.since # Absent => row.modified >= job.since.v[1]
                              => \E q \in DOMAIN left : left[q] = row

\* The advice a class gives fits the failure: trying again is never the advice
\* for what would fail again, nor connecting again for an action that does not
\* exist; a gateway's envelope does not hide what failed inside it; and to
\* classify what Execute has formatted already does not turn a lasting failure
\* into one to retry.  Nor is a refusal of PrepareArguments.
AdviceFitsCause ==
    /\ job.at \in {"formatted", "classified"} =>
         /\ is_transient(job.class) =>
              /\ job.cause \cap {"not_found", "validation", "scope_phrase"} = {}
              /\ ~({"403", "scope"} \subseteq job.cause)
              /\ {"denied", "trigger"} \subseteq job.cause => job.cause \cap {"403", "forbidden"} = {}
         /\ asks_to_reconnect(job.class) => "not_found" \notin job.cause
         /\ LET inside == classify_composio_error(job.known, job.cause \ {"gateway"})
            IN  inside \notin {"upstream_provider", "other"} \/ "provider" \in job.cause => job.class = inside
    /\ job.at = "reclassified" =>
         /\ is_transient(job.class) => is_transient(job.first)
         /\ asks_to_reconnect(job.class) => "not_found" \notin job.cause
    /\ job.at = "unprepared" =>
         ~is_transient(classify_composio_error(is_known_toolkit_action(job.request.tool), job.answer.of))

\* A host takes a delivery for genuine if and only if it arrived as it was
\* sent, one of its readable entries was made with the host's secret, which is
\* how a secret rotates, and it was sent within the tolerance, before or after.
AcceptedIffGenuine ==
    job.at \in {"verified", "rejected"} =>
        (job.at = "verified" <=>
            /\ job.intact
            /\ job.secret # ""
            /\ \E e \in job.sent.entries : reads(e) /\ e.decodes /\ e.secret = job.secret
            /\ job.now \in (Sent - Tolerance)..(Sent + Tolerance))

\* A decoded event names the trigger, connection, subscription and user it was
\* sent for and the ids it is known by, whichever version carries them and
\* wherever it puts them, whatever else its body has under those keys, and what
\* is no delivery of one version is not taken for one of another.  The toolkit
\* is the one the delivery names, else that of the trigger if the host knows it.
RoutedByItsOwnIds ==
    job.at = "decoded" =>
        LET truth == job.sent.event
            got == job.event
        IN  /\ got.trigger = truth.trigger
            /\ got.metadata = truth.metadata
            /\ got.payload = truth.payload
            /\ truth.toolkit # "" => got.toolkit = truth.toolkit
            /\ truth.toolkit = "" /\ truth.trigger \in job.known => got.toolkit = truth.trigger

\* An action a catalog lists is shown by an evaluation and by ListVisibleTools
\* alike, and what a catalog does not list is not shown.  Where execution uses
\* the same source for the scope, a provider's catalog or the leading verb,
\* what is shown is what it permits.  The toolkits badged as ready are the ones
\* with a catalog.
VocabularyAgrees ==
    job.at = "evaluated" =>
        LET a == job.action
            curated == curated_scope_for(a) # None
            catalog == catalog_for_toolkit(bus_toolkit(a.name))
        IN  /\ catalog # {} => (job.visible <=> curated /\ <<a.kind, a.entry>> \in job.rows)
            /\ (curated /\ a.name \in default_registry) \/ (catalog = {} /\ job.profile = "LeadingVerb") =>
                  (job.visible <=> permits_with(a, job.pref))
            /\ catalog = {} /\ job.pref \in Thresholds => (job.visible => permits_with(a, job.pref))
            /\ catalog # {} <=> a.name \in agent_ready_toolkits

=============================================================================
