---------------------------- MODULE Preparation ----------------------------
(***************************************************************************)
(* Normalising and validating the arguments of an action                   *)
(* (crates/tinyconnectors/src/execute/{prepare,calendar}.rs,               *)
(* tinybus_module/processing.rs).                                          *)
(*                                                                         *)
(* Arguments are absent, a JSON null (only from a caller in the process:   *)
(* the bus decodes null to absent), something that is no object, or an     *)
(* object: a function from keys to values.  Of a value the code tells      *)
(* apart the kind and, of a bare date, its numbers.  An action is its slug *)
(* and whether the caller left blanks around it, which some steps trim.    *)
(***************************************************************************)
EXTENDS Classification, TaskWindow

Value(is, v) == [is |-> is, v |-> v]

Absent == [is |-> "absent", of |-> <<>>]

Null == [is |-> "null", of |-> <<>>]

Object(f) == [is |-> "object", of |-> f]

Blank == Value("blank", <<>>)

\* The fetch type a caller who names none means.
pages == Value("text", <<1>>)

\* The value under a key, Blank for none: no check here tells them apart.
At(f, k) == IF k \in DOMAIN f THEN f[k] ELSE Blank

With(f, k, v) == [j \in DOMAIN f \cup {k} |-> IF j = k THEN v ELSE f[j]]

\* Entry::or_insert: what the caller supplied wins.
OrInsert(f, k, v) == IF k \in DOMAIN f THEN f ELSE With(f, k, v)

Strings == {"blank", "text", "date", "instant"}

\* A string that is not blank.
Says(v) == v.is \in Strings \ {"blank"}

\* A refusal carries the signals its message has.
Refused(signals) == [is |-> "refused", of |-> signals]

-----------------------------------------------------------------------------
\* The defaults pass over what is there and is no object, null included.
NoObject == {"other", "null"}

TZ_DEFAULTING_SLUGS == {"GOOGLECALENDAR_EVENTS_LIST", "GOOGLECALENDAR_FIND_EVENT"}

apply_calendar_query_defaults(tool, args, zone) ==
    IF tool.padded \/ tool.slug \notin TZ_DEFAULTING_SLUGS \/ args.is \in NoObject THEN args
    ELSE Object(OrInsert(OrInsert(args.of, "timeZone", zone), "singleEvents", Value("true", <<>>)))

\* apply_window_args: the ordering or the floor the provider understands.
apply_window_args(tool, args, since) ==
    IF tool.padded \/ tool.slug \notin TaskSlugs \/ args.is \in NoObject THEN args
    ELSE LET order == spec_for(tool.slug).order
             ordered == IF order = "" THEN args.of ELSE OrInsert(args.of, order, Value("text", <<>>))
         IN  Object(IF tool.slug = "ASANA_GET_MULTIPLE_TASKS"
                    THEN OrInsert(ordered, "modified_since", Value("instant", since))
                    ELSE ordered)

-----------------------------------------------------------------------------
\* Every fourth year is a leap year.
Mut_days_in_month_julian(year, month) ==
    CASE month \in {1, 3, 5, 7, 8, 10, 12} -> 31
      [] month \in {4, 6, 9, 11} -> 30
      [] month = 2 -> IF year % 4 = 0 THEN 29 ELSE 28

days_in_month(year, month) ==
    CASE month \in {1, 3, 5, 7, 8, 10, 12} -> 31
      [] month \in {4, 6, 9, 11} -> 30
      [] month = 2 -> IF year % 4 = 0 /\ (year % 100 # 0 \/ year % 400 = 0) THEN 29 ELSE 28

\* is_calendar_date, of the numbers of a string in the shape of a date.
is_calendar_date(d) ==
    /\ d[2] \in 1..12
    /\ d[3] # 0
    /\ d[3] <= days_in_month(d[1], d[2])

\* normalize_rfc3339_bound: an instant as it is, a date as its midnight.
normalizes(v) == v.is = "instant" \/ (v.is = "date" /\ is_calendar_date(v.v))

normalize_rfc3339_bound(v) == Value("instant", v.v)

TimeBounds == {"timeMin", "timeMax", "time_min", "time_max"}

normalize_calendar_time_bounds(f) ==
    IF \E k \in TimeBounds \cap DOMAIN f : f[k].is \in Strings /\ ~normalizes(f[k])
    THEN Refused({"validation"})
    ELSE Object([k \in DOMAIN f |->
                    IF k \in TimeBounds /\ normalizes(f[k]) THEN normalize_rfc3339_bound(f[k]) ELSE f[k]])

\* ensure_notion_fetch_type: the first spelling that is there decides; the
\* value of a filter is kept as inferred, pages for none.
ensure_notion_fetch_type(f) ==
    LET given == IF "fetch_type" \in DOMAIN f THEN f["fetch_type"] ELSE At(f, "fetchType")
        filter == At(f, "filter")
    IN  IF Says(given) THEN f
        ELSE With(f, "fetch_type", IF filter.is = "filter" THEN Value("text", filter.v) ELSE pages)

\* validate_gmail_send_email
has_recipient(f) == \E k \in {"to", "recipient_email", "recipientEmail"} : Says(At(f, k))

has_non_empty_string(v) == Says(v) \/ v.is = "labels"

\* validate_gmail_add_label
changes_a_label(f) ==
    /\ \E k \in {"message_id", "messageId"} : Says(At(f, k))
    /\ \E k \in {"add_label_ids", "addLabelIds", "remove_label_ids", "removeLabelIds"} :
          has_non_empty_string(At(f, k))

Calendar == {"GOOGLECALENDAR_EVENTS_LIST", "GOOGLECALENDAR_FIND_EVENT", "GOOGLECALENDAR_CREATE_EVENT"}

\* prepare_execute_arguments, whose tool is trimmed, takes absent and null for
\* an empty object.  The refusal of what is no object repeats it, signals and all.
prepare_execute_arguments(tool, args) ==
    IF args.is = "other" THEN Refused({"validation"} \cup args.of)
    ELSE LET f == args.of
         IN  CASE tool.slug \in Calendar -> normalize_calendar_time_bounds(f)
               [] tool.slug = "NOTION_FETCH_DATA" -> Object(ensure_notion_fetch_type(f))
               [] tool.slug = "GMAIL_SEND_EMAIL" ->
                    IF has_recipient(f) THEN Object(f) ELSE Refused({"validation"})
               [] tool.slug = "GMAIL_ADD_LABEL_TO_EMAIL" ->
                    IF changes_a_label(f) THEN Object(f) ELSE Refused({"validation"})
               [] OTHER -> Object(f)

\* Tools that classify as a known toolkit's.
is_known_toolkit_action(tool) ==
    /\ ~tool.padded
    /\ tool.slug \in Calendar \cup {"NOTION_FETCH_DATA", "GMAIL_SEND_EMAIL", "GMAIL_ADD_LABEL_TO_EMAIL"}

\* prepare: calendar defaults, the window, then validation.  The host leaves
\* zone or since out as Absent; since may be unreadable.
prepare(request) ==
    LET zoned == IF request.zone = Absent THEN request.args
                 ELSE apply_calendar_query_defaults(request.tool, request.args, request.zone)
    IN  IF request.since = Absent
        THEN prepare_execute_arguments(request.tool, zoned)
        ELSE IF request.since.is # "instant"
        THEN Refused({"validation"})
        ELSE prepare_execute_arguments(request.tool,
                 apply_window_args(request.tool, zoned, request.since.v))

=============================================================================
