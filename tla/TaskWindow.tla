----------------------------- MODULE TaskWindow -----------------------------
(***************************************************************************)
(* The recency window of task-fetch actions                                *)
(* (crates/tinyconnectors/src/execute/task_window.rs).                     *)
(*                                                                         *)
(* A response has its arrays of rows by the path they are at.  A row shows *)
(* some timestamp fields; a value has a form and a time.                   *)
(***************************************************************************)
EXTENDS Naturals, Sequences

TaskSlugs == {
    "LINEAR_LIST_LINEAR_ISSUES", "LINEAR_SEARCH_ISSUES",
    "CLICKUP_GET_FILTERED_TEAM_TASKS", "CLICKUP_GET_TASKS",
    "NOTION_QUERY_DATABASE_WITH_FILTER", "ASANA_GET_MULTIPLE_TASKS", "TODOIST_GET_ALL_TASKS"}

\* spec_for: the paths in the order they are tried, the fields, the form they
\* are in, and the ordering argument.
Spec_(paths, fields, format, order) ==
    [paths |-> paths, fields |-> fields, format |-> format, order |-> order]

spec_for(slug) ==
    CASE slug \in {"LINEAR_LIST_LINEAR_ISSUES", "LINEAR_SEARCH_ISSUES"} ->
           Spec_(<<"data.issues.nodes", "data.data.nodes", "data.nodes", "nodes", "issues.nodes",
                   "data.results", "results", "data.issues", "issues">>,
                 {"updatedAt", "data.updatedAt", "updated_at", "data.updated_at"}, "iso", "orderBy")
      [] slug \in {"CLICKUP_GET_FILTERED_TEAM_TASKS", "CLICKUP_GET_TASKS"} ->
           Spec_(<<"data.tasks", "tasks", "data.data.tasks", "data.results", "results">>,
                 {"date_updated", "data.date_updated", "dateUpdated", "data.dateUpdated"}, "millis", "order_by")
      [] slug = "NOTION_QUERY_DATABASE_WITH_FILTER" ->
           Spec_(<<"results", "data.results", "data.data.results">>,
                 {"last_edited_time", "created_time", "data.last_edited_time", "data.created_time"}, "iso", "")
      [] slug = "ASANA_GET_MULTIPLE_TASKS" ->
           Spec_(<<"data.data", "data">>,
                 {"modified_at", "created_at", "data.modified_at", "data.created_at"}, "iso", "")
      [] slug = "TODOIST_GET_ALL_TASKS" ->
           Spec_(<<"tasks", "data.tasks", "results", "data.results", "data", "">>,
                 {"added_at", "updated_at", "created_at", "data.added_at", "data.updated_at", "data.created_at"},
                 "iso", "")

\* parse_ts: whether a value is in the expected form.  Milliseconds may be a
\* number or a string of digits; what is out of range does not parse.
parses(value, format) ==
    CASE format = "iso" -> value.form = "rfc3339"
      [] format = "millis" -> value.form \in {"number", "digits"}

\* The boundary itself is too old.
Mut_keep_item_after(row, spec, floor) ==
    LET dated == {k \in DOMAIN row.shows \cap spec.fields : parses(row.shows[k], spec.format)}
    IN  dated = {} \/ \E k \in dated : row.shows[k].time > floor

\* keep_item
keep_item(row, spec, floor) ==
    LET dated == {k \in DOMAIN row.shows \cap spec.fields : parses(row.shows[k], spec.format)}
    IN  dated = {} \/ \E k \in dated : row.shows[k].time >= floor

\* The first path of the spec that holds an array, 0 for none.
located(spec, resp) ==
    LET hits == {i \in DOMAIN spec.paths : spec.paths[i] \in DOMAIN resp.arrays}
    IN  IF hits = {} THEN 0 ELSE CHOOSE i \in hits : \A j \in hits : i <= j

\* filter(..).cloned().collect(): of the rows those that are wanted, in order.
Among(rows, wanted) ==
    LET upto[n \in 0..Len(rows)] ==
            IF n = 0 THEN <<>>
            ELSE IF rows[n] \in wanted THEN Append(upto[n - 1], rows[n]) ELSE upto[n - 1]
    IN  upto[Len(rows)]

\* filter_response: rows go, and the markdown with them, only when a row is
\* too old.
filter_response(slug, resp, floor) ==
    IF ~resp.successful \/ slug \notin TaskSlugs THEN resp
    ELSE LET spec == spec_for(slug)
             i == located(spec, resp)
             items == resp.arrays[spec.paths[i]]
             kept == {items[n] : n \in {m \in DOMAIN items : keep_item(items[m], spec, floor)}}
         IN  IF i = 0 \/ \A n \in DOMAIN items : items[n] \in kept
             THEN resp
             ELSE [resp EXCEPT !.arrays[spec.paths[i]] = Among(items, kept), !.markdown = FALSE]

=============================================================================
