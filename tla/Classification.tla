--------------------------- MODULE Classification ---------------------------
(***************************************************************************)
(* What kind of failure a provider's message is taken for                  *)
(* (crates/tinyconnectors/src/execute/classify.rs).                        *)
(*                                                                         *)
(* A message is the set of signals the needles of the code find in it.     *)
(* Two messages with the same signals are classified alike.                *)
(***************************************************************************)
EXTENDS Naturals

\* An "HTTP 404" or "HTTP 410"; a word of the argument checks; a phrase of
\* missing OAuth scopes; the status and the words that only count together;
\* a rate limit; a 502, 503 or 504 envelope; a phrase of the Composio
\* platform; the name of a provider or of Composio.
Signals == {"not_found", "validation", "scope_phrase", "403", "scope", "forbidden",
            "denied", "trigger", "rate", "gateway", "platform", "provider"}

is_insufficient_scope(m) == "scope_phrase" \in m \/ {"403", "scope"} \subseteq m

is_trigger_permission(m) ==
    /\ m \cap {"403", "forbidden"} # {}
    /\ {"denied", "trigger"} \subseteq m

\* Only a name tells a failure inside the envelope.
Mut_embedded_by_name(m) == "provider" \in m

\* A provider-level failure, even inside a gateway envelope.
is_embedded_provider_failure(m) ==
    \/ m \cap {"validation", "rate", "not_found", "platform", "provider"} # {}
    \/ is_insufficient_scope(m)
    \/ is_trigger_permission(m)

\* classify_composio_error: the order is the code's.
classify_composio_error(known, m) ==
    IF "not_found" \in m THEN "action_not_found"
    ELSE IF "validation" \in m THEN "validation"
    ELSE IF is_insufficient_scope(m) THEN "insufficient_scope"
    ELSE IF is_trigger_permission(m) THEN "trigger_permission"
    ELSE IF "rate" \in m THEN "rate_limited"
    ELSE IF "gateway" \in m /\ ~is_embedded_provider_failure(m) THEN "gateway"
    ELSE IF "platform" \in m THEN "composio_platform"
    ELSE IF known THEN "upstream_provider"
    ELSE "other"

is_transient(class) == class \in {"rate_limited", "gateway"}

\* The classes whose advice is to connect the account again.
asks_to_reconnect(class) ==
    class \in {"insufficient_scope", "trigger_permission", "composio_platform"}

\* What the message of each class says for itself.
Wording(class) ==
    CASE class = "validation" -> {"validation"}
      [] class = "insufficient_scope" -> {"validation", "scope"}
      [] class = "trigger_permission" -> {"trigger"}
      [] class = "rate_limited" -> {"rate"}
      [] OTHER -> {}

\* format_provider_error: the prefix names Composio; the provider's own words
\* are repeated except where they would mislead.
format_provider_error(known, m) ==
    LET class == classify_composio_error(known, m)
    IN  {"provider"} \cup Wording(class)
        \cup (IF class \in {"trigger_permission", "action_not_found"} THEN {} ELSE m)

=============================================================================
