------------------------------ MODULE Webhook ------------------------------
(***************************************************************************)
(* Verifying and decoding webhook deliveries                               *)
(* (crates/tinyconnectors-bus/src/composio/triggers/webhook.rs).           *)
(*                                                                         *)
(* Strings are trimmed, "" is absent or blank.  A MAC is the tuple of what *)
(* it was made from.  A JSON object is a function from keys to strings.  A *)
(* trigger slug is the toolkit name it begins with: its case, which V1 and *)
(* V2 raise, is compared nowhere.                                          *)
(***************************************************************************)
EXTENDS ScopePolicy, Integers, Sequences

\* External: HMAC-SHA256 over "{id}.{timestamp}.{body}".
Mac(secret, id, timestamp, body) == <<secret, id, timestamp, body>>

\* u64::abs_diff
abs_diff(a, b) == IF a >= b THEN a - b ELSE b - a

\* A delivery from the future has no skew.
Mut_skew_saturating(now, sent) == IF now >= sent THEN now - sent ELSE 0

\* How far a delivery's timestamp is from the host's clock.
skew(now, sent) == abs_diff(now, sent)

\* An entry of the signature header that the scheme here reads: v1 or bare.
reads(e) == e.scheme \in {"v1", "bare"}

\* The digests to compare with.
candidates(entries) == {e.mac : e \in {x \in entries : reads(x) /\ x.decodes}}

undecodable(entries) == \E e \in entries : reads(e) /\ ~e.decodes

\* verify, in the order of its checks.  timestamp is [is, at]: "" for blank,
\* "text" for what does not parse as u64.
verify(secret, h, body, now, tolerance) ==
    IF h.id = "" \/ h.timestamp.is = "" \/ h.entries = {} THEN "MissingHeader"
    ELSE IF secret = "" THEN "EmptySecret"
    ELSE IF h.timestamp.is = "text" THEN "MalformedHeader"
    ELSE IF skew(now, h.timestamp.at) > tolerance THEN "StaleTimestamp"
    ELSE IF candidates(h.entries) = {} /\ undecodable(h.entries) THEN "MalformedHeader"
    ELSE IF Mac(secret, h.id, h.timestamp, body) \in candidates(h.entries) THEN "Ok"
    ELSE "SignatureMismatch"

-----------------------------------------------------------------------------
\* text: the string under a key, "" for anything else.
text(object, key) == IF key \in DOMAIN object THEN object[key] ELSE ""

\* The other id of a connection is preferred.
Mut_first_connection_keys == <<"connection_id", "connected_account_id", "connection_nano_id">>

\* The keys of a V2 connection, in the order they are preferred.
connection_keys == <<"connection_nano_id", "connected_account_id", "connection_id">>

\* The first text that is not blank.
FirstText(texts) ==
    LET given == {i \in DOMAIN texts : texts[i] # ""}
    IN  IF given = {} THEN "" ELSE texts[CHOOSE i \in given : \A j \in given : i <= j]

first(object, keys) == FirstText([i \in DOMAIN keys |-> text(object, keys[i])])

\* explicit_toolkit
explicit_toolkit(object) == first(object, <<"toolkit_slug", "toolkit">>)

\* toolkit_of: the longest known name the slug begins with, or its first word.
toolkit_of(trigger, known) ==
    IF trigger \in known THEN trigger ELSE Segment(trigger)

\* The toolkit of an event: the first that is named, else by its trigger.
Toolkit(named, trigger, known) ==
    IF FirstText(named) # "" THEN FirstText(named) ELSE toolkit_of(trigger, known)

\* What an event is routed by.
Metadata(id, uuid, user, account, instance) ==
    [id |-> id, uuid |-> uuid, user_id |-> user,
     connected_account_id |-> account, trigger_id |-> instance]

\* An event; payload is the part of the body it is taken from.
Event(toolkit, trigger, metadata, payload) ==
    [toolkit |-> toolkit, trigger |-> trigger, metadata |-> metadata, payload |-> payload]

Undecodable == Event("", "", Metadata("", "", "", "", ""), "")

decode_v3(body, known) ==
    LET trigger == text(body.metadata, "trigger_slug")
    IN  IF trigger = "" THEN Undecodable
        ELSE Event(Toolkit(<<explicit_toolkit(body.metadata), explicit_toolkit(body.top)>>, trigger, known),
                   trigger,
                   Metadata(text(body.top, "id"), text(body.metadata, "log_id"), text(body.metadata, "user_id"),
                            text(body.metadata, "connected_account_id"), text(body.metadata, "trigger_id")),
                   "data")

decode_v2(body, known) ==
    LET trigger == text(body.top, "type")
        account == first(body.data, connection_keys)
    IN  IF "data" \notin body.has \/ "timestamp" \notin body.has \/ account = "" THEN Undecodable
        ELSE Event(Toolkit(<<explicit_toolkit(body.data), explicit_toolkit(body.top)>>, trigger, known),
                   trigger,
                   Metadata(text(body.top, "id"), text(body.top, "log_id"), text(body.data, "user_id"),
                            account, first(body.data, <<"trigger_nano_id", "trigger_id">>)),
                   "data")

decode_v1(body, known) ==
    LET trigger == text(body.top, "trigger_name")
        account == text(body.top, "connection_id")
        instance == text(body.top, "trigger_id")
    IN  IF "" \in {trigger, account, instance} \/ "payload" \notin body.has THEN Undecodable
        ELSE Event(Toolkit(<<explicit_toolkit(body.top)>>, trigger, known),
                   trigger,
                   Metadata(text(body.top, "id"), text(body.top, "log_id"), text(body.top, "user_id"),
                            account, instance),
                   "payload")

V3_TRIGGER_TYPE == "composio.trigger.message"

\* decode_with_toolkits: the version is told by `metadata` and `type`.  has
\* lists the parts that are there in the right shape: metadata and data as
\* objects, timestamp and payload as anything but null.
decode_with_toolkits(body, known) ==
    LET kind == text(body.top, "type")
    IN  CASE "object" \notin body.has -> Undecodable
          [] "object" \in body.has /\ "metadata" \in body.has ->
               IF kind = V3_TRIGGER_TYPE THEN decode_v3(body, known) ELSE Undecodable
          [] {"object", "metadata"} \cap body.has = {"object"} ->
               IF kind \in {"", V3_TRIGGER_TYPE} THEN decode_v1(body, known) ELSE decode_v2(body, known)

=============================================================================
