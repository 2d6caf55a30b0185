--------------------------- MODULE TriggerArchive ---------------------------
(***************************************************************************)
(* The archive of trigger deliveries: deliveries recorded concurrently,    *)
(* days rotating and being sealed, and a listing that reads the streams of *)
(* both prefixes one after the other                                       *)
(* (crates/tinyconnectors/src/triggers/archive.rs).                        *)
(*                                                                         *)
(* Streams are append-only, so the windows below a length already read do  *)
(* not change: sizing one stream and reading it backwards is one step.     *)
(* One listing is followed, begun at any moment.  The migration is over:   *)
(* the current stream of the legacy day holds what was copied from it.     *)
(***************************************************************************)
EXTENDS Integers, Sequences, FiniteSets, SequencesExt

CONSTANTS
    Recorders,  \* RecordTrigger calls in flight
    Deliveries, \* what is delivered, told apart by metadata_id and metadata_uuid
    Unnamed,    \* those that came without a metadata_uuid
    Corrupt,    \* stands for a record that does not parse
    MaxLimit,   \* bound: how many entries a listing asks for
    DayLength,  \* clock ticks in a UTC day
    IdleDays,   \* DAY_STREAM_IDLE_MS, in days
    MaxTime,    \* bound: the clock
    MaxRecords  \* bound: records appended

ASSUME ArchiveAssumption ==
    /\ DayLength \in Nat \ {0} /\ IdleDays \in Nat
    /\ Unnamed \subseteq Deliveries /\ Corrupt \notin Deliveries
    /\ MaxLimit \in Nat \ {0} /\ MaxTime \in Nat /\ MaxRecords \in Nat

VARIABLES
    now,        \* the clock
    streams,    \* name -> records
    last,       \* name -> last_append_ms, -1 for a stream not there
    sealed,     \* names sealed
    rpc, entry, name,   \* each recorder's step, entry and stream
    appended,   \* history: records appended so far
    acked,      \* history: entries whose record returned Ok
    lpc, queue, limit,  \* the listing's step, streams left, and limit
    retain,     \* the clock as the retention pass read it
    entries, seen,      \* what it collected, and the keys of that
    answer,     \* the entries it returned
    before      \* history: entries acknowledged before it began

clock == <<now, last, sealed>>
recording == <<rpc, entry, name, appended, acked>>
listing == <<lpc, queue, limit, retain, entries, seen, answer, before>>
vars == <<clock, streams, recording, listing>>

Day(t) == t \div DayLength
Days == 0..Day(MaxTime)

\* Stream names; the legacy ones begin with "triggers/", the current ones with
\* "connectors.triggers/".
ArchivePrefixes == {"legacy", "current"}
Names == ArchivePrefixes \X Days

\* An entry: the delivery and received_at_ms.  The rest is history: the prefix
\* it is under, how many records there were when its recording began, and its
\* place in the order of the appends (0 for what was there to begin with).
Entry == [delivery : Deliveries \cup {Corrupt}, at : Nat, prefix : ArchivePrefixes, after : Nat, n : Nat]

\* A record as it is before anything is recorded here.
Old(d, prefix) == [delivery |-> d, at |-> 0, prefix |-> prefix, after |-> 0, n |-> 0]

\* The metadata's id and uuid, or of an entry without a uuid all that is
\* recorded of it, the time included.
archive_entry_key(e) ==
    [delivery |-> e.delivery, at |-> IF e.delivery \in Unnamed THEN e.at ELSE 0]

NoName == <<"current", 0>>

TypeOK ==
    /\ now \in 0..MaxTime
    /\ streams \in [Names -> Seq(Entry)]
    /\ last \in [Names -> -1..MaxTime]
    /\ sealed \subseteq Names
    /\ rpc \in [Recorders -> {"idle", "name", "append"}]
    /\ DOMAIN entry = Recorders
    /\ \A r \in Recorders : rpc[r] # "idle" => entry[r] \in Entry
    /\ name \in [Recorders -> {"current"} \X Days]
    /\ appended \in 0..MaxRecords
    /\ acked \subseteq Entry
    /\ lpc \in {"idle", "info", "seal", "names", "read", "answered", "failed"}
    /\ queue \in Seq(Names)
    /\ limit \in 1..MaxLimit
    /\ retain \in 0..MaxTime
    /\ entries \subseteq Entry
    /\ seen \subseteq [delivery : Deliveries, at : Nat]
    /\ answer \subseteq Entry
    /\ before \subseteq Entry

\* The streams with a prefix, in the store's order: by name.
Listed(prefix) ==
    LET days == {d \in Days : last[<<prefix, d>>] >= 0}
    IN  [i \in 1..Cardinality(days) |->
            <<prefix, CHOOSE d \in days : Cardinality({e \in days : e < d}) = i - 1>>]

-----------------------------------------------------------------------------
Init ==
    /\ now = 0
    /\ \E d \in Deliveries, prefixes \in {{}, {"current"}, ArchivePrefixes} :
          /\ streams = [s \in Names |-> IF s[1] \in prefixes /\ s[2] = 0
                                        THEN <<Old(d, s[1]), Old(Corrupt, s[1])>> ELSE <<>>]
          /\ last = [s \in Names |-> IF s[1] \in prefixes /\ s[2] = 0 THEN 0 ELSE -1]
    /\ sealed = {}
    /\ rpc = [r \in Recorders |-> "idle"]
    /\ entry = [r \in Recorders |-> <<>>]
    /\ name = [r \in Recorders |-> NoName]
    /\ appended = 0
    /\ acked = {}
    /\ lpc = "idle"
    /\ queue = <<>>
    /\ limit = 1
    /\ retain = 0
    /\ entries = {}
    /\ seen = {}
    /\ answer = {}
    /\ before = {}

Tick ==
    /\ now < MaxTime
    /\ now' = now + 1
    /\ UNCHANGED <<last, sealed, streams, recording, listing>>

\* record: the entry is stamped.
stamp(r, d) ==
    /\ rpc[r] = "idle"
    /\ appended < MaxRecords
    /\ rpc' = [rpc EXCEPT ![r] = "name"]
    /\ entry' = [entry EXCEPT ![r] = [Old(d, "current") EXCEPT !.at = now, !.after = appended]]
    /\ UNCHANGED <<clock, streams, name, appended, acked, listing>>

\* record: current_day_file, by a clock read of its own.
current_day_file(r) ==
    /\ rpc[r] = "name"
    /\ rpc' = [rpc EXCEPT ![r] = "append"]
    /\ name' = [name EXCEPT ![r] = <<"current", Day(now)>>]
    /\ UNCHANGED <<clock, streams, entry, appended, acked, listing>>

Return(r) ==
    /\ rpc' = [rpc EXCEPT ![r] = "idle"]
    /\ entry' = [entry EXCEPT ![r] = <<>>]
    /\ name' = [name EXCEPT ![r] = NoName]

\* record: the store appends, and Ok is returned.
append(r) ==
    LET e == [entry[r] EXCEPT !.n = appended + 1] IN
    /\ rpc[r] = "append"
    /\ name[r] \notin sealed
    /\ appended < MaxRecords
    /\ streams' = [streams EXCEPT ![name[r]] = Append(@, e)]
    /\ last' = [last EXCEPT ![name[r]] = now]
    /\ appended' = appended + 1
    /\ acked' = acked \cup {e}
    /\ Return(r)
    /\ UNCHANGED <<now, sealed, listing>>

\* record: the append fails; on a sealed stream it must.
append_fails(r) ==
    /\ rpc[r] = "append"
    /\ Return(r)
    /\ UNCHANGED <<clock, streams, appended, acked, listing>>

\* Another program (or another version of this one) appends a record to today's
\* stream that does not parse here.
append_foreign ==
    LET s == <<"current", Day(now)>> IN
    /\ s \notin sealed
    /\ appended < MaxRecords
    /\ streams' = [streams EXCEPT ![s] = Append(@, [Old(Corrupt, "current") EXCEPT !.n = appended + 1])]
    /\ last' = [last EXCEPT ![s] = now]
    /\ appended' = appended + 1
    /\ UNCHANGED <<now, sealed, rpc, entry, name, acked, listing>>

-----------------------------------------------------------------------------
\* list_recent begins with the retention pass over both prefixes, if the store
\* can seal (Capability::StreamSeal).
list_recent(l) ==
    /\ lpc = "idle"
    /\ \/ /\ lpc' = "info"
          /\ queue' = Listed("current") \o Listed("legacy")
          /\ retain' = now
       \/ /\ lpc' = "names"
          /\ UNCHANGED <<queue, retain>>
    /\ limit' = l
    /\ before' = acked
    /\ UNCHANGED <<clock, streams, recording, entries, seen, answer>>

\* No idle margin.
Mut_should_seal_now(s) == last[s] >= 0 /\ last[s] <= retain

should_seal(s) == last[s] >= 0 /\ last[s] <= retain - IdleDays * DayLength

\* seal_idle_days: the info of the next stream.
info ==
    /\ lpc = "info"
    /\ \/ /\ queue # <<>>
          /\ should_seal(Head(queue))
          /\ lpc' = "seal"
          /\ UNCHANGED <<queue, retain>>
       \/ /\ queue # <<>>
          /\ ~should_seal(Head(queue))
          /\ queue' = Tail(queue)
          /\ UNCHANGED <<lpc, retain>>
       \/ /\ queue = <<>>
          /\ lpc' = "names"
          /\ retain' = 0
          /\ UNCHANGED queue
    /\ UNCHANGED <<clock, streams, recording, limit, entries, seen, answer, before>>

seal ==
    /\ lpc = "seal"
    /\ sealed' = sealed \cup {Head(queue)}
    /\ queue' = Tail(queue)
    /\ lpc' = "info"
    /\ UNCHANGED <<now, last, streams, recording, limit, retain, entries, seen, answer, before>>

\* A storage call fails: so does the listing, and what it collected is dropped.
list_fails ==
    /\ lpc \in {"info", "seal", "names", "read"}
    /\ lpc' = "failed"
    /\ queue' = <<>>
    /\ limit' = 1
    /\ retain' = 0
    /\ entries' = {}
    /\ seen' = {}
    /\ before' = {}
    /\ UNCHANGED <<clock, streams, recording, answer>>

\* The streams of both prefixes, by name in descending order: every legacy day
\* comes before any current one.
names ==
    /\ lpc = "names"
    /\ queue' = Reverse(Listed("legacy")) \o Reverse(Listed("current"))
    /\ queue' # <<>>
    /\ lpc' = "read"
    /\ UNCHANGED <<clock, streams, recording, limit, retain, entries, seen, answer, before>>

\* An empty archive.
names_empty ==
    /\ lpc = "names"
    /\ Listed("legacy") = <<>> /\ Listed("current") = <<>>
    /\ lpc' = "answered"
    /\ UNCHANGED <<clock, streams, recording, queue, limit, retain, entries, seen, answer, before>>

\* Deliveries are told apart within a stream only.
Mut_fresh_own_keys(s, known, want) ==
    LET key(i) == archive_entry_key(s[i])
        new == {i \in 1..Len(s) : s[i].delivery # Corrupt /\ \A j \in (i + 1)..Len(s) : key(j) # key(i)}
    IN  {s[i] : i \in {i \in new : Cardinality({j \in new : j > i}) < want}}

\* One window is read, whatever its records.
Mut_fresh_one_window(s, known, want) ==
    LET key(i) == archive_entry_key(s[i])
    IN  {s[i] : i \in {i \in 1..Len(s) : /\ i > Len(s) - want
                                         /\ s[i].delivery # Corrupt /\ key(i) \notin known
                                         /\ \A j \in (i + 1)..Len(s) : key(j) # key(i)}}

\* Of the records with one key, the first is taken.
Mut_fresh_first_copy(s, known, want) ==
    LET key(i) == archive_entry_key(s[i])
        new == {i \in 1..Len(s) : /\ s[i].delivery # Corrupt /\ key(i) \notin known
                                  /\ \A j \in 1..(i - 1) : key(j) # key(i)}
    IN  {s[i] : i \in {i \in new : Cardinality({j \in new : j > i}) < want}}

\* A stream read from its end: the last `want` records with new keys, each key
\* by its last record.
fresh(s, known, want) ==
    LET key(i) == archive_entry_key(s[i])
        new == {i \in 1..Len(s) : /\ s[i].delivery # Corrupt /\ key(i) \notin known
                                  /\ \A j \in (i + 1)..Len(s) : key(j) # key(i)}
    IN  {s[i] : i \in {i \in new : Cardinality({j \in new : j > i}) < want}}

\* The `want` entries received last, ties going either way.
Newest(set, want) ==
    {top \in SUBSET set :
        /\ Cardinality(top) = IF Cardinality(set) < want THEN Cardinality(set) ELSE want
        /\ \A x \in top, y \in set \ top : x.at >= y.at}

\* One stream is read backwards until `limit` new deliveries are found in it;
\* after the last one the entries are sorted and cut.
read ==
    LET new == fresh(streams[Head(queue)], seen, limit)
        all == entries \cup new
    IN
    /\ lpc = "read"
    /\ entries' = all
    /\ seen' = seen \cup {archive_entry_key(e) : e \in new}
    /\ queue' = Tail(queue)
    /\ \/ /\ Len(queue) > 1
          /\ UNCHANGED <<lpc, answer>>
       \/ /\ Len(queue) = 1
          /\ lpc' = "answered"
          /\ answer' \in Newest(all, limit)
    /\ UNCHANGED <<clock, streams, recording, limit, retain, before>>

Next ==
    \/ Tick
    \/ \E r \in Recorders, d \in Deliveries : stamp(r, d)
    \/ \E r \in Recorders : current_day_file(r) \/ append(r) \/ append_fails(r)
    \/ append_foreign
    \/ \E l \in 1..MaxLimit : list_recent(l)
    \/ info
    \/ seal
    \/ names
    \/ names_empty
    \/ read
    \/ list_fails

Spec == Init /\ [][Next]_vars

-----------------------------------------------------------------------------
Answered == lpc = "answered"

SameKey(x, y) == archive_entry_key(x) = archive_entry_key(y)

Archived == UNION {Range(streams[s]) : s \in Names}

\* The entry is the only copy of its delivery, in either prefix.
Single(e) == \A x \in Archived : SameKey(x, e) => x = e

\* A delivery acknowledged before the listing began is in it, or gave its place
\* to a full page of others, none of them older than it or than a delivery that
\* was appended after it: what a listing can miss is bounded by how far racing
\* deliveries overtook each other, whatever else is in the streams.  (Of a
\* delivery with several copies, see ListedOnce.)
AcknowledgedIsListed ==
    Answered =>
        \A e \in before : Single(e) /\ e \notin answer =>
            /\ Cardinality(answer) = limit
            /\ \A x \in answer : \E y \in Archived :
                  y.delivery # Corrupt /\ (y = e \/ y.n > e.n) /\ x.at >= y.at

\* What both prefixes hold, or was delivered again, is listed once; only a
\* delivery without a uuid appears again, and then with the other time at which
\* it was received.  The copy listed is a legacy one or the latest: not one whose
\* recording was over when that of another copy, acknowledged before the listing
\* began, had not begun, except that a delivery appended later still but not
\* received later pushed the better copy off the page and is not on it itself.
ListedOnce ==
    Answered =>
        \A x \in answer :
            /\ \A y \in answer : x.delivery = y.delivery /\ x # y =>
                  x.delivery \in Unnamed /\ x.at # y.at
            /\ \A e \in before : SameKey(x, e) /\ x.prefix = "current" /\ x.n <= e.after =>
                  \E y \in Archived \ answer : y.delivery # Corrupt /\ y.n > e.n /\ y.at <= x.at

\* The day that deliveries are recorded into, and the day before, which a
\* delivery stamped at midnight may still be on its way to, are never sealed.
OnlyIdleDaysSealed == \A s \in sealed : s[1] = "current" => s[2] + IdleDays <= Day(now)

=============================================================================
