-------------------------- MODULE StreamMigration --------------------------
(***************************************************************************)
(* The trigger-stream step of the storage migration, run by every module   *)
(* instance that opens the host's storage                                  *)
(* (crates/tinyconnectors/src/state/migration.rs): each legacy day stream  *)
(* is copied, page by page, to the day's stream under the current prefix,  *)
(* to which instances already open record new events meanwhile.            *)
(*                                                                         *)
(* Streams are append-only and a source is never deleted, so a window that *)
(* lies within a length already read is the same whenever it is read: the  *)
(* verification of a copied prefix is one step.  Every other storage call  *)
(* is a step of its own.                                                   *)
(***************************************************************************)
EXTENDS Integers, Sequences

CONSTANTS
    Openers,    \* module instances over one storage scope
    NumDays,    \* day streams with the legacy prefix
    PageSize,   \* PAGE_SIZE
    MaxSource,  \* bound: events in a legacy stream when the model starts
    MaxLegacy,  \* bound: events an older module appends
    MaxRecords, \* bound: events recorded through open instances
    MaxFaults   \* bound: failed calls and stopped instances

ASSUME StreamsAssumption ==
    /\ NumDays \in Nat \ {0}
    /\ PageSize \in Nat \ {0}
    /\ MaxSource \in Nat /\ MaxLegacy \in Nat /\ MaxRecords \in Nat /\ MaxFaults \in Nat

Days == 1..NumDays

VARIABLES
    source,     \* day -> the legacy stream
    target,     \* day -> the stream under STREAM_PREFIX
    recorded,   \* history: day -> the events recorded by open instances
    done,       \* the STREAMS_STEP marker
    pc,         \* where each opener is
    names,      \* of the legacy streams it listed, those still to come
    day,        \* the stream it copies
    source_len, target_len, offset,
    values,     \* the page it read
    drained,    \* the host stopped older modules first, as it must
    budget      \* what is left of the three bounds

streams == <<source, target, recorded>>
locals == <<names, day, source_len, target_len, offset, values>>
vars == <<streams, done, pc, locals, drained, budget>>

\* Events are told apart by who delivered them and in which order.
Event == [by : {"old", "new"}, n : Nat]

States == {"closed", "streams", "source_len", "target_len", "verify", "read", "append", "raced",
           "len", "recheck", "mark", "open"}

TypeOK ==
    /\ source \in [Days -> Seq(Event)]
    /\ target \in [Days -> Seq(Event)]
    /\ recorded \in [Days -> Seq(Event)]
    /\ done \in BOOLEAN
    /\ pc \in [Openers -> States]
    /\ names \in [Openers -> SUBSET Days]
    /\ day \in [Openers -> Days]
    /\ source_len \in [Openers -> Nat]
    /\ target_len \in [Openers -> Nat]
    /\ offset \in [Openers -> Nat]
    /\ values \in [Openers -> Seq(Event)]
    /\ drained \in BOOLEAN
    /\ budget \in [{"legacy", "record", "fault"} -> Nat]

Spend(what) ==
    /\ budget[what] > 0
    /\ budget' = [budget EXCEPT ![what] = @ - 1]

\* External: read_window, at most `limit` entries from a zero-based offset.
read_window(stream, from, limit) == SubSeq(stream, from + 1, from + limit)

Goto(o, s) == pc' = [pc EXCEPT ![o] = s]

\* The loop body's locals, as the next stream or the next open finds them.
Restart(o, ns, d) ==
    /\ names' = [names EXCEPT ![o] = ns]
    /\ day' = [day EXCEPT ![o] = d]
    /\ source_len' = [source_len EXCEPT ![o] = 0]
    /\ target_len' = [target_len EXCEPT ![o] = 0]
    /\ offset' = [offset EXCEPT ![o] = 0]
    /\ values' = [values EXCEPT ![o] = <<>>]

\* An error returned by prepare: the slot stays empty, the next use reopens.
Fail(o) == Restart(o, {}, 1) /\ Goto(o, "closed")

\* On to one of the streams in ns, listed in whatever order the store has, or to
\* the marker after the last.
Visit(o, ns) ==
    \/ /\ ns = {}
       /\ Restart(o, {}, 1)
       /\ Goto(o, "mark")
    \/ \E d \in ns :
          /\ Restart(o, ns \ {d}, d)
          /\ Goto(o, "source_len")

-----------------------------------------------------------------------------
Init ==
    /\ source \in [Days -> {[i \in 1..n |-> [by |-> "old", n |-> i]] : n \in 0..MaxSource}]
    /\ target = [d \in Days |-> <<>>]
    /\ recorded = [d \in Days |-> <<>>]
    /\ done = FALSE
    /\ pc = [o \in Openers |-> "closed"]
    /\ names = [o \in Openers |-> {}]
    /\ day = [o \in Openers |-> 1]
    /\ source_len = [o \in Openers |-> 0]
    /\ target_len = [o \in Openers |-> 0]
    /\ offset = [o \in Openers |-> 0]
    /\ values = [o \in Openers |-> <<>>]
    /\ drained \in BOOLEAN
    /\ budget = [legacy |-> MaxLegacy, record |-> MaxRecords, fault |-> MaxFaults]

\* prepare: the marker says whether the step is needed.
prepare(o) ==
    /\ pc[o] = "closed"
    /\ Goto(o, IF done THEN "open" ELSE "streams")
    /\ UNCHANGED <<streams, done, locals, drained, budget>>

\* migrate_streams: the listing names the legacy streams there are, those with
\* an event; one an older module begins after it is not visited.
list_streams(o) ==
    /\ pc[o] = "streams"
    /\ Visit(o, {d \in Days : source[d] # <<>>})
    /\ UNCHANGED <<streams, done, drained, budget>>

read_source_len(o) ==
    /\ pc[o] = "source_len"
    /\ source_len' = [source_len EXCEPT ![o] = Len(source[day[o]])]
    /\ Goto(o, "target_len")
    /\ UNCHANGED <<streams, done, names, day, target_len, offset, values, drained, budget>>

\* A copy that a failed open left half done is a conflict too.
Mut_read_target_len_rejects_partial(o) ==
    LET len == Len(target[day[o]]) IN
    /\ pc[o] = "target_len"
    /\ \/ /\ len > 0 /\ len < source_len[o]
          /\ Fail(o)
       \/ /\ len = 0 \/ len = source_len[o]
          /\ target_len' = [target_len EXCEPT ![o] = len]
          /\ Goto(o, "verify")
          /\ UNCHANGED <<names, day, source_len, offset, values>>
    /\ UNCHANGED <<streams, done, drained, budget>>

\* A target longer than its source is a conflict.
read_target_len(o) ==
    LET len == Len(target[day[o]]) IN
    /\ pc[o] = "target_len"
    /\ \/ /\ len > source_len[o]
          /\ Fail(o)
       \/ /\ len <= source_len[o]
          /\ target_len' = [target_len EXCEPT ![o] = len]
          /\ Goto(o, "verify")
          /\ UNCHANGED <<names, day, source_len, offset, values>>
    /\ UNCHANGED <<streams, done, drained, budget>>

\* Off by one: the last event is not copied.
Mut_Copying_short(o, at) == IF at + 1 < source_len[o] THEN "read" ELSE "recheck"

\* More to copy, or only the last check of the source's length.
Copying(o, at) == IF at < source_len[o] THEN "read" ELSE "recheck"

\* The entries a prior opener copied are compared, window by window.
verify(o) ==
    LET same == read_window(source[day[o]], 0, target_len[o]) = read_window(target[day[o]], 0, target_len[o])
    IN
    /\ pc[o] = "verify"
    /\ \/ /\ ~same
          /\ Fail(o)
       \/ /\ same
          /\ offset' = [offset EXCEPT ![o] = target_len[o]]
          /\ Goto(o, Copying(o, target_len[o]))
          /\ UNCHANGED <<names, day, source_len, target_len, values>>
    /\ UNCHANGED <<streams, done, drained, budget>>

\* The next page of the source; an empty one is a conflict.
read_page(o) ==
    LET entries == read_window(source[day[o]], offset[o],
                               IF PageSize < Len(source[day[o]]) - offset[o]
                               THEN PageSize ELSE Len(source[day[o]]) - offset[o])
    IN
    /\ pc[o] = "read"
    /\ IF entries = <<>>
       THEN Fail(o)
       ELSE /\ values' = [values EXCEPT ![o] = entries]
            /\ Goto(o, "append")
            /\ UNCHANGED <<names, day, source_len, target_len, offset>>
    /\ UNCHANGED <<streams, done, drained, budget>>

\* A plain append: no precondition on the offset.
Mut_append_anywhere(o) ==
    LET d == day[o] IN
    /\ pc[o] = "append"
    /\ target' = [target EXCEPT ![d] = @ \o values[o]]
    /\ Goto(o, "len")
    /\ UNCHANGED <<source, recorded, done, locals, drained, budget>>

\* append_batch_if_offset: only onto a target of exactly that length.
append_batch_if_offset(o) ==
    LET d == day[o] IN
    /\ pc[o] = "append"
    /\ \/ /\ Len(target[d]) = offset[o]
          /\ target' = [target EXCEPT ![d] = @ \o values[o]]
          /\ Goto(o, "len")
       \/ /\ Len(target[d]) # offset[o]
          /\ Goto(o, "raced")
          /\ UNCHANGED target
    /\ UNCHANGED <<source, recorded, done, locals, drained, budget>>

\* After a conflict, only the same page at the same offsets is accepted.
reread(o) ==
    LET raced == read_window(target[day[o]], offset[o], Len(values[o])) IN
    /\ pc[o] = "raced"
    /\ \/ /\ Len(target[day[o]]) >= offset[o] + Len(values[o]) /\ raced = values[o]
          /\ Goto(o, "len")
          /\ UNCHANGED locals
       \/ /\ ~(Len(target[day[o]]) >= offset[o] + Len(values[o]) /\ raced = values[o])
          /\ Fail(o)
    /\ UNCHANGED <<streams, done, drained, budget>>

\* The copy goes on from wherever the target now ends.
advance(o) ==
    LET len == Len(target[day[o]]) IN
    /\ pc[o] = "len"
    /\ offset' = [offset EXCEPT ![o] = len]
    /\ values' = [values EXCEPT ![o] = <<>>]
    /\ Goto(o, Copying(o, len))
    /\ UNCHANGED <<streams, done, names, day, source_len, target_len, drained, budget>>

\* The source's length is not compared again.
Mut_recheck_skipped(o) ==
    /\ pc[o] = "recheck"
    /\ Visit(o, names[o])
    /\ UNCHANGED <<streams, done, drained, budget>>

\* The source must not have grown; then the next stream, or the marker.
recheck(o) ==
    /\ pc[o] = "recheck"
    /\ \/ /\ Len(source[day[o]]) # source_len[o]
          /\ Fail(o)
       \/ /\ Len(source[day[o]]) = source_len[o]
          /\ Visit(o, names[o])
    /\ UNCHANGED <<streams, done, drained, budget>>

\* mark_done, then the slot is set.  A marker already there is accepted.
mark_done(o) ==
    /\ pc[o] = "mark"
    /\ done' = TRUE
    /\ Goto(o, "open")
    /\ UNCHANGED <<streams, locals, drained, budget>>

\* A storage call fails, or the instance stops.
fail(o) ==
    /\ pc[o] # "closed"
    /\ Spend("fault")
    /\ Fail(o)
    /\ UNCHANGED <<streams, done, drained>>

\* TriggerArchive::record through an open instance, on whatever day it is.
record(o, d) ==
    LET event == [by |-> "new", n |-> Len(recorded[d]) + 1] IN
    /\ pc[o] = "open"
    /\ Spend("record")
    /\ target' = [target EXCEPT ![d] = Append(@, event)]
    /\ recorded' = [recorded EXCEPT ![d] = Append(@, event)]
    /\ UNCHANGED <<source, done, pc, locals, drained>>

\* External: an older module, not drained, records into the legacy stream.
LegacyAppend(d) ==
    /\ ~drained
    /\ Spend("legacy")
    /\ source' = [source EXCEPT ![d] = Append(@, [by |-> "old", n |-> Len(@) + 1])]
    /\ UNCHANGED <<target, recorded, done, pc, locals, drained>>

Step(o) ==
    \/ prepare(o)
    \/ list_streams(o)
    \/ read_source_len(o)
    \/ read_target_len(o)
    \/ verify(o)
    \/ read_page(o)
    \/ append_batch_if_offset(o)
    \/ reread(o)
    \/ advance(o)
    \/ recheck(o)
    \/ mark_done(o)

Next ==
    \/ \E o \in Openers : Step(o) \/ fail(o)
    \/ \E o \in Openers, d \in Days : record(o, d)
    \/ \E d \in Days : LegacyAppend(d)

Spec == Init /\ [][Next]_vars

\* The executor polls an open that has begun, and the host keeps using the
\* module, so that one that failed is tried again.
Fairness == \A o \in Openers : WF_vars(Step(o))

FairSpec == Spec /\ Fairness

-----------------------------------------------------------------------------
\* How much of a target is the copy of its source.
Copied(d) == Len(target[d]) - Len(recorded[d])

\* However many openers copy at once, fail and start over, a copied event lands
\* at its own offset, and so only once.  With the older modules drained a target
\* is a prefix of its source and then the events recorded since: none of the
\* copy lands after a new event.  (An older module that goes on appending can
\* have that: a new event recorded between an append and the read of the length
\* is stepped over.)
CopyThenNew ==
    \A d \in Days :
        /\ \A i \in 1..Len(target[d]) :
              target[d][i].by = "old" => i <= Len(source[d]) /\ target[d][i] = source[d][i]
        /\ drained => /\ Copied(d) \in 0..Len(source[d])
                      /\ target[d] = SubSeq(source[d], 1, Copied(d)) \o recorded[d]

\* The marker, or a new event, comes only after the whole legacy stream when
\* the older modules were drained: no later instance would copy the rest.
DoneMeansCopied ==
    (drained /\ (done \/ \E d \in Days : recorded[d] # <<>>)) =>
        \A d \in Days : Copied(d) = Len(source[d])

\* Even with an older module still appending, an opener leaves a stream only
\* when everything the stream holds at that moment is copied.  (A stream an
\* older module begins after the listing is one no opener visits.)
LeavesNothingBehind ==
    [][\A o \in Openers :
          (~done /\ pc[o] = "recheck" /\ pc'[o] \in {"source_len", "mark"})
             => Copied(day[o]) >= Len(source[day[o]])]_vars

\* Openers that race each other, new events and a legacy writer fail their
\* open rather than guess, and still all end up open.
EveryOpenerOpens == \A o \in Openers : []<>(pc[o] = "open")

=============================================================================
