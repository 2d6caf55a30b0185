---------------------------- MODULE ArchiveProofs ----------------------------
(***************************************************************************)
(* What the trigger archive promises for any number of deliveries, days    *)
(* and streams.                                                            *)
(***************************************************************************)
EXTENDS TriggerArchive, PageTheorems, SequenceTheorems

\* The greatest multiple that fits.
LEMMA DivGreatest ==
    ASSUME NEW t \in Nat, NEW n \in Nat \ {0}
    PROVE  /\ t \div n \in Nat /\ (t \div n) * n <= t
           /\ \A a \in Nat : a * n <= t => a <= t \div n
<1> DEFINE q == t \div n
<1>1. q \in Nat /\ q * n <= t
  OBVIOUS
<1>2. t < (q + 1) * n
  OBVIOUS
<1>3. ASSUME NEW a \in Nat, a * n <= t PROVE a <= q
  <2> HIDE DEF q
  <2>1. CASE q + 1 <= a
    <3>1. \A x, y \in Nat : x <= y => x * n <= y * n
      OBVIOUS
    <3>2. (q + 1) * n <= a * n
      BY <1>1, <2>1, <3>1
    <3>3. (q + 1) * n \in Nat /\ a * n \in Nat
      BY <1>1
    <3> QED
      BY <1>2, <1>3, <3>2, <3>3
  <2> QED
    BY <1>1, <2>1
<1> QED
  BY <1>1, <1>3

\* The day of a moment: it has begun, and no later one has.
LEMMA DayBegan ==
    ASSUME NEW t \in Nat
    PROVE  /\ Day(t) \in Nat /\ Day(t) * DayLength <= t
           /\ \A a \in Nat : a * DayLength <= t => a <= Day(t)
BY ArchiveAssumption, DivGreatest DEF Day

\* Days follow each other.
LEMMA DayMonotone ==
    ASSUME NEW t \in Nat, NEW u \in Nat, t <= u
    PROVE  Day(t) <= Day(u)
<1>1. Day(t) \in Nat /\ Day(t) * DayLength <= t /\ DayLength \in Nat
  BY DayBegan, ArchiveAssumption
<1>2. Day(t) * DayLength \in Nat
  BY <1>1
<1>3. Day(t) * DayLength <= u
  BY <1>1, <1>2
<1> QED
  BY <1>1, <1>3, DayBegan

\* The store lists streams by their names.
LEMMA ListedNames ==
    ASSUME NEW prefix \in {"legacy", "current"}
    PROVE  /\ Listed(prefix) \in Seq(Names)
           /\ \A i \in 1..Len(Listed(prefix)) : Listed(prefix)[i][1] = prefix
<1> DEFINE days == {d \in Days : last[<<prefix, d>>] >= 0}
           at(i) == CHOOSE d \in days : Cardinality({e \in days : e < d}) = i - 1
<1>1. Day(MaxTime) \in Nat
  BY DayBegan, ArchiveAssumption
<1>2. days \in SUBSET Days /\ Days \subseteq Nat /\ IsFiniteSet(Days)
  BY <1>1, FS_Interval DEF Days
<1>3. days \subseteq Nat /\ IsFiniteSet(days)
  BY <1>2, FS_Subset
<1>4. Cardinality(days) \in Nat /\ \A i \in 1..Cardinality(days) : \E d \in days : Cardinality({e \in days : e < d}) = i - 1
  BY <1>3, EveryRank, FS_CardinalityType
<1>5. Listed(prefix) = [i \in 1..Cardinality(days) |-> <<prefix, at(i)>>]
  BY DEF Listed
<1>6. \A i \in 1..Cardinality(days) : at(i) \in days
  BY <1>4
<1> HIDE DEF days, at
<1>7. \A i \in 1..Cardinality(days) : <<prefix, at(i)>> \in Names
  BY <1>2, <1>6 DEF Names, ArchivePrefixes
<1>8. Listed(prefix) \in [1..Cardinality(days) -> Names]
  BY <1>5, <1>7
<1>9. Listed(prefix) \in Seq(Names) /\ Len(Listed(prefix)) = Cardinality(days)
  BY <1>4, <1>8
<1>10. \A i \in 1..Cardinality(days) : Listed(prefix)[i] = <<prefix, at(i)>>
  BY <1>5
<1> QED
  BY <1>9, <1>10

\* A sequence turned around has the same members.
LEMMA ReverseType ==
    ASSUME NEW S, NEW s \in Seq(S)
    PROVE  Reverse(s) \in Seq(S) /\ Len(Reverse(s)) = Len(s)
<1>1. Len(s) \in Nat /\ \A i \in 1..Len(s) : s[i] \in S
  OBVIOUS
<1>2. \A i \in 1..Len(s) : (Len(s) - i) + 1 \in 1..Len(s)
  BY <1>1
<1>3. Reverse(s) \in [1..Len(s) -> S]
  BY <1>1, <1>2 DEF Reverse
<1> QED
  BY <1>1, <1>3

\* What is read of a stream is new, and of every delivery one record: the last
\* with its key.
LEMMA FreshOnce ==
    ASSUME NEW S, NEW s \in Seq(S), NEW known, NEW want
    PROVE  /\ fresh(s, known, want) \subseteq S
           /\ \A x \in fresh(s, known, want) :
                 /\ x.delivery # Corrupt /\ archive_entry_key(x) \notin known
                 /\ \E i \in 1..Len(s) : x = s[i] /\ \A j \in (i + 1)..Len(s) : ~SameKey(s[j], x)
           /\ \A x, y \in fresh(s, known, want) : SameKey(x, y) => x = y
<1> DEFINE key(i) == archive_entry_key(s[i])
           new == {i \in 1..Len(s) : /\ s[i].delivery # Corrupt /\ key(i) \notin known
                                     /\ \A j \in (i + 1)..Len(s) : key(j) # key(i)}
           taken == {i \in new : Cardinality({j \in new : j > i}) < want}
<1>1. fresh(s, known, want) = {s[i] : i \in taken}
  BY DEF fresh
<1>2. Len(s) \in Nat /\ \A i \in 1..Len(s) : s[i] \in S
  OBVIOUS
<1>3. \A i \in taken : /\ i \in 1..Len(s) /\ s[i].delivery # Corrupt /\ archive_entry_key(s[i]) \notin known
                       /\ \A j \in (i + 1)..Len(s) : ~SameKey(s[j], s[i])
  BY DEF SameKey
<1> HIDE DEF taken
<1>4. ASSUME NEW x \in {s[i] : i \in taken}, NEW y \in {s[i] : i \in taken}, SameKey(x, y) PROVE x = y
  <2>1. PICK i \in taken : x = s[i]
    OBVIOUS
  <2>2. PICK j \in taken : y = s[j]
    OBVIOUS
  <2>3. i \in Nat /\ j \in Nat /\ i <= Len(s) /\ j <= Len(s)
    BY <1>2, <1>3
  <2>4. CASE i < j
    <3>1. j \in (i + 1)..Len(s)
      BY <1>2, <2>3, <2>4
    <3> QED
      BY <1>3, <1>4, <2>1, <2>2, <3>1 DEF SameKey
  <2>5. CASE j < i
    <3>1. i \in (j + 1)..Len(s)
      BY <1>2, <2>3, <2>5
    <3> QED
      BY <1>3, <1>4, <2>1, <2>2, <3>1 DEF SameKey
  <2> QED
    BY <2>1, <2>2, <2>3, <2>4, <2>5
<1> QED
  BY <1>1, <1>2, <1>3, <1>4

\* What an append does: by a recorder, or by another program.
Appends(q, e) ==
    /\ q \in Names /\ q[1] = "current" /\ e \in Entry /\ e.n = appended + 1 /\ appended + 1 \in 0..MaxRecords
    /\ streams' = [streams EXCEPT ![q] = Append(@, e)]
    /\ last' = [last EXCEPT ![q] = now]
    /\ appended' = appended + 1
    /\ UNCHANGED <<now, sealed, listing>>

\* The recorder's entry as it is appended.
Appended(r) == [entry[r] EXCEPT !.n = appended + 1]
\* Another program's record, and where it goes.
Foreign == [Old(Corrupt, "current") EXCEPT !.n = appended + 1]
Today == <<"current", Day(now)>>

\* The days there are.
LEMMA DayInDays ==
    ASSUME NEW t \in 0..MaxTime
    PROVE  Day(t) \in Days /\ Day(t) \in Nat /\ 0 \in Days /\ Days \subseteq Nat
<1>1. t \in Nat /\ t <= MaxTime /\ MaxTime \in Nat
  BY ArchiveAssumption
<1>2. Day(t) \in Nat /\ Day(MaxTime) \in Nat /\ Day(t) <= Day(MaxTime)
  BY <1>1, DayBegan, DayMonotone
<1> QED
  BY <1>2 DEF Days

\* A record as it is before anything is recorded.
LEMMA OldType ==
    ASSUME NEW d \in Deliveries \cup {Corrupt}, NEW prefix \in ArchivePrefixes
    PROVE  /\ Old(d, prefix) \in Entry /\ Old(d, prefix).n = 0 /\ Old(d, prefix).after = 0
           /\ Old(d, prefix).prefix = prefix /\ Old(d, prefix).delivery = d
BY DEF Old, Entry

\* A stream of the initial content.
LEMMA InitStream ==
    ASSUME Init
    PROVE  /\ streams \in [Names -> Seq(Entry)] /\ last \in [Names -> -1..MaxTime]
           /\ \A s \in Names : last[s] = -1 \/ (last[s] = 0 /\ s[2] = 0)
           /\ \A s \in Names : \A i \in 1..Len(streams[s]) :
                 streams[s][i].n = 0 /\ streams[s][i].prefix = s[1] /\ s[2] = 0
<1>1. PICK d \in Deliveries, prefixes \in {{}, {"current"}, ArchivePrefixes} :
         /\ streams = [s \in Names |-> IF s[1] \in prefixes /\ s[2] = 0
                                       THEN <<Old(d, s[1]), Old(Corrupt, s[1])>> ELSE <<>>]
         /\ last = [s \in Names |-> IF s[1] \in prefixes /\ s[2] = 0 THEN 0 ELSE -1]
  BY DEF Init
<1>2. last \in [Names -> -1..MaxTime] /\ \A s \in Names : last[s] = -1 \/ (last[s] = 0 /\ s[2] = 0)
  BY <1>1, ArchiveAssumption
<1>3. ASSUME NEW s \in Names
      PROVE  /\ streams[s] \in Seq(Entry)
             /\ \A i \in 1..Len(streams[s]) :
                   streams[s][i].n = 0 /\ streams[s][i].prefix = s[1] /\ s[2] = 0
  <2>1. s[1] \in ArchivePrefixes
    BY DEF Names
  <2>2. /\ Old(d, s[1]) \in Entry /\ Old(d, s[1]).n = 0 /\ Old(d, s[1]).prefix = s[1]
        /\ Old(Corrupt, s[1]) \in Entry /\ Old(Corrupt, s[1]).n = 0 /\ Old(Corrupt, s[1]).prefix = s[1]
    BY <2>1, OldType
  <2> DEFINE a == Old(d, s[1])
             b == Old(Corrupt, s[1])
  <2>3. a \in Entry /\ a.n = 0 /\ a.prefix = s[1] /\ b \in Entry /\ b.n = 0 /\ b.prefix = s[1]
    BY <2>2
  <2>4. streams[s] = <<>> \/ (streams[s] = <<a, b>> /\ s[2] = 0)
    BY <1>1
  <2> HIDE DEF a, b
  <2>5. CASE streams[s] = <<>>
    BY <2>5
  <2>6. CASE streams[s] = <<a, b>> /\ s[2] = 0
    <3>1. Len(<<a, b>>) = 2 /\ <<a, b>>[1] = a /\ <<a, b>>[2] = b /\ <<a, b>> \in Seq(Entry)
      BY <2>3
    <3>2. \A i \in 1..2 : i = 1 \/ i = 2
      OBVIOUS
    <3> QED
      BY <2>3, <2>6, <3>1, <3>2
  <2> QED
    BY <2>4, <2>5, <2>6
<1>4. DOMAIN streams = Names /\ streams = [s \in Names |-> streams[s]]
  BY <1>1
<1> QED
  BY <1>2, <1>3, <1>4

\* A pass over streams stands at one of them.
AtStream == lpc \in {"seal", "read"} => queue # <<>>

\* A recorder's entry goes to the stream whose name it took.
LEMMA RecorderAppends ==
    ASSUME TypeOK, NEW r \in Recorders, append(r)
    PROVE  Appends(name[r], Appended(r))
<1>1. /\ name[r] \in {"current"} \X Days /\ entry[r] \in Entry /\ appended \in Nat
      /\ appended < MaxRecords /\ rpc[r] = "append"
  BY DEF append, TypeOK
<1>2. Appended(r) \in Entry /\ Appended(r).n = appended + 1 /\ appended + 1 \in 0..MaxRecords
  BY <1>1, ArchiveAssumption DEF Appended, Entry
<1>3. name[r][1] = "current"
  BY <1>1
<1>4. name[r] \in Names
  BY <1>1 DEF Names, ArchivePrefixes
<1> QED
  BY <1>1, <1>2, <1>3, <1>4 DEF append, Appended, Appends

\* Another program's record goes to today's stream.
LEMMA ForeignAppends ==
    ASSUME TypeOK, append_foreign
    PROVE  Appends(Today, Foreign) /\ Foreign.delivery = Corrupt
<1>1. appended \in Nat /\ appended < MaxRecords /\ now \in 0..MaxTime
  BY DEF append_foreign, TypeOK
<1>2. Foreign \in Entry /\ Foreign.n = appended + 1 /\ appended + 1 \in 0..MaxRecords
      /\ Foreign.delivery = Corrupt
  BY <1>1, ArchiveAssumption DEF Foreign, Old, Entry, ArchivePrefixes
<1>3. Today \in Names /\ Today[1] = "current"
  BY <1>1, DayInDays DEF Today, Names, ArchivePrefixes
<1> QED
  BY <1>1, <1>2, <1>3 DEF append_foreign, Appends, Today, Foreign

\* Type correctness, with what it rests on.
THEOREM TypeCorrect == Spec => [](TypeOK /\ AtStream)
<1> USE ArchiveAssumption
<1>1. Init => TypeOK /\ AtStream
  <2> SUFFICES ASSUME Init PROVE TypeOK /\ AtStream
    OBVIOUS
  <2>1. Day(MaxTime) \in Nat /\ NoName \in {"current"} \X Days
    <3>1. Day(MaxTime) \in Nat
      BY DayBegan
    <3> QED
      BY <3>1 DEF NoName, Days
  <2>5. streams \in [Names -> Seq(Entry)] /\ last \in [Names -> -1..MaxTime]
    BY InitStream
  <2>6. /\ now \in 0..MaxTime /\ sealed \subseteq Names /\ name \in [Recorders -> {"current"} \X Days]
        /\ rpc \in [Recorders -> {"idle", "name", "append"}] /\ DOMAIN entry = Recorders
        /\ \A r \in Recorders : rpc[r] # "idle" => entry[r] \in Entry
    BY <2>1 DEF Init
  <2>7. /\ appended \in 0..MaxRecords /\ acked \subseteq Entry /\ retain \in 0..MaxTime
        /\ lpc \in {"idle", "info", "seal", "names", "read", "answered", "failed"}
        /\ queue \in Seq(Names) /\ limit \in 1..MaxLimit /\ entries \subseteq Entry
        /\ seen \subseteq [delivery : Deliveries, at : Nat] /\ answer \subseteq Entry /\ before \subseteq Entry /\ AtStream
    BY DEF Init, AtStream
  <2> QED
    BY <2>5, <2>6, <2>7 DEF TypeOK
<1>2. TypeOK /\ AtStream /\ [Next]_vars => TypeOK' /\ AtStream'
  <2> SUFFICES ASSUME TypeOK, AtStream, [Next]_vars PROVE TypeOK' /\ AtStream'
    OBVIOUS
  <2>0. /\ now \in 0..MaxTime /\ streams \in [Names -> Seq(Entry)] /\ last \in [Names -> -1..MaxTime]
        /\ name \in [Recorders -> {"current"} \X Days] /\ rpc \in [Recorders -> {"idle", "name", "append"}]
        /\ queue \in Seq(Names) /\ entries \subseteq Entry /\ seen \subseteq [delivery : Deliveries, at : Nat]
        /\ DOMAIN entry = Recorders /\ \A r \in Recorders : rpc[r] # "idle" => entry[r] \in Entry
        /\ appended \in 0..MaxRecords /\ acked \subseteq Entry
    BY DEF TypeOK
  <2>d. \A t \in 0..MaxTime : Day(t) \in Days
    <3> SUFFICES ASSUME NEW t \in 0..MaxTime PROVE Day(t) \in Days
      OBVIOUS
    <3>1. t \in Nat /\ t <= MaxTime
      OBVIOUS
    <3>2. Day(t) \in Nat /\ Day(MaxTime) \in Nat /\ Day(t) <= Day(MaxTime)
      BY <3>1, DayBegan, DayMonotone
    <3> QED
      BY <3>2 DEF Days
  <2>r. ASSUME NEW r \in Recorders, Return(r)
        PROVE  /\ rpc' \in [Recorders -> {"idle", "name", "append"}] /\ name' \in [Recorders -> {"current"} \X Days]
               /\ DOMAIN entry' = Recorders /\ \A q \in Recorders : rpc'[q] # "idle" => entry'[q] \in Entry
    <3>1. NoName \in {"current"} \X Days
      <4>1. 0 \in Days
        BY DayBegan DEF Days
      <4> QED
        BY <4>1 DEF NoName
    <3> QED
      BY <2>0, <2>r, <3>1 DEF Return
  <2>1. ASSUME Tick PROVE TypeOK' /\ AtStream'
    BY <2>1 DEF Tick, TypeOK, AtStream, recording, listing
  <2>2. ASSUME NEW r \in Recorders, NEW d \in Deliveries, stamp(r, d) PROVE TypeOK' /\ AtStream'
    <3>1. [Old(d, "current") EXCEPT !.at = now, !.after = appended] \in Entry
      <4>1. now \in Nat /\ appended \in Nat
        BY <2>0
      <4> QED
        BY <4>1 DEF Old, Entry, ArchivePrefixes
    <3>2. /\ rpc' \in [Recorders -> {"idle", "name", "append"}] /\ DOMAIN entry' = Recorders
          /\ \A q \in Recorders : rpc'[q] # "idle" => entry'[q] \in Entry
      BY <2>0, <2>2, <3>1 DEF stamp
    <3> QED
      BY <2>2, <3>2 DEF stamp, TypeOK, AtStream, clock, listing
  <2>3. ASSUME NEW r \in Recorders, current_day_file(r) PROVE TypeOK' /\ AtStream'
    <3>1. <<"current", Day(now)>> \in {"current"} \X Days
      BY <2>0, <2>d
    <3>2. /\ rpc' \in [Recorders -> {"idle", "name", "append"}] /\ name' \in [Recorders -> {"current"} \X Days]
          /\ \A q \in Recorders : rpc'[q] # "idle" => rpc[q] # "idle"
      BY <2>0, <2>3, <3>1 DEF current_day_file
    <3> QED
      BY <2>3, <3>2 DEF current_day_file, TypeOK, AtStream, clock, listing
  <2>a. ASSUME NEW q, NEW e, Appends(q, e)
        PROVE  /\ streams' \in [Names -> Seq(Entry)] /\ last' \in [Names -> -1..MaxTime]
               /\ appended' \in 0..MaxRecords
    <3>1. /\ q \in Names /\ now \in -1..MaxTime /\ e \in Entry
          /\ streams' = [streams EXCEPT ![q] = Append(@, e)] /\ last' = [last EXCEPT ![q] = now]
          /\ appended' = appended + 1 /\ appended + 1 \in 0..MaxRecords
      BY <2>0, <2>a DEF Appends
    <3>2. Append(streams[q], e) \in Seq(Entry)
      BY <2>0, <3>1
    <3>3. streams' \in [Names -> Seq(Entry)]
      BY <2>0, <3>1, <3>2
    <3> QED
      BY <2>0, <3>1, <3>3
  <2>4. ASSUME NEW r \in Recorders, append(r) PROVE TypeOK' /\ AtStream'
    <3>1. Appends(name[r], Appended(r))
      BY <2>4, RecorderAppends
    <3>2. /\ Return(r) /\ acked' = acked \cup {Appended(r)} /\ Appended(r) \in Entry
          /\ UNCHANGED <<now, sealed, listing>>
      BY <2>4, <3>1 DEF append, Appended, Appends
    <3>3. /\ streams' \in [Names -> Seq(Entry)] /\ last' \in [Names -> -1..MaxTime]
          /\ appended' \in 0..MaxRecords
      BY <2>a, <3>1
    <3> QED
      BY <2>r, <3>2, <3>3 DEF TypeOK, AtStream, listing
  <2>f. ASSUME append_foreign PROVE TypeOK' /\ AtStream'
    <3>1. Appends(Today, Foreign)
      BY <2>f, ForeignAppends
    <3>2. UNCHANGED <<now, sealed, rpc, entry, name, acked, listing>>
      BY <2>f DEF append_foreign
    <3>3. /\ streams' \in [Names -> Seq(Entry)] /\ last' \in [Names -> -1..MaxTime]
          /\ appended' \in 0..MaxRecords
      BY <2>a, <3>1
    <3> QED
      BY <3>2, <3>3 DEF TypeOK, AtStream, listing
  <2>5. ASSUME NEW r \in Recorders, append_fails(r) PROVE TypeOK' /\ AtStream'
    BY <2>5, <2>r DEF append_fails, TypeOK, AtStream, clock, listing
  <2>6. ASSUME NEW l \in 1..MaxLimit, list_recent(l) PROVE TypeOK' /\ AtStream'
    <3>1. Listed("current") \o Listed("legacy") \in Seq(Names)
      BY ListedNames
    <3>2. queue' \in Seq(Names) /\ retain' \in 0..MaxTime /\ lpc' \in {"info", "names"}
      BY <2>0, <2>6, <3>1 DEF list_recent, TypeOK
    <3> QED
      BY <2>6, <3>2 DEF list_recent, TypeOK, AtStream, clock, recording
  <2>7. ASSUME info PROVE TypeOK' /\ AtStream'
    <3>1. /\ queue' \in Seq(Names) /\ lpc' \in {"info", "seal", "names"}
          /\ lpc' = "seal" => queue' # <<>>
      <4>1. queue # <<>> => Tail(queue) \in Seq(Names)
        BY <2>0
      <4> QED
        BY <2>0, <2>7, <4>1 DEF info
    <3>2. retain' \in 0..MaxTime
      BY <2>7 DEF info, TypeOK
    <3> QED
      BY <2>7, <3>1, <3>2 DEF info, TypeOK, AtStream, clock, recording
  <2>8. ASSUME seal PROVE TypeOK' /\ AtStream'
    <3>1. queue # <<>> /\ Head(queue) \in Names /\ Tail(queue) \in Seq(Names)
      BY <2>0, <2>8 DEF seal, AtStream
    <3> QED
      BY <2>8, <3>1 DEF seal, TypeOK, AtStream, recording
  <2>9. ASSUME names PROVE TypeOK' /\ AtStream'
    <3>1. Reverse(Listed("legacy")) \o Reverse(Listed("current")) \in Seq(Names)
      BY ListedNames, ReverseType
    <3> QED
      BY <2>9, <3>1 DEF names, TypeOK, AtStream, clock, recording
  <2>10. ASSUME names_empty PROVE TypeOK' /\ AtStream'
    BY <2>10 DEF names_empty, TypeOK, AtStream, clock, recording
  <2>11. ASSUME read PROVE TypeOK' /\ AtStream'
    <3> DEFINE new == fresh(streams[Head(queue)], seen, limit)
               all == entries \cup new
    <3>1. queue # <<>> /\ Head(queue) \in Names /\ Tail(queue) \in Seq(Names)
          /\ Len(Tail(queue)) = Len(queue) - 1
      BY <2>0, <2>11 DEF read, AtStream
    <3>2. streams[Head(queue)] \in Seq(Entry)
      BY <2>0, <3>1
    <3>3. new \subseteq Entry /\ \A x \in new : x.delivery # Corrupt
      BY <3>2, FreshOnce
    <3>4. /\ entries' = all /\ seen' = seen \cup {archive_entry_key(e) : e \in new} /\ queue' = Tail(queue)
          /\ \/ Len(queue) > 1 /\ lpc' = lpc /\ answer' = answer
             \/ lpc' = "answered" /\ answer' \in Newest(all, limit)
          /\ UNCHANGED <<clock, streams, recording, limit, retain, before>> /\ lpc = "read"
      BY <2>11 DEF read
    <3> HIDE DEF new
    <3>5. entries' \subseteq Entry /\ seen' \subseteq [delivery : Deliveries, at : Nat]
      <4>1. \A x \in new : archive_entry_key(x) \in [delivery : Deliveries, at : Nat]
        BY <3>3 DEF Entry, archive_entry_key
      <4> QED
        BY <2>0, <3>3, <3>4, <4>1
    <3>6. answer' \subseteq Entry /\ lpc' \in {"read", "answered"}
      BY <3>4, <3>5 DEF Newest, TypeOK
    <3>7. lpc' = "read" => queue' # <<>>
      <4> SUFFICES ASSUME lpc' = "read" PROVE Tail(queue) # <<>>
        BY <3>4
      <4>1. Len(queue) > 1 /\ Len(queue) \in Nat
        BY <2>0, <3>4
      <4>2. Len(Tail(queue)) # 0
        BY <3>1, <4>1
      <4>3. Len(<<>>) = 0
        OBVIOUS
      <4> QED
        BY <4>2, <4>3, Zenon
    <3> QED
      BY <3>1, <3>4, <3>5, <3>6, <3>7 DEF TypeOK, AtStream, clock, recording
  <2>12. ASSUME list_fails PROVE TypeOK' /\ AtStream'
    <3>1. /\ <<>> \in Seq(Names) /\ 1 \in 1..MaxLimit /\ 0 \in 0..MaxTime
      OBVIOUS
    <3> QED
      BY <2>12, <3>1 DEF list_fails, TypeOK, AtStream, clock, recording
  <2>13. CASE UNCHANGED vars
    BY <2>13 DEF vars, TypeOK, AtStream, clock, recording, listing
  <2> QED
    BY <2>1, <2>2, <2>3, <2>4, <2>f, <2>5, <2>6, <2>7, <2>8, <2>9, <2>10, <2>11, <2>12, <2>13 DEF Next
<1> QED
  BY <1>1, <1>2, PTL DEF Spec

-----------------------------------------------------------------------------
\* A stream of the current prefix whose day is that far behind.
Past(s) == s[1] = "current" => s[2] + IdleDays <= Day(now)

\* A stream is appended to on its day or later, by recorders that took its name
\* from the clock; so a stream idle for long enough is of a day that is past,
\* and still is when the seal comes.
SealInv ==
    /\ retain <= now
    /\ \A r \in Recorders : name[r][2] <= Day(now)
    /\ \A s \in Names : s[1] = "current" /\ last[s] >= 0 => last[s] >= s[2] * DayLength
    /\ lpc = "seal" => Past(Head(queue))
    /\ \A s \in sealed : Past(s)

\* What is past stays past.
LEMMA PastStays ==
    ASSUME TypeOK, NEW s \in Names, Past(s), now' \in Nat, now <= now'
    PROVE  Past(s)'
<1>1. now \in Nat /\ s[2] \in Nat /\ IdleDays \in Nat
  BY ArchiveAssumption, DayBegan DEF TypeOK, Names, Days
<1>2. Day(now) \in Nat /\ Day(now') \in Nat /\ Day(now) <= Day(now')
  BY <1>1, DayBegan, DayMonotone
<1>3. Day(now)' = Day(now')
  BY DEF Day
<1>4. ASSUME s[1] = "current" PROVE s[2] + IdleDays <= Day(now')
  <2>1. s[2] + IdleDays <= Day(now)
    BY <1>4 DEF Past
  <2> QED
    BY <1>1, <1>2, <2>1
<1> QED
  BY <1>3, <1>4 DEF Past

\* Names are taken from the clock and streams appended to on their day or later,
\* so what is sealed is past.
LEMMA SealKept == Spec => []SealInv
<1> USE ArchiveAssumption
<1>1. Init => SealInv
  <2> SUFFICES ASSUME Init PROVE SealInv
    OBVIOUS
  <2>1. retain <= now /\ now = 0
    BY DEF Init
  <2>2. \A r \in Recorders : name[r][2] <= Day(now)
    <3>1. Day(0) \in Nat
      BY DayBegan
    <3>2. \A r \in Recorders : name[r][2] = 0
      BY DEF Init, NoName
    <3> QED
      BY <2>1, <3>1, <3>2
  <2>3. ASSUME NEW s \in Names, last[s] >= 0 PROVE last[s] >= s[2] * DayLength
    <3>1. last[s] = 0 /\ s[2] = 0
      BY <2>3, InitStream
    <3> QED
      BY <3>1, ArchiveAssumption
  <2>4. lpc # "seal" /\ sealed = {}
    BY DEF Init
  <2> QED
    BY <2>1, <2>2, <2>3, <2>4 DEF SealInv
<1>2. TypeOK /\ TypeOK' /\ AtStream /\ SealInv /\ [Next]_vars => SealInv'
  <2> SUFFICES ASSUME TypeOK, TypeOK', AtStream, SealInv, [Next]_vars PROVE SealInv'
    OBVIOUS
  <2>0. /\ now \in Nat /\ now' \in Nat /\ retain \in Nat /\ name \in [Recorders -> {"current"} \X Days]
        /\ \A r \in Recorders : name[r] \in Names
        /\ last \in [Names -> -1..MaxTime] /\ queue \in Seq(Names) /\ sealed \subseteq Names
        /\ \A s \in Names : s[2] \in Nat
    <3>1. \A s \in Names : s[2] \in Nat
      BY DayBegan DEF Names, Days
    <3>2. now \in Nat /\ now' \in Nat /\ retain \in Nat
      BY DEF TypeOK
    <3>3. \A r \in Recorders : name[r] \in Names
      BY DEF TypeOK, Names, ArchivePrefixes
    <3> QED
      BY <3>1, <3>2, <3>3 DEF TypeOK
  <2>1. /\ retain <= now /\ \A r \in Recorders : name[r][2] <= Day(now)
        /\ \A s \in Names : s[1] = "current" /\ last[s] >= 0 => last[s] >= s[2] * DayLength
        /\ lpc = "seal" => Past(Head(queue))
        /\ \A s \in sealed : Past(s)
    BY DEF SealInv
  <2>2. lpc = "seal" => Head(queue) \in Names
    BY <2>0 DEF AtStream
  <2>3. Day(now)' = Day(now')
    BY DEF Day
  <2>t. ASSUME now' = now PROVE \A s : Past(s)' <=> Past(s)
    BY <2>3, <2>t DEF Past
  \* Steps of the recorders and of the clock.
  <2>4. ASSUME Tick PROVE SealInv'
    <3>1. now' = now + 1 /\ UNCHANGED <<last, sealed, streams, recording, listing>>
      BY <2>4 DEF Tick
    <3>2. now <= now'
      BY <2>0, <3>1
    <3>3. Day(now) \in Nat /\ Day(now') \in Nat /\ Day(now) <= Day(now')
      BY <2>0, <3>2, DayBegan, DayMonotone
    <3>4. \A r \in Recorders : name[r][2] <= Day(now')
      <4> SUFFICES ASSUME NEW r \in Recorders PROVE name[r][2] <= Day(now')
        OBVIOUS
      <4>1. name[r][2] \in Nat /\ name[r][2] <= Day(now)
        BY <2>0, <2>1
      <4> QED
        BY <3>3, <4>1
    <3>5. \A s \in sealed : Past(s)'
      BY <2>0, <2>1, <3>2, PastStays
    <3>6. lpc = "seal" => Past(Head(queue))'
      <4> SUFFICES ASSUME lpc = "seal" PROVE Past(Head(queue))'
        OBVIOUS
      <4>1. PICK s \in Names : s = Head(queue)
        BY <2>2
      <4>2. Past(s)'
        BY <2>0, <2>1, <3>2, <4>1, PastStays
      <4>3. Head(queue)' = s
        BY <3>1, <4>1 DEF listing
      <4> QED
        BY <4>2, <4>3 DEF Past
    <3>7. retain <= now'
      BY <2>0, <2>1, <3>2
    <3> QED
      BY <2>1, <2>3, <3>1, <3>4, <3>5, <3>6, <3>7 DEF SealInv, recording, listing
  <2>5. ASSUME now' = now, last' = last, sealed' = sealed,
               UNCHANGED listing,
               \A r \in Recorders : name'[r] = name[r] \/ name'[r][2] <= Day(now)
        PROVE  SealInv'
    <3>1. \A s \in sealed' : Past(s)'
      BY <2>1, <2>5, <2>t
    <3>2. lpc' = "seal" => Past(Head(queue))'
      BY <2>1, <2>3, <2>5 DEF listing, Past
    <3> QED
      BY <2>1, <2>3, <2>5, <3>1, <3>2 DEF SealInv, listing
  <2>6. ASSUME NEW r \in Recorders, NEW d \in Deliveries, stamp(r, d) PROVE SealInv'
    BY <2>0, <2>5, <2>6 DEF stamp, clock
  <2>7. ASSUME NEW r \in Recorders, current_day_file(r) PROVE SealInv'
    <3>1. Day(now) \in Nat
      BY <2>0, DayBegan
    <3>2. name' = [name EXCEPT ![r] = <<"current", Day(now)>>]
          /\ now' = now /\ last' = last /\ sealed' = sealed /\ UNCHANGED listing
      BY <2>7 DEF current_day_file, clock
    <3>3. \A q \in Recorders : name'[q] = name[q] \/ name'[q][2] <= Day(now)
      BY <2>0, <3>1, <3>2
    <3> QED
      BY <2>5, <3>2, <3>3
  <2>8. ASSUME NEW r \in Recorders, Return(r)
        PROVE  \A q \in Recorders : name'[q] = name[q] \/ name'[q][2] <= Day(now)
    <3>1. 0 <= Day(now)
      BY <2>0, DayBegan
    <3> QED
      BY <2>0, <2>8, <3>1 DEF Return, NoName
  <2>9. ASSUME NEW r \in Recorders, append_fails(r) PROVE SealInv'
    BY <2>5, <2>8, <2>9 DEF append_fails, clock
  <2>10. ASSUME NEW q, NEW e, Appends(q, e), q[2] <= Day(now),
                \A r \in Recorders : name'[r] = name[r] \/ name'[r][2] <= Day(now)
         PROVE  SealInv'
    <3>1. /\ q \in Names /\ last' = [last EXCEPT ![q] = now] /\ now' = now /\ sealed' = sealed
          /\ UNCHANGED listing
      BY <2>10 DEF Appends
    <3>2. ASSUME NEW s \in Names, s[1] = "current", last'[s] >= 0 PROVE last'[s] >= s[2] * DayLength
      <4>1. CASE s = q
        <5>1. s[2] \in Nat /\ s[2] <= Day(now) /\ last'[s] = now
          BY <2>0, <2>10, <3>1, <4>1
        <5>2. Day(now) \in Nat /\ Day(now) * DayLength <= now
          BY <2>0, DayBegan
        <5>3. \A x, y \in Nat : x <= y => x * DayLength <= y * DayLength
          OBVIOUS
        <5>4. s[2] * DayLength <= Day(now) * DayLength
          BY <5>1, <5>2, <5>3
        <5>5. s[2] * DayLength \in Nat /\ Day(now) * DayLength \in Nat
          BY <5>1, <5>2
        <5> QED
          BY <2>0, <5>1, <5>2, <5>4, <5>5
      <4>2. CASE s # q
        BY <2>0, <2>1, <3>1, <3>2, <4>2
      <4> QED
        BY <4>1, <4>2
    <3>3. \A r \in Recorders : name'[r][2] <= Day(now')
      BY <2>1, <2>10, <3>1
    <3>4. \A s \in sealed' : Past(s)'
      BY <2>1, <2>t, <3>1
    <3>5. lpc' = "seal" => Past(Head(queue))'
      BY <2>1, <2>3, <3>1 DEF listing, Past
    <3> QED
      BY <2>1, <2>3, <3>1, <3>2, <3>3, <3>4, <3>5 DEF SealInv, listing
  <2>a. ASSUME NEW r \in Recorders, append(r) PROVE SealInv'
    <3>1. Appends(name[r], Appended(r)) /\ Return(r)
      BY <2>a, RecorderAppends DEF append
    <3>2. name[r][2] <= Day(now)
      BY <2>1
    <3> QED
      BY <2>8, <2>10, <3>1, <3>2
  <2>f. ASSUME append_foreign PROVE SealInv'
    <3>1. Appends(Today, Foreign) /\ name' = name
      BY <2>f, ForeignAppends DEF append_foreign
    <3>2. Today[2] <= Day(now)
      <4>1. Day(now) \in Nat
        BY <2>0, DayBegan
      <4> QED
        BY <4>1 DEF Today
    <3> QED
      BY <2>10, <3>1, <3>2
  \* Steps of the listing.
  <2>11. ASSUME now' = now, last' = last, name' = name, retain' <= now,
                \A s \in sealed' : s \in sealed \/ Past(s),
                lpc' = "seal" => Past(Head(queue')) \/ (lpc = "seal" /\ queue' = queue)
         PROVE  SealInv'
    <3>1. \A s \in sealed' : Past(s)'
      BY <2>1, <2>11, <2>t
    <3>2. lpc' = "seal" => Past(Head(queue))'
      BY <2>1, <2>3, <2>11 DEF Past
    <3> QED
      BY <2>1, <2>3, <2>11, <3>1, <3>2 DEF SealInv
  <2>12. ASSUME NEW l \in 1..MaxLimit, list_recent(l) PROVE SealInv'
    <3>1. retain' <= now /\ lpc' # "seal"
      BY <2>0, <2>1, <2>12 DEF list_recent
    <3> QED
      BY <2>11, <2>12, <3>1 DEF list_recent, clock, recording
  <2>13. ASSUME info PROVE SealInv'
    <3>1. ASSUME lpc' = "seal" PROVE Past(Head(queue'))
      <4>1. queue' = queue /\ queue # <<>> /\ should_seal(Head(queue))
        BY <2>13, <3>1 DEF info
      <4>2. PICK s \in Names : s = Head(queue)
        BY <2>0, <4>1
      <4>3. ASSUME s[1] = "current" PROVE s[2] + IdleDays <= Day(now)
        <5>1. last[s] >= s[2] * DayLength /\ last[s] >= 0 /\ last[s] <= retain - IdleDays * DayLength
          BY <2>1, <4>1, <4>2, <4>3 DEF should_seal
        <5>2. last[s] \in Nat /\ s[2] \in Nat
          BY <2>0, <5>1
        <5>3. s[2] * DayLength \in Nat /\ IdleDays * DayLength \in Nat
              /\ (s[2] + IdleDays) * DayLength = s[2] * DayLength + IdleDays * DayLength
          <6>1. \A a, b, n \in Nat : a * n \in Nat /\ b * n \in Nat /\ (a + b) * n = a * n + b * n
            OBVIOUS
          <6> QED
            BY <5>2, <6>1
        <5>4. \A a, b, t, u, v \in Nat : t >= a /\ t <= u - b /\ u <= v => a + b <= v
          OBVIOUS
        <5>5. (s[2] + IdleDays) * DayLength <= now
          <6> DEFINE a == s[2] * DayLength
                     b == IdleDays * DayLength
          <6>1. a \in Nat /\ b \in Nat /\ last[s] >= a /\ last[s] <= retain - b /\ retain <= now
            BY <2>1, <5>1, <5>3
          <6> HIDE DEF a, b
          <6>2. a + b <= now
            BY <2>0, <5>2, <5>4, <6>1
          <6> QED
            BY <5>3, <6>2 DEF a, b
        <5>6. s[2] + IdleDays \in Nat
          BY <5>2
        <5> QED
          BY <2>0, <5>5, <5>6, DayBegan, Zenon
      <4> QED
        BY <4>1, <4>2, <4>3 DEF Past
    <3>2. retain' <= now
      BY <2>0, <2>1, <2>13 DEF info
    <3> QED
      BY <2>1, <2>11, <2>13, <3>1, <3>2 DEF info, clock, recording
  <2>14. ASSUME seal PROVE SealInv'
    <3>1. \A s \in sealed' : s \in sealed \/ Past(s)
      BY <2>1, <2>14 DEF seal
    <3> QED
      BY <2>1, <2>11, <2>14, <3>1 DEF seal, recording
  <2>15. ASSUME names \/ names_empty \/ read \/ list_fails PROVE SealInv'
    <3>1. /\ now' = now /\ last' = last /\ name' = name /\ retain' <= now /\ sealed' = sealed
          /\ lpc' # "seal"
      BY <2>0, <2>1, <2>15 DEF names, names_empty, read, list_fails, clock, recording
    <3> QED
      BY <2>1, <2>11, <3>1
  <2>16. CASE UNCHANGED vars
    BY <2>1, <2>11, <2>16 DEF vars, clock, recording, listing
  <2> QED
    BY <2>4, <2>6, <2>7, <2>9, <2>a, <2>f, <2>12, <2>13, <2>14, <2>15, <2>16 DEF Next
<1> QED
  BY <1>1, <1>2, TypeCorrect, PTL DEF Spec

\* A day is sealed only when IdleDays days have passed: no delivery still on
\* its way to the current day, or to the one before, finds its stream sealed.
THEOREM IdleDaysSealed == Spec => []OnlyIdleDaysSealed
<1>1. SealInv => OnlyIdleDaysSealed
  BY DEF SealInv, Past, OnlyIdleDaysSealed
<1> QED
  BY <1>1, SealKept, PTL

-----------------------------------------------------------------------------
\* The keys seen are those of the entries collected, one entry each; nothing is
\* collected before the streams are read.
OnceInv ==
    /\ seen = {archive_entry_key(e) : e \in entries}
    /\ \A x, y \in entries : SameKey(x, y) => x = y
    /\ \A x \in entries : x.delivery # Corrupt
    /\ lpc \in {"idle", "info", "seal", "names"} => entries = {}
    /\ IF Answered THEN answer \subseteq entries ELSE answer = {}

\* A listing collects one entry of a delivery.
LEMMA SeenOnce == Spec => []OnceInv
<1>1. Init => OnceInv
  BY DEF Init, OnceInv, Answered
<1>2. TypeOK /\ AtStream /\ OnceInv /\ [Next]_vars => OnceInv'
  <2> SUFFICES ASSUME TypeOK, AtStream, OnceInv, [Next]_vars PROVE OnceInv'
    OBVIOUS
  <2>1. ASSUME read PROVE OnceInv'
    <3> DEFINE new == fresh(streams[Head(queue)], seen, limit)
               all == entries \cup new
    <3>1. streams[Head(queue)] \in Seq(Entry)
      <4>1. Head(queue) \in Names
        BY <2>1 DEF read, AtStream, TypeOK
      <4> QED
        BY <4>1 DEF TypeOK
    <3>2. /\ \A x \in new : x.delivery # Corrupt /\ archive_entry_key(x) \notin seen
          /\ \A x, y \in new : SameKey(x, y) => x = y
      BY <3>1, FreshOnce
    <3>3. /\ entries' = all /\ seen' = seen \cup {archive_entry_key(e) : e \in new}
          /\ (lpc' = "read" /\ answer' = {}) \/ (lpc' = "answered" /\ answer' \in Newest(all, limit))
      BY <2>1 DEF read, OnceInv, Answered
    <3> HIDE DEF new
    <3>4. seen' = {archive_entry_key(e) : e \in all}
      BY <3>3 DEF OnceInv
    <3>5. \A x, y \in all : SameKey(x, y) => x = y
      BY <3>2 DEF OnceInv, SameKey
    <3>6. lpc' = "answered" => answer' \subseteq all
      BY <3>3 DEF Newest
    <3>7. \A x \in all : x.delivery # Corrupt
      BY <3>2 DEF OnceInv
    <3> QED
      BY <3>3, <3>4, <3>5, <3>6, <3>7 DEF OnceInv, SameKey, archive_entry_key, Answered
  <2>2. ASSUME UNCHANGED <<entries, seen, answer>>,
               lpc' = lpc \/ (lpc # "answered" /\ lpc' # "answered"),
               lpc' \in {"idle", "info", "seal", "names"} => lpc \in {"idle", "info", "seal", "names"}
        PROVE  OnceInv'
    BY <2>2 DEF OnceInv, SameKey, archive_entry_key, Answered
  <2>3. ASSUME list_fails PROVE OnceInv'
    BY <2>3 DEF list_fails, OnceInv, SameKey, Answered
  <2>4. ASSUME names_empty PROVE OnceInv'
    <3>1. UNCHANGED <<entries, seen>> /\ entries = {} /\ lpc' = "answered" /\ answer' = {}
      BY <2>4 DEF names_empty, OnceInv, Answered
    <3> QED
      BY <3>1 DEF OnceInv, SameKey, archive_entry_key, Answered
  <2>5. CASE \/ Tick \/ append_foreign \/ UNCHANGED vars
             \/ \E r \in Recorders : current_day_file(r) \/ append(r) \/ append_fails(r)
    <3>1. UNCHANGED listing
      BY <2>5 DEF Tick, current_day_file, append, append_fails, append_foreign, vars
    <3> QED
      BY <2>2, <3>1 DEF listing
  <2>s. ASSUME NEW r \in Recorders, NEW d \in Deliveries, stamp(r, d) PROVE OnceInv'
    <3>1. UNCHANGED listing
      BY <2>s DEF stamp
    <3> QED
      BY <2>2, <3>1 DEF listing
  <2>6. CASE (\E l \in 1..MaxLimit : list_recent(l)) \/ info \/ seal \/ names
    <3>1. /\ UNCHANGED <<entries, seen, answer>> /\ lpc' \in {"info", "seal", "names", "read"}
          /\ lpc \in {"idle", "info", "seal", "names"}
      BY <2>6 DEF list_recent, info, seal, names
    <3> QED
      BY <2>2, <3>1
  <2> QED
    BY <2>1, <2>3, <2>4, <2>5, <2>s, <2>6 DEF Next
<1> QED
  BY <1>1, <1>2, TypeCorrect, PTL DEF Spec

-----------------------------------------------------------------------------
\* A listing of streams leaves out none that is there.
LEMMA ListedComplete ==
    ASSUME NEW prefix \in {"legacy", "current"}, NEW d \in Days, last[<<prefix, d>>] >= 0
    PROVE  \E i \in 1..Len(Listed(prefix)) : Listed(prefix)[i] = <<prefix, d>>
<1> DEFINE days == {c \in Days : last[<<prefix, c>>] >= 0}
           below(c) == {e \in days : e < c}
           at(i) == CHOOSE c \in days : Cardinality(below(c)) = i - 1
           i0 == Cardinality(below(d)) + 1
<1>1. Day(MaxTime) \in Nat
  BY DayBegan, ArchiveAssumption
<1>2. days \in SUBSET Days /\ Days \subseteq Nat /\ IsFiniteSet(Days)
  <2>1. Days \subseteq Nat /\ IsFiniteSet(Days)
    BY <1>1, FS_Interval DEF Days
  <2> QED
    BY <2>1
<1>3. days \subseteq Nat /\ IsFiniteSet(days) /\ d \in days
  BY <1>2, FS_Subset
<1>4. Listed(prefix) = [i \in 1..Cardinality(days) |-> <<prefix, at(i)>>]
  BY DEF Listed
<1> HIDE DEF days
<1>5. ASSUME NEW c PROVE below(c) \in SUBSET days /\ IsFiniteSet(below(c)) /\ Cardinality(below(c)) \in Nat
  <2>1. below(c) \in SUBSET days
    OBVIOUS
  <2> HIDE DEF below
  <2>2. IsFiniteSet(below(c))
    BY <1>3, <2>1, FS_Subset
  <2> QED
    BY <2>1, <2>2, FS_CardinalityType
<1>6. Cardinality(days) \in Nat /\ Cardinality(below(d)) < Cardinality(days)
  <2>1. below(d) # days
    BY <1>3
  <2>2. below(d) \in SUBSET days /\ Cardinality(below(d)) \in Nat
    BY <1>5
  <2> HIDE DEF below
  <2>3. Cardinality(days) \in Nat
    BY <1>3, FS_CardinalityType
  <2>4. Cardinality(below(d)) <= Cardinality(days) /\ Cardinality(days) # Cardinality(below(d))
    BY <1>3, <2>1, <2>2, FS_Subset
  <2> QED
    BY <2>2, <2>3, <2>4
<1>7. ASSUME NEW b \in days, NEW c \in days, b < c PROVE Cardinality(below(b)) < Cardinality(below(c))
  <2>1. below(b) \in SUBSET below(c) /\ b \in below(c) /\ b \notin below(b)
    <3>1. \A e \in days : e \in Nat
      BY <1>3
    <3>2. \A e \in days : e < b => e < c
      BY <1>7, <3>1
    <3> QED
      BY <1>7, <3>1, <3>2
  <2>2. below(b) # below(c)
    BY <2>1
  <2>3. IsFiniteSet(below(c)) /\ Cardinality(below(c)) \in Nat /\ Cardinality(below(b)) \in Nat
    BY <1>5
  <2> HIDE DEF below
  <2> QED
    BY <2>1, <2>2, <2>3, FS_Subset
<1>8. i0 \in 1..Cardinality(days)
  BY <1>5, <1>6
<1>9. at(i0) = d
  <2>1. at(i0) \in days /\ Cardinality(below(at(i0))) = Cardinality(below(d))
    <3>1. i0 - 1 = Cardinality(below(d))
      <4>1. Cardinality(below(d)) \in Nat
        BY <1>5
      <4>2. \A c \in Nat : (c + 1) - 1 = c
        OBVIOUS
      <4> HIDE DEF below
      <4> QED
        BY <4>1, <4>2
    <3> DEFINE r == i0 - 1
    <3>2. at(i0) = CHOOSE c \in days : Cardinality(below(c)) = r
      OBVIOUS
    <3> HIDE DEF r, below, at
    <3>3. \E c \in days : Cardinality(below(c)) = r
      BY <1>3, <3>1 DEF r
    <3>4. at(i0) \in days /\ Cardinality(below(at(i0))) = r
      BY <3>2, <3>3
    <3> QED
      BY <3>1, <3>4 DEF r
  <2>2. \A c \in days : c \in Nat /\ Cardinality(below(c)) \in Nat
    BY <1>3, <1>5
  <2> HIDE DEF at, below
  <2>3. at(i0) \in Nat /\ d \in Nat /\ d \in days
    BY <1>3, <2>1, <2>2
  <2>4. ~(at(i0) < d)
    BY <1>7, <2>1, <2>2, <2>3
  <2>5. ~(d < at(i0))
    BY <1>7, <2>1, <2>2, <2>3
  <2> HIDE DEF i0
  <2> QED
    BY <2>3, <2>4, <2>5
<1> HIDE DEF at, i0
<1>10. Len(Listed(prefix)) = Cardinality(days) /\ Listed(prefix)[i0] = <<prefix, d>>
  BY <1>4, <1>6, <1>8, <1>9
<1> QED
  BY <1>8, <1>10

\* A listing of streams goes from the earliest day to the latest.
LEMMA ListedSorted ==
    ASSUME NEW prefix \in {"legacy", "current"},
           NEW i \in 1..Len(Listed(prefix)), NEW j \in 1..Len(Listed(prefix)), i < j
    PROVE  /\ Listed(prefix)[i][1] = prefix /\ Listed(prefix)[j][1] = prefix
           /\ Listed(prefix)[i][2] < Listed(prefix)[j][2]
<1> DEFINE days == {c \in Days : last[<<prefix, c>>] >= 0}
           below(c) == {e \in days : e < c}
           at(k) == CHOOSE c \in days : Cardinality(below(c)) = k - 1
<1>1. Day(MaxTime) \in Nat
  BY DayBegan, ArchiveAssumption
<1>2. days \in SUBSET Days /\ Days \subseteq Nat /\ IsFiniteSet(Days)
  <2>1. Days \subseteq Nat /\ IsFiniteSet(Days)
    BY <1>1, FS_Interval DEF Days
  <2> QED
    BY <2>1
<1>3. days \subseteq Nat /\ IsFiniteSet(days)
  BY <1>2, FS_Subset
<1>4. Listed(prefix) = [k \in 1..Cardinality(days) |-> <<prefix, at(k)>>]
  BY DEF Listed
<1>5. Cardinality(days) \in Nat /\ \A k \in 1..Cardinality(days) : \E c \in days : Cardinality(below(c)) = k - 1
  BY <1>3, EveryRank, FS_CardinalityType
<1>6. \A k \in 1..Cardinality(days) : at(k) \in days /\ Cardinality(below(at(k))) = k - 1
  BY <1>5
<1> HIDE DEF days, at
<1>7. ASSUME NEW b \in days, NEW c \in days, b <= c PROVE Cardinality(below(b)) <= Cardinality(below(c))
  <2>1. below(b) \in SUBSET below(c) /\ below(c) \in SUBSET days
    <3>1. \A e \in days : e \in Nat
      BY <1>3
    <3>2. \A e \in days : e < b => e < c
      BY <1>7, <3>1
    <3> QED
      BY <3>2
  <2> HIDE DEF below
  <2> QED
    BY <1>3, <2>1, FS_Subset
<1> HIDE DEF below
<1>8. /\ i \in 1..Cardinality(days) /\ j \in 1..Cardinality(days)
      /\ Listed(prefix)[i] = <<prefix, at(i)>> /\ Listed(prefix)[j] = <<prefix, at(j)>>
  BY <1>4, <1>5
<1>9. /\ at(i) \in days /\ at(j) \in days /\ at(i) \in Nat /\ at(j) \in Nat
      /\ Cardinality(below(at(i))) = i - 1 /\ Cardinality(below(at(j))) = j - 1
  BY <1>3, <1>6, <1>8
<1>10. ~(at(j) <= at(i))
  <2> SUFFICES ASSUME at(j) <= at(i) PROVE FALSE
    OBVIOUS
  <2>1. j - 1 <= i - 1
    BY <1>7, <1>9
  <2> QED
    BY <1>5, <1>8, <2>1
<1> QED
  BY <1>8, <1>9, <1>10

\* One record with every new key is read from a stream, or `want` later records.
Covers(s, known, want) ==
    \A i \in 1..Len(s) :
       (s[i].delivery # Corrupt /\ archive_entry_key(s[i]) \notin known) =>
          \/ \E x \in fresh(s, known, want) : SameKey(x, s[i])
          \/ \E D \in SUBSET fresh(s, known, want) :
                /\ Cardinality(D) >= want
                /\ \A y \in D : \E j \in (i + 1)..Len(s) : y = s[j]

\* A record of whose key none is taken from a stream was crowded out by later
\* ones.
LEMMA FreshOrCrowded ==
    ASSUME NEW S, NEW s \in Seq(S), NEW known, NEW want \in Nat
    PROVE  IsFiniteSet(fresh(s, known, want)) /\ Covers(s, known, want)
<1> DEFINE key(i) == archive_entry_key(s[i])
           new == {i \in 1..Len(s) : /\ s[i].delivery # Corrupt /\ key(i) \notin known
                                     /\ \A j \in (i + 1)..Len(s) : key(j) # key(i)}
           above(i) == {j \in new : j > i}
           taken == {i \in new : Cardinality(above(i)) < want}
<1>1. fresh(s, known, want) = {s[i] : i \in taken}
  BY DEF fresh
<1>2. Len(s) \in Nat /\ new \in SUBSET (1..Len(s)) /\ IsFiniteSet(1..Len(s))
  BY FS_Interval
<1>3. new \subseteq Nat /\ IsFiniteSet(new)
  BY <1>2, FS_Subset
<1>4. \A i, j \in new : key(i) = key(j) => i = j
  <2> SUFFICES ASSUME NEW i \in new, NEW j \in new, i < j PROVE key(i) # key(j)
    BY <1>3
  <2>1. j \in (i + 1)..Len(s)
    BY <1>2
  <2> QED
    BY <2>1
<1>5. \A i : above(i) \in SUBSET new /\ IsFiniteSet(above(i)) /\ Cardinality(above(i)) \in Nat
  <2> SUFFICES ASSUME NEW i PROVE above(i) \in SUBSET new /\ IsFiniteSet(above(i)) /\ Cardinality(above(i)) \in Nat
    OBVIOUS
  <2>1. above(i) \in SUBSET new
    OBVIOUS
  <2> HIDE DEF new, above
  <2> QED
    BY <1>3, <2>1, FS_Subset, FS_CardinalityType
<1>6. ASSUME NEW i \in 1..Len(s), s[i].delivery # Corrupt, key(i) \notin known
      PROVE  \E m \in new : m >= i /\ key(m) = key(i)
  <2> DEFINE same == {j \in 1..Len(s) : key(j) = key(i)}
  <2>1. same \in SUBSET (1..Len(s)) /\ i \in same
    OBVIOUS
  <2>2. same \subseteq Nat /\ IsFiniteSet(same) /\ same # {}
    BY <1>2, <2>1, FS_Subset
  <2>3. \A j \in same : j \in 1..Len(s) /\ key(j) = key(i)
    OBVIOUS
  <2>4. \A j \in 1..Len(s) : key(j) = key(i) => j \in same
    OBVIOUS
  <2> HIDE DEF same
  <2>5. PICK m \in same : \A y \in same : m >= y
    BY <2>2, LeastAndGreatest
  <2>6. m >= i /\ m \in 1..Len(s) /\ key(m) = key(i)
    BY <2>1, <2>3, <2>5
  <2>7. s[m].delivery = s[i].delivery
    BY <2>6 DEF archive_entry_key
  <2>8. \A j \in (m + 1)..Len(s) : key(j) # key(m)
    <3> SUFFICES ASSUME NEW j \in (m + 1)..Len(s), key(j) = key(m) PROVE FALSE
      OBVIOUS
    <3>1. j \in 1..Len(s) /\ j > m /\ m \in Nat /\ j \in Nat
      BY <1>2, <2>6
    <3>2. m >= j
      BY <2>4, <2>5, <2>6, <3>1
    <3> QED
      BY <3>1, <3>2
  <2> QED
    BY <1>6, <2>6, <2>7, <2>8
<1>7. \A i \in taken : i \in new /\ Cardinality(above(i)) < want
  OBVIOUS
<1>8. \A i \in new : Cardinality(above(i)) < want => i \in taken
  OBVIOUS
<1>9. \A i, j : j \in above(i) <=> j \in new /\ j > i
  OBVIOUS
<1> HIDE DEF key, new, above, taken
<1>10. IsFiniteSet(fresh(s, known, want))
  <2> DEFINE f == [i \in taken |-> s[i]]
  <2>1. IsFiniteSet(taken)
    BY <1>3, <1>7, FS_Subset
  <2>2. f \in Surjection(taken, {s[i] : i \in taken})
    BY DEF Surjection
  <2> QED
    BY <1>1, <2>1, <2>2, FS_Surjection
<1>11. ASSUME NEW i \in new
       PROVE  \/ s[i] \in fresh(s, known, want)
              \/ \E D \in SUBSET fresh(s, known, want) :
                    /\ Cardinality(D) >= want
                    /\ \A y \in D : \E j \in (i + 1)..Len(s) : y = s[j]
  <2>1. CASE Cardinality(above(i)) < want
    BY <1>1, <1>8, <2>1
  <2>2. CASE Cardinality(above(i)) >= want
    <3> DEFINE T == {t \in taken : t > i}
               D == {s[t] : t \in T}
               f == [t \in T |-> s[t]]
    <3>1. T \in SUBSET above(i) /\ IsFiniteSet(T) /\ Cardinality(T) \in Nat
      <4>1. T \in SUBSET above(i)
        BY <1>7, <1>9
      <4> HIDE DEF T
      <4> QED
        BY <1>5, <4>1, FS_Subset, FS_CardinalityType
    <3>2. Cardinality(T) >= want
      <4> SUFFICES ASSUME Cardinality(T) < want PROVE FALSE
        BY <3>1
      <4> DEFINE left == above(i) \ T
      <4>1. left # {}
        <5> SUFFICES ASSUME left = {} PROVE FALSE
          OBVIOUS
        <5> HIDE DEF T
        <5>1. T = above(i)
          BY <3>1
        <5> QED
          BY <1>5, <2>2, <5>1
      <4>2. left \subseteq Nat /\ IsFiniteSet(left)
        <5>1. left \in SUBSET above(i)
          OBVIOUS
        <5> QED
          BY <1>3, <1>5, <5>1, FS_Subset
      <4>3. PICK m \in left : \A y \in left : m >= y
        <5> HIDE DEF left
        <5> QED
          BY <4>1, <4>2, LeastAndGreatest
      <4>4. above(m) \in SUBSET T
        <5> SUFFICES ASSUME NEW j \in above(m) PROVE j \in T
          OBVIOUS
        <5>1. j \in new /\ j > m /\ m \in new /\ m > i /\ i \in Nat /\ m \in Nat /\ j \in Nat
          BY <1>3, <1>9, <4>3
        <5>2. j \in above(i)
          BY <1>9, <5>1
        <5>3. ~(m >= j)
          BY <5>1
        <5> QED
          BY <4>3, <5>2, <5>3
      <4>5. Cardinality(above(m)) < want
        <5>1. Cardinality(above(m)) <= Cardinality(T)
          BY <3>1, <4>4, FS_Subset
        <5> QED
          BY <1>5, <3>1, <5>1
      <4>6. m \in new /\ m > i
        BY <1>9, <4>3
      <4> QED
        BY <1>8, <4>3, <4>5, <4>6
    <3>3. D \in SUBSET fresh(s, known, want)
      BY <1>1
    <3>4. f \in Bijection(T, D)
      <4>1. \A t, u \in T : s[t] = s[u] => t = u
        BY <1>4, <1>7 DEF key
      <4>2. f \in Surjection(T, D)
        BY DEF Surjection
      <4>3. f \in Injection(T, D)
        <5>1. f \in [T -> D] /\ \A t, u \in T : f[t] = f[u] => t = u
          BY <4>1
        <5> HIDE DEF f, T, D
        <5> QED
          BY <5>1 DEF Injection, IsInjective
      <4> QED
        BY <4>2, <4>3 DEF Bijection
    <3>5. Cardinality(D) = Cardinality(T)
      <4> HIDE DEF f, T, D
      <4> QED
        BY <3>1, <3>4, FS_Bijection DEF ExistsBijection
    <3>6. \A y \in D : \E j \in (i + 1)..Len(s) : y = s[j]
      <4> SUFFICES ASSUME NEW t \in T PROVE t \in (i + 1)..Len(s)
        OBVIOUS
      <4>1. t \in new /\ t > i /\ i \in new
        BY <1>7
      <4>2. t \in 1..Len(s) /\ i \in 1..Len(s)
        BY <1>2, <4>1
      <4> QED
        BY <1>2, <4>1, <4>2
    <3> HIDE DEF D
    <3>7. Cardinality(D) >= want
      BY <3>2, <3>5
    <3> QED
      BY <3>3, <3>6, <3>7
  <2> QED
    BY <1>5, <2>1, <2>2
<1>12. ASSUME NEW i \in 1..Len(s), s[i].delivery # Corrupt, archive_entry_key(s[i]) \notin known
       PROVE  \/ \E x \in fresh(s, known, want) : SameKey(x, s[i])
              \/ \E D \in SUBSET fresh(s, known, want) :
                    /\ Cardinality(D) >= want
                    /\ \A y \in D : \E j \in (i + 1)..Len(s) : y = s[j]
  <2>1. PICK m \in new : m >= i /\ key(m) = key(i)
    BY <1>6, <1>12 DEF key
  <2>2. SameKey(s[m], s[i])
    BY <2>1 DEF SameKey, key
  <2>3. \A j \in (m + 1)..Len(s) : j \in (i + 1)..Len(s)
    BY <1>2, <1>3, <2>1
  <2>4. \/ s[m] \in fresh(s, known, want)
        \/ \E D \in SUBSET fresh(s, known, want) :
              /\ Cardinality(D) >= want
              /\ \A y \in D : \E j \in (m + 1)..Len(s) : y = s[j]
    BY <1>11
  <2> QED
    BY <2>2, <2>3, <2>4
<1>13. Covers(s, known, want)
  BY <1>12 DEF Covers
<1> QED
  BY <1>10, <1>13

\* What is cut off a page is no newer than what is on it, and a page is full
\* when there are enough to fill it.
LEMMA TopPage ==
    ASSUME NEW all \in SUBSET Entry, IsFiniteSet(all), NEW want \in Nat, NEW top \in Newest(all, want)
    PROVE  /\ \A e \in all \ top : Cardinality(top) = want /\ \A x \in top : x.at >= e.at
           /\ \A D \in SUBSET all : Cardinality(D) >= want =>
                 Cardinality(top) = want /\ \A x \in top : \E y \in D : x.at >= y.at
<1>1. /\ top \in SUBSET all
      /\ Cardinality(top) = IF Cardinality(all) < want THEN Cardinality(all) ELSE want
      /\ \A x \in top, y \in all \ top : x.at >= y.at
  BY DEF Newest
<1>2. /\ IsFiniteSet(top) /\ Cardinality(top) \in Nat /\ Cardinality(all) \in Nat
      /\ Cardinality(all) = Cardinality(top) => all = top
  BY <1>1, FS_Subset, FS_CardinalityType
<1>3. ASSUME NEW D \in SUBSET all, Cardinality(D) >= want
      PROVE  Cardinality(top) = want /\ \A x \in top : \E y \in D : x.at >= y.at
  <2>1. IsFiniteSet(D) /\ Cardinality(D) \in Nat /\ Cardinality(D) <= Cardinality(all)
    BY FS_Subset, FS_CardinalityType
  <2>2. Cardinality(top) = want
    BY <1>1, <1>2, <1>3, <2>1
  <2>3. CASE D \subseteq top
    <3>1. D = top
      <4>1. Cardinality(D) <= Cardinality(top) /\ (Cardinality(top) = Cardinality(D) => top = D)
        BY <1>2, <2>3, FS_Subset
      <4> QED
        BY <1>2, <1>3, <2>1, <2>2, <4>1
    <3>2. \A x \in top : x.at >= x.at
      BY <1>1 DEF Entry
    <3> QED
      BY <2>2, <3>1, <3>2
  <2>4. CASE ~(D \subseteq top)
    BY <1>1, <2>2, <2>4
  <2> QED
    BY <2>3, <2>4
<1> QED
  BY <1>1, <1>2, <1>3

\* An entry on a page that a full page of others could have taken: one of those
\* is off the page, and no newer.
LEMMA PushedOff ==
    ASSUME NEW all \in SUBSET Entry, IsFiniteSet(all), NEW want \in Nat, NEW top \in Newest(all, want),
           NEW x \in top, NEW D \in SUBSET all, Cardinality(D) >= want, x \notin D
    PROVE  \E y \in D \ top : y.at <= x.at
<1>1. /\ top \in SUBSET all
      /\ Cardinality(top) = IF Cardinality(all) < want THEN Cardinality(all) ELSE want
      /\ \A u \in top, v \in all \ top : u.at >= v.at
  BY DEF Newest
<1>2. /\ IsFiniteSet(top) /\ Cardinality(top) \in Nat /\ Cardinality(all) \in Nat
      /\ IsFiniteSet(D) /\ Cardinality(D) \in Nat
  BY <1>1, FS_Subset, FS_CardinalityType
<1>3. Cardinality(top) <= want
  BY <1>1, <1>2
<1>4. ~(D \subseteq top)
  <2> SUFFICES ASSUME D \subseteq top PROVE FALSE
    OBVIOUS
  <2>1. Cardinality(D) <= Cardinality(top) /\ (Cardinality(top) = Cardinality(D) => top = D)
    BY <1>2, FS_Subset
  <2> QED
    BY <1>2, <1>3, <2>1
<1>5. PICK y \in D : y \notin top
  BY <1>4
<1>6. x \in Entry /\ y \in Entry /\ x.at >= y.at
  BY <1>1, <1>5
<1> QED
  BY <1>5, <1>6 DEF Entry

\* What is archived is at a place of a stream.
LEMMA ArchivedAt ==
    ASSUME TypeOK, NEW e
    PROVE  e \in Archived <=> \E s \in Names : \E i \in 1..Len(streams[s]) : streams[s][i] = e
<1>1. \A s \in Names : streams[s] \in Seq(Entry)
  BY DEF TypeOK
<1>2. \A s \in Names : DOMAIN streams[s] = 1..Len(streams[s])
  BY <1>1
<1> QED
  BY <1>2 DEF Archived, Range

\* Who appends, and that nothing else writes to the streams.
LEMMA WhoAppends ==
    ASSUME TypeOK, [Next]_vars
    PROVE  streams' = streams \/ \E q, e : Appends(q, e)
<1>1. ASSUME NEW r \in Recorders, append(r) PROVE \E q, e : Appends(q, e)
  BY <1>1, RecorderAppends
<1>2. ASSUME append_foreign PROVE \E q, e : Appends(q, e)
  BY <1>2, ForeignAppends
<1>3. ASSUME ~append_foreign, ~\E r \in Recorders : append(r) PROVE streams' = streams
  <2>1. CASE \/ Tick \/ UNCHANGED vars
             \/ \E r \in Recorders : current_day_file(r) \/ append_fails(r)
    BY <2>1 DEF Tick, current_day_file, append_fails, vars
  <2>s. ASSUME NEW r \in Recorders, NEW d \in Deliveries, stamp(r, d) PROVE streams' = streams
    BY <2>s DEF stamp
  <2>2. CASE \/ \E l \in 1..MaxLimit : list_recent(l)
             \/ info \/ seal \/ names \/ names_empty \/ read \/ list_fails
    BY <2>2 DEF list_recent, info, seal, names, names_empty, read, list_fails
  <2> QED
    BY <1>3, <2>1, <2>s, <2>2 DEF Next
<1> QED
  BY <1>1, <1>2, <1>3

\* What an append does to the streams.
LEMMA AppendsTo ==
    ASSUME TypeOK, NEW q, NEW e, Appends(q, e)
    PROVE  /\ Len(streams'[q]) = Len(streams[q]) + 1 /\ Len(streams[q]) \in Nat
           /\ \A i \in 1..Len(streams[q]) : streams'[q][i] = streams[q][i]
           /\ streams'[q][Len(streams[q]) + 1] = e
           /\ last'[q] = now /\ q \in Names
           /\ \A s \in Names \ {q} : streams'[s] = streams[s] /\ last'[s] = last[s]
<1>1. /\ streams \in [Names -> Seq(Entry)] /\ last \in [Names -> -1..MaxTime] /\ q \in Names
      /\ streams' = [streams EXCEPT ![q] = Append(@, e)] /\ last' = [last EXCEPT ![q] = now]
  BY DEF TypeOK, Appends
<1>2. streams'[q] = Append(streams[q], e) /\ streams[q] \in Seq(Entry)
  BY <1>1
<1>3. /\ Len(streams'[q]) = Len(streams[q]) + 1 /\ Len(streams[q]) \in Nat
      /\ \A i \in 1..Len(streams[q]) : streams'[q][i] = streams[q][i]
      /\ streams'[q][Len(streams[q]) + 1] = e
  BY <1>2, AppendProperties
<1> QED
  BY <1>1, <1>3

\* Streams only grow, at their ends.
LEMMA StreamsGrow ==
    ASSUME TypeOK, [Next]_vars, NEW s \in Names
    PROVE  /\ Len(streams[s]) \in Nat /\ Len(streams[s]') \in Nat /\ Len(streams[s]) <= Len(streams[s]')
           /\ \A i \in 1..Len(streams[s]) : streams[s]'[i] = streams[s][i]
<1>1. streams \in [Names -> Seq(Entry)] /\ Len(streams[s]) \in Nat
  BY DEF TypeOK
<1>2. CASE streams' = streams
  BY <1>1, <1>2
<1>3. ASSUME NEW q, NEW e, Appends(q, e)
      PROVE  /\ Len(streams[s]') \in Nat /\ Len(streams[s]) <= Len(streams[s]')
             /\ \A i \in 1..Len(streams[s]) : streams[s]'[i] = streams[s][i]
  BY <1>1, <1>3, AppendsTo
<1> QED
  BY <1>1, <1>2, <1>3, WhoAppends

\* So what is archived stays, and who had another copy of it still has.
LEMMA ArchiveGrows ==
    ASSUME TypeOK, TypeOK', [Next]_vars
    PROVE  Archived \subseteq Archived' /\ \A e : Single(e)' => Single(e)
<1>1. ASSUME NEW e \in Archived PROVE e \in Archived'
  <2>a. PICK s \in Names : \E i \in 1..Len(streams[s]) : streams[s][i] = e
    BY ArchivedAt
  <2>1. PICK i \in 1..Len(streams[s]) : streams[s][i] = e
    BY <2>a
  <2>2. i \in 1..Len(streams[s]') /\ streams[s]'[i] = e
    BY <2>1, StreamsGrow
  <2>3. \E q \in Names : \E j \in 1..Len(streams'[q]) : streams'[q][j] = e
    BY <2>2
  <2>4. e \in Archived' <=> \E q \in Names : \E j \in 1..Len(streams'[q]) : streams'[q][j] = e
    <3>1. \A q \in Names : streams'[q] \in Seq(Entry)
      BY DEF TypeOK
    <3>2. \A q \in Names : DOMAIN streams'[q] = 1..Len(streams'[q])
      BY <3>1
    <3> QED
      BY <3>2 DEF Archived, Range
  <2> QED
    BY <2>3, <2>4
<1> QED
  BY <1>1 DEF Single, SameKey, archive_entry_key

\* What is archived, in the order in which it was appended.
\*  - A stream's entries carry its prefix, and each began to be recorded before
\*    it was appended.
\*  - Along a stream, entries follow each other in the order they were appended.
\*  - What was acknowledged is a delivery, in a current stream that is there.
AckInv ==
    /\ \A r \in Recorders : rpc[r] # "idle" => /\ entry[r].delivery # Corrupt /\ entry[r].after <= appended
                                                /\ entry[r].prefix = "current"
    /\ \A s \in Names : \A i \in 1..Len(streams[s]) :
          LET e == streams[s][i]
          IN  e.n <= appended /\ e.prefix = s[1] /\ (e.n > 0 => e.after < e.n)
    /\ \A s \in Names : \A i, j \in 1..Len(streams[s]) :
          i < j /\ streams[s][i].n > 0 => streams[s][j].n > streams[s][i].n
    /\ \A e \in acked : /\ e.n > 0 /\ e.n <= appended /\ e.after < e.n /\ e.delivery # Corrupt
                         /\ e.prefix = "current"
                         /\ \E s \in Names : last[s] >= 0 /\ \E i \in 1..Len(streams[s]) : streams[s][i] = e
    /\ before \subseteq acked

\* An append comes behind everything there is.
LEMMA AppendKeepsOrder ==
    ASSUME TypeOK, AckInv, NEW q, NEW e, Appends(q, e), e.prefix = "current", e.after <= appended
    PROVE  /\ \A s \in Names : \A i \in 1..Len(streams'[s]) :
                 LET x == streams'[s][i]
                 IN  x.n <= appended' /\ x.prefix = s[1] /\ (x.n > 0 => x.after < x.n)
           /\ \A s \in Names : \A i, j \in 1..Len(streams'[s]) :
                 i < j /\ streams'[s][i].n > 0 => streams'[s][j].n > streams'[s][i].n
           /\ \A x \in acked :
                 \E s \in Names : last'[s] >= 0 /\ \E i \in 1..Len(streams'[s]) : streams'[s][i] = x
           /\ \E s \in Names : last'[s] >= 0 /\ \E i \in 1..Len(streams'[s]) : streams'[s][i] = e
<1>0. /\ q \in Names /\ q[1] = "current" /\ e \in Entry /\ e.n = appended + 1 /\ appended \in Nat
      /\ appended' = appended + 1 /\ now \in Nat
  BY DEF Appends, TypeOK
<1>1. /\ Len(streams'[q]) = Len(streams[q]) + 1 /\ Len(streams[q]) \in Nat
      /\ \A i \in 1..Len(streams[q]) : streams'[q][i] = streams[q][i]
      /\ streams'[q][Len(streams[q]) + 1] = e /\ last'[q] = now
      /\ \A s \in Names \ {q} : streams'[s] = streams[s] /\ last'[s] = last[s]
  BY AppendsTo
<1>2. \A s \in Names : \A i \in 1..Len(streams[s]) :
         /\ streams[s][i].n \in Nat /\ streams[s][i].n <= appended /\ streams[s][i].prefix = s[1]
         /\ streams[s][i].n > 0 => streams[s][i].after < streams[s][i].n
  <2>1. \A s \in Names : \A i \in 1..Len(streams[s]) : streams[s][i] \in Entry
    BY DEF TypeOK
  <2> QED
    BY <2>1 DEF Entry, AckInv
<1>3. ASSUME NEW s \in Names, NEW i \in 1..Len(streams'[s])
      PROVE  LET x == streams'[s][i]
             IN  x.n <= appended' /\ x.prefix = s[1] /\ (x.n > 0 => x.after < x.n)
  <2>1. e.n <= appended' /\ e.after < e.n
    <3>1. e.after \in Nat
      BY <1>0 DEF Entry
    <3> QED
      BY <1>0, <3>1
  <2>2. CASE s = q /\ i = Len(streams[q]) + 1
    BY <1>0, <1>1, <2>1, <2>2
  <2>3. CASE ~(s = q /\ i = Len(streams[q]) + 1)
    <3>1. i \in 1..Len(streams[s]) /\ streams'[s][i] = streams[s][i]
      BY <1>1, <2>3
    <3> QED
      BY <1>0, <1>2, <3>1
  <2> QED
    BY <2>2, <2>3
<1>4. ASSUME NEW i \in 1..Len(streams'[q]), NEW j \in 1..Len(streams'[q]), i < j, streams'[q][i].n > 0
      PROVE  streams'[q][j].n > streams'[q][i].n
  <2>1. i \in 1..Len(streams[q]) /\ streams'[q][i] = streams[q][i]
    BY <1>1, <1>4
  <2>2. CASE j \in 1..Len(streams[q])
    <3>1. streams[q][i].n > 0 /\ streams'[q][j] = streams[q][j]
      BY <1>1, <1>4, <2>1, <2>2
    <3>2. streams[q][j].n > streams[q][i].n
      BY <1>0, <1>4, <2>1, <2>2, <3>1 DEF AckInv
    <3> QED
      BY <2>1, <3>1, <3>2
  <2>3. CASE j = Len(streams[q]) + 1
    <3>1. streams[q][i].n \in Nat /\ streams[q][i].n <= appended
      BY <1>0, <1>2, <2>1
    <3>2. streams'[q][j].n = appended + 1
      BY <1>0, <1>1, <2>3
    <3> QED
      BY <1>0, <2>1, <3>1, <3>2
  <2> QED
    BY <1>1, <2>2, <2>3
<1>5. ASSUME NEW s \in Names \ {q}
      PROVE  \A i, j \in 1..Len(streams'[s]) :
               i < j /\ streams'[s][i].n > 0 => streams'[s][j].n > streams'[s][i].n
  BY <1>1 DEF AckInv
<1>6. ASSUME NEW x \in acked
      PROVE  \E s \in Names : last'[s] >= 0 /\ \E i \in 1..Len(streams'[s]) : streams'[s][i] = x
  <2>1. PICK s \in Names : last[s] >= 0 /\ \E i \in 1..Len(streams[s]) : streams[s][i] = x
    BY DEF AckInv
  <2>2. PICK i \in 1..Len(streams[s]) : streams[s][i] = x
    BY <2>1
  <2>3. last'[s] >= 0 /\ i \in 1..Len(streams'[s]) /\ streams'[s][i] = x
    <3>1. CASE s = q
      BY <1>0, <1>1, <2>2, <3>1
    <3>2. CASE s # q
      BY <1>1, <2>1, <2>2, <3>2
    <3> QED
      BY <3>1, <3>2
  <2> QED
    BY <2>3
<1>7. last'[q] >= 0 /\ Len(streams[q]) + 1 \in 1..Len(streams'[q])
  BY <1>0, <1>1
<1> QED
  BY <1>0, <1>1, <1>3, <1>4, <1>5, <1>6, <1>7

\* The record appends behind everything there is, and acknowledges just that.
LEMMA Acknowledged == Spec => []AckInv
<1> USE ArchiveAssumption
<1>1. Init => AckInv
  <2> SUFFICES ASSUME Init PROVE AckInv
    OBVIOUS
  <2>1. appended = 0 /\ acked = {} /\ before = {} /\ \A r \in Recorders : rpc[r] = "idle"
    BY DEF Init
  <2>2. \A s \in Names : \A i \in 1..Len(streams[s]) : streams[s][i].n = 0 /\ streams[s][i].prefix = s[1]
    BY InitStream
  <2> QED
    BY <2>1, <2>2 DEF AckInv
<1>2. TypeOK /\ AckInv /\ [Next]_vars => AckInv'
  <2> SUFFICES ASSUME TypeOK, AckInv, [Next]_vars PROVE AckInv'
    OBVIOUS
  <2>0. /\ appended \in Nat /\ rpc \in [Recorders -> {"idle", "name", "append"}] /\ DOMAIN entry = Recorders
        /\ \A r \in Recorders : rpc[r] # "idle" => entry[r] \in Entry
    BY DEF TypeOK
  <2>1. ASSUME NEW r \in Recorders, append(r) PROVE AckInv'
    <3> DEFINE e == Appended(r)
    <3>1. /\ Appends(name[r], e) /\ acked' = acked \cup {e} /\ before' = before
          /\ rpc' = [rpc EXCEPT ![r] = "idle"] /\ entry' = [entry EXCEPT ![r] = <<>>]
          /\ rpc[r] = "append" /\ appended' = appended + 1
      BY <2>1, RecorderAppends DEF append, Appended, Return, listing
    <3>2. /\ e.n = appended + 1 /\ e.delivery # Corrupt /\ e.prefix = "current"
          /\ e.after \in Nat /\ e.after <= appended
      <4>1. /\ entry[r] \in Entry /\ entry[r].delivery # Corrupt /\ entry[r].prefix = "current"
            /\ entry[r].after <= appended
        BY <2>0, <3>1 DEF AckInv
      <4> QED
        BY <4>1 DEF Appended, Entry
    <3> HIDE DEF e
    <3>3. /\ \A s \in Names : \A i \in 1..Len(streams'[s]) :
                LET x == streams'[s][i]
                IN  x.n <= appended' /\ x.prefix = s[1] /\ (x.n > 0 => x.after < x.n)
          /\ \A s \in Names : \A i, j \in 1..Len(streams'[s]) :
                i < j /\ streams'[s][i].n > 0 => streams'[s][j].n > streams'[s][i].n
          /\ \A x \in acked' :
                \E s \in Names : last'[s] >= 0 /\ \E i \in 1..Len(streams'[s]) : streams'[s][i] = x
      BY <3>1, <3>2, AppendKeepsOrder
    <3>4. \A x \in acked' : /\ x.n > 0 /\ x.n <= appended' /\ x.after < x.n /\ x.delivery # Corrupt
                            /\ x.prefix = "current"
      <4>1. e.n > 0 /\ e.n <= appended' /\ e.after < e.n
        BY <2>0, <3>1, <3>2
      <4>2. ASSUME NEW x \in acked PROVE x.n <= appended'
        <5>1. x.n \in Nat /\ x.n <= appended
          BY DEF AckInv, TypeOK, Entry
        <5> QED
          BY <2>0, <3>1, <5>1
      <4> QED
        BY <3>1, <3>2, <4>1, <4>2 DEF AckInv
    <3>5. ASSUME NEW p \in Recorders, rpc'[p] # "idle"
          PROVE  /\ entry'[p].delivery # Corrupt /\ entry'[p].after <= appended'
                 /\ entry'[p].prefix = "current"
      <4>1. rpc[p] # "idle" /\ entry'[p] = entry[p] /\ entry[p] \in Entry
        BY <2>0, <3>1, <3>5
      <4>2. entry[p].after \in Nat /\ entry[p].after <= appended
        BY <4>1 DEF Entry, AckInv
      <4> QED
        BY <2>0, <3>1, <4>1, <4>2 DEF AckInv
    <3> QED
      BY <3>1, <3>3, <3>4, <3>5 DEF AckInv
  <2>f. ASSUME append_foreign PROVE AckInv'
    <3>1. /\ Appends(Today, Foreign) /\ appended' = appended + 1
          /\ UNCHANGED <<acked, before, rpc, entry>>
      BY <2>f, ForeignAppends DEF append_foreign, listing
    <3>2. Foreign.prefix = "current" /\ Foreign.after <= appended
      BY <2>0 DEF Foreign, Old
    <3>3. /\ \A s \in Names : \A i \in 1..Len(streams'[s]) :
                LET x == streams'[s][i]
                IN  x.n <= appended' /\ x.prefix = s[1] /\ (x.n > 0 => x.after < x.n)
          /\ \A s \in Names : \A i, j \in 1..Len(streams'[s]) :
                i < j /\ streams'[s][i].n > 0 => streams'[s][j].n > streams'[s][i].n
          /\ \A x \in acked :
                \E s \in Names : last'[s] >= 0 /\ \E i \in 1..Len(streams'[s]) : streams'[s][i] = x
      BY <3>1, <3>2, AppendKeepsOrder
    <3>4. ASSUME NEW x \in acked PROVE x.n <= appended'
      <4>1. x.n \in Nat /\ x.n <= appended
        BY DEF AckInv, TypeOK, Entry
      <4> QED
        BY <2>0, <3>1, <4>1
    <3>5. ASSUME NEW p \in Recorders, rpc[p] # "idle" PROVE entry[p].after <= appended'
      <4>1. entry[p].after \in Nat /\ entry[p].after <= appended
        BY <2>0, <3>5 DEF Entry, AckInv
      <4> QED
        BY <2>0, <3>1, <4>1
    <3> QED
      BY <3>1, <3>3, <3>4, <3>5 DEF AckInv
  <2>2. ASSUME NEW r \in Recorders, NEW d \in Deliveries, stamp(r, d) PROVE AckInv'
    <3>1. /\ UNCHANGED <<streams, appended, acked, before, last>>
          /\ rpc' = [rpc EXCEPT ![r] = "name"]
          /\ entry' = [entry EXCEPT ![r] = [Old(d, "current") EXCEPT !.at = now, !.after = appended]]
      BY <2>2 DEF stamp, clock, listing
    <3> DEFINE e == [Old(d, "current") EXCEPT !.at = now, !.after = appended]
    <3>2. e.delivery # Corrupt /\ e.after <= appended /\ e.prefix = "current"
      BY <2>0 DEF Old
    <3> HIDE DEF e
    <3>3. \A p \in Recorders : rpc'[p] # "idle" => \/ entry'[p] = e
                                                   \/ rpc[p] # "idle" /\ entry'[p] = entry[p]
      BY <2>0, <3>1 DEF e
    <3>4. \A p \in Recorders : rpc'[p] # "idle" => /\ entry'[p].delivery # Corrupt /\ entry'[p].after <= appended
                                                   /\ entry'[p].prefix = "current"
      BY <3>2, <3>3 DEF AckInv
    <3>5. UNCHANGED <<streams, appended, acked, before, last>>
      BY <3>1
    <3> QED
      BY <3>4, <3>5 DEF AckInv
  <2>3. ASSUME NEW r \in Recorders, current_day_file(r) PROVE AckInv'
    <3>1. /\ UNCHANGED <<streams, appended, acked, before, last, entry>>
          /\ rpc' = [rpc EXCEPT ![r] = "append"] /\ rpc[r] = "name"
      BY <2>3 DEF current_day_file, clock, listing
    <3>2. \A p \in Recorders : rpc'[p] # "idle" => rpc[p] # "idle"
      BY <2>0, <3>1
    <3> QED
      BY <3>1, <3>2 DEF AckInv
  <2>4. ASSUME NEW r \in Recorders, append_fails(r) PROVE AckInv'
    <3>1. /\ UNCHANGED <<streams, appended, acked, before, last>>
          /\ rpc' = [rpc EXCEPT ![r] = "idle"] /\ entry' = [entry EXCEPT ![r] = <<>>]
      BY <2>4 DEF append_fails, Return, clock, listing
    <3>2. \A p \in Recorders : rpc'[p] # "idle" => rpc[p] # "idle" /\ entry'[p] = entry[p]
      BY <2>0, <3>1
    <3> QED
      BY <3>1, <3>2 DEF AckInv
  <2>5. CASE (\E l \in 1..MaxLimit : list_recent(l)) \/ list_fails
    <3>1. UNCHANGED <<streams, appended, acked, last, entry, rpc>> /\ before' \subseteq acked
      BY <2>5 DEF list_recent, list_fails, clock, recording
    <3> QED
      BY <3>1 DEF AckInv
  <2>6. CASE Tick \/ info \/ seal \/ names \/ names_empty \/ read \/ UNCHANGED vars
    <3>1. UNCHANGED <<streams, appended, acked, before, last, entry, rpc>>
      BY <2>6 DEF Tick, info, seal, names, names_empty, read, vars, clock, recording, listing
    <3> QED
      BY <3>1 DEF AckInv
  <2> QED
    BY <2>1, <2>f, <2>2, <2>3, <2>4, <2>5, <2>6 DEF Next
<1> QED
  BY <1>1, <1>2, TypeCorrect, PTL DEF Spec

\* What was there when that many records had been appended is in current streams
\* of that day at the latest.
NoLater(a, d) == \A s \in Names : \A i \in 1..Len(streams[s]) :
                    s[1] = "current" /\ streams[s][i].n <= a => s[2] <= d

\* No stream is of a day to come.  A recorder's stream, and that of a delivery it
\* recorded, is of no earlier day than what was there when its recording began.
DayInv ==
    /\ \A s \in Names : s[1] = "current" /\ Len(streams[s]) > 0 => s[2] <= Day(now)
    /\ \A r \in Recorders : rpc[r] = "append" => NoLater(entry[r].after, name[r][2])
    /\ \A t \in Names : \A j \in 1..Len(streams[t]) :
          t[1] = "current" /\ streams[t][j].n > 0 /\ streams[t][j].delivery # Corrupt =>
             NoLater(streams[t][j].after, t[2])

\* What is appended was not there before.
LEMMA AppendNoLater ==
    ASSUME TypeOK, NEW q, NEW e, Appends(q, e)
    PROVE  \A a, d : a \in Nat /\ a <= appended /\ NoLater(a, d) =>
              \A s \in Names : \A i \in 1..Len(streams'[s]) :
                 s[1] = "current" /\ streams'[s][i].n <= a => s[2] <= d
<1> SUFFICES ASSUME NEW a \in Nat, NEW d, a <= appended, NoLater(a, d),
                    NEW s \in Names, NEW i \in 1..Len(streams'[s]),
                    s[1] = "current", streams'[s][i].n <= a
             PROVE  s[2] <= d
  OBVIOUS
<1>1. /\ Len(streams'[q]) = Len(streams[q]) + 1 /\ Len(streams[q]) \in Nat
      /\ \A k \in 1..Len(streams[q]) : streams'[q][k] = streams[q][k]
      /\ streams'[q][Len(streams[q]) + 1] = e
      /\ \A x \in Names \ {q} : streams'[x] = streams[x]
  BY AppendsTo
<1>2. e.n = appended + 1 /\ appended \in Nat
  BY DEF Appends, TypeOK
<1>3. ~(s = q /\ i = Len(streams[q]) + 1)
  <2> SUFFICES ASSUME s = q, i = Len(streams[q]) + 1 PROVE FALSE
    OBVIOUS
  <2>1. streams'[s][i] = e
    BY <1>1
  <2>2. e.n <= a
    BY <2>1
  <2> QED
    BY <1>2, <2>2
<1>4. i \in 1..Len(streams[s]) /\ streams'[s][i] = streams[s][i]
  BY <1>1, <1>3
<1> QED
  BY <1>4 DEF NoLater

\* An append keeps the days in order.
LEMMA AppendKeepsDays ==
    ASSUME TypeOK, AckInv, DayInv, NEW q, NEW e, Appends(q, e), q[2] <= Day(now),
           e.delivery = Corrupt \/ (e.after \in Nat /\ e.after <= appended /\ NoLater(e.after, q[2]))
    PROVE  /\ \A s \in Names : s[1] = "current" /\ Len(streams'[s]) > 0 => s[2] <= Day(now)
           /\ \A t \in Names : \A j \in 1..Len(streams'[t]) :
                 t[1] = "current" /\ streams'[t][j].n > 0 /\ streams'[t][j].delivery # Corrupt =>
                    \A s \in Names : \A i \in 1..Len(streams'[s]) :
                       s[1] = "current" /\ streams'[s][i].n <= streams'[t][j].after => s[2] <= t[2]
<1>1. /\ Len(streams'[q]) = Len(streams[q]) + 1 /\ Len(streams[q]) \in Nat
      /\ \A k \in 1..Len(streams[q]) : streams'[q][k] = streams[q][k]
      /\ streams'[q][Len(streams[q]) + 1] = e
      /\ \A x \in Names \ {q} : streams'[x] = streams[x]
  BY AppendsTo
<1>2. ASSUME NEW t \in Names, NEW j \in 1..Len(streams'[t]),
             t[1] = "current", streams'[t][j].n > 0, streams'[t][j].delivery # Corrupt
      PROVE  \A s \in Names : \A i \in 1..Len(streams'[s]) :
                s[1] = "current" /\ streams'[s][i].n <= streams'[t][j].after => s[2] <= t[2]
  <2>1. CASE t = q /\ j = Len(streams[q]) + 1
    <3>1. streams'[t][j] = e
      BY <1>1, <2>1
    <3>2. e.after \in Nat /\ e.after <= appended /\ NoLater(e.after, q[2])
      BY <1>2, <3>1
    <3> QED
      BY <2>1, <3>1, <3>2, AppendNoLater
  <2>2. CASE ~(t = q /\ j = Len(streams[q]) + 1)
    <3>1. j \in 1..Len(streams[t]) /\ streams'[t][j] = streams[t][j]
      BY <1>1, <2>2
    <3>2. NoLater(streams[t][j].after, t[2])
      BY <1>2, <3>1 DEF DayInv
    <3>3. streams[t][j].after \in Nat /\ streams[t][j].after <= appended
      <4>1. streams[t][j] \in Entry
        BY <3>1 DEF TypeOK
      <4>2. streams[t][j].n <= appended /\ streams[t][j].after < streams[t][j].n
        BY <1>2, <3>1 DEF AckInv
      <4>3. appended \in Nat
        BY DEF TypeOK
      <4> QED
        BY <4>1, <4>2, <4>3 DEF Entry
    <3> QED
      BY <3>1, <3>2, <3>3, AppendNoLater
  <2> QED
    BY <2>1, <2>2
<1>3. \A s \in Names : s[1] = "current" /\ Len(streams'[s]) > 0 => s[2] <= Day(now)
  <2> SUFFICES ASSUME NEW s \in Names, s[1] = "current", Len(streams'[s]) > 0 PROVE s[2] <= Day(now)
    OBVIOUS
  <2>1. CASE s = q
    BY <2>1
  <2>2. CASE s # q
    BY <1>1, <2>2 DEF DayInv
  <2> QED
    BY <2>1, <2>2
<1> QED
  BY <1>2, <1>3

\* The days of the streams follow the order of the recordings.
LEMMA DaysKept == Spec => []DayInv
<1>1. Init => DayInv
  <2> SUFFICES ASSUME Init PROVE DayInv
    OBVIOUS
  <2>1. /\ \A r \in Recorders : rpc[r] = "idle"
        /\ \A s \in Names : \A i \in 1..Len(streams[s]) : streams[s][i].n = 0 /\ s[2] = 0
        /\ \A s \in Names : Len(streams[s]) \in Nat
    BY InitStream DEF Init
  <2>2. 0 <= Day(now)
    <3>1. now = 0 /\ Day(0) \in Nat
      BY DayBegan DEF Init
    <3> QED
      BY <3>1
  <2>3. ASSUME NEW s \in Names, Len(streams[s]) > 0 PROVE s[2] <= Day(now)
    <3>1. 1 \in 1..Len(streams[s])
      BY <2>1, <2>3
    <3> QED
      BY <2>1, <2>2, <3>1
  <2> QED
    BY <2>1, <2>3 DEF DayInv
<1>2. TypeOK /\ TypeOK' /\ SealInv /\ AckInv /\ DayInv /\ [Next]_vars => DayInv'
  <2> SUFFICES ASSUME TypeOK, TypeOK', SealInv, AckInv, DayInv, [Next]_vars PROVE DayInv'
    OBVIOUS
  <2>0. /\ rpc \in [Recorders -> {"idle", "name", "append"}] /\ DOMAIN entry = Recorders
        /\ name \in [Recorders -> {"current"} \X Days] /\ now \in 0..MaxTime
        /\ \A r \in Recorders : rpc[r] # "idle" => entry[r] \in Entry /\ entry[r].after \in Nat
    BY DEF TypeOK, Entry
  <2>d. Day(now)' = Day(now')
    BY DEF Day
  <2>1. ASSUME streams' = streams, now' \in Nat, Day(now) <= Day(now'),
               \A r \in Recorders : rpc'[r] = "append" =>
                  rpc[r] = "append" /\ entry'[r] = entry[r] /\ name'[r] = name[r]
        PROVE  DayInv'
    <3>1. \A s \in Names : s[1] = "current" /\ Len(streams'[s]) > 0 => s[2] <= Day(now')
      <4> SUFFICES ASSUME NEW s \in Names, s[1] = "current", Len(streams[s]) > 0 PROVE s[2] <= Day(now')
        BY <2>1
      <4>1. s[2] <= Day(now)
        BY DEF DayInv
      <4>2. s[2] \in Nat /\ Day(now) \in Nat /\ Day(now') \in Nat
        BY <2>0, <2>1, DayInDays, DayBegan DEF Names
      <4> QED
        BY <2>1, <4>1, <4>2
    <3>2. \A r \in Recorders : rpc'[r] = "append" => NoLater(entry'[r].after, name'[r][2])
      BY <2>1 DEF DayInv
    <3> QED
      BY <2>1, <2>d, <3>1, <3>2 DEF DayInv, NoLater
  <2>t. Day(now) <= Day(now)
    BY <2>0, DayInDays
  <2>2. ASSUME Tick PROVE DayInv'
    <3>1. now' = now + 1 /\ UNCHANGED <<streams, rpc, entry, name>> /\ now' \in Nat /\ now <= now'
      BY <2>0, <2>2 DEF Tick, recording
    <3>2. Day(now) <= Day(now')
      BY <2>0, <3>1, DayMonotone
    <3> QED
      BY <2>1, <3>1, <3>2
  <2>3. ASSUME NEW r \in Recorders, NEW d \in Deliveries, stamp(r, d) PROVE DayInv'
    <3>1. /\ UNCHANGED <<streams, now, name>> /\ rpc' = [rpc EXCEPT ![r] = "name"]
          /\ \A p \in Recorders \ {r} : entry'[p] = entry[p]
      BY <2>0, <2>3 DEF stamp, clock
    <3>2. \A p \in Recorders : rpc'[p] = "append" => rpc[p] = "append" /\ entry'[p] = entry[p]
      BY <2>0, <3>1
    <3> QED
      BY <2>0, <2>1, <2>t, <3>1, <3>2
  <2>4. ASSUME NEW r \in Recorders, current_day_file(r) PROVE DayInv'
    <3>1. /\ UNCHANGED <<streams, now, entry>> /\ rpc' = [rpc EXCEPT ![r] = "append"]
          /\ name' = [name EXCEPT ![r] = <<"current", Day(now)>>]
      BY <2>4 DEF current_day_file, clock
    <3>2. ASSUME NEW p \in Recorders, rpc'[p] = "append" PROVE NoLater(entry'[p].after, name'[p][2])
      <4>1. CASE p = r
        <5>1. name'[p][2] = Day(now)
          BY <2>0, <3>1, <4>1
        <5>2. ASSUME NEW s \in Names, NEW i \in 1..Len(streams[s]), s[1] = "current" PROVE s[2] <= Day(now)
          <6>1. Len(streams[s]) > 0
            <7>1. Len(streams[s]) \in Nat
              BY DEF TypeOK
            <7> QED
              BY <7>1
          <6> QED
            BY <5>2, <6>1 DEF DayInv
        <5> QED
          BY <5>1, <5>2 DEF NoLater
      <4>2. CASE p # r
        <5>1. rpc[p] = "append" /\ entry'[p] = entry[p] /\ name'[p] = name[p]
          BY <2>0, <3>1, <3>2, <4>2
        <5> QED
          BY <5>1 DEF DayInv
      <4> QED
        BY <4>1, <4>2
    <3> QED
      BY <2>d, <3>1, <3>2 DEF DayInv, NoLater
  <2>a. ASSUME NEW q, NEW e, Appends(q, e), q[2] <= Day(now),
               e.delivery = Corrupt \/ (e.after \in Nat /\ e.after <= appended /\ NoLater(e.after, q[2])),
               \A p \in Recorders : rpc'[p] = "append" =>
                  rpc[p] = "append" /\ entry'[p] = entry[p] /\ name'[p] = name[p]
        PROVE  DayInv'
    <3>1. now' = now
      BY <2>a DEF Appends
    <3>2. /\ \A s \in Names : s[1] = "current" /\ Len(streams'[s]) > 0 => s[2] <= Day(now)
          /\ \A t \in Names : \A j \in 1..Len(streams'[t]) :
                t[1] = "current" /\ streams'[t][j].n > 0 /\ streams'[t][j].delivery # Corrupt =>
                   \A s \in Names : \A i \in 1..Len(streams'[s]) :
                      s[1] = "current" /\ streams'[s][i].n <= streams'[t][j].after => s[2] <= t[2]
      BY <2>a, AppendKeepsDays
    <3>3. ASSUME NEW p \in Recorders, rpc'[p] = "append"
          PROVE  \A s \in Names : \A i \in 1..Len(streams'[s]) :
                    s[1] = "current" /\ streams'[s][i].n <= entry'[p].after => s[2] <= name'[p][2]
      <4>1. rpc[p] = "append" /\ entry'[p] = entry[p] /\ name'[p] = name[p]
        BY <2>a, <3>3
      <4>2. entry[p].after \in Nat /\ entry[p].after <= appended /\ NoLater(entry[p].after, name[p][2])
        BY <2>0, <4>1 DEF DayInv, AckInv
      <4> QED
        BY <2>a, <4>1, <4>2, AppendNoLater
    <3> QED
      BY <2>d, <3>1, <3>2, <3>3 DEF DayInv, NoLater
  <2>5. ASSUME NEW r \in Recorders, append(r) PROVE DayInv'
    <3>1. /\ Appends(name[r], Appended(r)) /\ Return(r) /\ rpc[r] = "append"
      BY <2>5, RecorderAppends DEF append
    <3>2. \A p \in Recorders : rpc'[p] = "append" =>
             rpc[p] = "append" /\ entry'[p] = entry[p] /\ name'[p] = name[p]
      BY <2>0, <3>1 DEF Return
    <3>3. name[r][2] <= Day(now)
      BY DEF SealInv
    <3>4. Appended(r).after = entry[r].after
      BY <2>0, <3>1 DEF Appended, Entry
    <3>5. entry[r].after \in Nat /\ entry[r].after <= appended /\ NoLater(entry[r].after, name[r][2])
      BY <2>0, <3>1 DEF DayInv, AckInv
    <3> QED
      BY <2>a, <3>1, <3>2, <3>3, <3>4, <3>5
  <2>6. ASSUME append_foreign PROVE DayInv'
    <3>1. /\ Appends(Today, Foreign) /\ Foreign.delivery = Corrupt /\ UNCHANGED <<rpc, entry, name>>
      BY <2>6, ForeignAppends DEF append_foreign
    <3>2. Today[2] <= Day(now)
      BY <2>t DEF Today
    <3> QED
      BY <2>a, <3>1, <3>2
  <2>7. ASSUME NEW r \in Recorders, append_fails(r) PROVE DayInv'
    <3>1. UNCHANGED <<streams, now>> /\ Return(r) /\ rpc[r] = "append"
      BY <2>7 DEF append_fails, clock
    <3>2. \A p \in Recorders : rpc'[p] = "append" =>
             rpc[p] = "append" /\ entry'[p] = entry[p] /\ name'[p] = name[p]
      BY <2>0, <3>1 DEF Return
    <3> QED
      BY <2>0, <2>1, <2>t, <3>1, <3>2
  <2>8. CASE \/ \E l \in 1..MaxLimit : list_recent(l)
             \/ info \/ seal \/ names \/ names_empty \/ read \/ list_fails \/ UNCHANGED vars
    <3>1. UNCHANGED <<streams, now, rpc, entry, name>>
      BY <2>8 DEF list_recent, info, seal, names, names_empty, read, list_fails, vars, clock, recording
    <3> QED
      BY <2>0, <2>1, <2>t, <3>1
  <2> QED
    BY <2>2, <2>3, <2>4, <2>5, <2>6, <2>7, <2>8 DEF Next
<1> QED
  BY <1>1, <1>2, TypeCorrect, SealKept, Acknowledged, PTL DEF Spec

-----------------------------------------------------------------------------
\* The members of a sequence are those of the sequence turned around.
LEMMA ReverseMember ==
    ASSUME NEW S, NEW s \in Seq(S), NEW i \in 1..Len(s)
    PROVE  \E k \in 1..Len(Reverse(s)) : Reverse(s)[k] = s[i]
<1> DEFINE k == (Len(s) - i) + 1
<1>1. Len(s) \in Nat /\ Len(Reverse(s)) = Len(s)
  BY ReverseType
<1>2. k \in 1..Len(s) /\ (Len(s) - k) + 1 = i
  BY <1>1
<1>3. Reverse(s) = [j \in 1..Len(s) |-> s[(Len(s) - j) + 1]]
  BY DEF Reverse
<1> HIDE DEF k
<1>4. Reverse(s)[k] = s[i]
  BY <1>2, <1>3
<1> QED
  BY <1>1, <1>2, <1>4

\* The members of two sequences are those of their concatenation.
LEMMA ConcatMember ==
    ASSUME NEW S, NEW s \in Seq(S), NEW t \in Seq(S)
    PROVE  /\ \A i \in 1..Len(s) : \E k \in 1..Len(s \o t) : (s \o t)[k] = s[i]
           /\ \A i \in 1..Len(t) : \E k \in 1..Len(s \o t) : (s \o t)[k] = t[i]
<1>1. /\ Len(s) \in Nat /\ Len(t) \in Nat /\ Len(s \o t) = Len(s) + Len(t)
      /\ \A i \in 1..(Len(s) + Len(t)) : (s \o t)[i] = IF i <= Len(s) THEN s[i] ELSE t[i - Len(s)]
  BY ConcatProperties
<1>2. ASSUME NEW i \in 1..Len(s) PROVE i \in 1..Len(s \o t) /\ (s \o t)[i] = s[i]
  BY <1>1
<1>3. ASSUME NEW i \in 1..Len(t) PROVE Len(s) + i \in 1..Len(s \o t) /\ (s \o t)[Len(s) + i] = t[i]
  <2>1. Len(s) + i \in 1..(Len(s) + Len(t)) /\ ~(Len(s) + i <= Len(s)) /\ (Len(s) + i) - Len(s) = i
    BY <1>1
  <2> QED
    BY <1>1, <2>1
<1> QED
  BY <1>2, <1>3

\* A listing reads every stream that is there.
LEMMA EveryStreamQueued ==
    ASSUME NEW s \in Names, last[s] >= 0
    PROVE  LET all == Reverse(Listed("legacy")) \o Reverse(Listed("current"))
           IN  \E k \in 1..Len(all) : all[k] = s
<1> DEFINE leg == Reverse(Listed("legacy"))
           cur == Reverse(Listed("current"))
<1>1. PICK prefix \in {"legacy", "current"} : \E d \in Days : s = <<prefix, d>>
  BY DEF Names, ArchivePrefixes
<1>2. \E i \in 1..Len(Listed(prefix)) : Listed(prefix)[i] = s
  BY <1>1, ListedComplete
<1>3. /\ Listed("legacy") \in Seq(Names) /\ Listed("current") \in Seq(Names)
      /\ leg \in Seq(Names) /\ cur \in Seq(Names)
  BY ListedNames, ReverseType
<1>4. prefix = "legacy" => \E i \in 1..Len(leg) : leg[i] = s
  BY <1>2, <1>3, ReverseMember
<1>5. prefix = "current" => \E i \in 1..Len(cur) : cur[i] = s
  BY <1>2, <1>3, ReverseMember
<1> HIDE DEF leg, cur
<1>6. ASSUME NEW a \in Seq(Names), NEW b \in Seq(Names)
      PROVE  /\ \A i \in 1..Len(a) : \E k \in 1..Len(a \o b) : (a \o b)[k] = a[i]
             /\ \A i \in 1..Len(b) : \E k \in 1..Len(a \o b) : (a \o b)[k] = b[i]
  BY ConcatMember
<1>7. /\ \A i \in 1..Len(leg) : \E k \in 1..Len(leg \o cur) : (leg \o cur)[k] = leg[i]
      /\ \A i \in 1..Len(cur) : \E k \in 1..Len(leg \o cur) : (leg \o cur)[k] = cur[i]
  BY <1>3, <1>6
<1>8. \E k \in 1..Len(leg \o cur) : (leg \o cur)[k] = s
  <2>1. CASE prefix = "legacy"
    <3>1. PICK i \in 1..Len(leg) : leg[i] = s
      BY <1>4, <2>1
    <3> QED
      BY <1>7, <3>1
  <2>2. CASE prefix = "current"
    <3>1. PICK i \in 1..Len(cur) : cur[i] = s
      BY <1>5, <2>2
    <3> QED
      BY <1>7, <3>1
  <2> QED
    BY <2>1, <2>2
<1> QED
  BY <1>8 DEF leg, cur

\* One stream is read before another: legacy ones first, then the later day.
ReadBefore(a, b) == (a[1] = "legacy" /\ b[1] = "current") \/ (a[1] = b[1] /\ a[2] > b[2])

\* The streams of a listing are queued in that order.
LEMMA QueuedInOrder ==
    LET all == Reverse(Listed("legacy")) \o Reverse(Listed("current"))
    IN  \A i, j \in 1..Len(all) : i < j => ReadBefore(all[i], all[j])
<1> DEFINE leg == Reverse(Listed("legacy"))
           cur == Reverse(Listed("current"))
<1>1. /\ Listed("legacy") \in Seq(Names) /\ Listed("current") \in Seq(Names)
      /\ leg \in Seq(Names) /\ cur \in Seq(Names)
      /\ Len(leg) = Len(Listed("legacy")) /\ Len(cur) = Len(Listed("current"))
  BY ListedNames, ReverseType
<1>2. ASSUME NEW prefix \in {"legacy", "current"},
             NEW i \in 1..Len(Listed(prefix)), NEW j \in 1..Len(Listed(prefix)), i < j
      PROVE  /\ Reverse(Listed(prefix))[i][1] = prefix /\ Reverse(Listed(prefix))[j][1] = prefix
             /\ Reverse(Listed(prefix))[i][2] > Reverse(Listed(prefix))[j][2]
  <2> DEFINE s == Listed(prefix)
             n == Len(s)
  <2>1. s \in Seq(Names) /\ n \in Nat
    BY <1>1
  <2>2. Reverse(s) = [k \in 1..n |-> s[(n - k) + 1]]
    BY DEF Reverse
  <2>3. (n - i) + 1 \in 1..n /\ (n - j) + 1 \in 1..n /\ (n - j) + 1 < (n - i) + 1
    BY <1>2, <2>1
  <2>4. /\ s[(n - j) + 1][1] = prefix /\ s[(n - i) + 1][1] = prefix
        /\ s[(n - j) + 1][2] < s[(n - i) + 1][2]
    BY <2>3, ListedSorted
  <2>5. s[(n - j) + 1][2] \in Nat /\ s[(n - i) + 1][2] \in Nat
    <3>1. \A x \in Names : x[2] \in Nat
      BY DayBegan, ArchiveAssumption DEF Names, Days
    <3>2. \A k \in 1..n : s[k] \in Names
      BY <2>1
    <3> QED
      BY <2>3, <3>1, <3>2
  <2>6. Reverse(s)[i] = s[(n - i) + 1] /\ Reverse(s)[j] = s[(n - j) + 1]
    BY <2>2
  <2> HIDE DEF s, n
  <2>7. s[(n - i) + 1][2] > s[(n - j) + 1][2]
    BY <2>4, <2>5
  <2> QED
    BY <2>4, <2>6, <2>7 DEF s
<1>3. /\ \A i \in 1..Len(leg) : leg[i][1] = "legacy"
      /\ \A i \in 1..Len(cur) : cur[i][1] = "current"
  <2>1. ASSUME NEW prefix \in {"legacy", "current"}, NEW i \in 1..Len(Listed(prefix))
        PROVE  Reverse(Listed(prefix))[i][1] = prefix
    <3>1. Listed(prefix) \in Seq(Names) /\ Len(Listed(prefix)) \in Nat
      BY <1>1
    <3>2. (Len(Listed(prefix)) - i) + 1 \in 1..Len(Listed(prefix))
      BY <3>1
    <3>3. Reverse(Listed(prefix))[i] = Listed(prefix)[(Len(Listed(prefix)) - i) + 1]
      BY <3>1, <3>2 DEF Reverse
    <3>4. \A k \in 1..Len(Listed(prefix)) : Listed(prefix)[k][1] = prefix
      BY ListedNames
    <3> QED
      BY <3>2, <3>3, <3>4
  <2> QED
    BY <1>1, <2>1
<1>4. /\ \A i, j \in 1..Len(leg) : i < j => ReadBefore(leg[i], leg[j])
      /\ \A i, j \in 1..Len(cur) : i < j => ReadBefore(cur[i], cur[j])
  BY <1>1, <1>2 DEF ReadBefore
<1> HIDE DEF leg, cur
<1>5. /\ Len(leg) \in Nat /\ Len(cur) \in Nat /\ Len(leg \o cur) = Len(leg) + Len(cur)
      /\ \A i \in 1..(Len(leg) + Len(cur)) : (leg \o cur)[i] = IF i <= Len(leg) THEN leg[i] ELSE cur[i - Len(leg)]
  <2>1. ASSUME NEW a \in Seq(Names), NEW b \in Seq(Names)
        PROVE  /\ Len(a) \in Nat /\ Len(b) \in Nat /\ Len(a \o b) = Len(a) + Len(b)
               /\ \A i \in 1..(Len(a) + Len(b)) : (a \o b)[i] = IF i <= Len(a) THEN a[i] ELSE b[i - Len(a)]
    BY ConcatProperties
  <2>2. leg \in Seq(Names) /\ cur \in Seq(Names)
    BY <1>1 DEF leg, cur
  <2> QED
    BY <2>1, <2>2
<1>6. ASSUME NEW i \in 1..Len(leg \o cur), NEW j \in 1..Len(leg \o cur), i < j
      PROVE  ReadBefore((leg \o cur)[i], (leg \o cur)[j])
  <2>1. CASE j <= Len(leg)
    <3>1. i \in 1..Len(leg) /\ j \in 1..Len(leg) /\ (leg \o cur)[i] = leg[i] /\ (leg \o cur)[j] = leg[j]
      BY <1>5, <1>6, <2>1
    <3> QED
      BY <1>4, <1>6, <3>1
  <2>2. CASE i <= Len(leg) /\ ~(j <= Len(leg))
    <3>1. /\ i \in 1..Len(leg) /\ j - Len(leg) \in 1..Len(cur)
          /\ (leg \o cur)[i] = leg[i] /\ (leg \o cur)[j] = cur[j - Len(leg)]
      BY <1>5, <1>6, <2>2
    <3> QED
      BY <1>3, <3>1 DEF ReadBefore
  <2>3. CASE ~(i <= Len(leg))
    <3>1. /\ i - Len(leg) \in 1..Len(cur) /\ j - Len(leg) \in 1..Len(cur) /\ i - Len(leg) < j - Len(leg)
          /\ (leg \o cur)[i] = cur[i - Len(leg)] /\ (leg \o cur)[j] = cur[j - Len(leg)]
      BY <1>5, <1>6, <2>3
    <3> QED
      BY <1>4, <3>1
  <2> QED
    BY <1>6, <2>1, <2>2, <2>3
<1> QED
  BY <1>6 DEF leg, cur

\* The listing has not read the stream yet.
Queued(s) == \E k \in 1..Len(queue) : queue[k] = s

\* The entry is in a stream that the listing has not read yet.
ToRead(e) == \E t \in Names : Queued(t) /\ \E j \in 1..Len(streams[t]) : streams[t][j] = e

\* Enough that were appended after the entry were read to fill a page.
Crowded(e) == \E D \in SUBSET entries : Cardinality(D) >= limit /\ \A y \in D : y.n > e.n

\* A copy of the entry was read, or it was crowded out.
Settled(e) == archive_entry_key(e) \in seen \/ Crowded(e)

\* The first entry should give way to the second: another copy of its delivery,
\* whose recording began when the first was there.
Superseded(x, e) == SameKey(x, e) /\ x.prefix = "current" /\ x.n <= e.after

\* What a listing has read, while deliveries arrive.
\*  - The streams left are in their order.
\*  - What was acknowledged before it is in a stream left, or settled.
\*  - A copy was collected in place of a later one only if that was crowded out.
ListingInv ==
    /\ entries \subseteq Archived
    /\ IsFiniteSet(entries)
    /\ lpc = "read" => \A i, j \in 1..Len(queue) : i < j => ReadBefore(queue[i], queue[j])
    /\ lpc = "read" => \A e \in before : ToRead(e) \/ Settled(e)
    /\ lpc = "read" => \A x \in entries, e \in before : Superseded(x, e) => Crowded(e)
    /\ AcknowledgedIsListed
    /\ ListedOnce

\* Deliveries that arrive do not unsettle a listing.
LEMMA ListingUndisturbed ==
    ASSUME TypeOK, TypeOK', AckInv, [Next]_vars, ListingInv, UNCHANGED listing
    PROVE  ListingInv'
<1>1. Archived \subseteq Archived' /\ \A e : Single(e)' => Single(e)
  BY ArchiveGrows
<1>2. /\ lpc' = lpc /\ queue' = queue /\ limit' = limit /\ entries' = entries /\ seen' = seen
      /\ answer' = answer /\ before' = before
  BY DEF listing
<1>3. ASSUME lpc = "read", NEW e \in before PROVE (ToRead(e) \/ Settled(e))'
  <2>1. CASE ToRead(e)
    <3>1. PICK t \in Names : Queued(t) /\ \E j \in 1..Len(streams[t]) : streams[t][j] = e
      BY <2>1 DEF ToRead
    <3>2. PICK j \in 1..Len(streams[t]) : streams[t][j] = e
      BY <3>1
    <3>3. j \in 1..Len(streams'[t]) /\ streams'[t][j] = e
      BY <3>2, StreamsGrow
    <3>4. Queued(t)'
      BY <1>2, <3>1 DEF Queued
    <3> QED
      BY <3>3, <3>4 DEF ToRead
  <2>2. CASE Settled(e)
    BY <1>2, <2>2 DEF Settled, Crowded, archive_entry_key
  <2> QED
    BY <1>3, <2>1, <2>2 DEF ListingInv
<1>4. AcknowledgedIsListed'
  <2> SUFFICES ASSUME lpc' = "answered", NEW e \in before', Single(e)', e \notin answer'
               PROVE  /\ Cardinality(answer') = limit'
                      /\ \A x \in answer' : \E y \in Archived' :
                            y.delivery # Corrupt /\ (y = e \/ y.n > e.n) /\ x.at >= y.at
    BY DEF AcknowledgedIsListed, Answered
  <2>1. Answered /\ e \in before /\ e \notin answer /\ Single(e)
    BY <1>1, <1>2 DEF Answered
  <2>2. /\ Cardinality(answer) = limit
        /\ \A x \in answer : \E y \in Archived :
              y.delivery # Corrupt /\ (y = e \/ y.n > e.n) /\ x.at >= y.at
    BY <2>1 DEF ListingInv, AcknowledgedIsListed
  <2> QED
    BY <1>1, <1>2, <2>2
<1>5. ListedOnce'
  <2>1. ListedOnce
    BY DEF ListingInv
  <2> QED
    BY <1>1, <1>2, <2>1 DEF ListedOnce, Answered, SameKey, archive_entry_key
<1>6. /\ entries' \subseteq Archived' /\ IsFiniteSet(entries')
      /\ lpc' = "read" => \A i, j \in 1..Len(queue') : i < j => ReadBefore(queue'[i], queue'[j])
      /\ lpc' = "read" => \A x \in entries', e \in before' : Superseded(x, e) => Crowded(e)
  BY <1>1, <1>2 DEF ListingInv
<1>7. \A x \in entries', e \in before' : (Superseded(x, e) => Crowded(e)) => (Superseded(x, e) => Crowded(e))'
  BY <1>2 DEF Crowded, Superseded, SameKey, archive_entry_key
<1>8. lpc' = "read" => \A e \in before' : (ToRead(e) \/ Settled(e))'
  BY <1>2, <1>3
<1>9. lpc' = "read" => \A x \in entries', e \in before' : (Superseded(x, e) => Crowded(e))'
  BY <1>6, <1>7
<1> QED
  BY <1>4, <1>5, <1>6, <1>8, <1>9 DEF ListingInv

\* One more stream is read: what was acknowledged before the listing is in a
\* stream left, or settled.
LEMMA ReadSettles ==
    ASSUME TypeOK, AtStream, AckInv, ListingInv, read,
           NEW e \in before
    PROVE  Settled(e)' \/ (ToRead(e)' /\ queue' # <<>>)
<1> DEFINE h == Head(queue)
           s == streams[h]
           new == fresh(s, seen, limit)
<1>0. /\ queue \in Seq(Names) /\ queue # <<>> /\ h \in Names /\ s \in Seq(Entry) /\ limit \in Nat
      /\ queue[1] = h
  <2>1. queue \in Seq(Names) /\ queue # <<>> /\ limit \in Nat
    BY DEF read, AtStream, TypeOK
  <2>2. h \in Names /\ queue[1] = h
    BY <2>1
  <2> QED
    BY <2>1, <2>2 DEF TypeOK
<1>1. /\ entries' = entries \cup new /\ seen' = seen \cup {archive_entry_key(x) : x \in new}
      /\ queue' = Tail(queue) /\ limit' = limit
  BY DEF read
<1>2. e.n > 0 /\ e.delivery # Corrupt
  BY DEF AckInv
<1>3. ASSUME NEW j \in 1..Len(s), s[j] = e PROVE Settled(e)'
  <2>1. j \in 1..Len(s) /\ s[j] = e
    BY <1>3
  <2>2. \A m \in (j + 1)..Len(s) : s[m].n > e.n
    <3>1. \A a, b \in 1..Len(s) : a < b /\ s[a].n > 0 => s[b].n > s[a].n
      BY <1>0 DEF AckInv
    <3>2. \A m \in (j + 1)..Len(s) : m \in 1..Len(s) /\ j < m
      BY <1>0, <2>1
    <3> QED
      BY <1>2, <2>1, <3>1, <3>2
  <2>3. \/ archive_entry_key(e) \in seen
        \/ \E x \in new : SameKey(x, e)
        \/ \E D \in SUBSET new : /\ Cardinality(D) >= limit
                                 /\ \A y \in D : \E m \in (j + 1)..Len(s) : y = s[m]
    <3>1. s[j].delivery # Corrupt
      BY <1>2, <2>1
    <3>2. \A i \in 1..Len(s) :
             (s[i].delivery # Corrupt /\ archive_entry_key(s[i]) \notin seen) =>
                \/ \E x \in new : SameKey(x, s[i])
                \/ \E D \in SUBSET new : /\ Cardinality(D) >= limit
                                         /\ \A y \in D : \E m \in (i + 1)..Len(s) : y = s[m]
      <4>1. Covers(s, seen, limit)
        BY <1>0, FreshOrCrowded
      <4> QED
        BY <4>1 DEF Covers
    <3> HIDE DEF s, new
    <3> QED
      BY <2>1, <3>1, <3>2
  <2> HIDE DEF h, s, new
  <2>4. CASE archive_entry_key(e) \in seen
    BY <1>1, <2>4 DEF Settled
  <2>5. CASE \E x \in new : SameKey(x, e)
    <3>1. archive_entry_key(e) \in seen'
      BY <1>1, <2>5 DEF SameKey
    <3> QED
      BY <3>1 DEF Settled, archive_entry_key
  <2>6. CASE \E D \in SUBSET new : /\ Cardinality(D) >= limit
                                   /\ \A y \in D : \E m \in (j + 1)..Len(s) : y = s[m]
    <3>1. PICK D \in SUBSET new : /\ Cardinality(D) >= limit
                                  /\ \A y \in D : \E m \in (j + 1)..Len(s) : y = s[m]
      BY <2>6
    <3>2. \A y \in D : y.n > e.n
      BY <2>2, <3>1
    <3>3. D \in SUBSET entries' /\ Cardinality(D) >= limit'
      BY <1>1, <3>1
    <3> QED
      BY <3>2, <3>3 DEF Settled, Crowded
  <2> QED
    BY <2>3, <2>4, <2>5, <2>6
<1>4. ASSUME Settled(e) PROVE Settled(e)'
  BY <1>1, <1>4 DEF Settled, Crowded, archive_entry_key
<1>5. /\ Len(queue) \in Nat /\ Len(Tail(queue)) = Len(queue) - 1
      /\ \A i \in 1..Len(Tail(queue)) : Tail(queue)[i] = queue[i + 1]
  BY <1>0, HeadTailProperties
<1>6. ASSUME NEW t, Queued(t), t # h PROVE Queued(t)' /\ queue' # <<>>
  <2>1. PICK k \in 1..Len(queue) : queue[k] = t
    BY <1>6 DEF Queued
  <2>2. k - 1 \in 1..Len(Tail(queue)) /\ (k - 1) + 1 = k
    BY <1>0, <1>5, <1>6, <2>1
  <2>3. Tail(queue)[k - 1] = t
    BY <1>5, <2>1, <2>2
  <2>4. 1..Len(<<>>) = {}
    <3>1. Len(<<>>) = 0
      OBVIOUS
    <3> QED
      BY <3>1
  <2>5. Tail(queue) # <<>>
    BY <2>2, <2>4, Zenon
  <2> QED
    BY <1>1, <2>2, <2>3, <2>5 DEF Queued
<1>7. CASE ToRead(e)
  <2>1. PICK t \in Names : Queued(t) /\ \E j \in 1..Len(streams[t]) : streams[t][j] = e
    BY <1>7 DEF ToRead
  <2>2. CASE t = h
    BY <1>3, <2>1, <2>2
  <2>3. CASE t # h
    <3>1. Queued(t)' /\ queue' # <<>> /\ streams' = streams
      BY <1>6, <2>1, <2>3 DEF read
    <3> QED
      BY <2>1, <3>1 DEF ToRead
  <2> QED
    BY <2>2, <2>3
<1>8. ToRead(e) \/ Settled(e)
  BY DEF ListingInv, read
<1> QED
  BY <1>4, <1>7, <1>8

\* A copy that should give way to another, acknowledged before the listing, is
\* taken only when that one was crowded out: the other is later in the stream
\* read, or in a stream of a later day, which was read before.
LEMMA ReadSupersedes ==
    ASSUME TypeOK, AtStream, AckInv, DayInv, ListingInv, read,
           NEW x \in fresh(streams[Head(queue)], seen, limit), NEW e \in before, Superseded(x, e)
    PROVE  Crowded(e)
<1> DEFINE h == Head(queue)
           s == streams[h]
<1>0. /\ queue \in Seq(Names) /\ queue # <<>> /\ h \in Names /\ s \in Seq(Entry)
      /\ queue[1] = h /\ Len(queue) \in Nat /\ Len(queue) > 0
  <2>1. queue \in Seq(Names) /\ queue # <<>>
    BY DEF read, AtStream, TypeOK
  <2>2. h \in Names /\ queue[1] = h /\ Len(queue) \in Nat /\ Len(queue) > 0
    BY <2>1
  <2> QED
    BY <2>1, <2>2 DEF TypeOK
<1>1. /\ archive_entry_key(x) \notin seen
      /\ \E i \in 1..Len(s) : x = s[i] /\ \A j \in (i + 1)..Len(s) : ~SameKey(s[j], x)
  BY <1>0, FreshOnce
<1>2. PICK i \in 1..Len(s) : x = s[i] /\ \A j \in (i + 1)..Len(s) : ~SameKey(s[j], x)
  BY <1>1
<1>s. CASE Settled(e)
  <2>1. archive_entry_key(e) \notin seen
    BY <1>1 DEF Superseded, SameKey
  <2> QED
    BY <1>s, <2>1 DEF Settled
<1>3. e.n > 0 /\ e.after < e.n /\ e.delivery # Corrupt /\ e.prefix = "current"
  BY DEF AckInv
<1> SUFFICES ASSUME ToRead(e) PROVE FALSE
  BY <1>s DEF ListingInv, read
<1>4. PICK t \in Names : Queued(t) /\ \E j \in 1..Len(streams[t]) : streams[t][j] = e
  BY DEF ToRead
<1>5. PICK j \in 1..Len(streams[t]) : streams[t][j] = e
  BY <1>4
<1>6. t[1] = "current" /\ h[1] = "current"
  <2>1. \A q \in Names : \A k \in 1..Len(streams[q]) : streams[q][k].prefix = q[1]
    BY DEF AckInv
  <2> QED
    BY <1>0, <1>2, <1>3, <1>5, <2>1 DEF Superseded
<1>7. x.n <= e.after /\ SameKey(x, e)
  BY DEF Superseded
<1>8. h[2] <= t[2]
  <2>1. NoLater(e.after, t[2])
    BY <1>3, <1>5, <1>6 DEF DayInv
  <2> QED
    BY <1>0, <1>2, <1>6, <1>7, <2>1 DEF NoLater
<1>9. x \in Entry /\ e \in Entry
  BY <1>0, <1>2, <1>5 DEF TypeOK
<1>10. x.n \in Nat /\ e.n \in Nat /\ e.after \in Nat
  BY <1>9 DEF Entry
<1>11. t # h
  <2> SUFFICES ASSUME t = h PROVE FALSE
    OBVIOUS
  <2>1. j \in 1..Len(s) /\ s[j] = e /\ Len(s) \in Nat
    BY <1>0, <1>5
  <2>2. ~(j > i)
    <3> SUFFICES ASSUME j > i PROVE FALSE
      OBVIOUS
    <3>1. j \in (i + 1)..Len(s)
      BY <2>1
    <3> QED
      BY <1>2, <1>7, <2>1, <3>1 DEF SameKey
  <2>3. ~(j < i)
    <3> SUFFICES ASSUME j < i PROVE FALSE
      OBVIOUS
    <3>1. x.n > e.n
      BY <1>0, <1>2, <1>3, <2>1 DEF AckInv
    <3> QED
      BY <1>3, <1>7, <1>10, <3>1
  <2>4. i = j
    BY <2>1, <2>2, <2>3
  <2>5. x.n = e.n
    BY <1>2, <2>1, <2>4
  <2> QED
    BY <1>3, <1>7, <1>10, <2>5
<1>12. ~Queued(t)
  <2> SUFFICES ASSUME NEW k \in 1..Len(queue), queue[k] = t PROVE FALSE
    BY DEF Queued
  <2>1. 1 \in 1..Len(queue) /\ k \in 1..Len(queue) /\ 1 < k
    BY <1>0, <1>11
  <2>2. ReadBefore(h, t)
    BY <1>0, <2>1 DEF ListingInv, read
  <2>3. h[2] > t[2]
    BY <1>6, <2>2 DEF ReadBefore
  <2>4. h[2] \in Nat /\ t[2] \in Nat
    <3>1. Days \subseteq Nat
      BY DayBegan, ArchiveAssumption DEF Days
    <3> QED
      BY <1>0, <3>1 DEF Names
  <2> QED
    BY <1>8, <2>3, <2>4
<1> QED
  BY <1>4, <1>12

\* The last stream is read: what was settled is on the page, or was pushed off
\* it, and so was a copy that should have taken another's place.
LEMMA Answers ==
    ASSUME OnceInv', TypeOK', limit \in Nat, IsFiniteSet(entries'), entries' \subseteq Archived',
           lpc' = "answered", limit' = limit, before' = before, answer' \in Newest(entries', limit),
           \A e \in before : /\ Settled(e)' /\ e \in Entry
                            /\ e.after < e.n /\ e.delivery # Corrupt
                            /\ \A x \in entries' : Superseded(x, e) => Crowded(e)'
    PROVE  AcknowledgedIsListed' /\ ListedOnce'
<1> DEFINE all == entries'
           page == answer'
<1>1. /\ all \in SUBSET Entry /\ page \in SUBSET all
      /\ \A z \in all : z.delivery # Corrupt /\ z.n \in Nat /\ z.at \in Nat
      /\ \A x, y \in all : SameKey(x, y) => x = y
      /\ seen' = {archive_entry_key(z) : z \in all}
  <2>1. all \in SUBSET Entry /\ page \in SUBSET all
    BY DEF TypeOK, Newest
  <2>2. /\ \A z \in all : z.delivery # Corrupt
        /\ \A x, y \in all : SameKey(x, y) => x = y
        /\ seen' = {archive_entry_key(z) : z \in all}
    BY DEF OnceInv, SameKey, archive_entry_key
  <2>3. \A z \in Entry : z.n \in Nat /\ z.at \in Nat
    BY DEF Entry
  <2> QED
    BY <2>1, <2>2, <2>3
<1>2. \A e \in before : e.n \in Nat /\ e.after \in Nat /\ e.at \in Nat
  BY DEF Entry
<1>3. \A e : Crowded(e)' => \E D \in SUBSET all : Cardinality(D) >= limit /\ \A y \in D : y.n > e.n
  BY DEF Crowded
<1>4. \A e : Settled(e)' => archive_entry_key(e) \in seen' \/ Crowded(e)'
  BY DEF Settled, archive_entry_key
<1>5. ASSUME NEW e \in before, Single(e)', e \notin page
      PROVE  /\ Cardinality(page) = limit
             /\ \A x \in page : \E y \in Archived' :
                   y.delivery # Corrupt /\ (y = e \/ y.n > e.n) /\ x.at >= y.at
  <2>1. /\ \A x \in all \ page : Cardinality(page) = limit /\ \A z \in page : z.at >= x.at
        /\ \A D \in SUBSET all : Cardinality(D) >= limit =>
              Cardinality(page) = limit /\ \A x \in page : \E y \in D : x.at >= y.at
    BY <1>1, TopPage
  <2>2. CASE archive_entry_key(e) \in seen'
    <3>1. PICK z \in all : SameKey(z, e)
      BY <1>1, <2>2 DEF SameKey
    <3>2. \A x \in Archived' : SameKey(x, e) => x = e
      BY <1>5 DEF Single, SameKey, archive_entry_key
    <3>3. z = e
      BY <3>1, <3>2
    <3>4. e \in all \ page /\ e \in Archived' /\ e.delivery # Corrupt
      BY <1>1, <1>5, <3>3
    <3> HIDE DEF all, page
    <3> QED
      BY <2>1, <3>4
  <2>3. CASE Crowded(e)'
    <3>1. PICK D \in SUBSET all : Cardinality(D) >= limit /\ \A y \in D : y.n > e.n
      BY <1>3, <2>3
    <3>2. \A y \in D : y \in Archived' /\ y.delivery # Corrupt /\ y.n > e.n
      BY <1>1, <3>1
    <3>3. Cardinality(page) = limit /\ \A x \in page : \E y \in D : x.at >= y.at
      BY <2>1, <3>1
    <3> HIDE DEF page
    <3> QED
      BY <3>2, <3>3
  <2> QED
    BY <1>4, <2>2, <2>3
<1>6. ASSUME NEW x \in page, NEW y \in page, x.delivery = y.delivery, x # y
      PROVE  x.delivery \in Unnamed /\ x.at # y.at
  BY <1>1, <1>6 DEF SameKey, archive_entry_key
<1>7. ASSUME NEW x \in page, NEW e \in before, SameKey(x, e), x.prefix = "current", x.n <= e.after
      PROVE  \E y \in Archived' \ page : y.delivery # Corrupt /\ y.n > e.n /\ y.at <= x.at
  <2>1. x \in all /\ Superseded(x, e)
    BY <1>1, <1>7 DEF Superseded
  <2>2. PICK D \in SUBSET all : Cardinality(D) >= limit /\ \A y \in D : y.n > e.n
    BY <1>3, <2>1
  <2>3. x \notin D
    <3> SUFFICES ASSUME x \in D PROVE FALSE
      OBVIOUS
    <3>1. x.n > e.n /\ e.after < e.n
      BY <2>2
    <3> QED
      BY <1>1, <1>2, <1>7, <2>1, <3>1
  <2>4. PICK y \in D \ page : y.at <= x.at
    BY <1>1, <2>2, <2>3, PushedOff
  <2>5. y \in Archived' /\ y.delivery # Corrupt /\ y.n > e.n
    BY <1>1, <2>2, <2>4
  <2> QED
    BY <2>4, <2>5
<1>8. AcknowledgedIsListed'
  BY <1>5 DEF AcknowledgedIsListed
<1>9. ListedOnce'
  BY <1>6, <1>7 DEF ListedOnce, SameKey, archive_entry_key
<1> QED
  BY <1>8, <1>9

\* One more stream is read.
LEMMA ListingReads ==
    ASSUME TypeOK, TypeOK', AtStream, OnceInv', AckInv, DayInv, ListingInv, read
    PROVE  ListingInv'
<1> DEFINE h == Head(queue)
           new == fresh(streams[h], seen, limit)
<1>1. streams[h] \in Seq(Entry) /\ limit \in Nat /\ queue \in Seq(Names) /\ queue # <<>> /\ h \in Names
  <2>1. queue \in Seq(Names) /\ queue # <<>> /\ limit \in Nat
    BY DEF read, TypeOK, AtStream
  <2>2. h \in Names
    BY <2>1
  <2> QED
    BY <2>1, <2>2 DEF TypeOK
<1>2. /\ entries' = entries \cup new /\ queue' = Tail(queue) /\ limit' = limit /\ streams' = streams
      /\ before' = before /\ lpc = "read"
      /\ \/ lpc' = "read"
         \/ Len(queue) = 1 /\ lpc' = "answered" /\ answer' \in Newest(entries', limit)
  BY DEF read
<1>3. IsFiniteSet(new) /\ new \subseteq Archived
  <2>1. IsFiniteSet(new)
    BY <1>1, FreshOrCrowded
  <2>2. new \subseteq {streams[h][i] : i \in 1..Len(streams[h])}
    BY DEF fresh
  <2>3. {streams[h][i] : i \in 1..Len(streams[h])} \subseteq Archived
    BY <1>1, ArchivedAt
  <2> QED
    BY <2>1, <2>2, <2>3
<1>4. \A x \in new, e \in before : Superseded(x, e) => Crowded(e)
  BY ReadSupersedes
<1> HIDE DEF h, new
<1>5. entries' \subseteq Archived' /\ IsFiniteSet(entries')
  <2>1. IsFiniteSet(entries \cup new)
    BY <1>3, FS_Union DEF ListingInv
  <2> QED
    BY <1>2, <1>3, <2>1 DEF ListingInv, Archived
<1>6. \A x \in entries', e \in before : Superseded(x, e) => Crowded(e)'
  <2>1. \A e : Crowded(e) => Crowded(e)'
    BY <1>2 DEF Crowded
  <2>2. \A x \in entries, e \in before : Superseded(x, e) => Crowded(e)
    BY <1>2 DEF ListingInv
  <2> QED
    BY <1>2, <1>4, <2>1, <2>2
<1>7. \A e \in before : Settled(e)' \/ (ToRead(e)' /\ queue' # <<>>)
  BY ReadSettles
<1>8. \A i, j \in 1..Len(queue') : i < j => ReadBefore(queue'[i], queue'[j])
  <2>1. /\ Len(queue) \in Nat /\ Len(Tail(queue)) = Len(queue) - 1
        /\ \A i \in 1..Len(Tail(queue)) : Tail(queue)[i] = queue[i + 1]
    BY <1>1, HeadTailProperties
  <2> SUFFICES ASSUME NEW i \in 1..Len(Tail(queue)), NEW j \in 1..Len(Tail(queue)), i < j
               PROVE  ReadBefore(Tail(queue)[i], Tail(queue)[j])
    BY <1>2
  <2>2. i + 1 \in 1..Len(queue) /\ j + 1 \in 1..Len(queue) /\ i + 1 < j + 1
    BY <2>1
  <2>3. ReadBefore(queue[i + 1], queue[j + 1])
    BY <1>2, <2>2 DEF ListingInv
  <2> QED
    BY <2>1, <2>3
<1>9. CASE lpc' = "read"
  <2>1. AcknowledgedIsListed' /\ ListedOnce'
    BY <1>9 DEF AcknowledgedIsListed, ListedOnce, Answered
  <2>2. \A e \in before' : (ToRead(e) \/ Settled(e))'
    BY <1>2, <1>7
  <2>3. \A x \in entries', e \in before' : (Superseded(x, e) => Crowded(e))'
    BY <1>2, <1>6 DEF Superseded, SameKey, archive_entry_key
  <2> QED
    BY <1>5, <1>8, <2>1, <2>2, <2>3 DEF ListingInv
<1>10. CASE Len(queue) = 1 /\ lpc' = "answered" /\ answer' \in Newest(entries', limit)
  <2>1. queue' = <<>>
    <3>1. Len(Tail(queue)) = 0 /\ Tail(queue) \in Seq(Names)
      BY <1>1, <1>10, HeadTailProperties
    <3> QED
      BY <1>2, <3>1
  <2>2. \A e \in before : /\ Settled(e)' /\ e \in Entry
                          /\ e.after < e.n /\ e.delivery # Corrupt
                          /\ \A x \in entries' : Superseded(x, e) => Crowded(e)'
    <3>1. \A e \in before : e \in Entry /\ e.after < e.n /\ e.delivery # Corrupt
      BY DEF TypeOK, AckInv
    <3> QED
      BY <1>6, <1>7, <2>1, <3>1
  <2>3. AcknowledgedIsListed' /\ ListedOnce'
    BY <1>1, <1>2, <1>5, <1>10, <2>2, Answers
  <2> QED
    BY <1>5, <1>10, <2>3 DEF ListingInv
<1> QED
  BY <1>2, <1>9, <1>10

\* What a listing has read so far, at every step.
LEMMA ListingKept == Spec => []ListingInv
<1> USE ArchiveAssumption
<1>1. Init => ListingInv
  <2> SUFFICES ASSUME Init PROVE ListingInv
    OBVIOUS
  <2>1. entries = {} /\ lpc = "idle"
    BY DEF Init
  <2> QED
    BY <2>1, FS_EmptySet DEF ListingInv, AcknowledgedIsListed, ListedOnce, Answered
<1>2. /\ TypeOK /\ TypeOK' /\ AtStream /\ OnceInv /\ OnceInv' /\ AckInv /\ DayInv /\ ListingInv
      /\ [Next]_vars
      => ListingInv'
  <2> SUFFICES ASSUME TypeOK, TypeOK', AtStream, OnceInv, OnceInv', AckInv, DayInv, ListingInv, [Next]_vars
               PROVE  ListingInv'
    OBVIOUS
  <2>1. CASE UNCHANGED listing
    BY <2>1, ListingUndisturbed
  <2>2. ASSUME streams' = streams, entries' = entries \/ entries' = {}, lpc' \notin {"read", "answered"}
        PROVE  ListingInv'
    BY <2>2, FS_EmptySet DEF ListingInv, AcknowledgedIsListed, ListedOnce, Answered, Archived
  <2>3. ASSUME NEW l \in 1..MaxLimit, list_recent(l) PROVE ListingInv'
    BY <2>2, <2>3 DEF list_recent
  <2>4. CASE info \/ seal \/ list_fails
    <3>1. streams' = streams /\ (entries' = entries \/ entries' = {})
      BY <2>4 DEF info, seal, list_fails
    <3>2. lpc' \notin {"read", "answered"}
      BY <2>4 DEF info, seal, list_fails
    <3> QED
      BY <2>2, <3>1, <3>2
  <2>5. ASSUME NEW e \in before
        PROVE  \E s \in Names : last[s] >= 0 /\ \E i \in 1..Len(streams[s]) : streams[s][i] = e
    BY DEF AckInv
  <2>6. ASSUME names PROVE ListingInv'
    <3>1. /\ streams' = streams /\ entries' = entries /\ before' = before /\ lpc' = "read"
          /\ queue' = Reverse(Listed("legacy")) \o Reverse(Listed("current"))
          /\ entries = {}
      BY <2>6 DEF names, OnceInv
    <3>2. \A e \in before' : (ToRead(e) \/ Settled(e))'
      <4> SUFFICES ASSUME NEW e \in before PROVE ToRead(e)'
        BY <3>1
      <4>1. PICK s \in Names : last[s] >= 0 /\ \E i \in 1..Len(streams[s]) : streams[s][i] = e
        BY <2>5
      <4>2. PICK k \in 1..Len(queue') : queue'[k] = s
        BY <3>1, <4>1, EveryStreamQueued
      <4> QED
        BY <3>1, <4>1, <4>2 DEF ToRead, Queued
    <3>3. \A i, j \in 1..Len(queue') : i < j => ReadBefore(queue'[i], queue'[j])
      BY <3>1, QueuedInOrder
    <3>4. entries' \subseteq Archived' /\ IsFiniteSet(entries')
      BY <3>1, FS_EmptySet
    <3>5. AcknowledgedIsListed' /\ ListedOnce'
      BY <3>1 DEF AcknowledgedIsListed, ListedOnce, Answered
    <3>6. \A x \in entries', e \in before' : (Superseded(x, e) => Crowded(e))'
      BY <3>1
    <3> QED
      BY <3>2, <3>3, <3>4, <3>5, <3>6 DEF ListingInv
  <2>7. ASSUME names_empty PROVE ListingInv'
    <3>1. /\ streams' = streams /\ entries' = entries /\ before' = before /\ lpc' = "answered"
          /\ Listed("legacy") = <<>> /\ Listed("current") = <<>> /\ answer' = {}
      BY <2>7 DEF names_empty, OnceInv, Answered
    <3>2. before = {}
      <4> SUFFICES ASSUME NEW e \in before PROVE FALSE
        OBVIOUS
      <4>1. PICK s \in Names : last[s] >= 0
        BY <2>5
      <4>2. PICK prefix \in {"legacy", "current"} : \E d \in Days : s = <<prefix, d>>
        BY DEF Names, ArchivePrefixes
      <4>3. \E i \in 1..Len(Listed(prefix)) : Listed(prefix)[i] = s
        BY <4>1, <4>2, ListedComplete
      <4>4. Len(<<>>) = 0
        OBVIOUS
      <4>5. Len(Listed(prefix)) = 0
        BY <3>1, <4>4
      <4> QED
        BY <4>3, <4>5
    <3>3. AcknowledgedIsListed' /\ ListedOnce'
      BY <3>1, <3>2 DEF AcknowledgedIsListed, ListedOnce
    <3>4. entries' \subseteq Archived' /\ IsFiniteSet(entries')
      BY <3>1 DEF ListingInv, Archived
    <3> QED
      BY <3>1, <3>3, <3>4 DEF ListingInv
  <2>8. ASSUME read PROVE ListingInv'
    BY <2>8, ListingReads
  <2>9. ASSUME ~UNCHANGED listing
        PROVE  \/ \E l \in 1..MaxLimit : list_recent(l)
               \/ info \/ seal \/ list_fails \/ names \/ names_empty \/ read
    <3>1. \A r \in Recorders, d \in Deliveries : ~stamp(r, d)
      BY <2>9 DEF stamp
    <3>2. ~append_foreign /\ ~Tick /\ ~UNCHANGED vars
      BY <2>9 DEF append_foreign, Tick, vars
    <3>3. \A r \in Recorders : ~current_day_file(r) /\ ~append(r) /\ ~append_fails(r)
      BY <2>9 DEF current_day_file, append, append_fails
    <3> QED
      BY <3>1, <3>2, <3>3 DEF Next
  <2> QED
    BY <2>1, <2>3, <2>4, <2>6, <2>7, <2>8, <2>9
<1> QED
  BY <1>1, <1>2, TypeCorrect, SeenOnce, Acknowledged, DaysKept, PTL DEF Spec

\* A delivery acknowledged before a listing began, of which there is no other
\* copy, is listed, or gave its place to a full page of others, none older than
\* something appended after it.
THEOREM AllListed == Spec => []AcknowledgedIsListed
<1>1. ListingInv => AcknowledgedIsListed
  BY DEF ListingInv
<1> QED
  BY <1>1, ListingKept, PTL

\* Of what both prefixes hold or was delivered again, one copy is listed (only
\* without a uuid it appears again, with another time), and it is a legacy one or
\* the latest, unless a later delivery pushed that off the page.
THEOREM EachListedOnce == Spec => []ListedOnce
<1>1. ListingInv => ListedOnce
  BY DEF ListingInv
<1> QED
  BY <1>1, ListingKept, PTL

=============================================================================
