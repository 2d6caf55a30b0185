----------------------- MODULE StreamMigrationProofs -----------------------
(***************************************************************************)
(* What the copy of the trigger streams promises for any number of         *)
(* instances, streams and events, and any page size.                       *)
(***************************************************************************)
EXTENDS StreamMigration, SequenceTheorems, TLAPS

\* A window of a stream is a sequence of events.
LEMMA WindowType ==
    ASSUME NEW s \in Seq(Event), NEW from \in Nat, NEW limit \in Nat, from + limit <= Len(s)
    PROVE  /\ read_window(s, from, limit) \in Seq(Event)
           /\ Len(read_window(s, from, limit)) = limit
           /\ \A i \in 1..limit : read_window(s, from, limit)[i] = s[from + i]
<1>1. \A i \in (from + 1)..(from + limit) : s[i] \in Event
  BY ElementOfSeq
<1>2. from + 1 \in Int /\ from + limit \in Int
  OBVIOUS
<1> DEFINE m == from + 1  n == from + limit
<1>3. /\ SubSeq(s, m, n) \in Seq(Event)
      /\ Len(SubSeq(s, m, n)) = IF m <= n THEN n - m + 1 ELSE 0
      /\ \A i \in 1..(n - m + 1) : SubSeq(s, m, n)[i] = s[m + i - 1]
  <2> HIDE DEF m, n
  <2>1. \A i \in m..n : s[i] \in Event
    BY <1>1 DEF m, n
  <2>2. m \in Int /\ n \in Int
    BY <1>2 DEF m, n
  <2> QED
    BY <2>1, <2>2, SubSeqProperties
<1> QED
  BY <1>3 DEF read_window

\* A batch appended to a stream follows it and changes none of it.
LEMMA ConcatKeeps ==
    ASSUME NEW s \in Seq(Event), NEW t \in Seq(Event)
    PROVE  /\ s \o t \in Seq(Event)
           /\ Len(s \o t) = Len(s) + Len(t)
           /\ \A i \in 1..Len(s) : (s \o t)[i] = s[i]
           /\ \A i \in 1..Len(t) : (s \o t)[Len(s) + i] = t[i]
<1>1. Len(s) \in Nat /\ Len(t) \in Nat
  OBVIOUS
<1>2. /\ s \o t \in Seq(Event)
      /\ Len(s \o t) = Len(s) + Len(t)
      /\ \A i \in 1..(Len(s) + Len(t)) : (s \o t)[i] = IF i <= Len(s) THEN s[i] ELSE t[i - Len(s)]
  BY ConcatProperties
<1>3. \A i \in 1..Len(s) : (s \o t)[i] = s[i]
  BY <1>1, <1>2
<1>4. ASSUME NEW i \in 1..Len(t) PROVE (s \o t)[Len(s) + i] = t[i]
  <2>1. Len(s) + i \in 1..(Len(s) + Len(t)) /\ ~(Len(s) + i <= Len(s)) /\ (Len(s) + i) - Len(s) = i
    BY <1>1
  <2> QED
    BY <1>2, <2>1
<1> QED
  BY <1>2, <1>3, <1>4

\* The page read_page takes: as much of the source as one page holds.
Page(o) ==
    read_window(source[day[o]], offset[o],
                IF PageSize < Len(source[day[o]]) - offset[o]
                THEN PageSize ELSE Len(source[day[o]]) - offset[o])

\* Type correctness: whatever fails or races, an opener holds offsets and pages
\* of the streams there are.
THEOREM TypeCorrect == Spec => []TypeOK
<1> USE StreamsAssumption
<1>1. Init => TypeOK
  <2> SUFFICES ASSUME Init PROVE TypeOK
    OBVIOUS
  <2>1. source \in [Days -> Seq(Event)]
    <3>1. \A n \in 0..MaxSource : [i \in 1..n |-> [by |-> "old", n |-> i]] \in Seq(Event)
      BY DEF Event
    <3> DEFINE Short == {[i \in 1..n |-> [by |-> "old", n |-> i]] : n \in 0..MaxSource}
    <3>2. Short \subseteq Seq(Event)
      BY <3>1
    <3>3. source \in [Days -> Short]
      BY DEF Init
    <3> HIDE DEF Short
    <3> QED
      BY <3>2, <3>3
  <2>2. done \in BOOLEAN /\ drained \in BOOLEAN
    BY Zenon DEF Init
  <2>3. target \in [Days -> Seq(Event)] /\ recorded \in [Days -> Seq(Event)]
    BY DEF Init
  <2>4. /\ pc \in [Openers -> States]
        /\ day \in [Openers -> Days]
        /\ names \in [Openers -> SUBSET Days]
        /\ values \in [Openers -> Seq(Event)]
    BY DEF Init, States, Days
  <2>5. /\ source_len \in [Openers -> Nat]
        /\ target_len \in [Openers -> Nat]
        /\ offset \in [Openers -> Nat]
        /\ budget \in [{"legacy", "record", "fault"} -> Nat]
    BY DEF Init
  <2> QED
    BY <2>1, <2>2, <2>3, <2>4, <2>5 DEF TypeOK
<1>3. TypeOK /\ [Next]_vars => TypeOK'
  <2> SUFFICES ASSUME TypeOK, [Next]_vars PROVE TypeOK'
    OBVIOUS
  <2> USE DEF TypeOK
  <2>a. ASSUME NEW o \in Openers, NEW ns \in SUBSET Days, NEW d \in Days, Restart(o, ns, d)
        PROVE  /\ names' \in [Openers -> SUBSET Days]
               /\ day' \in [Openers -> Days]
               /\ source_len' \in [Openers -> Nat]
               /\ target_len' \in [Openers -> Nat]
               /\ offset' \in [Openers -> Nat]
               /\ values' \in [Openers -> Seq(Event)]
    BY <2>a DEF Restart
  <2>b. ASSUME NEW o \in Openers, NEW s \in States, Goto(o, s) PROVE pc' \in [Openers -> States]
    BY <2>b DEF Goto
  <2>c. ASSUME NEW o \in Openers, Fail(o)
        PROVE  /\ names' \in [Openers -> SUBSET Days]
               /\ day' \in [Openers -> Days]
               /\ source_len' \in [Openers -> Nat]
               /\ target_len' \in [Openers -> Nat]
               /\ offset' \in [Openers -> Nat]
               /\ values' \in [Openers -> Seq(Event)]
               /\ pc' \in [Openers -> States]
    <3>1. 1 \in Days /\ "closed" \in States
      BY DEF Days, States
    <3> QED
      BY <2>a, <2>b, <2>c, <3>1 DEF Fail
  <2>d. \A s \in {"closed", "streams", "source_len", "target_len", "verify", "read", "append", "raced",
                  "len", "recheck", "mark", "open"} : s \in States
    BY DEF States
  <2>v. ASSUME NEW o \in Openers, NEW ns \in SUBSET Days, Visit(o, ns),
               UNCHANGED <<streams, done, drained, budget>>
        PROVE  TypeOK'
    <3>1. CASE Restart(o, {}, 1) /\ Goto(o, "mark")
      <4>1. 1 \in Days /\ {} \in SUBSET Days
        BY DEF Days
      <4>2. pc' \in [Openers -> States]
        BY <2>b, <2>d, <3>1
      <4> QED
        BY <2>a, <2>v, <3>1, <4>1, <4>2 DEF streams
    <3>2. ASSUME NEW d \in ns, Restart(o, ns \ {d}, d), Goto(o, "source_len") PROVE TypeOK'
      <4>1. d \in Days /\ ns \ {d} \in SUBSET Days
        OBVIOUS
      <4>2. pc' \in [Openers -> States]
        BY <2>b, <2>d, <3>2
      <4>3. /\ names' \in [Openers -> SUBSET Days]
            /\ day' \in [Openers -> Days]
            /\ source_len' \in [Openers -> Nat]
            /\ target_len' \in [Openers -> Nat]
            /\ offset' \in [Openers -> Nat]
            /\ values' \in [Openers -> Seq(Event)]
        BY <2>a, <3>2, <4>1
      <4> QED
        BY <2>v, <4>2, <4>3 DEF streams
    <3> QED
      BY <2>v, <3>1, <3>2 DEF Visit
  <2>e. \A d \in Days : Len(source[d]) \in Nat /\ Len(target[d]) \in Nat
    OBVIOUS
  <2>1. ASSUME NEW o \in Openers, prepare(o) PROVE TypeOK'
    BY <2>1, <2>b, <2>d DEF prepare, streams, locals
  <2>15. ASSUME NEW o \in Openers, list_streams(o) PROVE TypeOK'
    <3>1. {d \in Days : source[d] # <<>>} \in SUBSET Days
      OBVIOUS
    <3> QED
      BY <2>15, <2>v, <3>1 DEF list_streams
  <2>2. ASSUME NEW o \in Openers, read_source_len(o) PROVE TypeOK'
    BY <2>2, <2>b, <2>d, <2>e DEF read_source_len, streams
  <2>3. ASSUME NEW o \in Openers, read_target_len(o) PROVE TypeOK'
    <3>1. CASE Fail(o)
      BY <2>3, <2>c, <3>1 DEF read_target_len, streams
    <3>2. CASE /\ target_len' = [target_len EXCEPT ![o] = Len(target[day[o]])]
               /\ Goto(o, "verify")
               /\ UNCHANGED <<names, day, source_len, offset, values>>
      BY <2>3, <2>b, <2>d, <2>e, <3>2 DEF read_target_len, streams
    <3> QED
      BY <2>3, <3>1, <3>2 DEF read_target_len
  <2>4. ASSUME NEW o \in Openers, verify(o) PROVE TypeOK'
    BY <2>4, <2>b, <2>c, <2>d DEF verify, Copying, streams
  <2>5. ASSUME NEW o \in Openers, read_page(o) PROVE TypeOK'
    <3>1. CASE Fail(o) /\ UNCHANGED <<streams, done, drained, budget>>
      BY <2>c, <3>1 DEF streams
    <3>2. CASE /\ Page(o) # <<>>
               /\ values' = [values EXCEPT ![o] = Page(o)]
               /\ Goto(o, "append")
               /\ UNCHANGED <<names, day, source_len, target_len, offset>>
               /\ UNCHANGED <<streams, done, drained, budget>>
      <4>1. Page(o) \in Seq(Event)
        <5> DEFINE s == source[day[o]]
                   limit == IF PageSize < Len(s) - offset[o] THEN PageSize ELSE Len(s) - offset[o]
        <5>1. s \in Seq(Event) /\ limit \in Int /\ offset[o] \in Nat /\ Len(s) \in Nat
          OBVIOUS
        <5>2. offset[o] + limit <= Len(s)
          OBVIOUS
        <5>3. Page(o) = read_window(s, offset[o], limit)
          BY DEF Page
        <5> HIDE DEF s, limit
        <5>4. CASE limit >= 0
          BY <5>1, <5>2, <5>3, <5>4, WindowType
        <5>5. CASE limit < 0
          <6>1. SubSeq(s, offset[o] + 1, offset[o] + limit) = <<>>
            BY <5>1, <5>5, SubSeqEmpty
          <6> QED
            BY <5>3, <6>1, <3>2 DEF read_window
        <5> QED
          BY <5>1, <5>4, <5>5
      <4> QED
        BY <4>1, <3>2, <2>b, <2>d DEF streams
    <3> QED
      BY <2>5, <3>1, <3>2 DEF read_page, Page
  <2>6. ASSUME NEW o \in Openers, append_batch_if_offset(o) PROVE TypeOK'
    <3>1. target[day[o]] \o values[o] \in Seq(Event)
      BY ConcatProperties
    <3>2. target' \in [Days -> Seq(Event)]
      BY <2>6, <3>1 DEF append_batch_if_offset
    <3>3. pc' \in [Openers -> States]
      BY <2>6, <2>b, <2>d DEF append_batch_if_offset
    <3> QED
      BY <2>6, <3>2, <3>3 DEF append_batch_if_offset, locals
  <2>7. ASSUME NEW o \in Openers, reread(o) PROVE TypeOK'
    BY <2>7, <2>b, <2>c, <2>d DEF reread, streams, locals
  <2>8. ASSUME NEW o \in Openers, advance(o) PROVE TypeOK'
    BY <2>8, <2>b, <2>d, <2>e DEF advance, Copying, streams
  <2>9. ASSUME NEW o \in Openers, recheck(o) PROVE TypeOK'
    <3>1. CASE Fail(o) /\ UNCHANGED <<streams, done, drained, budget>>
      BY <2>c, <3>1 DEF streams
    <3>2. CASE Visit(o, names[o]) /\ UNCHANGED <<streams, done, drained, budget>>
      <4>1. names[o] \in SUBSET Days
        OBVIOUS
      <4> QED
        BY <2>v, <3>2, <4>1
    <3> QED
      BY <2>9, <3>1, <3>2 DEF recheck
  <2>10. ASSUME NEW o \in Openers, mark_done(o) PROVE TypeOK'
    BY <2>10, <2>b, <2>d DEF mark_done, streams, locals
  <2>11. ASSUME NEW o \in Openers, fail(o) PROVE TypeOK'
    <3>1. budget' \in [{"legacy", "record", "fault"} -> Nat]
      BY <2>11 DEF fail, Spend
    <3> QED
      BY <2>11, <2>c, <3>1 DEF fail, streams
  <2>12. ASSUME NEW o \in Openers, NEW d \in Days, record(o, d) PROVE TypeOK'
    <3>1. budget' \in [{"legacy", "record", "fault"} -> Nat]
      BY <2>12 DEF record, Spend
    <3>2. [by |-> "new", n |-> Len(recorded[d]) + 1] \in Event
      BY DEF Event
    <3>3. target' \in [Days -> Seq(Event)] /\ recorded' \in [Days -> Seq(Event)]
      BY <2>12, <3>2, AppendProperties DEF record
    <3> QED
      BY <2>12, <3>1, <3>3 DEF record, locals
  <2>13. ASSUME NEW d \in Days, LegacyAppend(d) PROVE TypeOK'
    <3>1. budget' \in [{"legacy", "record", "fault"} -> Nat]
      BY <2>13 DEF LegacyAppend, Spend
    <3>2. [by |-> "old", n |-> Len(source[d]) + 1] \in Event
      BY DEF Event
    <3>3. source' \in [Days -> Seq(Event)]
      BY <2>13, <3>2, AppendProperties DEF LegacyAppend
    <3> QED
      BY <2>13, <3>1, <3>3 DEF LegacyAppend, locals
  <2>14. CASE UNCHANGED vars
    BY <2>14 DEF vars, streams, locals
  <2> QED
    BY <2>1, <2>2, <2>3, <2>4, <2>5, <2>6, <2>7, <2>8, <2>9, <2>10, <2>11, <2>12, <2>13, <2>14, <2>15
    DEF Next, Step
<1> QED
  BY <1>1, <1>3, PTL DEF Spec

-----------------------------------------------------------------------------
\* Nothing is recorded, and no instance open, before the marker is set.
OpenedInv ==
    /\ \A o \in Openers : pc[o] = "open" => done
    /\ \A d \in Days : recorded[d] # <<>> => done

\* prepare answers with an open store only behind the marker, and only an open
\* store records.
LEMMA Opened == Spec => []OpenedInv
<1>1. Init => OpenedInv
  BY DEF Init, OpenedInv
<1>2. TypeOK /\ OpenedInv /\ [Next]_vars => OpenedInv'
  <2> SUFFICES ASSUME TypeOK, OpenedInv, [Next]_vars PROVE OpenedInv'
    OBVIOUS
  <2>0. pc \in [Openers -> States] /\ recorded \in [Days -> Seq(Event)]
    BY DEF TypeOK
  <2> USE <2>0 DEF OpenedInv, Goto
  <2>a. ASSUME NEW o \in Openers, Fail(o), UNCHANGED <<recorded, done>> PROVE OpenedInv'
    BY <2>a DEF Fail
  <2>15. ASSUME NEW o \in Openers, list_streams(o) PROVE OpenedInv'
    BY <2>15 DEF list_streams, Visit, streams
  <2>1. ASSUME NEW o \in Openers, prepare(o) PROVE OpenedInv'
    BY <2>1 DEF prepare, streams
  <2>2. ASSUME NEW o \in Openers, read_source_len(o) PROVE OpenedInv'
    BY <2>2 DEF read_source_len, streams
  <2>3. ASSUME NEW o \in Openers, read_target_len(o) PROVE OpenedInv'
    BY <2>3, <2>a DEF read_target_len, streams
  <2>4. ASSUME NEW o \in Openers, verify(o) PROVE OpenedInv'
    BY <2>4, <2>a DEF verify, Copying, streams
  <2>5. ASSUME NEW o \in Openers, read_page(o) PROVE OpenedInv'
    BY <2>5, <2>a DEF read_page, streams
  <2>6. ASSUME NEW o \in Openers, append_batch_if_offset(o) PROVE OpenedInv'
    BY <2>6 DEF append_batch_if_offset
  <2>7. ASSUME NEW o \in Openers, reread(o) PROVE OpenedInv'
    BY <2>7, <2>a DEF reread, streams
  <2>8. ASSUME NEW o \in Openers, advance(o) PROVE OpenedInv'
    BY <2>8 DEF advance, Copying, streams
  <2>9. ASSUME NEW o \in Openers, recheck(o) PROVE OpenedInv'
    BY <2>9, <2>a DEF recheck, Visit, streams
  <2>10. ASSUME NEW o \in Openers, mark_done(o) PROVE OpenedInv'
    BY <2>10 DEF mark_done
  <2>11. ASSUME NEW o \in Openers, fail(o) PROVE OpenedInv'
    BY <2>11, <2>a DEF fail, streams
  <2>12. ASSUME NEW o \in Openers, NEW d \in Days, record(o, d) PROVE OpenedInv'
    BY <2>12 DEF record
  <2>13. ASSUME NEW d \in Days, LegacyAppend(d) PROVE OpenedInv'
    BY <2>13 DEF LegacyAppend
  <2>14. CASE UNCHANGED vars
    BY <2>14 DEF vars, streams
  <2> QED
    BY <2>1, <2>2, <2>3, <2>4, <2>5, <2>6, <2>7, <2>8, <2>9, <2>10, <2>11, <2>12, <2>13, <2>14, <2>15
    DEF Next, Step
<1> QED
  BY <1>1, <1>2, TypeCorrect, PTL DEF Spec

-----------------------------------------------------------------------------
\* Streams are append-only: a step keeps what they hold.
Grows ==
    \A d \in Days :
        /\ Len(source[d]) \in Nat /\ Len(source'[d]) \in Nat
        /\ Len(target[d]) \in Nat /\ Len(target'[d]) \in Nat
        /\ Len(source[d]) <= Len(source'[d])
        /\ Len(target[d]) <= Len(target'[d])
        /\ \A i \in 1..Len(source[d]) : source'[d][i] = source[d][i]
        /\ \A i \in 1..Len(target[d]) : target'[d][i] = target[d][i]

\* No operation shortens a stream or rewrites an event of it.
LEMMA StreamsGrow == TypeOK /\ [Next]_vars => Grows
<1> SUFFICES ASSUME TypeOK, [Next]_vars PROVE Grows
  OBVIOUS
<1>0. /\ source \in [Days -> Seq(Event)] /\ target \in [Days -> Seq(Event)]
      /\ values \in [Openers -> Seq(Event)] /\ day \in [Openers -> Days]
  BY DEF TypeOK
<1>a. ASSUME UNCHANGED <<source, target>> PROVE Grows
  BY <1>0, <1>a DEF Grows
<1>1. ASSUME NEW o \in Openers, append_batch_if_offset(o) PROVE Grows
  <2>1. CASE UNCHANGED target
    BY <1>1, <1>a, <2>1 DEF append_batch_if_offset
  <2>2. CASE target' = [target EXCEPT ![day[o]] = @ \o values[o]]
    <3>1. \A d \in Days : target'[d] = target[d] \/ target'[d] = target[d] \o values[o]
      BY <1>0, <2>2
    <3>2. \A d \in Days :
             /\ Len(target[d] \o values[o]) = Len(target[d]) + Len(values[o])
             /\ \A i \in 1..Len(target[d]) : (target[d] \o values[o])[i] = target[d][i]
      BY <1>0, ConcatKeeps
    <3>3. UNCHANGED source
      BY <1>1 DEF append_batch_if_offset
    <3>4. \A d \in Days : Len(target[d]) \in Nat /\ Len(source[d]) \in Nat
      BY <1>0
    <3>5. Len(values[o]) \in Nat
      BY <1>0
    <3>6. \A d \in Days :
             /\ Len(target'[d]) \in Nat /\ Len(target[d]) <= Len(target'[d])
             /\ \A i \in 1..Len(target[d]) : target'[d][i] = target[d][i]
      <4> SUFFICES ASSUME NEW d \in Days
                   PROVE  /\ Len(target'[d]) \in Nat /\ Len(target[d]) <= Len(target'[d])
                          /\ \A i \in 1..Len(target[d]) : target'[d][i] = target[d][i]
        OBVIOUS
      <4>1. CASE target'[d] = target[d]
        BY <3>4, <4>1
      <4>2. CASE target'[d] = target[d] \o values[o]
        <5>1. Len(target'[d]) = Len(target[d]) + Len(values[o])
          BY <3>2, <4>2, Zenon
        <5>2. Len(target[d]) \in Nat /\ Len(values[o]) \in Nat
          BY <3>4, <3>5
        <5>3. Len(target'[d]) \in Nat /\ Len(target[d]) <= Len(target'[d])
          <6>1. \A m, n \in Nat : m + n \in Nat /\ m <= m + n
            OBVIOUS
          <6> QED
            BY <5>1, <5>2, <6>1, Zenon
        <5>4. \A i \in 1..Len(target[d]) : target'[d][i] = target[d][i]
          BY <3>2, <4>2, Zenon
        <5> QED
          BY <5>3, <5>4
      <4> QED
        BY <3>1, <4>1, <4>2
    <3> QED
      BY <3>3, <3>4, <3>6 DEF Grows
  <2> QED
    BY <1>1, <2>1, <2>2 DEF append_batch_if_offset
<1>2. ASSUME NEW o \in Openers, NEW d \in Days, record(o, d) PROVE Grows
  <2> DEFINE event == [by |-> "new", n |-> Len(recorded[d]) + 1]
  <2>1. event \in Event
    BY DEF Event, TypeOK
  <2>2. UNCHANGED source /\ target' = [target EXCEPT ![d] = Append(@, event)]
    BY <1>2 DEF record
  <2> HIDE DEF event
  <2> QED
    BY <1>0, <2>1, <2>2, AppendProperties DEF Grows
<1>3. ASSUME NEW d \in Days, LegacyAppend(d) PROVE Grows
  <2> DEFINE event == [by |-> "old", n |-> Len(source[d]) + 1]
  <2>1. event \in Event
    BY DEF Event, TypeOK
  <2>2. UNCHANGED target /\ source' = [source EXCEPT ![d] = Append(@, event)]
    BY <1>3 DEF LegacyAppend
  <2> HIDE DEF event
  <2> QED
    BY <1>0, <2>1, <2>2, AppendProperties DEF Grows
<1>4. CASE UNCHANGED vars
  BY <1>4, <1>a DEF vars, streams
<1>5. ASSUME NEW o \in Openers,
             \/ prepare(o) \/ list_streams(o) \/ read_source_len(o) \/ read_target_len(o) \/ verify(o)
             \/ read_page(o) \/ reread(o) \/ advance(o) \/ recheck(o) \/ mark_done(o)
             \/ fail(o)
      PROVE Grows
  BY <1>5, <1>a DEF prepare, list_streams, read_source_len, read_target_len, verify, read_page, reread,
                    advance, recheck, mark_done, fail, streams
<1> QED
  BY <1>1, <1>2, <1>3, <1>4, <1>5 DEF Next, Step

-----------------------------------------------------------------------------
\* What an opener's locals say of the streams wherever it is: the lengths it
\* read are still there, its offset lies within the target and, until it has
\* caught up, within the source, and its page is the source's at that offset.
Cursor(o) ==
    /\ pc[o] \in {"target_len", "verify", "read", "append", "raced", "len", "recheck"}
          => source_len[o] <= Len(source[day[o]])
    /\ pc[o] = "verify" => target_len[o] <= source_len[o] /\ target_len[o] <= Len(target[day[o]])
    /\ pc[o] \in {"read", "append", "raced", "len", "recheck"} => offset[o] <= Len(target[day[o]])
    /\ pc[o] \in {"read", "append", "raced", "len"} => offset[o] < source_len[o]
    /\ pc[o] = "recheck" => offset[o] >= source_len[o]
    /\ pc[o] \in {"append", "raced", "len"}
          => /\ offset[o] + Len(values[o]) <= Len(source[day[o]])
             /\ \A i \in 1..Len(values[o]) : values[o][i] = source[day[o]][offset[o] + i]

CursorInv == \A o \in Openers : Cursor(o)

\* Another's step, or the growth of a stream, leaves an opener's locals right.
LEMMA CursorStays ==
    ASSUME TypeOK, Grows, NEW p \in Openers, Cursor(p), pc'[p] = pc[p], day'[p] = day[p],
           source_len'[p] = source_len[p], target_len'[p] = target_len[p],
           offset'[p] = offset[p], values'[p] = values[p]
    PROVE  Cursor(p)'
<1> DEFINE d == day[p]
<1>1. d \in Days /\ offset[p] \in Nat /\ source_len[p] \in Nat /\ target_len[p] \in Nat
      /\ Len(values[p]) \in Nat
  BY DEF TypeOK
<1>2. /\ Len(source[d]) \in Nat /\ Len(source'[d]) \in Nat
      /\ Len(target[d]) \in Nat /\ Len(target'[d]) \in Nat
      /\ Len(source[d]) <= Len(source'[d])
      /\ Len(target[d]) <= Len(target'[d])
      /\ \A i \in 1..Len(source[d]) : source'[d][i] = source[d][i]
  BY <1>1 DEF Grows
<1>3. day'[p] = d
  OBVIOUS
<1>4. ASSUME pc[p] \in {"append", "raced", "len"}
      PROVE  /\ offset[p] + Len(values[p]) <= Len(source'[d])
             /\ \A i \in 1..Len(values[p]) : values[p][i] = source'[d][offset[p] + i]
  <2>1. /\ offset[p] + Len(values[p]) <= Len(source[d])
        /\ \A i \in 1..Len(values[p]) : values[p][i] = source[d][offset[p] + i]
    BY <1>4 DEF Cursor
  <2>2. \A i \in 1..Len(values[p]) : offset[p] + i \in 1..Len(source[d])
    BY <1>1, <1>2, <2>1
  <2>3. \A i \in 1..Len(values[p]) : values[p][i] = source'[d][offset[p] + i]
    BY <1>2, <2>1, <2>2
  <2>4. offset[p] + Len(values[p]) \in Nat
    BY <1>1
  <2>5. \A a, b, c \in Nat : a <= b /\ b <= c => a <= c
    OBVIOUS
  <2>6. offset[p] + Len(values[p]) <= Len(source'[d])
    BY <1>2, <2>1, <2>4, <2>5, Zenon
  <2> QED
    BY <2>3, <2>6
<1>5. \A a, b, c \in Nat : a <= b /\ b <= c => a <= c
  OBVIOUS
<1>6. pc[p] \in {"target_len", "verify", "read", "append", "raced", "len", "recheck"}
         => source_len[p] <= Len(source'[d])
  <2>1. source_len[p] <= Len(source[d]) => source_len[p] <= Len(source'[d])
    BY <1>1, <1>2, <1>5, Zenon
  <2> QED
    BY <2>1 DEF Cursor
<1>7. pc[p] = "verify" => target_len[p] <= source_len[p] /\ target_len[p] <= Len(target'[d])
  <2>1. target_len[p] <= Len(target[d]) => target_len[p] <= Len(target'[d])
    BY <1>1, <1>2, <1>5, Zenon
  <2> QED
    BY <2>1 DEF Cursor
<1>8. pc[p] \in {"read", "append", "raced", "len", "recheck"} => offset[p] <= Len(target'[d])
  <2>1. offset[p] <= Len(target[d]) => offset[p] <= Len(target'[d])
    BY <1>1, <1>2, <1>5, Zenon
  <2> QED
    BY <2>1 DEF Cursor
<1> HIDE DEF d
<1> QED
  BY <1>3, <1>4, <1>6, <1>7, <1>8 DEF Cursor

\* Whatever others copy, record or append meanwhile, an opener's lengths, offset
\* and page stay right for the streams it copies.
LEMMA CursorsRight == Spec => []CursorInv
<1>1. Init => CursorInv
  BY DEF Init, CursorInv, Cursor
<1>2. TypeOK /\ CursorInv /\ [Next]_vars => CursorInv'
  <2> SUFFICES ASSUME TypeOK, CursorInv, [Next]_vars, NEW p \in Openers PROVE Cursor(p)'
    BY DEF CursorInv
  <2>0. /\ pc \in [Openers -> States] /\ day \in [Openers -> Days]
        /\ source_len \in [Openers -> Nat] /\ target_len \in [Openers -> Nat]
        /\ offset \in [Openers -> Nat] /\ values \in [Openers -> Seq(Event)]
    BY DEF TypeOK
  <2>g. Grows
    BY StreamsGrow
  <2>c. Cursor(p)
    BY DEF CursorInv
  <2>s. ASSUME UNCHANGED <<pc, locals>> PROVE Cursor(p)'
    BY <2>s, <2>c, <2>g, CursorStays DEF locals
  <2>f. ASSUME NEW o \in Openers, NEW ns, NEW d, NEW s, Restart(o, ns, d), Goto(o, s),
               s \in {"closed", "source_len", "mark"} PROVE Cursor(p)'
    <3>1. CASE p = o
      <4>1. pc'[p] = s
        BY <2>f, <2>0, <3>1 DEF Goto
      <4> QED
        BY <2>f, <4>1 DEF Cursor
    <3>2. CASE p # o
      BY <2>f, <3>2, <2>0, <2>c, <2>g, CursorStays DEF Restart, Goto
    <3> QED
      BY <3>1, <3>2
  <2>x. ASSUME NEW o \in Openers, Fail(o) PROVE Cursor(p)'
    BY <2>x, <2>f DEF Fail
  <2>v. ASSUME NEW o \in Openers, NEW ns, Visit(o, ns) PROVE Cursor(p)'
    BY <2>v, <2>f DEF Visit
  <2>1. ASSUME NEW o \in Openers, prepare(o) PROVE Cursor(p)'
    <3>1. CASE p = o
      <4>1. pc'[p] \in {"open", "streams"}
        BY <2>1, <3>1, <2>0 DEF prepare, Goto
      <4> QED
        BY <4>1 DEF Cursor
    <3>2. CASE p # o
      BY <2>1, <3>2, <2>0, <2>c, <2>g, CursorStays DEF prepare, Goto, locals
    <3> QED
      BY <3>1, <3>2
  <2>2. ASSUME NEW o \in Openers, read_source_len(o) PROVE Cursor(p)'
    <3>1. CASE p = o
      <4>1. pc'[p] = "target_len" /\ source_len'[p] = Len(source[day[p]]) /\ UNCHANGED <<source, day>>
        BY <2>2, <3>1, <2>0 DEF read_source_len, Goto, streams
      <4>2. Len(source[day[p]]) \in Nat
        BY DEF TypeOK
      <4> QED
        BY <4>1, <4>2 DEF Cursor
    <3>2. CASE p # o
      BY <2>2, <3>2, <2>0, <2>c, <2>g, CursorStays DEF read_source_len, Goto, locals
    <3> QED
      BY <3>1, <3>2
  <2>3. ASSUME NEW o \in Openers, read_target_len(o) PROVE Cursor(p)'
    <3>1. CASE Fail(o)
      BY <2>x, <3>1
    <3>2. CASE /\ Len(target[day[o]]) <= source_len[o]
               /\ target_len' = [target_len EXCEPT ![o] = Len(target[day[o]])]
               /\ Goto(o, "verify")
               /\ UNCHANGED <<names, day, source_len, offset, values>>
      <4>1. CASE p = o
        <5>1. /\ pc'[p] = "verify" /\ target_len'[p] = Len(target[day[p]])
              /\ UNCHANGED <<source, target, day, source_len>>
          BY <2>3, <3>2, <4>1, <2>0 DEF read_target_len, Goto, streams
        <5>2. Len(target[day[p]]) \in Nat
          BY DEF TypeOK
        <5>3. pc[p] = "target_len"
          BY <2>3, <4>1 DEF read_target_len
        <5> QED
          BY <5>1, <5>2, <5>3, <3>2, <4>1, <2>c DEF Cursor
      <4>2. CASE p # o
        BY <3>2, <4>2, <2>0, <2>c, <2>g, CursorStays DEF Goto
      <4> QED
        BY <4>1, <4>2
    <3> QED
      BY <2>3, <3>1, <3>2 DEF read_target_len
  <2>4. ASSUME NEW o \in Openers, verify(o) PROVE Cursor(p)'
    <3>1. CASE Fail(o)
      BY <2>x, <3>1
    <3>2. CASE /\ offset' = [offset EXCEPT ![o] = target_len[o]]
               /\ Goto(o, Copying(o, target_len[o]))
               /\ UNCHANGED <<names, day, source_len, target_len, values>>
      <4>1. CASE p = o
        <5>1. /\ pc'[p] = Copying(p, target_len[p]) /\ offset'[p] = target_len[p]
              /\ UNCHANGED <<source, target, day, source_len>>
          BY <2>4, <3>2, <4>1, <2>0 DEF verify, Goto, streams
        <5>2. pc[p] = "verify" /\ target_len[p] \in Nat /\ source_len[p] \in Nat
          BY <2>4, <4>1, <2>0 DEF verify
        <5>3. CASE target_len[p] < source_len[p]
          BY <5>1, <5>2, <5>3, <2>c DEF Cursor, Copying
        <5>4. CASE ~(target_len[p] < source_len[p])
          BY <5>1, <5>2, <5>4, <2>c DEF Cursor, Copying
        <5> QED
          BY <5>3, <5>4
      <4>2. CASE p # o
        BY <3>2, <4>2, <2>0, <2>c, <2>g, CursorStays DEF Goto
      <4> QED
        BY <4>1, <4>2
    <3> QED
      BY <2>4, <3>1, <3>2 DEF verify
  <2>5. ASSUME NEW o \in Openers, read_page(o) PROVE Cursor(p)'
    <3>1. CASE Fail(o)
      BY <2>x, <3>1
    <3>2. CASE /\ values' = [values EXCEPT ![o] = Page(o)]
               /\ Goto(o, "append")
               /\ UNCHANGED <<names, day, source_len, target_len, offset>>
      <4>1. CASE p = o
        <5> DEFINE s == source[day[p]]
                   limit == IF PageSize < Len(s) - offset[p] THEN PageSize ELSE Len(s) - offset[p]
        <5>1. /\ pc'[p] = "append" /\ values'[p] = Page(p)
              /\ UNCHANGED <<source, target, day, source_len, offset>>
          BY <2>5, <3>2, <4>1, <2>0 DEF read_page, Goto, streams
        <5>2. /\ pc[p] = "read" /\ offset[p] \in Nat /\ source_len[p] \in Nat
              /\ s \in Seq(Event) /\ Len(s) \in Nat
          BY <2>5, <4>1, <2>0 DEF read_page, TypeOK
        <5>3. offset[p] < source_len[p] /\ source_len[p] <= Len(s) /\ offset[p] <= Len(target[day[p]])
          BY <5>2, <2>c DEF Cursor
        <5>4. limit \in Nat /\ offset[p] + limit <= Len(s)
          BY <5>2, <5>3, StreamsAssumption
        <5>5. Page(p) = read_window(s, offset[p], limit)
          BY DEF Page
        <5> HIDE DEF s, limit
        <5>6. Len(Page(p)) = limit /\ \A i \in 1..limit : Page(p)[i] = s[offset[p] + i]
          <6> DEFINE from == offset[p]
          <6>1. s \in Seq(Event) /\ from \in Nat /\ limit \in Nat /\ from + limit <= Len(s)
            BY <5>2, <5>4
          <6>2. Page(p) = read_window(s, from, limit)
            BY <5>5
          <6> HIDE DEF from
          <6>3. /\ Len(read_window(s, from, limit)) = limit
                /\ \A i \in 1..limit : read_window(s, from, limit)[i] = s[from + i]
            BY <6>1, WindowType, Zenon
          <6> QED
            BY <6>2, <6>3 DEF from
        <5>7. Len(values'[p]) = limit /\ \A i \in 1..limit : values'[p][i] = s[offset[p] + i]
          BY <5>1, <5>6, Zenon
        <5>8. pc'[p] = "append" /\ s = source'[day'[p]] /\ UNCHANGED <<target, day, source_len, offset>>
          BY <5>1 DEF s
        <5>9. /\ offset'[p] + Len(values'[p]) <= Len(source'[day'[p]])
              /\ \A i \in 1..Len(values'[p]) : values'[p][i] = source'[day'[p]][offset'[p] + i]
          BY <5>4, <5>7, <5>8
        <5> QED
          BY <5>3, <5>8, <5>9 DEF Cursor
      <4>2. CASE p # o
        BY <3>2, <4>2, <2>0, <2>c, <2>g, CursorStays DEF Goto
      <4> QED
        BY <4>1, <4>2
    <3> QED
      BY <2>5, <3>1, <3>2 DEF read_page, Page
  <2>6. ASSUME NEW o \in Openers, append_batch_if_offset(o) PROVE Cursor(p)'
    <3>1. CASE p = o
      <4>1. /\ pc'[p] \in {"len", "raced"} /\ pc[p] = "append"
            /\ UNCHANGED <<source, day, source_len, offset, values>>
        BY <2>6, <3>1, <2>0 DEF append_batch_if_offset, Goto, locals
      <4>2. offset[p] <= Len(target'[day[p]])
        <5>1. \A a, b, c \in Nat : a <= b /\ b <= c => a <= c
          OBVIOUS
        <5>2. offset[p] <= Len(target[day[p]])
          BY <4>1, <2>c DEF Cursor
        <5>3. day[p] \in Days /\ offset[p] \in Nat
          BY <2>0
        <5> QED
          BY <5>1, <5>2, <5>3, <2>g, Zenon DEF Grows
      <4> QED
        BY <4>1, <4>2, <2>c DEF Cursor
    <3>2. CASE p # o
      BY <2>6, <3>2, <2>0, <2>c, <2>g, CursorStays DEF append_batch_if_offset, Goto, locals
    <3> QED
      BY <3>1, <3>2
  <2>7. ASSUME NEW o \in Openers, reread(o) PROVE Cursor(p)'
    <3>1. CASE Fail(o)
      BY <2>x, <3>1
    <3>2. CASE Goto(o, "len") /\ UNCHANGED locals
      <4>1. CASE p = o
        <5>1. pc'[p] = "len" /\ pc[p] = "raced" /\ UNCHANGED <<source, target, locals>>
          BY <2>7, <3>2, <4>1, <2>0 DEF reread, Goto, streams
        <5> QED
          BY <5>1, <2>c DEF Cursor, locals
      <4>2. CASE p # o
        BY <3>2, <4>2, <2>0, <2>c, <2>g, CursorStays DEF Goto, locals
      <4> QED
        BY <4>1, <4>2
    <3> QED
      BY <2>7, <3>1, <3>2 DEF reread
  <2>8. ASSUME NEW o \in Openers, advance(o) PROVE Cursor(p)'
    <3>1. CASE p = o
      <4>1. /\ pc[p] = "len" /\ pc'[p] = Copying(p, Len(target[day[p]]))
            /\ offset'[p] = Len(target[day[p]])
            /\ UNCHANGED <<source, target, day, source_len>>
        BY <2>8, <3>1, <2>0 DEF advance, Goto, streams
      <4>2. Len(target[day[p]]) \in Nat /\ source_len[p] \in Nat
        BY DEF TypeOK
      <4>3. CASE Len(target[day[p]]) < source_len[p]
        BY <4>1, <4>2, <4>3, <2>c DEF Cursor, Copying
      <4>4. CASE ~(Len(target[day[p]]) < source_len[p])
        BY <4>1, <4>2, <4>4, <2>c DEF Cursor, Copying
      <4> QED
        BY <4>3, <4>4
    <3>2. CASE p # o
      BY <2>8, <3>2, <2>0, <2>c, <2>g, CursorStays DEF advance, Goto
    <3> QED
      BY <3>1, <3>2
  <2>9. ASSUME NEW o \in Openers, recheck(o) PROVE Cursor(p)'
    BY <2>9, <2>v, <2>x DEF recheck
  <2>15. ASSUME NEW o \in Openers, list_streams(o) PROVE Cursor(p)'
    BY <2>15, <2>v DEF list_streams
  <2>10. ASSUME NEW o \in Openers, mark_done(o) PROVE Cursor(p)'
    <3>1. CASE p = o
      <4>1. pc'[p] = "open"
        BY <2>10, <3>1, <2>0 DEF mark_done, Goto
      <4> QED
        BY <4>1 DEF Cursor
    <3>2. CASE p # o
      BY <2>10, <3>2, <2>0, <2>c, <2>g, CursorStays DEF mark_done, Goto, locals
    <3> QED
      BY <3>1, <3>2
  <2>11. ASSUME NEW o \in Openers, fail(o) PROVE Cursor(p)'
    BY <2>11, <2>x DEF fail
  <2>12. ASSUME NEW o \in Openers, NEW d \in Days, record(o, d) PROVE Cursor(p)'
    BY <2>12, <2>s DEF record
  <2>13. ASSUME NEW d \in Days, LegacyAppend(d) PROVE Cursor(p)'
    BY <2>13, <2>s DEF LegacyAppend
  <2>14. CASE UNCHANGED vars
    BY <2>14, <2>s DEF vars
  <2> QED
    BY <2>1, <2>2, <2>3, <2>4, <2>5, <2>6, <2>7, <2>8, <2>9, <2>10, <2>11, <2>12, <2>13, <2>14, <2>15
    DEF Next, Step
<1> QED
  BY <1>1, <1>2, TypeCorrect, PTL DEF Spec

-----------------------------------------------------------------------------
\* Every legacy event of target t stands where source s has it.
Placed(t, s) == \A i \in 1..Len(t) : t[i].by = "old" => i <= Len(s) /\ t[i] = s[i]

\* Target t is a prefix of source s, then the recorded events r.
PrefixThen(t, s, r) ==
    /\ Len(t) - Len(r) \in 0..Len(s)
    /\ \A i \in 1..(Len(t) - Len(r)) : t[i] = s[i]
    /\ \A i \in 1..Len(r) : t[Len(t) - Len(r) + i] = r[i]

\* An event appended to a stream follows it and changes none of it.
LEMMA AppendKeeps ==
    ASSUME NEW s \in Seq(Event), NEW e \in Event
    PROVE  /\ Append(s, e) \in Seq(Event)
           /\ Len(s) \in Nat /\ Len(Append(s, e)) = Len(s) + 1
           /\ \A i \in 1..Len(s) : Append(s, e)[i] = s[i]
           /\ Append(s, e)[Len(s) + 1] = e
BY AppendProperties

\* A page appended at the offset it was read from lands event by event.
LEMMA PageLands ==
    ASSUME NEW s \in Seq(Event), NEW t \in Seq(Event), NEW v \in Seq(Event),
           Len(t) + Len(v) <= Len(s), \A i \in 1..Len(v) : v[i] = s[Len(t) + i]
    PROVE  /\ Placed(t, s) => Placed(t \o v, s)
           /\ PrefixThen(t, s, <<>>) => PrefixThen(t \o v, s, <<>>)
<1> DEFINE w == t \o v
<1>1. /\ Len(t) \in Nat /\ Len(v) \in Nat /\ Len(s) \in Nat
      /\ Len(w) = Len(t) + Len(v)
      /\ \A i \in 1..Len(t) : w[i] = t[i]
      /\ \A i \in 1..Len(v) : w[Len(t) + i] = v[i]
  BY ConcatKeeps
<1> HIDE DEF w
<1>2. ASSUME NEW i \in 1..Len(w), i > Len(t) PROVE w[i] = s[i] /\ i <= Len(s)
  <2>1. i - Len(t) \in 1..Len(v) /\ Len(t) + (i - Len(t)) = i /\ i <= Len(s)
    BY <1>1, <1>2
  <2> QED
    BY <1>1, <2>1
<1>3. ASSUME Placed(t, s) PROVE Placed(w, s)
  <2>1. ASSUME NEW i \in 1..Len(w), w[i].by = "old" PROVE i <= Len(s) /\ w[i] = s[i]
    <3>1. CASE i <= Len(t)
      BY <1>1, <1>3, <2>1, <3>1 DEF Placed
    <3>2. CASE i > Len(t)
      BY <1>2, <3>2
    <3> QED
      BY <1>1, <3>1, <3>2
  <2> QED
    BY <2>1 DEF Placed
<1>4. ASSUME PrefixThen(t, s, <<>>) PROVE PrefixThen(w, s, <<>>)
  <2>1. Len(<<>>) = 0
    BY EmptySeq
  <2>2. ASSUME NEW i \in 1..Len(w) PROVE w[i] = s[i]
    <3>1. CASE i <= Len(t)
      BY <1>1, <1>4, <2>1, <3>1 DEF PrefixThen
    <3>2. CASE i > Len(t)
      BY <1>2, <3>2
    <3> QED
      BY <1>1, <3>1, <3>2
  <2> QED
    BY <1>1, <2>1, <2>2 DEF PrefixThen
<1> QED
  BY <1>3, <1>4 DEF w

\* A recorded event keeps what was copied in its place.
LEMMA EventLands ==
    ASSUME NEW s \in Seq(Event), NEW t \in Seq(Event), NEW r \in Seq(Event),
           NEW e \in Event, e.by = "new"
    PROVE  /\ Placed(t, s) => Placed(Append(t, e), s)
           /\ PrefixThen(t, s, r) => PrefixThen(Append(t, e), s, Append(r, e))
<1> DEFINE u == Append(t, e)  q == Append(r, e)
<1>1. /\ Len(t) \in Nat /\ Len(u) = Len(t) + 1 /\ u[Len(t) + 1] = e
      /\ \A i \in 1..Len(t) : u[i] = t[i]
  BY AppendKeeps
<1>2. /\ Len(r) \in Nat /\ Len(q) = Len(r) + 1 /\ q[Len(r) + 1] = e
      /\ \A i \in 1..Len(r) : q[i] = r[i]
  BY AppendKeeps
<1>3. Len(s) \in Nat
  OBVIOUS
<1> HIDE DEF u, q
<1>4. ASSUME Placed(t, s) PROVE Placed(u, s)
  BY <1>1, <1>4 DEF Placed
<1>5. ASSUME PrefixThen(t, s, r) PROVE PrefixThen(u, s, q)
  <2> DEFINE c == Len(t) - Len(r)
  <2>1. Len(u) - Len(q) = c /\ c \in 0..Len(s)
    BY <1>1, <1>2, <1>5 DEF PrefixThen
  <2>2. \A i \in 1..c : u[i] = s[i]
    BY <1>1, <1>2, <1>5, <2>1 DEF PrefixThen
  <2>3. ASSUME NEW i \in 1..Len(q) PROVE u[c + i] = q[i]
    <3>1. CASE i = Len(r) + 1
      <4>1. c + i = Len(t) + 1
        BY <1>1, <1>2, <3>1
      <4> QED
        BY <1>1, <1>2, <3>1, <4>1
    <3>2. CASE i \in 1..Len(r)
      <4>1. c + i \in 1..Len(t)
        BY <1>1, <1>2, <2>1, <3>2
      <4>2. t[c + i] = r[i]
        BY <1>5, <3>2 DEF PrefixThen
      <4> QED
        BY <1>1, <1>2, <3>2, <4>1, <4>2
    <3> QED
      BY <1>2, <3>1, <3>2
  <2> HIDE DEF c
  <2> QED
    BY <2>1, <2>2, <2>3 DEF PrefixThen
<1> QED
  BY <1>4, <1>5 DEF u, q

\* A legacy event appended to the source moves none before it.
LEMMA SourceGrows ==
    ASSUME NEW s \in Seq(Event), NEW t \in Seq(Event), NEW e \in Event, Placed(t, s)
    PROVE  Placed(t, Append(s, e))
<1> DEFINE u == Append(s, e)
<1>1. /\ Len(s) \in Nat /\ Len(u) = Len(s) + 1
      /\ \A i \in 1..Len(s) : u[i] = s[i]
  BY AppendKeeps
<1>2. Len(t) \in Nat
  OBVIOUS
<1> HIDE DEF u
<1>3. Placed(t, u)
  BY <1>1, <1>2 DEF Placed
<1> QED
  BY <1>3 DEF u

\* Event by event is the same as the concatenation CopyThenNew speaks of.
LEMMA PrefixIsConcat ==
    ASSUME NEW s \in Seq(Event), NEW t \in Seq(Event), NEW r \in Seq(Event), PrefixThen(t, s, r)
    PROVE  t = SubSeq(s, 1, Len(t) - Len(r)) \o r
<1> DEFINE c == Len(t) - Len(r)
           x == read_window(s, 0, c)
<1>1. Len(t) \in Nat /\ Len(r) \in Nat /\ Len(s) \in Nat /\ c \in 0..Len(s)
  BY DEF PrefixThen
<1>2. c \in Nat /\ 0 + c <= Len(s)
  BY <1>1
<1>3. x = SubSeq(s, 1, c)
  BY <1>2 DEF read_window
<1> HIDE DEF c
<1>4. x \in Seq(Event) /\ Len(x) = c /\ \A i \in 1..c : x[i] = s[0 + i]
  BY <1>2, WindowType
<1> HIDE DEF x
<1> DEFINE y == x \o r
<1>5. /\ y \in Seq(Event) /\ Len(y) = Len(x) + Len(r)
      /\ \A i \in 1..Len(x) : y[i] = x[i]
      /\ \A i \in 1..Len(r) : y[Len(x) + i] = r[i]
  BY <1>4, ConcatKeeps
<1> HIDE DEF y
<1>6. Len(y) = Len(t)
  BY <1>1, <1>4, <1>5 DEF c
<1>7. ASSUME NEW i \in 1..Len(t) PROVE t[i] = y[i]
  <2>1. CASE i <= c
    <3>1. i \in 1..c /\ 0 + i = i
      BY <1>1, <1>2, <2>1
    <3>2. t[i] = s[i]
      BY <3>1 DEF PrefixThen, c
    <3> QED
      BY <1>4, <1>5, <3>1, <3>2
  <2>2. CASE i > c
    <3>1. i - c \in 1..Len(r) /\ c + (i - c) = i
      BY <1>1, <1>2, <2>2 DEF c
    <3>2. t[c + (i - c)] = r[i - c]
      BY <3>1 DEF PrefixThen, c
    <3>3. y[c + (i - c)] = r[i - c]
      BY <1>4, <1>5, <3>1
    <3> QED
      BY <3>1, <3>2, <3>3
  <2> QED
    BY <1>1, <1>2, <2>1, <2>2
<1>8. t = y
  BY <1>5, <1>6, <1>7, SeqEqual
<1> QED
  BY <1>3, <1>8 DEF y, c

-----------------------------------------------------------------------------
\* An append that goes through puts the opener's page right behind the target.
LEMMA AppendOrKeep ==
    ASSUME TypeOK, CursorInv, NEW o \in Openers, append_batch_if_offset(o), NEW d \in Days
    PROVE  \/ target'[d] = target[d]
           \/ /\ d = day[o] /\ target'[d] = target[d] \o values[o]
              /\ values[o] \in Seq(Event)
              /\ Len(target[d]) < Len(source[d])
              /\ Len(target[d]) + Len(values[o]) <= Len(source[d])
              /\ \A i \in 1..Len(values[o]) : values[o][i] = source[d][Len(target[d]) + i]
<1>0. target \in [Days -> Seq(Event)] /\ day[o] \in Days /\ values[o] \in Seq(Event)
  BY DEF TypeOK
<1>1. CASE UNCHANGED target
  BY <1>1
<1>2. CASE d # day[o]
  BY <1>0, <1>2 DEF append_batch_if_offset
<1>3. CASE /\ d = day[o]
           /\ Len(target[d]) = offset[o]
           /\ target' = [target EXCEPT ![d] = @ \o values[o]]
  <2>1. target'[d] = target[d] \o values[o]
    BY <1>0, <1>3
  <2>2. /\ offset[o] < source_len[o] /\ source_len[o] <= Len(source[d])
        /\ offset[o] + Len(values[o]) <= Len(source[d])
        /\ \A i \in 1..Len(values[o]) : values[o][i] = source[d][offset[o] + i]
    <3>1. pc[o] = "append"
      BY DEF append_batch_if_offset
    <3> QED
      BY <3>1, <1>3 DEF CursorInv, Cursor
  <2>3. offset[o] \in Nat /\ source_len[o] \in Nat /\ Len(source[d]) \in Nat
    BY DEF TypeOK
  <2>4. offset[o] < Len(source[d])
    BY <2>2, <2>3
  <2> QED
    BY <1>0, <1>3, <2>1, <2>2, <2>4
<1> QED
  BY <1>1, <1>2, <1>3 DEF append_batch_if_offset

\* A copied event stands at its own offset, whatever the host did first.
LandsInv == \A d \in Days : Placed(target[d], source[d])

\* However openers race, fail and start over, and whatever is recorded and
\* appended meanwhile, no legacy event is copied to another place than its own.
LEMMA CopiesLand == Spec => []LandsInv
<1>1. Init => LandsInv
  <2> SUFFICES ASSUME Init, NEW d \in Days PROVE Placed(target[d], source[d])
    BY DEF LandsInv
  <2>1. target[d] = <<>> /\ Len(<<>>) = 0
    BY EmptySeq DEF Init
  <2> QED
    BY <2>1 DEF Placed
<1>2. TypeOK /\ CursorInv /\ LandsInv /\ [Next]_vars => LandsInv'
  <2> SUFFICES ASSUME TypeOK, CursorInv, LandsInv, [Next]_vars, NEW d \in Days
               PROVE  Placed(target'[d], source'[d])
    BY DEF LandsInv
  <2>0. /\ source \in [Days -> Seq(Event)] /\ target \in [Days -> Seq(Event)]
        /\ recorded \in [Days -> Seq(Event)] /\ Placed(target[d], source[d])
    BY DEF TypeOK, LandsInv
  <2>s. ASSUME UNCHANGED <<source, target>> PROVE Placed(target'[d], source'[d])
    BY <2>0, <2>s
  <2>1. ASSUME NEW o \in Openers, append_batch_if_offset(o) PROVE Placed(target'[d], source'[d])
    <3>1. source' = source
      BY <2>1 DEF append_batch_if_offset
    <3>2. CASE target'[d] = target[d]
      BY <2>0, <3>1, <3>2
    <3>3. CASE target'[d] # target[d]
      <4>1. /\ target'[d] = target[d] \o values[o] /\ values[o] \in Seq(Event)
            /\ Len(target[d]) + Len(values[o]) <= Len(source[d])
            /\ \A i \in 1..Len(values[o]) : values[o][i] = source[d][Len(target[d]) + i]
        BY <2>1, <3>3, AppendOrKeep
      <4>2. source[d] \in Seq(Event) /\ target[d] \in Seq(Event)
        BY <2>0
      <4>3. Placed(target[d] \o values[o], source[d])
        BY <2>0, <4>1, <4>2, PageLands, Zenon
      <4> QED
        BY <3>1, <4>1, <4>3
    <3> QED
      BY <3>2, <3>3
  <2>2. ASSUME NEW o \in Openers, NEW e \in Days, record(o, e) PROVE Placed(target'[d], source'[d])
    <3> DEFINE event == [by |-> "new", n |-> Len(recorded[e]) + 1]
    <3>1. event \in Event /\ event.by = "new"
      BY <2>0 DEF Event
    <3>2. source' = source /\ target' = [target EXCEPT ![e] = Append(@, event)]
      BY <2>2 DEF record
    <3> HIDE DEF event
    <3>3. CASE d = e
      <4>1. target'[d] = Append(target[d], event)
        BY <2>0, <3>2, <3>3
      <4>2. source[d] \in Seq(Event) /\ target[d] \in Seq(Event) /\ recorded[d] \in Seq(Event)
        BY <2>0
      <4>3. Placed(Append(target[d], event), source[d])
        BY <2>0, <3>1, <4>2, EventLands
      <4> QED
        BY <3>2, <4>1, <4>3
    <3>4. CASE d # e
      BY <2>0, <3>2, <3>4
    <3> QED
      BY <3>3, <3>4
  <2>3. ASSUME NEW e \in Days, LegacyAppend(e) PROVE Placed(target'[d], source'[d])
    <3> DEFINE event == [by |-> "old", n |-> Len(source[e]) + 1]
    <3>1. event \in Event
      BY <2>0 DEF Event
    <3>2. target' = target /\ source' = [source EXCEPT ![e] = Append(@, event)]
      BY <2>3 DEF LegacyAppend
    <3> HIDE DEF event
    <3>3. CASE d = e
      <4>1. source'[d] = Append(source[d], event)
        BY <2>0, <3>2, <3>3
      <4>2. source[d] \in Seq(Event) /\ target[d] \in Seq(Event)
        BY <2>0
      <4>3. Placed(target[d], Append(source[d], event))
        BY <2>0, <3>1, <4>2, SourceGrows
      <4> QED
        BY <3>2, <4>1, <4>3
    <3>4. CASE d # e
      BY <2>0, <3>2, <3>4
    <3> QED
      BY <3>3, <3>4
  <2>4. CASE UNCHANGED vars
    BY <2>4, <2>s DEF vars, streams
  <2>5. ASSUME NEW o \in Openers,
               \/ prepare(o) \/ list_streams(o) \/ read_source_len(o) \/ read_target_len(o) \/ verify(o)
               \/ read_page(o) \/ reread(o) \/ advance(o) \/ recheck(o) \/ mark_done(o)
               \/ fail(o)
        PROVE Placed(target'[d], source'[d])
    BY <2>5, <2>s DEF prepare, list_streams, read_source_len, read_target_len, verify, read_page, reread,
                      advance, recheck, mark_done, fail, streams
  <2> QED
    BY <2>1, <2>2, <2>3, <2>4, <2>5 DEF Next, Step
<1> QED
  BY <1>1, <1>2, TypeCorrect, CursorsRight, PTL DEF Spec

-----------------------------------------------------------------------------
\* The states of an opener that is at a stream.
Visiting == {"source_len", "target_len", "verify", "read", "append", "raced", "len", "recheck"}

\* The stream of day d is behind the marker, or behind an opener.
Passed(d) ==
    \/ done
    \/ \E o \in Openers : \/ pc[o] = "mark"
                          \/ pc[o] \in Visiting /\ d \notin names[o] \cup {day[o]}

\* What an opener that moves on has behind it: what any had, and the streams
\* that are not to come.
LEMMA VisitPasses ==
    ASSUME NEW o \in Openers, NEW ns, NEW d \in Days, Visit(o, ns), TypeOK, UNCHANGED done, Passed(d)'
    PROVE  Passed(d) \/ d \notin ns
<1>0. pc \in [Openers -> States] /\ day \in [Openers -> Days] /\ names \in [Openers -> SUBSET Days]
  BY DEF TypeOK
<1>1. CASE ns = {}
  BY <1>1
<1>2. ASSUME NEW e \in ns, Restart(o, ns \ {e}, e), Goto(o, "source_len") PROVE Passed(d) \/ d \notin ns
  <2>1. /\ pc'[o] = "source_len" /\ names'[o] = ns \ {e} /\ day'[o] = e
        /\ \A p \in Openers \ {o} : pc'[p] = pc[p] /\ names'[p] = names[p] /\ day'[p] = day[p]
    BY <1>0, <1>2 DEF Restart, Goto
  <2> QED
    BY <2>1 DEF Passed
<1> QED
  BY <1>1, <1>2 DEF Visit

\* With the older modules drained: each target is a prefix of its source, then
\* what was recorded, and all of its source once some opener is past it.
DrainedInv ==
    drained => \A d \in Days : /\ PrefixThen(target[d], source[d], recorded[d])
                               /\ Passed(d) => Len(target[d]) - Len(recorded[d]) = Len(source[d])

\* The copy never overtakes itself: an append needs a target shorter than the
\* source, which a passed stream's is not.
LEMMA DrainedCopy == Spec => []DrainedInv
<1>1. Init => DrainedInv
  <2> SUFFICES ASSUME Init, NEW d \in Days
               PROVE  PrefixThen(target[d], source[d], recorded[d]) /\ ~Passed(d)
    BY DEF DrainedInv
  <2>1. target[d] = <<>> /\ recorded[d] = <<>> /\ Len(<<>>) = 0
    BY EmptySeq DEF Init
  <2>2. Len(source[d]) \in Nat
    BY StreamsAssumption DEF Init
  <2>3. ~Passed(d)
    BY DEF Init, Passed, Visiting
  <2> QED
    BY <2>1, <2>2, <2>3 DEF PrefixThen
<1>2. TypeOK /\ CursorInv /\ OpenedInv /\ DrainedInv /\ [Next]_vars => DrainedInv'
  <2> SUFFICES ASSUME TypeOK, CursorInv, OpenedInv, DrainedInv, [Next]_vars, drained', NEW d \in Days
               PROVE  /\ PrefixThen(target'[d], source'[d], recorded'[d])
                      /\ Passed(d)' => Len(target'[d]) - Len(recorded'[d]) = Len(source'[d])
    BY DEF DrainedInv
  <2> DEFINE Goal == /\ PrefixThen(target'[d], source'[d], recorded'[d])
                     /\ Passed(d)' => Len(target'[d]) - Len(recorded'[d]) = Len(source'[d])
  <2>0. /\ source \in [Days -> Seq(Event)] /\ target \in [Days -> Seq(Event)]
        /\ recorded \in [Days -> Seq(Event)]
        /\ pc \in [Openers -> States] /\ day \in [Openers -> Days]
        /\ names \in [Openers -> SUBSET Days]
    BY DEF TypeOK
  <2>1. drained' = drained
    BY DEF Next, Step, prepare, list_streams, read_source_len, read_target_len, verify, read_page,
           append_batch_if_offset, reread, advance, recheck, mark_done, fail, record,
           LegacyAppend, vars
  <2>2. /\ PrefixThen(target[d], source[d], recorded[d])
        /\ Passed(d) => Len(target[d]) - Len(recorded[d]) = Len(source[d])
    BY <2>1 DEF DrainedInv
  <2>s. ASSUME UNCHANGED <<source, target, recorded>>, Passed(d)' => Passed(d) PROVE Goal
    BY <2>s, <2>2
  <2>m. ASSUME UNCHANGED streams, UNCHANGED done,
               \A o \in Openers : pc'[o] = "mark" => pc[o] = "mark",
               \A o \in Openers : pc'[o] \in Visiting =>
                  pc[o] \in Visiting /\ names'[o] = names[o] /\ day'[o] = day[o]
        PROVE  Goal
    <3>1. Passed(d)' => Passed(d)
      BY <2>m DEF Passed
    <3> QED
      BY <2>m, <2>s, <3>1 DEF streams
  \* One opener moves, at the same stream or to none.
  <2>o. ASSUME NEW o \in Openers, NEW to, Goto(o, to), to # "mark", UNCHANGED <<names, day>>,
               to \in Visiting => pc[o] \in Visiting, UNCHANGED streams, UNCHANGED done
        PROVE  Goal
    <3>1. \A p \in Openers : pc'[p] = pc[p] \/ (p = o /\ pc'[p] = to)
      BY <2>0, <2>o DEF Goto
    <3> QED
      BY <2>m, <2>o, <3>1
  <2>x. ASSUME NEW o \in Openers, Fail(o), UNCHANGED streams, UNCHANGED done PROVE Goal
    <3>1. /\ pc'[o] = "closed"
          /\ \A p \in Openers \ {o} : pc'[p] = pc[p] /\ names'[p] = names[p] /\ day'[p] = day[p]
      BY <2>0, <2>x DEF Fail, Restart, Goto
    <3> QED
      BY <2>x, <2>m, <3>1 DEF Visiting
  <2>3. ASSUME NEW o \in Openers, prepare(o) PROVE Goal
    BY <2>3, <2>o DEF prepare, locals, Visiting
  <2>17. ASSUME NEW o \in Openers, list_streams(o) PROVE Goal
    <3> DEFINE listed == {e \in Days : source[e] # <<>>}
    <3>1. Visit(o, listed) /\ UNCHANGED <<source, target, recorded, done>>
      BY <2>17 DEF list_streams, streams
    <3>2. ASSUME d \notin listed PROVE Len(target[d]) - Len(recorded[d]) = Len(source[d])
      <4>1. Len(source[d]) = 0
        BY <3>2, EmptySeq
      <4>2. Len(target[d]) - Len(recorded[d]) \in 0..Len(source[d])
        BY <2>2 DEF PrefixThen
      <4>3. Len(target[d]) \in Nat /\ Len(recorded[d]) \in Nat
        BY <2>0
      <4> QED
        BY <4>1, <4>2, <4>3
    <3> HIDE DEF listed
    <3>3. Passed(d)' => Passed(d) \/ d \notin listed
      BY <3>1, VisitPasses
    <3> QED
      BY <2>2, <3>1, <3>2, <3>3
  <2>4. ASSUME NEW o \in Openers, read_source_len(o) PROVE Goal
    BY <2>4, <2>o DEF read_source_len, Visiting
  <2>5. ASSUME NEW o \in Openers, read_target_len(o) PROVE Goal
    BY <2>5, <2>o, <2>x DEF read_target_len, Visiting
  <2>6. ASSUME NEW o \in Openers, verify(o) PROVE Goal
    BY <2>6, <2>o, <2>x DEF verify, Copying, Visiting
  <2>7. ASSUME NEW o \in Openers, read_page(o) PROVE Goal
    BY <2>7, <2>o, <2>x DEF read_page, Visiting
  <2>8. ASSUME NEW o \in Openers, append_batch_if_offset(o) PROVE Goal
    <3>1. source' = source /\ recorded' = recorded
      BY <2>8 DEF append_batch_if_offset
    <3>2. Passed(d)' => Passed(d)
      <4>1. /\ pc[o] = "append" /\ pc'[o] \in {"len", "raced"}
            /\ \A p \in Openers \ {o} : pc'[p] = pc[p]
            /\ UNCHANGED <<names, day, done>>
        BY <2>0, <2>8 DEF append_batch_if_offset, Goto, locals
      <4> QED
        BY <4>1 DEF Passed, Visiting
    <3>3. CASE target'[d] = target[d]
      BY <2>2, <3>1, <3>2, <3>3
    <3>4. CASE target'[d] # target[d]
      <4>1. /\ target'[d] = target[d] \o values[o] /\ values[o] \in Seq(Event)
            /\ Len(target[d]) < Len(source[d])
            /\ Len(target[d]) + Len(values[o]) <= Len(source[d])
            /\ \A i \in 1..Len(values[o]) : values[o][i] = source[d][Len(target[d]) + i]
        BY <2>8, <3>4, AppendOrKeep
      <4>2. source[d] \in Seq(Event) /\ target[d] \in Seq(Event) /\ recorded[d] \in Seq(Event)
        BY <2>0
      <4>3. Len(source[d]) \in Nat /\ Len(target[d]) \in Nat /\ Len(recorded[d]) \in Nat
        BY <4>2
      <4>4. ~Passed(d)
        <5>1. Len(target[d]) < Len(source[d])
          BY <4>1
        <5>2. Len(target[d]) - Len(recorded[d]) # Len(source[d])
          <6>1. \A l, m, n \in Nat : l < m => l - n # m
            OBVIOUS
          <6> QED
            BY <4>3, <5>1, <6>1, Zenon
        <5> QED
          BY <2>2, <5>2
      <4>5. recorded[d] = <<>>
        BY <4>4 DEF OpenedInv, Passed
      <4>6. PrefixThen(target[d] \o values[o], source[d], <<>>)
        BY <2>2, <4>1, <4>2, <4>5, PageLands, Zenon
      <4> QED
        BY <3>1, <3>2, <4>1, <4>4, <4>5, <4>6, Zenon
    <3> QED
      BY <3>3, <3>4
  <2>9. ASSUME NEW o \in Openers, reread(o) PROVE Goal
    BY <2>9, <2>o, <2>x DEF reread, locals, Visiting
  <2>10. ASSUME NEW o \in Openers, advance(o) PROVE Goal
    BY <2>10, <2>o DEF advance, Copying, Visiting
  <2>11. ASSUME NEW o \in Openers, recheck(o) PROVE Goal
    <3>1. CASE Fail(o)
      BY <2>11, <2>x, <3>1 DEF recheck
    <3>2. CASE ~Fail(o)
      <4>1. /\ pc[o] = "recheck" /\ Len(source[day[o]]) = source_len[o]
            /\ UNCHANGED <<streams, done>>
            /\ Visit(o, names[o])
        BY <2>11, <3>2 DEF recheck
      <4>2. source_len[o] <= offset[o] /\ offset[o] <= Len(target[day[o]])
        BY <4>1 DEF CursorInv, Cursor
      <4>3. /\ day[o] \in Days /\ source_len[o] \in Nat /\ offset[o] \in Nat
            /\ Len(source[d]) \in Nat /\ Len(target[d]) \in Nat /\ Len(recorded[d]) \in Nat
            /\ Len(target[day[o]]) \in Nat
        BY DEF TypeOK
      <4>4. ASSUME d = day[o] PROVE Len(target[d]) - Len(recorded[d]) = Len(source[d])
        <5>1. CASE done
          BY <2>2, <5>1 DEF Passed
        <5>2. CASE ~done
          <6>1. recorded[d] = <<>> /\ Len(<<>>) = 0
            BY <5>2, EmptySeq DEF OpenedInv
          <6>2. Len(target[d]) - Len(recorded[d]) \in 0..Len(source[d])
            BY <2>2 DEF PrefixThen
          <6>3. Len(recorded[d]) = 0 /\ Len(source[d]) <= Len(target[d])
            BY <4>1, <4>2, <4>3, <4>4, <6>1
          <6> QED
            BY <4>3, <6>2, <6>3
        <5> QED
          BY <5>1, <5>2
      <4>5. Passed(d)' => Passed(d) \/ d = day[o]
        <5>1. UNCHANGED done
          BY <4>1
        <5>2. Passed(d)' => Passed(d) \/ d \notin names[o]
          BY <4>1, <5>1, VisitPasses
        <5>3. d \notin names[o] => d = day[o] \/ Passed(d)
          BY <4>1 DEF Passed, Visiting
        <5> QED
          BY <5>2, <5>3
      <4>6. UNCHANGED <<source, target, recorded>>
        BY <4>1 DEF streams
      <4> QED
        BY <2>2, <4>4, <4>5, <4>6
    <3> QED
      BY <3>1, <3>2
  <2>12. ASSUME NEW o \in Openers, mark_done(o) PROVE Goal
    <3>1. Passed(d) /\ UNCHANGED <<source, target, recorded>>
      BY <2>12 DEF mark_done, Passed, streams
    <3> QED
      BY <3>1, <2>s
  <2>13. ASSUME NEW o \in Openers, fail(o) PROVE Goal
    BY <2>13, <2>x DEF fail
  <2>14. ASSUME NEW o \in Openers, NEW e \in Days, record(o, e) PROVE Goal
    <3> DEFINE event == [by |-> "new", n |-> Len(recorded[e]) + 1]
    <3>1. event \in Event /\ event.by = "new"
      BY <2>0 DEF Event
    <3>2. /\ source' = source /\ target' = [target EXCEPT ![e] = Append(@, event)]
          /\ recorded' = [recorded EXCEPT ![e] = Append(@, event)]
      BY <2>14 DEF record
    <3>3. Passed(d)
      BY <2>14 DEF record, OpenedInv, Passed
    <3> HIDE DEF event
    <3>4. CASE d = e
      <4>1. target'[d] = Append(target[d], event) /\ recorded'[d] = Append(recorded[d], event)
        BY <2>0, <3>2, <3>4
      <4>2. source[d] \in Seq(Event) /\ target[d] \in Seq(Event) /\ recorded[d] \in Seq(Event)
        BY <2>0
      <4>3. PrefixThen(Append(target[d], event), source[d], Append(recorded[d], event))
        BY <2>2, <3>1, <4>2, EventLands
      <4>4. Len(Append(target[d], event)) - Len(Append(recorded[d], event)) = Len(target[d]) - Len(recorded[d])
        <5>1. /\ Len(target[d]) \in Nat /\ Len(Append(target[d], event)) = Len(target[d]) + 1
              /\ Len(recorded[d]) \in Nat /\ Len(Append(recorded[d], event)) = Len(recorded[d]) + 1
          BY <3>1, <4>2, AppendKeeps
        <5> QED
          BY <5>1
      <4> QED
        BY <2>2, <3>2, <3>3, <4>1, <4>3, <4>4, Zenon
    <3>5. CASE d # e
      BY <2>0, <2>2, <3>2, <3>3, <3>5
    <3> QED
      BY <3>4, <3>5
  <2>15. ASSUME NEW e \in Days, LegacyAppend(e) PROVE Goal
    BY <2>15, <2>1 DEF LegacyAppend
  <2>16. CASE UNCHANGED vars
    BY <2>16, <2>m DEF vars, locals, streams
  <2> QED
    BY <2>3, <2>4, <2>5, <2>6, <2>7, <2>8, <2>9, <2>10, <2>11, <2>12, <2>13, <2>14, <2>15, <2>16, <2>17
    DEF Next, Step
<1> QED
  BY <1>1, <1>2, TypeCorrect, CursorsRight, Opened, PTL DEF Spec

-----------------------------------------------------------------------------
\* A copied event lands at its own offset, and only once, and with the older
\* modules drained the target is the copy, then the events recorded since.
THEOREM CopyInOrder == Spec => []CopyThenNew
<1>1. TypeOK /\ LandsInv /\ DrainedInv => CopyThenNew
  <2> SUFFICES ASSUME TypeOK, LandsInv, DrainedInv, NEW d \in Days
               PROVE  /\ \A i \in 1..Len(target[d]) :
                            target[d][i].by = "old"
                               => i <= Len(source[d]) /\ target[d][i] = source[d][i]
                      /\ drained => /\ Copied(d) \in 0..Len(source[d])
                                    /\ target[d] = SubSeq(source[d], 1, Copied(d)) \o recorded[d]
    BY DEF CopyThenNew
  <2>1. source[d] \in Seq(Event) /\ target[d] \in Seq(Event) /\ recorded[d] \in Seq(Event)
    BY DEF TypeOK
  <2>2. \A i \in 1..Len(target[d]) :
           target[d][i].by = "old" => i <= Len(source[d]) /\ target[d][i] = source[d][i]
    BY DEF LandsInv, Placed
  <2>3. ASSUME drained
        PROVE  /\ Copied(d) \in 0..Len(source[d])
               /\ target[d] = SubSeq(source[d], 1, Copied(d)) \o recorded[d]
    <3>1. PrefixThen(target[d], source[d], recorded[d])
      BY <2>3 DEF DrainedInv
    <3>2. target[d] = SubSeq(source[d], 1, Len(target[d]) - Len(recorded[d])) \o recorded[d]
      BY <2>1, <3>1, PrefixIsConcat
    <3>3. Len(target[d]) - Len(recorded[d]) \in 0..Len(source[d])
      BY <3>1 DEF PrefixThen
    <3> QED
      BY <3>2, <3>3 DEF Copied
  <2> QED
    BY <2>2, <2>3
<1> QED
  BY <1>1, TypeCorrect, CopiesLand, DrainedCopy, PTL

\* The marker, or the first recorded event, comes only after every legacy
\* event is in place when the host drained the older modules.
THEOREM MarkerIsTrue == Spec => []DoneMeansCopied
<1>1. OpenedInv /\ DrainedInv => DoneMeansCopied
  BY DEF OpenedInv, DrainedInv, DoneMeansCopied, Passed, Copied
<1> QED
  BY <1>1, Opened, DrainedCopy, PTL

\* Drained or not, an opener goes on to the next stream, or to the marker, only
\* over a target that holds all the source holds at that moment.
THEOREM NothingLeftBehind == Spec => LeavesNothingBehind
<1> DEFINE Leaves == \A o \in Openers :
                        (~done /\ pc[o] = "recheck" /\ pc'[o] \in {"source_len", "mark"})
                           => Copied(day[o]) >= Len(source[day[o]])
<1>1. TypeOK /\ CursorInv /\ OpenedInv /\ [Next]_vars => Leaves
  <2> SUFFICES ASSUME TypeOK, CursorInv, OpenedInv, [Next]_vars, NEW o \in Openers,
                      ~done, pc[o] = "recheck", pc'[o] \in {"source_len", "mark"}
               PROVE  Copied(day[o]) >= Len(source[day[o]])
    OBVIOUS
  <2>0. pc \in [Openers -> States]
    BY DEF TypeOK
  <2>1. Len(source[day[o]]) = source_len[o]
    <3>1. ASSUME NEW p \in Openers, Step(p) \/ fail(p) PROVE p = o
      <4>1. pc' = [pc EXCEPT ![p] = pc'[p]]
        BY <2>0, <3>1 DEF Step, prepare, list_streams, read_source_len, read_target_len, verify, read_page,
               append_batch_if_offset, reread, advance, recheck, mark_done, fail, Fail, Visit, Goto
      <4> QED
        BY <2>0, <4>1
    <3>2. ~fail(o)
      BY <2>0 DEF fail, Fail, Goto
    <3>3. ~(\E p \in Openers, d \in Days : record(p, d))
      BY DEF record
    <3>4. ~(\E d \in Days : LegacyAppend(d)) /\ ~(UNCHANGED vars)
      BY DEF LegacyAppend, vars
    <3>5. Step(o)
      BY <3>1, <3>2, <3>3, <3>4 DEF Next
    <3>6. recheck(o)
      BY <3>5 DEF Step, prepare, list_streams, read_source_len, read_target_len, verify, read_page,
                  append_batch_if_offset, reread, advance, mark_done
    <3> QED
      BY <2>0, <3>6 DEF recheck, Fail, Goto
  <2>2. source_len[o] <= offset[o] /\ offset[o] <= Len(target[day[o]])
    BY DEF CursorInv, Cursor
  <2>3. /\ day[o] \in Days /\ source_len[o] \in Nat /\ offset[o] \in Nat
        /\ Len(target[day[o]]) \in Nat
    BY DEF TypeOK
  <2>4. recorded[day[o]] = <<>> /\ Len(<<>>) = 0
    BY <2>3, EmptySeq DEF OpenedInv
  <2>5. Len(source[day[o]]) <= Len(target[day[o]])
    BY <2>1, <2>2, <2>3
  <2>6. Copied(day[o]) = Len(target[day[o]])
    BY <2>3, <2>4 DEF Copied
  <2> QED
    BY <2>1, <2>3, <2>5, <2>6
<1>2. LeavesNothingBehind <=> [][Leaves]_vars
  BY DEF LeavesNothingBehind
<1> HIDE DEF Leaves
<1> QED
  BY <1>1, <1>2, TypeCorrect, CursorsRight, Opened, PTL DEF Spec

=============================================================================
