------------------------ MODULE PrefsMigrationProofs ------------------------
(***************************************************************************)
(* What the preference step of the migration promises for any number of    *)
(* instances, preferences and pages.                                       *)
(***************************************************************************)
EXTENDS PrefsMigration, PageTheorems

\* An opener that has not begun has no cursor, one between two calls for a row
\* has a row, and one about to update its copy has read what to.
HasRow ==
    \A o \in Openers :
        /\ pc[o] = "closed" => more[o] = None
        /\ pc[o] \in {"put", "inspect", "reread", "delete", "update"} => DOMAIN rows[o] # {}
        /\ pc[o] = "update" => latest[o] # None

\* A row an opener put or found has an id.
Addressed == \A o \in Openers : pc[o] \in {"inspect", "reread", "delete", "update"} => Id(o) # None

AtRow == HasRow /\ Addressed

\* A page is a function from some of the keys to bodies.
LEMMA PageType ==
    /\ \A r \in Page : DOMAIN r \subseteq Keys /\ \A k \in DOMAIN r : r[k] \in Bodies
    /\ \A ks \in SUBSET Keys : \A r : r \in [ks -> Bodies] => r \in Page
BY DEF Page

\* The row an opener is at is one of its page, and its copy has an id once it
\* was put or found.
LEMMA CurrentRow ==
    ASSUME TypeOK, AtRow, NEW o \in Openers,
           pc[o] \in {"put", "inspect", "reread", "delete", "update"}
    PROVE  /\ Current(o) \in DOMAIN rows[o]
           /\ Current(o) \in Keys
           /\ rows[o][Current(o)] \in Bodies
           /\ Id(o) # None => Id(o) \in Ids /\ Current(o) \in Keyed
           /\ pc[o] # "put" => Id(o) # None
<1>1. rows[o] \in Page
  BY DEF TypeOK
<1>2. DOMAIN rows[o] \subseteq Keys /\ \A k \in DOMAIN rows[o] : rows[o][k] \in Bodies
  BY <1>1, PageType
<1>3. DOMAIN rows[o] # {}
  BY DEF AtRow, HasRow
<1>4. DOMAIN rows[o] \subseteq Nat /\ IsFiniteSet(DOMAIN rows[o])
  BY <1>2, PrefsAssumption, FS_Subset
<1>5. Min(DOMAIN rows[o]) \in DOMAIN rows[o]
  BY <1>3, <1>4, LeastAndGreatest
<1>6. Current(o) \in DOMAIN rows[o] /\ Current(o) \in Keys
  BY <1>2, <1>5 DEF Current
<1>7. Id(o) # None => Id(o) \in Ids /\ Current(o) \in Keyed
  BY <1>6, PrefsAssumption DEF Id, Keyed
<1>8. pc[o] # "put" => Id(o) # None
  BY DEF AtRow, Addressed
<1> QED
  BY <1>2, <1>6, <1>7, <1>8

\* An opener at the same row is at the same id.
LEMMA SameRow ==
    ASSUME NEW o \in Openers, DOMAIN rows'[o] = DOMAIN rows[o]
    PROVE  Current(o)' = Current(o) /\ Id(o)' = Id(o)
BY DEF Current, Id

\* Two ids are told apart by their keys.
LEMMA OneKey ==
    ASSUME NEW j \in Keyed, NEW k \in Keyed, legacy_key[j] = legacy_key[k]
    PROVE  j = k
BY PrefsAssumption

\* What is left of the legacy collection behind an opener's cursor.
From(o) == {k \in Keys : legacy[k] # None /\ (more[o] # None => k > more[o])}

\* The page a query reads, and the cursor it comes with.
LEMMA QueryPage ==
    ASSUME TypeOK, NEW o \in Openers, query(o)
    PROVE  \E page \in SUBSET From(o) :
              /\ rows' = [rows EXCEPT ![o] = [k \in page |-> legacy[k]]]
              /\ page = {} => From(o) = {}
              /\ pc' = [pc EXCEPT ![o] = IF page = {} THEN "mark" ELSE "put"]
              /\ \/ page = From(o) /\ more' = [more EXCEPT ![o] = None]
                 \/ \E m \in page : /\ more' = [more EXCEPT ![o] = m]
                                    /\ \A k \in From(o) : k <= m => k \in page
<1> DEFINE page == PageOf(From(o), PageSize)
<1>1. From(o) \subseteq Nat /\ IsFiniteSet(From(o)) /\ PageSize \in Nat \ {0}
  <2>1. From(o) \in SUBSET Keys
    BY DEF From
  <2> QED
    BY <2>1, PrefsAssumption, FS_Subset
<1>2. /\ page \subseteq From(o) /\ IsFiniteSet(page)
      /\ \A j \in From(o), k \in page : j < k => j \in page
      /\ page = {} => From(o) = {}
  BY <1>1, PageIsPrefix
<1>3. /\ rows' = [rows EXCEPT ![o] = [k \in page |-> legacy[k]]]
      /\ more' = [more EXCEPT ![o] = IF page # {} /\ page # From(o) THEN Max(page) ELSE None]
      /\ pc' = [pc EXCEPT ![o] = IF page = {} THEN "mark" ELSE "put"]
  BY DEF query, Goto, From, PageOf
<1> HIDE DEF page
<1>4. CASE page # {} /\ page # From(o)
  <2>1. page \subseteq Nat
    BY <1>1, <1>2
  <2>2. Max(page) \in page
    BY <1>2, <1>4, <2>1, LeastAndGreatest
  <2>3. \A k \in From(o) : k <= Max(page) => k \in page
    <3> SUFFICES ASSUME NEW k \in From(o), k <= Max(page) PROVE k \in page
      OBVIOUS
    <3>1. k \in Nat /\ Max(page) \in Nat
      BY <1>1, <2>1, <2>2
    <3>2. k = Max(page) \/ k < Max(page)
      BY <3>1
    <3> QED
      BY <1>2, <2>2, <3>2
  <2>4. more' = [more EXCEPT ![o] = Max(page)]
    BY <1>3, <1>4
  <2> QED
    BY <1>2, <1>3, <2>2, <2>3, <2>4
<1>5. CASE ~(page # {} /\ page # From(o))
  <2>1. page = From(o) /\ more' = [more EXCEPT ![o] = None]
    BY <1>2, <1>3, <1>5
  <2> QED
    BY <1>2, <1>3, <2>1
<1> QED
  BY <1>4, <1>5

\* What settling a row leaves of a page.
LEMMA NextRowKeeps ==
    ASSUME TypeOK, NEW o \in Openers, NextRow(o)
    PROVE  /\ rows' \in [Openers -> Page]
           /\ rows'[o] = [k \in DOMAIN rows[o] \ {Current(o)} |-> rows[o][k]]
           /\ \A p \in Openers \ {o} : rows'[p] = rows[p] /\ pc'[p] = pc[p] /\ tver'[p] = tver[p]
                                       /\ latest'[p] = latest[p]
           /\ pc'[o] = IF DOMAIN rows[o] \ {Current(o)} # {} THEN "put"
                       ELSE IF more[o] # None THEN "query" ELSE "mark"
           /\ pc' \in [Openers -> States]
           /\ more' = more /\ tver' \in [Openers -> Nat] /\ latest' \in [Openers -> Bodies \cup {None}]
<1> DEFINE left == DOMAIN rows[o] \ {Current(o)}
           new == [k \in left |-> rows[o][k]]
<1>1. /\ rows \in [Openers -> Page] /\ pc \in [Openers -> States]
      /\ tver \in [Openers -> Nat] /\ latest \in [Openers -> Bodies \cup {None}]
  BY DEF TypeOK
<1>2. rows[o] \in Page
  BY <1>1
<1>3. left \in SUBSET Keys /\ \A k \in left : rows[o][k] \in Bodies
  BY <1>2, PageType
<1>4. new \in [left -> Bodies]
  BY <1>3
<1>5. new \in Page
  BY <1>3, <1>4, PageType, Zenon
<1>6. /\ rows' = [rows EXCEPT ![o] = new]
      /\ pc' = [pc EXCEPT ![o] = IF left # {} THEN "put" ELSE IF more[o] # None THEN "query" ELSE "mark"]
      /\ tver' = [tver EXCEPT ![o] = 0]
      /\ latest' = [latest EXCEPT ![o] = None]
      /\ more' = more
  BY DEF NextRow, Goto
<1> HIDE DEF new, left
<1>7. rows' \in [Openers -> Page] /\ rows'[o] = new /\ \A p \in Openers \ {o} : rows'[p] = rows[p]
  BY <1>1, <1>5, <1>6
<1>8. /\ pc'[o] = IF left # {} THEN "put" ELSE IF more[o] # None THEN "query" ELSE "mark"
      /\ pc' \in [Openers -> States]
      /\ \A p \in Openers \ {o} : pc'[p] = pc[p]
  BY <1>1, <1>6 DEF States
<1>9. /\ tver' \in [Openers -> Nat] /\ latest' \in [Openers -> Bodies \cup {None}]
      /\ \A p \in Openers \ {o} : tver'[p] = tver[p] /\ latest'[p] = latest[p]
  BY <1>1, <1>6
<1> QED
  BY <1>6, <1>7, <1>8, <1>9 DEF new, left

\* What a failed open leaves: nothing of the scan.
LEMMA ResetKeeps ==
    ASSUME TypeOK, NEW o \in Openers, Reset(o), Goto(o, "closed")
    PROVE  /\ rows' \in [Openers -> Page] /\ pc' \in [Openers -> States]
           /\ more' \in [Openers -> Keys \cup {None}]
           /\ tver' \in [Openers -> Nat] /\ latest' \in [Openers -> Bodies \cup {None}]
           /\ pc'[o] = "closed" /\ more'[o] = None /\ DOMAIN rows'[o] = {}
           /\ \A p \in Openers \ {o} : /\ rows'[p] = rows[p] /\ pc'[p] = pc[p] /\ tver'[p] = tver[p]
                                       /\ latest'[p] = latest[p] /\ more'[p] = more[p]
<1>1. /\ rows \in [Openers -> Page] /\ pc \in [Openers -> States]
      /\ more \in [Openers -> Keys \cup {None}]
      /\ tver \in [Openers -> Nat] /\ latest \in [Openers -> Bodies \cup {None}]
  BY DEF TypeOK
<1>2. NoRows \in [{} -> Bodies] /\ DOMAIN NoRows = {}
  BY DEF NoRows
<1>3. NoRows \in Page
  BY <1>2, PageType, Zenon
<1>4. rows' \in [Openers -> Page] /\ rows'[o] = NoRows /\ \A p \in Openers \ {o} : rows'[p] = rows[p]
  BY <1>1, <1>3 DEF Reset
<1>5. pc' \in [Openers -> States] /\ pc'[o] = "closed" /\ \A p \in Openers \ {o} : pc'[p] = pc[p]
  BY <1>1 DEF Goto, States
<1>6. /\ more' \in [Openers -> Keys \cup {None}]
      /\ tver' \in [Openers -> Nat] /\ latest' \in [Openers -> Bodies \cup {None}]
      /\ more'[o] = None
      /\ \A p \in Openers \ {o} : tver'[p] = tver[p] /\ latest'[p] = latest[p] /\ more'[p] = more[p]
  BY <1>1 DEF Reset
<1> QED
  BY <1>2, <1>4, <1>5, <1>6

-----------------------------------------------------------------------------
\* A write of a body is a row of the store.
LEMMA WriteType ==
    ASSUME TypeOK, NEW i \in Ids, NEW b \in Bodies, NEW by \in {"migration", "user"}, Write(i, b, by)
    PROVE  /\ target' \in [Ids -> Row \cup {None}] /\ versions' \in [Ids -> Nat]
           /\ target'[i] = [body |-> b, version |-> versions[i] + 1, by |-> by]
           /\ versions'[i] = versions[i] + 1
           /\ \A j \in Ids \ {i} : target'[j] = target[j] /\ versions'[j] = versions[j]
           /\ target'[i] # None
<1>1. target \in [Ids -> Row \cup {None}] /\ versions \in [Ids -> Nat]
  BY DEF TypeOK
<1> DEFINE new == [body |-> b, version |-> versions[i] + 1, by |-> by]
<1>2. new \in Row
  BY <1>1 DEF Row
<1>3. target' = [target EXCEPT ![i] = new] /\ versions' = [versions EXCEPT ![i] = @ + 1]
  BY DEF Write
<1>4. new # None
  BY <1>2, PrefsAssumption
<1> HIDE DEF new
<1>5. target' \in [Ids -> Row \cup {None}] /\ target'[i] = new
      /\ \A j \in Ids \ {i} : target'[j] = target[j]
  BY <1>1, <1>2, <1>3
<1>6. versions' \in [Ids -> Nat] /\ versions'[i] = versions[i] + 1
      /\ \A j \in Ids \ {i} : versions'[j] = versions[j]
  BY <1>1, <1>3
<1> QED
  BY <1>4, <1>5, <1>6 DEF new

\* Only an opener whose row has an id goes past the put.
LEMMA AddressedStep ==
    ASSUME TypeOK, Addressed, [Next]_vars
    PROVE  Addressed'
<1> DEFINE S == {"inspect", "reread", "delete", "update"}
<1>0. pc \in [Openers -> States] /\ rows \in [Openers -> Page]
  BY DEF TypeOK
<1>1. ASSUME NEW p \in Openers, DOMAIN rows'[p] = DOMAIN rows[p],
             pc'[p] \in S => pc[p] \in S \/ Id(p) # None, pc'[p] \in S
      PROVE  Id(p)' # None
  BY <1>1, SameRow DEF Addressed
<1>n. ASSUME NEW o \in Openers, NextRow(o) PROVE Addressed'
  <2>1. pc'[o] \in {"put", "query", "mark"}
        /\ \A p \in Openers \ {o} : rows'[p] = rows[p] /\ pc'[p] = pc[p]
    BY <1>n, NextRowKeeps
  <2> QED
    BY <1>1, <2>1 DEF Addressed
<1>r. ASSUME NEW o \in Openers, Reset(o), Goto(o, "closed") PROVE Addressed'
  <2>1. pc'[o] = "closed" /\ \A p \in Openers \ {o} : rows'[p] = rows[p] /\ pc'[p] = pc[p]
    BY <1>r, ResetKeeps
  <2> QED
    BY <1>1, <2>1 DEF Addressed
\* An opener moves on at its row, or to a state without one.
<1>m. ASSUME NEW o \in Openers, NEW to \in States, Goto(o, to),
             \A p \in Openers \ {o} : rows'[p] = rows[p],
             to \in S => DOMAIN rows'[o] = DOMAIN rows[o] /\ (pc[o] \in S \/ Id(o) # None)
      PROVE  Addressed'
  <2>1. pc'[o] = to /\ \A p \in Openers \ {o} : pc'[p] = pc[p]
    BY <1>0, <1>m DEF Goto
  <2>2. ASSUME NEW p \in Openers, pc'[p] \in S PROVE Id(p)' # None
    <3>1. CASE p = o
      BY <1>1, <1>m, <2>1, <2>2, <3>1
    <3>2. CASE p # o
      BY <1>1, <1>m, <2>1, <2>2, <3>2
    <3> QED
      BY <3>1, <3>2
  <2> QED
    BY <2>2 DEF Addressed
<1>s. ASSUME rows' = rows, pc' = pc PROVE Addressed'
  BY <1>1, <1>s DEF Addressed
<1>2. ASSUME NEW o \in Openers, prepare(o) PROVE Addressed'
  BY <1>2, <1>m DEF prepare, locals, States
<1>3. ASSUME NEW o \in Openers, query(o) PROVE Addressed'
  <2>1. PICK to \in {"mark", "put"} : Goto(o, to)
    BY <1>3 DEF query
  <2>2. \A p \in Openers \ {o} : rows'[p] = rows[p]
    BY <1>0, <1>3 DEF query
  <2> QED
    BY <1>m, <2>1, <2>2 DEF States
<1>4. ASSUME NEW o \in Openers, put_absent(o) \/ put_conflict(o) PROVE Addressed'
  BY <1>4, <1>m DEF put_absent, put_conflict, locals, States
<1>5. ASSUME NEW o \in Openers, inspect(o) PROVE Addressed'
  <2>1. CASE Goto(o, "reread") /\ UNCHANGED rows
    BY <1>5, <1>m, <2>1 DEF inspect, States
  <2> QED
    BY <1>5, <1>r, <2>1 DEF inspect
<1>6. ASSUME NEW o \in Openers, preserve(o) \/ delete(o) \/ update_conflict(o) PROVE Addressed'
  BY <1>6, <1>n DEF preserve, delete, update_conflict
<1>7. ASSUME NEW o \in Openers, reread(o) PROVE Addressed'
  <2>1. CASE Goto(o, IF legacy[Current(o)] = None THEN "delete" ELSE "update") /\ UNCHANGED rows
    <3>1. PICK to \in {"delete", "update"} : Goto(o, to)
      BY <2>1
    <3> QED
      BY <1>7, <1>m, <2>1, <3>1 DEF reread, States
  <2> QED
    BY <1>7, <1>n, <2>1 DEF reread
<1>8. ASSUME NEW o \in Openers, update(o) PROVE Addressed'
  <2>1. DOMAIN rows'[o] = DOMAIN rows[o] /\ \A p \in Openers \ {o} : rows'[p] = rows[p]
    BY <1>0, <1>8 DEF update
  <2> QED
    BY <1>8, <1>m, <2>1 DEF update, States
<1>9. ASSUME NEW o \in Openers, mark_done(o) PROVE Addressed'
  BY <1>9, <1>m DEF mark_done, locals, States
<1>10. ASSUME NEW o \in Openers, unaddressed(o) \/ fail(o) PROVE Addressed'
  BY <1>10, <1>r DEF unaddressed, fail
<1>11. ASSUME \/ UNCHANGED vars
              \/ \E k \in Keys, b \in Bodies \cup {None} : LegacyWrite(k, b)
              \/ \E o \in Openers, i \in Ids, b \in Bodies : set(o, i, b)
       PROVE  Addressed'
  BY <1>11, <1>s DEF vars, LegacyWrite, set, locals
<1> QED
  BY <1>2, <1>3, <1>4, <1>5, <1>6, <1>7, <1>8, <1>9, <1>10, <1>11 DEF Next, Step

\* Type correctness, with what it rests on: an opener at a row has one.
THEOREM TypeCorrect == Spec => [](TypeOK /\ AtRow)
<1> USE PrefsAssumption
<1>1. Init => TypeOK /\ AtRow
  <2> SUFFICES ASSUME Init PROVE TypeOK /\ AtRow
    OBVIOUS
  <2>1. drained \in BOOLEAN /\ done \in BOOLEAN
    BY Zenon DEF Init
  <2>2. rows \in [Openers -> Page]
    <3>1. NoRows \in [{} -> Bodies]
      BY DEF NoRows
    <3>2. NoRows \in Page
      BY <3>1, PageType, Zenon
    <3> QED
      BY <3>2 DEF Init
  <2>3. target \in [Ids -> Row \cup {None}]
    BY DEF Init, Row
  <2>4. pc \in [Openers -> States] /\ AtRow
    BY DEF Init, States, AtRow, HasRow, Addressed
  <2>5. budget \in [{"legacy", "set", "fault"} -> Nat]
    BY DEF Init
  <2> QED
    BY <2>1, <2>2, <2>3, <2>4, <2>5 DEF Init, TypeOK
<1>2. TypeOK /\ AtRow /\ [Next]_vars => TypeOK' /\ AtRow'
  <2> SUFFICES ASSUME TypeOK, AtRow, [Next]_vars PROVE TypeOK' /\ HasRow'
    BY AddressedStep DEF AtRow
  <2>0. /\ pc \in [Openers -> States] /\ rows \in [Openers -> Page]
        /\ more \in [Openers -> Keys \cup {None}]
        /\ tver \in [Openers -> Nat] /\ latest \in [Openers -> Bodies \cup {None}]
        /\ versions \in [Ids -> Nat] /\ legacy \in [Keys -> Bodies \cup {None}]
    BY DEF TypeOK
  <2>b. ASSUME NEW what \in {"legacy", "set", "fault"}, Spend(what)
        PROVE  budget' \in [{"legacy", "set", "fault"} -> Nat]
    BY <2>b DEF Spend, TypeOK
  <2>n. ASSUME NEW o \in Openers, NextRow(o), target' \in [Ids -> Row \cup {None}],
               UNCHANGED <<legacy, versions, done, host, budget>>
        PROVE  TypeOK' /\ HasRow'
    <3>1. TypeOK'
      BY <2>n, NextRowKeeps DEF TypeOK, host
    <3>2. HasRow'
      <4>1. /\ pc'[o] \in {"query", "mark"} \/ (pc'[o] = "put" /\ DOMAIN rows'[o] # {})
            /\ more' = more
            /\ \A p \in Openers \ {o} : rows'[p] = rows[p] /\ pc'[p] = pc[p] /\ latest'[p] = latest[p]
        BY <2>n, NextRowKeeps
      <4> QED
        BY <4>1 DEF AtRow, HasRow
    <3> QED
      BY <3>1, <3>2
  <2>r. ASSUME NEW o \in Openers, Reset(o), Goto(o, "closed"), UNCHANGED <<stores, host>>,
               budget' \in [{"legacy", "set", "fault"} -> Nat]
        PROVE  TypeOK' /\ HasRow'
    <3>1. TypeOK'
      BY <2>r, ResetKeeps DEF TypeOK, host, stores
    <3>2. HasRow'
      BY <2>r, ResetKeeps DEF AtRow, HasRow
    <3> QED
      BY <3>1, <3>2
  <2>1. ASSUME NEW o \in Openers, prepare(o) PROVE TypeOK' /\ HasRow'
    BY <2>0, <2>1 DEF prepare, Goto, stores, locals, host, TypeOK, AtRow, HasRow, States
  <2>2. ASSUME NEW o \in Openers, query(o) PROVE TypeOK' /\ HasRow'
    <3>1. PICK page \in SUBSET From(o) :
              /\ rows' = [rows EXCEPT ![o] = [k \in page |-> legacy[k]]]
              /\ pc' = [pc EXCEPT ![o] = IF page = {} THEN "mark" ELSE "put"]
              /\ \/ page = From(o) /\ more' = [more EXCEPT ![o] = None]
                 \/ \E m \in page : more' = [more EXCEPT ![o] = m]
      BY <2>2, QueryPage
    <3>2. page \in SUBSET Keys /\ \A k \in page : legacy[k] \in Bodies
      BY <2>0, <3>1 DEF From
    <3> DEFINE new == [k \in page |-> legacy[k]]
    <3>3. new \in [page -> Bodies]
      BY <3>2
    <3>4. new \in Page
      BY <3>2, <3>3, PageType, Zenon
    <3>5. rows' = [rows EXCEPT ![o] = new] /\ DOMAIN new = page
      BY <3>1
    <3> HIDE DEF new
    <3>6. rows' \in [Openers -> Page] /\ DOMAIN rows'[o] = page /\ \A p \in Openers \ {o} : rows'[p] = rows[p]
      BY <2>0, <3>4, <3>5
    <3>7. more' \in [Openers -> Keys \cup {None}] /\ \A p \in Openers \ {o} : more'[p] = more[p]
      BY <2>0, <3>1, <3>2
    <3>8. /\ pc' \in [Openers -> States] /\ pc'[o] = IF page = {} THEN "mark" ELSE "put"
          /\ \A p \in Openers \ {o} : pc'[p] = pc[p]
      BY <2>0, <3>1 DEF States
    <3>9. UNCHANGED <<stores, tver, latest, host, budget>>
      BY <2>2 DEF query
    <3>10. TypeOK'
      BY <3>6, <3>7, <3>8, <3>9 DEF TypeOK, stores, host
    <3>11. HasRow'
      BY <3>6, <3>7, <3>8, <3>9 DEF AtRow, HasRow
    <3> QED
      BY <3>10, <3>11
  <2>3. ASSUME NEW o \in Openers, put_absent(o) PROVE TypeOK' /\ HasRow'
    <3>1. Id(o) \in Ids /\ rows[o][Current(o)] \in Bodies /\ DOMAIN rows[o] # {}
      BY <2>3, CurrentRow DEF put_absent, AtRow, HasRow
    <3>2. Write(Id(o), rows[o][Current(o)], "migration")
      BY <2>3 DEF put_absent
    <3>3. target' \in [Ids -> Row \cup {None}] /\ versions' \in [Ids -> Nat]
      BY <3>1, <3>2, WriteType
    <3>4. tver' \in [Openers -> Nat]
      <4>1. versions[Id(o)] + 1 \in Nat
        BY <2>0, <3>1
      <4>2. tver' = [tver EXCEPT ![o] = versions[Id(o)] + 1]
        BY <2>3 DEF put_absent
      <4> QED
        BY <2>0, <4>1, <4>2
    <3> QED
      BY <2>0, <2>3, <3>1, <3>3, <3>4 DEF put_absent, Goto, host, TypeOK, AtRow, HasRow, States
  <2>4. ASSUME NEW o \in Openers, put_conflict(o) PROVE TypeOK' /\ HasRow'
    BY <2>0, <2>4 DEF put_conflict, Goto, stores, locals, host, TypeOK, AtRow, HasRow, States
  <2>5. ASSUME NEW o \in Openers, inspect(o) PROVE TypeOK' /\ HasRow'
    <3>1. CASE Reset(o) /\ Goto(o, "closed")
      BY <2>5, <2>r, <3>1 DEF inspect, TypeOK
    <3>2. CASE /\ target[Id(o)] # None
               /\ tver' = [tver EXCEPT ![o] = target[Id(o)].version]
               /\ Goto(o, "reread")
               /\ UNCHANGED <<rows, more, latest>>
      <4>1. Id(o) \in Ids /\ DOMAIN rows[o] # {}
        BY <2>5, CurrentRow DEF inspect, AtRow, HasRow
      <4>2. target[Id(o)] \in Row
        BY <3>2, <4>1 DEF TypeOK
      <4>3. target[Id(o)].version \in Nat
        BY <4>2 DEF Row
      <4>4. tver' \in [Openers -> Nat]
        BY <2>0, <3>2, <4>3
      <4> QED
        BY <2>0, <2>5, <3>2, <4>1, <4>4 DEF inspect, Goto, stores, host, TypeOK, AtRow, HasRow, States
    <3> QED
      BY <2>5, <3>1, <3>2 DEF inspect
  <2>6. ASSUME NEW o \in Openers, preserve(o) PROVE TypeOK' /\ HasRow'
    BY <2>6, <2>n DEF preserve, stores, TypeOK
  <2>7. ASSUME NEW o \in Openers, reread(o) PROVE TypeOK' /\ HasRow'
    <3>1. CASE NextRow(o)
      BY <2>7, <2>n, <3>1 DEF reread, stores, TypeOK
    <3>2. CASE /\ latest' = [latest EXCEPT ![o] = legacy[Current(o)]]
               /\ Goto(o, IF legacy[Current(o)] = None THEN "delete" ELSE "update")
               /\ UNCHANGED <<rows, more, tver>>
      <4>1. Current(o) \in Keys /\ DOMAIN rows[o] # {}
        BY <2>7, CurrentRow DEF reread, AtRow, HasRow
      <4>2. latest' \in [Openers -> Bodies \cup {None}] /\ latest'[o] = legacy[Current(o)]
            /\ \A p \in Openers \ {o} : latest'[p] = latest[p]
        BY <2>0, <3>2, <4>1
      <4>3. /\ pc' \in [Openers -> States]
            /\ pc'[o] = IF legacy[Current(o)] = None THEN "delete" ELSE "update"
            /\ \A p \in Openers \ {o} : pc'[p] = pc[p]
        BY <2>0, <3>2 DEF Goto, States
      <4>4. TypeOK'
        BY <2>7, <3>2, <4>2, <4>3 DEF reread, stores, host, TypeOK
      <4>5. HasRow'
        BY <3>2, <4>1, <4>2, <4>3 DEF AtRow, HasRow
      <4> QED
        BY <4>4, <4>5
    <3> QED
      BY <2>7, <3>1, <3>2 DEF reread
  <2>8. ASSUME NEW o \in Openers, delete(o) PROVE TypeOK' /\ HasRow'
    <3>1. target' \in [Ids -> Row \cup {None}]
      BY <2>8 DEF delete, TypeOK
    <3> QED
      BY <2>8, <2>n, <3>1 DEF delete
  <2>9. ASSUME NEW o \in Openers, update(o) PROVE TypeOK' /\ HasRow'
    <3> DEFINE k == Current(o)
               i == Id(o)
    <3>1. k \in DOMAIN rows[o] /\ k \in Keys /\ i \in Ids /\ DOMAIN rows[o] # {} /\ latest[o] # None
      BY <2>9, CurrentRow DEF update, AtRow, HasRow
    <3>2. latest[o] \in Bodies
      BY <2>0, <3>1
    <3>3. Write(i, latest[o], "migration")
      BY <2>9 DEF update
    <3> HIDE DEF k, i
    <3>4. target' \in [Ids -> Row \cup {None}] /\ versions' \in [Ids -> Nat]
      BY <3>1, <3>2, <3>3, WriteType
    <3>5. rows[o] \in Page
      BY <2>0
    <3> DEFINE new == [rows[o] EXCEPT ![k] = latest[o]]
               dom == DOMAIN rows[o]
    <3>6. DOMAIN new = dom /\ \A j \in dom : new[j] = IF j = k THEN latest[o] ELSE rows[o][j]
      OBVIOUS
    <3>7. dom \in SUBSET Keys /\ \A j \in dom : rows[o][j] \in Bodies
      BY <3>5, PageType
    <3>8. new \in [dom -> Bodies]
      BY <3>2, <3>7
    <3>9. new \in Page
      BY <3>7, <3>8, PageType, Zenon
    <3>10. rows' = [rows EXCEPT ![o] = new]
      BY <2>9 DEF update, k
    <3> HIDE DEF new, dom
    <3>11. rows' \in [Openers -> Page] /\ rows'[o] = new /\ \A p \in Openers \ {o} : rows'[p] = rows[p]
      BY <2>0, <3>9, <3>10
    <3>12. tver' \in [Openers -> Nat]
      <4>1. versions[i] + 1 \in Nat
        BY <2>0, <3>1
      <4> QED
        BY <2>0, <2>9, <4>1 DEF update, i
    <3>13. /\ latest' \in [Openers -> Bodies \cup {None}] /\ pc' \in [Openers -> States]
           /\ pc'[o] = "reread" /\ \A p \in Openers \ {o} : pc'[p] = pc[p] /\ latest'[p] = latest[p]
      BY <2>0, <2>9 DEF update, Goto, States
    <3>14. TypeOK'
      BY <2>9, <3>4, <3>11, <3>12, <3>13 DEF update, host, TypeOK
    <3>15. DOMAIN rows'[o] # {}
      BY <3>1, <3>6, <3>11 DEF dom
    <3>16. HasRow'
      BY <2>9, <3>11, <3>13, <3>15 DEF AtRow, HasRow, update
    <3> QED
      BY <3>14, <3>16
  <2>10. ASSUME NEW o \in Openers, update_conflict(o) PROVE TypeOK' /\ HasRow'
    BY <2>10, <2>n DEF update_conflict, stores, TypeOK
  <2>11. ASSUME NEW o \in Openers, mark_done(o) PROVE TypeOK' /\ HasRow'
    BY <2>0, <2>11 DEF mark_done, Goto, locals, host, TypeOK, AtRow, HasRow, States
  <2>12. ASSUME NEW o \in Openers, unaddressed(o) \/ fail(o) PROVE TypeOK' /\ HasRow'
    BY <2>12, <2>b, <2>r DEF unaddressed, fail, TypeOK
  <2>13. ASSUME NEW o \in Openers, NEW i \in Ids, NEW b \in Bodies, set(o, i, b) PROVE TypeOK' /\ HasRow'
    <3>1. target' \in [Ids -> Row \cup {None}] /\ versions' \in [Ids -> Nat]
      BY <2>13, WriteType DEF set
    <3>2. budget' \in [{"legacy", "set", "fault"} -> Nat]
      BY <2>13, <2>b DEF set
    <3> QED
      BY <2>13, <3>1, <3>2 DEF set, locals, host, TypeOK, AtRow, HasRow
  <2>14. ASSUME NEW k \in Keys, NEW b \in Bodies \cup {None}, LegacyWrite(k, b) PROVE TypeOK' /\ HasRow'
    <3>1. budget' \in [{"legacy", "set", "fault"} -> Nat]
      BY <2>14, <2>b DEF LegacyWrite
    <3>2. legacy' \in [Keys -> Bodies \cup {None}] /\ late' \subseteq Keys
      BY <2>0, <2>14 DEF LegacyWrite, TypeOK
    <3> QED
      BY <2>14, <3>1, <3>2 DEF LegacyWrite, locals, TypeOK, AtRow, HasRow
  <2>15. CASE UNCHANGED vars
    BY <2>15 DEF vars, TypeOK, AtRow, HasRow
  <2> QED
    BY <2>1, <2>2, <2>3, <2>4, <2>5, <2>6, <2>7, <2>8, <2>9, <2>10, <2>11, <2>12, <2>13, <2>14, <2>15
    DEF Next, Step
<1> QED
  BY <1>1, <1>2, PTL DEF Spec

-----------------------------------------------------------------------------
\* With the older modules drained: nothing of the legacy row is left behind.
Settled(k) == legacy[k] # None => k \in Keyed /\ target[legacy_key[k]] # None

\* The keys an opener's scan has been over: those up to its cursor, or all of
\* them on the last page, save the rows it still has to migrate.
Behind(o, k) ==
    \/ pc[o] = "query" /\ more[o] # None /\ k <= more[o]
    \/ /\ pc[o] \in {"put", "inspect", "reread"} /\ k \notin DOMAIN rows[o]
       /\ more[o] # None => k <= more[o]
    \/ pc[o] = "mark"

\* What an opener knows when its source does not move: it never follows a
\* change, its page is what the source still holds, and all it has been over
\* is settled.
Scan(o) ==
    /\ pc[o] \notin {"delete", "update"}
    /\ \A k \in DOMAIN rows[o] : rows[o][k] = legacy[k]
    /\ pc[o] = "reread" => target[Id(o)] # None
    /\ \A k \in Keys : Behind(o, k) => Settled(k)

\* A row the migration wrote is its source's.
RightCopies ==
    \A k \in Keyed : (target[legacy_key[k]] # None /\ target[legacy_key[k]].by = "migration")
                       => target[legacy_key[k]].body = legacy[k]

DrainedInv ==
    drained => /\ \A o \in Openers : Scan(o)
               /\ RightCopies
               /\ done => \A k \in Keys : Settled(k)

\* A legacy id that can be encoded has an id.
LEMMA KeyedIds == \A k \in Keyed : k \in Keys /\ legacy_key[k] \in Ids
BY PrefsAssumption DEF Keyed

\* A step that loses no target row and moves no source leaves the scan of an
\* opener that takes no part in it as it was.
LEMMA ScanStays ==
    ASSUME NEW p \in Openers, Scan(p), pc'[p] = pc[p], rows'[p] = rows[p], more'[p] = more[p],
           legacy' = legacy, \A i \in Ids : target[i] # None => target'[i] # None,
           pc[p] = "reread" => Id(p) \in Ids
    PROVE  Scan(p)'
<1>1. Id(p)' = Id(p)
  BY SameRow
<1>2. \A k \in Keys : Behind(p, k)' => Behind(p, k)
  BY DEF Behind
<1>3. \A k \in Keys : Settled(k) => Settled(k)'
  BY KeyedIds DEF Settled
<1> QED
  BY <1>1, <1>2, <1>3 DEF Scan

\* The row an opener leaves is settled when its target is there.
LEMMA ScanNextRow ==
    ASSUME TypeOK, AtRow, NEW o \in Openers, pc[o] \in {"inspect", "reread"}, Scan(o), NextRow(o),
           target[Id(o)] # None, UNCHANGED <<legacy, target>>
    PROVE  Scan(o)'
<1> DEFINE left == DOMAIN rows[o] \ {Current(o)}
<1>1. /\ rows'[o] = [k \in left |-> rows[o][k]]
      /\ pc'[o] = IF left # {} THEN "put" ELSE IF more[o] # None THEN "query" ELSE "mark"
      /\ more' = more
  BY NextRowKeeps
<1>2. DOMAIN rows'[o] = left /\ \A k \in left : rows'[o][k] = rows[o][k]
  BY <1>1
<1>3. ASSUME NEW k \in Keys, Behind(o, k)' PROVE Settled(k)'
  <2>1. Settled(k)' <=> Settled(k)
    BY DEF Settled
  <2>2. CASE k = Current(o)
    <3>1. k \in Keyed /\ target[legacy_key[k]] # None
      BY <2>2, CurrentRow DEF Id
    <3> QED
      BY <2>1, <3>1 DEF Settled
  <2>3. CASE k # Current(o)
    <3>1. k \notin DOMAIN rows[o] /\ (more[o] # None => k <= more[o])
      BY <1>1, <1>2, <1>3, <2>3 DEF Behind
    <3>2. Behind(o, k)
      BY <3>1 DEF Behind
    <3> QED
      BY <2>1, <3>2 DEF Scan
  <2> QED
    BY <2>2, <2>3
<1>4. pc'[o] \in {"put", "query", "mark"}
  BY <1>1
<1>5. \A k \in DOMAIN rows'[o] : rows'[o][k] = legacy'[k]
  BY <1>2 DEF Scan
<1> QED
  BY <1>3, <1>4, <1>5 DEF Scan

\* With the older modules drained, openers that race, fail and start over leave
\* every row they have been over settled, and no copy is wrong.
LEMMA DrainedScan == Spec => []DrainedInv
<1>1. Init => DrainedInv
  <2> SUFFICES ASSUME Init PROVE DrainedInv
    OBVIOUS
  <2>1. ASSUME NEW o \in Openers PROVE Scan(o)
    <3>1. pc[o] = "closed" /\ rows[o] = NoRows
      BY DEF Init
    <3>2. DOMAIN rows[o] = {}
      BY <3>1 DEF NoRows
    <3> QED
      BY <3>1, <3>2 DEF Scan, Behind
  <2>2. RightCopies /\ ~done
    <3>1. \A i \in Ids : target[i] = None \/ target[i].by = "user"
      BY DEF Init
    <3> QED
      BY <3>1, KeyedIds DEF Init, RightCopies
  <2> QED
    BY <2>1, <2>2 DEF DrainedInv
<1>2. TypeOK /\ AtRow /\ DrainedInv /\ [Next]_vars => DrainedInv'
  <2> SUFFICES ASSUME TypeOK, AtRow, DrainedInv, [Next]_vars, drained' PROVE DrainedInv'
    BY DEF DrainedInv
  <2>0. /\ pc \in [Openers -> States] /\ rows \in [Openers -> Page]
        /\ more \in [Openers -> Keys \cup {None}]
        /\ target \in [Ids -> Row \cup {None}]
    BY DEF TypeOK
  <2>1. drained
    BY DEF Next, Step, prepare, query, unaddressed, put_absent, put_conflict, inspect, preserve, reread, delete,
           update, update_conflict, mark_done, fail, set, LegacyWrite, vars, host
  <2>2. (\A o \in Openers : Scan(o)) /\ RightCopies /\ (done => \A k \in Keys : Settled(k))
    BY <2>1 DEF DrainedInv
  <2>c. \A o \in Openers : pc[o] = "reread" => Id(o) \in Ids
    BY CurrentRow
  \* One opener moves, and the stores stay.
  <2>m. ASSUME NEW o \in Openers, UNCHANGED stores, Scan(o)',
               \A p \in Openers \ {o} : pc'[p] = pc[p] /\ rows'[p] = rows[p] /\ more'[p] = more[p]
        PROVE  DrainedInv'
    <3>1. legacy' = legacy /\ target' = target /\ done' = done
      BY <2>m DEF stores
    <3>2. \A p \in Openers \ {o} : Scan(p)'
      BY <2>2, <2>c, <2>m, <3>1, ScanStays
    <3>3. RightCopies' /\ (done' => \A k \in Keys : Settled(k)')
      BY <2>2, <3>1 DEF RightCopies, Settled
    <3> QED
      BY <2>m, <3>2, <3>3 DEF DrainedInv
  <2>r. ASSUME NEW o \in Openers, Reset(o), Goto(o, "closed"), UNCHANGED stores PROVE DrainedInv'
    <3>1. /\ pc'[o] = "closed" /\ DOMAIN rows'[o] = {}
          /\ \A p \in Openers \ {o} : pc'[p] = pc[p] /\ rows'[p] = rows[p] /\ more'[p] = more[p]
      BY <2>r, ResetKeeps
    <3>2. Scan(o)'
      BY <3>1 DEF Scan, Behind
    <3> QED
      BY <2>m, <2>r, <3>1, <3>2
  <2>n. ASSUME NEW o \in Openers, NextRow(o), pc[o] \in {"inspect", "reread"},
               target[Id(o)] # None, UNCHANGED stores
        PROVE  DrainedInv'
    <3>1. Scan(o)'
      BY <2>2, <2>n, ScanNextRow DEF stores
    <3>2. \A p \in Openers \ {o} : pc'[p] = pc[p] /\ rows'[p] = rows[p] /\ more'[p] = more[p]
      BY <2>n, NextRowKeeps
    <3> QED
      BY <2>m, <2>n, <3>1, <3>2
  <2>3. ASSUME NEW o \in Openers, prepare(o) PROVE DrainedInv'
    <3>1. /\ pc'[o] = IF done THEN "open" ELSE "query"
          /\ rows' = rows /\ more' = more /\ legacy' = legacy /\ target' = target /\ UNCHANGED stores
          /\ \A p \in Openers \ {o} : pc'[p] = pc[p]
      BY <2>0, <2>3 DEF prepare, Goto, locals, stores
    <3>2. CASE done
      <4>1. Scan(o)'
        BY <2>2, <3>1, <3>2 DEF Scan, Behind
      <4> QED
        BY <2>m, <3>1, <4>1
    <3>3. CASE ~done
      <4>1. pc[o] = "closed"
        BY <2>3 DEF prepare
      <4>2. more[o] = None
        BY <4>1 DEF AtRow, HasRow
      <4>3. Scan(o)'
        BY <2>2, <3>1, <3>3, <4>2 DEF Scan, Behind
      <4> QED
        BY <2>m, <3>1, <4>3
    <3> QED
      BY <3>2, <3>3
  <2>4. ASSUME NEW o \in Openers, query(o) PROVE DrainedInv'
    <3>1. PICK page \in SUBSET From(o) :
              /\ rows' = [rows EXCEPT ![o] = [k \in page |-> legacy[k]]]
              /\ page = {} => From(o) = {}
              /\ pc' = [pc EXCEPT ![o] = IF page = {} THEN "mark" ELSE "put"]
              /\ \/ page = From(o) /\ more' = [more EXCEPT ![o] = None]
                 \/ \E m \in page : /\ more' = [more EXCEPT ![o] = m]
                                    /\ \A k \in From(o) : k <= m => k \in page
      BY <2>4, QueryPage
    <3>2. UNCHANGED stores /\ legacy' = legacy /\ target' = target /\ pc[o] = "query"
      BY <2>4 DEF query, stores
    <3>3. /\ DOMAIN rows'[o] = page /\ \A k \in page : rows'[o][k] = legacy[k]
          /\ pc'[o] = IF page = {} THEN "mark" ELSE "put"
          /\ \A p \in Openers \ {o} : pc'[p] = pc[p] /\ rows'[p] = rows[p] /\ more'[p] = more[p]
      BY <2>0, <3>1
    <3>4. ASSUME NEW k \in Keys, Behind(o, k)' PROVE Settled(k)'
      <4>1. k \notin page
        BY <3>1, <3>3, <3>4 DEF Behind
      <4>2. k \notin From(o)
        <5>1. CASE page = From(o)
          BY <4>1, <5>1
        <5>2. CASE page # From(o)
          <6>1. PICK m \in page : /\ more' = [more EXCEPT ![o] = m]
                                  /\ \A j \in From(o) : j <= m => j \in page
            BY <3>1, <5>2
          <6>2. more'[o] = m /\ m # None
            BY <2>0, <6>1, PrefsAssumption DEF From
          <6>3. pc'[o] = "put"
            BY <3>3, <6>1
          <6>4. k <= m
            BY <3>4, <6>2, <6>3 DEF Behind
          <6> QED
            BY <4>1, <6>1, <6>4
        <5> QED
          BY <5>1, <5>2
      <4>3. legacy[k] = None \/ (more[o] # None /\ ~(k > more[o]))
        BY <4>2 DEF From
      <4>4. more[o] # None /\ ~(k > more[o]) => k <= more[o]
        <5>1. k \in Nat /\ (more[o] # None => more[o] \in Nat)
          BY <2>0, PrefsAssumption
        <5> QED
          BY <5>1
      <4>5. more[o] # None /\ k <= more[o] => Settled(k)
        BY <2>2, <3>2 DEF Scan, Behind
      <4>6. Settled(k)
        BY <4>3, <4>4, <4>5 DEF Settled
      <4> QED
        BY <3>2, <4>6 DEF Settled
    <3>5. pc'[o] \in {"mark", "put"}
      BY <3>3
    <3>6. Scan(o)'
      BY <3>2, <3>3, <3>4, <3>5 DEF Scan
    <3> QED
      BY <2>m, <3>2, <3>3, <3>6
  <2>5. ASSUME NEW o \in Openers, put_absent(o) PROVE DrainedInv'
    <3> DEFINE k == Current(o)
               i == Id(o)
    <3>1. k \in DOMAIN rows[o] /\ k \in Keyed /\ i = legacy_key[k] /\ i \in Ids /\ rows[o][k] \in Bodies
      BY <2>5, CurrentRow DEF put_absent, Id
    <3>2. Write(i, rows[o][k], "migration")
      BY <2>5 DEF put_absent
    <3>3. /\ target'[i] # None /\ \A j \in Ids \ {i} : target'[j] = target[j]
          /\ target'[i] = [body |-> rows[o][k], version |-> versions[i] + 1, by |-> "migration"]
      BY <3>1, <3>2, WriteType
    <3>4. /\ legacy' = legacy /\ done' = done /\ rows' = rows /\ more' = more
          /\ pc[o] = "put" /\ pc'[o] = "reread" /\ \A p \in Openers \ {o} : pc'[p] = pc[p]
      BY <2>0, <2>5 DEF put_absent, Goto
    <3>5. \A j \in Ids : target[j] # None => target'[j] # None
      BY <3>3
    <3>6. \A p \in Openers \ {o} : Scan(p)'
      BY <2>2, <2>c, <3>4, <3>5, ScanStays
    <3>7. Scan(o)'
      <4>1. Id(o)' = i
        BY <3>4, SameRow
      <4>2. \A j \in Keys : Behind(o, j)' => Behind(o, j)
        BY <3>4 DEF Behind
      <4>3. \A j \in Keys : Settled(j) => Settled(j)'
        BY <3>4, <3>5, KeyedIds DEF Settled
      <4> HIDE DEF k, i
      <4> QED
        BY <2>2, <3>3, <3>4, <4>1, <4>2, <4>3 DEF Scan
    <3>8. rows[o][k] = legacy[k]
      BY <2>2, <3>1 DEF Scan
    <3> HIDE DEF k, i
    <3>9. RightCopies'
      <4> SUFFICES ASSUME NEW j \in Keyed, target'[legacy_key[j]] # None,
                          target'[legacy_key[j]].by = "migration"
                   PROVE  target'[legacy_key[j]].body = legacy'[j]
        BY DEF RightCopies
      <4>1. CASE j = k
        BY <3>1, <3>3, <3>4, <3>8, <4>1
      <4>2. CASE j # k
        <5>1. legacy_key[j] # i /\ legacy_key[j] \in Ids
          BY <3>1, <4>2, OneKey, KeyedIds
        <5>2. target'[legacy_key[j]] = target[legacy_key[j]]
          BY <3>3, <5>1
        <5> QED
          BY <2>2, <3>4, <5>2 DEF RightCopies
      <4> QED
        BY <4>1, <4>2
    <3>10. done' => \A j \in Keys : Settled(j)'
      BY <2>2, <3>4, <3>5, KeyedIds DEF Settled
    <3> QED
      BY <3>6, <3>7, <3>9, <3>10 DEF DrainedInv
  <2>6. ASSUME NEW o \in Openers, put_conflict(o) PROVE DrainedInv'
    <3>1. /\ pc[o] = "put" /\ pc'[o] = "inspect" /\ UNCHANGED stores /\ legacy' = legacy
          /\ rows' = rows /\ more' = more /\ target' = target
          /\ \A p \in Openers \ {o} : pc'[p] = pc[p]
      BY <2>0, <2>6 DEF put_conflict, Goto, locals, stores
    <3>2. \A j \in Keys : (Behind(o, j)' => Behind(o, j)) /\ (Settled(j)' <=> Settled(j))
      BY <3>1 DEF Behind, Settled
    <3>3. Scan(o)'
      BY <2>2, <3>1, <3>2 DEF Scan
    <3> QED
      BY <2>m, <3>1, <3>3
  <2>7. ASSUME NEW o \in Openers, inspect(o) PROVE DrainedInv'
    <3>1. CASE Reset(o) /\ Goto(o, "closed")
      BY <2>7, <2>r, <3>1 DEF inspect
    <3>2. CASE /\ target[Id(o)] # None
               /\ Goto(o, "reread")
               /\ UNCHANGED <<rows, more, latest>>
      <4>1. /\ pc[o] = "inspect" /\ pc'[o] = "reread" /\ UNCHANGED stores /\ legacy' = legacy
            /\ rows' = rows /\ more' = more /\ target' = target
            /\ \A p \in Openers \ {o} : pc'[p] = pc[p]
        BY <2>0, <2>7, <3>2 DEF inspect, Goto, stores
      <4>2. \A j \in Keys : (Behind(o, j)' => Behind(o, j)) /\ (Settled(j)' <=> Settled(j))
        BY <4>1 DEF Behind, Settled
      <4>3. Id(o)' = Id(o)
        BY <4>1, SameRow
      <4>4. Scan(o)'
        BY <2>2, <3>2, <4>1, <4>2, <4>3 DEF Scan
      <4> QED
        BY <2>m, <4>1, <4>4
    <3> QED
      BY <2>7, <3>1, <3>2 DEF inspect
  <2>8. ASSUME NEW o \in Openers, preserve(o) PROVE DrainedInv'
    BY <2>8, <2>n DEF preserve
  <2>9. ASSUME NEW o \in Openers, reread(o) PROVE DrainedInv'
    <3>1. Current(o) \in DOMAIN rows[o]
      BY <2>9, CurrentRow DEF reread
    <3>2. legacy[Current(o)] = rows[o][Current(o)] /\ target[Id(o)] # None
      BY <2>2, <2>9, <3>1 DEF Scan, reread
    <3> QED
      BY <2>9, <2>n, <3>2 DEF reread
  <2>10. ASSUME NEW o \in Openers, delete(o) \/ update(o) \/ update_conflict(o) PROVE DrainedInv'
    BY <2>2, <2>10 DEF Scan, delete, update, update_conflict
  <2>11. ASSUME NEW o \in Openers, mark_done(o) PROVE DrainedInv'
    <3>1. /\ pc[o] = "mark" /\ pc'[o] = "open" /\ legacy' = legacy
          /\ rows' = rows /\ more' = more /\ target' = target
          /\ \A p \in Openers \ {o} : pc'[p] = pc[p]
      BY <2>0, <2>11 DEF mark_done, Goto, locals
    <3>2. \A j \in Keys : Settled(j) /\ Settled(j)'
      BY <2>2, <3>1 DEF Scan, Behind, Settled
    <3>3. Scan(o)'
      BY <2>2, <3>1, <3>2 DEF Scan
    <3>4. \A p \in Openers \ {o} : Scan(p)'
      BY <2>2, <2>c, <3>1, ScanStays
    <3>5. RightCopies'
      BY <2>2, <3>1 DEF RightCopies
    <3> QED
      BY <3>2, <3>3, <3>4, <3>5 DEF DrainedInv
  <2>12. ASSUME NEW o \in Openers, unaddressed(o) \/ fail(o) PROVE DrainedInv'
    BY <2>12, <2>r DEF unaddressed, fail
  <2>13. ASSUME NEW o \in Openers, NEW i \in Ids, NEW b \in Bodies, set(o, i, b) PROVE DrainedInv'
    <3>1. /\ target'[i] # None /\ \A j \in Ids \ {i} : target'[j] = target[j]
          /\ target'[i] = [body |-> b, version |-> versions[i] + 1, by |-> "user"]
      BY <2>13, WriteType DEF set
    <3>2. legacy' = legacy /\ done' = done /\ rows' = rows /\ more' = more /\ pc' = pc
      BY <2>13 DEF set, locals
    <3>3. \A j \in Ids : target[j] # None => target'[j] # None
      BY <3>1
    <3>4. \A p \in Openers : Scan(p)'
      BY <2>2, <2>c, <3>2, <3>3, ScanStays
    <3>5. RightCopies'
      BY <2>2, <3>1, <3>2, KeyedIds DEF RightCopies
    <3>6. done' => \A j \in Keys : Settled(j)'
      BY <2>2, <3>2, <3>3, KeyedIds DEF Settled
    <3> QED
      BY <3>4, <3>5, <3>6 DEF DrainedInv
  <2>14. ASSUME NEW k \in Keys, NEW b \in Bodies \cup {None}, LegacyWrite(k, b) PROVE DrainedInv'
    BY <2>1, <2>14 DEF LegacyWrite
  <2>15. CASE UNCHANGED vars
    <3>1. legacy' = legacy /\ done' = done /\ rows' = rows /\ more' = more /\ pc' = pc /\ target' = target
      BY <2>15 DEF vars
    <3>2. \A p \in Openers : Scan(p)'
      BY <2>2, <2>c, <3>1, ScanStays
    <3>3. RightCopies' /\ (done' => \A j \in Keys : Settled(j)')
      BY <2>2, <3>1 DEF RightCopies, Settled
    <3> QED
      BY <3>2, <3>3 DEF DrainedInv
  <2> QED
    BY <2>3, <2>4, <2>5, <2>6, <2>7, <2>8, <2>9, <2>10, <2>11, <2>12, <2>13, <2>14, <2>15
    DEF Next, Step
<1> QED
  BY <1>1, <1>2, TypeCorrect, PTL DEF Spec

\* The marker is put only once every legacy preference has a target, its copy
\* or somebody's later choice.
THEOREM MarkerIsTrue == Spec => []DoneMeansMigrated
<1>1. DrainedInv => DoneMeansMigrated
  BY DEF DrainedInv, DoneMeansMigrated, Settled, RightCopies
<1> QED
  BY <1>1, DrainedScan, PTL

\* No step of an opener changes or deletes a preference that a user set.
THEOREM ChoiceSurvives == Spec => UserChoiceSurvives
<1> DEFINE Survives == \A i \in Ids :
                          (drained /\ target[i] # None /\ target[i].by = "user" /\ target'[i] # target[i])
                             => (target'[i] # None /\ target'[i].by = "user")
<1>1. TypeOK /\ AtRow /\ DrainedInv /\ [Next]_vars => Survives
  <2> SUFFICES ASSUME TypeOK, AtRow, DrainedInv, [Next]_vars, NEW k \in Ids,
                      drained, target[k] # None, target'[k] # target[k]
               PROVE  target'[k] # None /\ target'[k].by = "user"
    OBVIOUS
  <2>1. ASSUME NEW o \in Openers, put_absent(o) PROVE FALSE
    <3>1. Id(o) \in Ids /\ rows[o][Current(o)] \in Bodies
      BY <2>1, CurrentRow DEF put_absent
    <3>2. Write(Id(o), rows[o][Current(o)], "migration") /\ target[Id(o)] = None
      BY <2>1 DEF put_absent
    <3>3. \A j \in Ids \ {Id(o)} : target'[j] = target[j]
      BY <3>1, <3>2, WriteType
    <3> QED
      BY <3>2, <3>3
  <2>2. ASSUME NEW o \in Openers, delete(o) \/ update(o) PROVE FALSE
    BY <2>2 DEF DrainedInv, Scan, delete, update
  <2>3. ASSUME NEW o \in Openers, NEW j \in Ids, NEW b \in Bodies, set(o, j, b)
        PROVE  target'[k] # None /\ target'[k].by = "user"
    <3>1. /\ target'[j] # None /\ target'[j] = [body |-> b, version |-> versions[j] + 1, by |-> "user"]
          /\ \A i \in Ids \ {j} : target'[i] = target[i]
      BY <2>3, WriteType DEF set
    <3> QED
      BY <3>1
  <2>4. ASSUME \/ UNCHANGED vars
               \/ \E j \in Keys, b \in Bodies \cup {None} : LegacyWrite(j, b)
               \/ \E o \in Openers :
                     \/ prepare(o) \/ query(o) \/ unaddressed(o) \/ put_conflict(o) \/ inspect(o) \/ preserve(o)
                     \/ reread(o) \/ update_conflict(o) \/ mark_done(o) \/ fail(o)
        PROVE FALSE
    <3>1. target' = target
      BY <2>4 DEF vars, LegacyWrite, prepare, query, unaddressed, put_conflict, inspect, preserve, reread,
                  update_conflict, mark_done, fail, stores
    <3> QED
      BY <3>1
  <2> QED
    BY <2>1, <2>2, <2>3, <2>4 DEF Next, Step
<1>2. UserChoiceSurvives <=> [][Survives]_vars
  BY DEF UserChoiceSurvives
<1> HIDE DEF Survives
<1> QED
  BY <1>1, <1>2, TypeCorrect, DrainedScan, PTL DEF Spec

-----------------------------------------------------------------------------
\* Versions only grow, so the version an opener holds names one write, and as
\* long as it is still there the target is what the opener took it for.
Holds(o) ==
    pc[o] \in {"reread", "delete", "update"} =>
        /\ tver[o] <= versions[Id(o)]
        /\ Unmoved(Id(o), tver[o]) => target[Id(o)].body = rows[o][Current(o)]

VersionInv ==
    /\ \A i \in Ids : target[i] # None => target[i].version <= versions[i]
    /\ \A o \in Openers : Holds(o)

\* The copy differs from its source only while an opener that holds it has yet
\* to re-read the source.
Followed(k) ==
    LET row == target[legacy_key[k]] IN
    (row # None /\ row.by = "migration" /\ row.body # legacy[k])
        => (Held(k) \/ budget["fault"] < MaxFaults)

FollowInv ==
    /\ budget["fault"] <= MaxFaults
    /\ \A k \in Keyed \ late : Followed(k)

\* What one step may do to a row of the store.
LEMMA StoreMoves ==
    ASSUME TypeOK, AtRow, [Next]_vars, NEW i \in Ids
    PROVE  \/ versions'[i] = versions[i] /\ target'[i] \in {target[i], None}
           \/ /\ versions'[i] = versions[i] + 1
              /\ target'[i] # None /\ target'[i].version = versions[i] + 1
<1> DEFINE Goal == \/ versions'[i] = versions[i] /\ target'[i] \in {target[i], None}
                   \/ /\ versions'[i] = versions[i] + 1
                      /\ target'[i] # None /\ target'[i].version = versions[i] + 1
<1>0. target \in [Ids -> Row \cup {None}] /\ versions \in [Ids -> Nat]
  BY DEF TypeOK
<1>1. ASSUME NEW j \in Ids, NEW b \in Bodies, NEW by \in {"migration", "user"}, Write(j, b, by)
      PROVE  Goal
  <2>1. /\ target'[j] = [body |-> b, version |-> versions[j] + 1, by |-> by] /\ target'[j] # None
        /\ versions'[j] = versions[j] + 1
        /\ \A h \in Ids \ {j} : target'[h] = target[h] /\ versions'[h] = versions[h]
    BY <1>1, WriteType
  <2>2. CASE i = j
    <3>1. target'[i].version = versions[i] + 1
      BY <2>1, <2>2
    <3> QED
      BY <2>1, <2>2, <3>1
  <2>3. CASE i # j
    BY <2>1, <2>3
  <2> QED
    BY <2>2, <2>3
<1>2. ASSUME NEW o \in Openers, put_absent(o) PROVE Goal
  <2>1. Id(o) \in Ids /\ rows[o][Current(o)] \in Bodies
    BY <1>2, CurrentRow DEF put_absent
  <2>2. Write(Id(o), rows[o][Current(o)], "migration")
    BY <1>2 DEF put_absent
  <2> QED
    BY <1>1, <2>1, <2>2
<1>3. ASSUME NEW o \in Openers, update(o) PROVE Goal
  <2>1. Id(o) \in Ids /\ latest[o] \in Bodies
    BY <1>3, CurrentRow DEF update, AtRow, HasRow, TypeOK
  <2>2. Write(Id(o), latest[o], "migration")
    BY <1>3 DEF update
  <2> QED
    BY <1>1, <2>1, <2>2
<1>4. ASSUME NEW o \in Openers, NEW j \in Ids, NEW b \in Bodies, set(o, j, b) PROVE Goal
  BY <1>1, <1>4 DEF set
<1>5. ASSUME NEW o \in Openers, delete(o) PROVE Goal
  BY <1>0, <1>5 DEF delete
<1>6. ASSUME \/ UNCHANGED vars
             \/ \E j \in Keys, b \in Bodies \cup {None} : LegacyWrite(j, b)
             \/ \E o \in Openers :
                   \/ prepare(o) \/ query(o) \/ unaddressed(o) \/ put_conflict(o) \/ inspect(o) \/ preserve(o)
                   \/ reread(o) \/ update_conflict(o) \/ mark_done(o) \/ fail(o)
      PROVE Goal
  BY <1>6 DEF vars, LegacyWrite, prepare, query, unaddressed, put_conflict, inspect, preserve, reread,
              update_conflict, mark_done, fail, stores
<1> QED
  BY <1>2, <1>3, <1>4, <1>5, <1>6 DEF Next, Step

\* Another's write under an opener shows in the version.
LEMMA HoldsStays ==
    ASSUME TypeOK, AtRow, VersionInv, [Next]_vars, NEW p \in Openers,
           pc'[p] \in {"reread", "delete", "update"} => pc[p] \in {"reread", "delete", "update"},
           rows'[p] = rows[p], tver'[p] = tver[p]
    PROVE  Holds(p)'
<1> SUFFICES ASSUME pc'[p] \in {"reread", "delete", "update"}
             PROVE  /\ tver'[p] <= versions'[Id(p)']
                    /\ Unmoved(Id(p), tver[p])' => target'[Id(p)'].body = rows'[p][Current(p)']
  BY DEF Holds
<1> DEFINE k == Current(p)
           i == Id(p)
<1>1. i \in Ids
  BY CurrentRow
<1>2. Id(p)' = i /\ Current(p)' = k
  BY SameRow
<1>3. /\ tver[p] <= versions[i]
      /\ Unmoved(i, tver[p]) => target[i].body = rows[p][k]
  BY DEF VersionInv, Holds
<1>4. versions[i] \in Nat /\ tver[p] \in Nat
  BY <1>1 DEF TypeOK
<1>5. \/ versions'[i] = versions[i] /\ target'[i] \in {target[i], None}
      \/ /\ versions'[i] = versions[i] + 1
         /\ target'[i] # None /\ target'[i].version = versions[i] + 1
  BY <1>1, StoreMoves
<1> HIDE DEF k, i
<1>6. tver'[p] <= versions'[i]
  BY <1>3, <1>4, <1>5
<1>7. ASSUME target'[i] # None, target'[i].version = tver[p] PROVE target'[i].body = rows'[p][k]
  <2>1. target'[i] = target[i]
    BY <1>3, <1>4, <1>5, <1>7
  <2> QED
    BY <1>3, <1>7, <2>1 DEF Unmoved
<1> QED
  BY <1>2, <1>6, <1>7 DEF Unmoved

\* An opener that holds a version holds a body, for as long as nobody writes.
LEMMA VersionsRight == Spec => []VersionInv
<1>1. Init => VersionInv
  <2> SUFFICES ASSUME Init PROVE VersionInv
    OBVIOUS
  <2>1. ASSUME NEW k \in Ids, target[k] # None PROVE target[k].version <= versions[k]
    <3>1. target[k] \in [body : Bodies, version : {0}, by : {"user"}]
      BY <2>1 DEF Init
    <3>2. target[k].version = 0 /\ versions[k] = 0
      BY <3>1 DEF Init
    <3> QED
      BY <3>2
  <2>2. \A o \in Openers : Holds(o)
    BY DEF Init, Holds
  <2> QED
    BY <2>1, <2>2 DEF VersionInv
<1>2. TypeOK /\ AtRow /\ VersionInv /\ [Next]_vars => VersionInv'
  <2> SUFFICES ASSUME TypeOK, AtRow, VersionInv, [Next]_vars PROVE VersionInv'
    OBVIOUS
  <2>0. /\ pc \in [Openers -> States] /\ rows \in [Openers -> Page] /\ tver \in [Openers -> Nat]
        /\ versions \in [Ids -> Nat] /\ target \in [Ids -> Row \cup {None}]
    BY DEF TypeOK
  <2>1. ASSUME NEW k \in Ids, target'[k] # None PROVE target'[k].version <= versions'[k]
    <3>1. \/ versions'[k] = versions[k] /\ target'[k] = target[k]
          \/ versions'[k] = versions[k] + 1 /\ target'[k].version = versions[k] + 1
      BY <2>1, StoreMoves
    <3>2. versions[k] + 1 <= versions[k] + 1
      BY <2>0
    <3> QED
      BY <2>1, <3>1, <3>2 DEF VersionInv
  <2> SUFFICES ASSUME NEW p \in Openers PROVE Holds(p)'
    BY <2>1 DEF VersionInv
  <2>n. ASSUME NEW o \in Openers, NextRow(o) PROVE Holds(p)'
    <3>1. /\ pc'[o] \in {"put", "query", "mark"}
          /\ \A q \in Openers \ {o} : rows'[q] = rows[q] /\ pc'[q] = pc[q] /\ tver'[q] = tver[q]
      BY <2>n, NextRowKeeps
    <3>2. CASE p = o
      BY <3>1, <3>2 DEF Holds
    <3>3. CASE p # o
      BY <3>1, <3>3, HoldsStays
    <3> QED
      BY <3>2, <3>3
  <2>r. ASSUME NEW o \in Openers, Reset(o), Goto(o, "closed") PROVE Holds(p)'
    <3>1. /\ pc'[o] = "closed"
          /\ \A q \in Openers \ {o} : rows'[q] = rows[q] /\ pc'[q] = pc[q] /\ tver'[q] = tver[q]
      BY <2>r, ResetKeeps
    <3>2. CASE p = o
      BY <3>1, <3>2 DEF Holds
    <3>3. CASE p # o
      BY <3>1, <3>3, HoldsStays
    <3> QED
      BY <3>2, <3>3
  <2>s. ASSUME rows' = rows, tver' = tver, pc' = pc PROVE Holds(p)'
    BY <2>s, HoldsStays
  <2>2. ASSUME NEW o \in Openers, prepare(o) PROVE Holds(p)'
    BY <2>0, <2>2, HoldsStays DEF prepare, Goto, locals
  <2>3. ASSUME NEW o \in Openers, query(o) PROVE Holds(p)'
    <3>1. CASE p = o
      BY <2>0, <2>3, <3>1 DEF query, Goto, Holds
    <3>2. CASE p # o
      BY <2>0, <2>3, <3>2, HoldsStays DEF query, Goto
    <3> QED
      BY <3>1, <3>2
  <2>4. ASSUME NEW o \in Openers, put_absent(o) PROVE Holds(p)'
    <3>1. CASE p = o
      <4> DEFINE k == Current(o)
                 i == Id(o)
      <4>1. i \in Ids /\ rows[o][k] \in Bodies
        BY <2>4, CurrentRow DEF put_absent
      <4>2. Write(i, rows[o][k], "migration")
        BY <2>4 DEF put_absent
      <4>3. /\ target'[i] = [body |-> rows[o][k], version |-> versions[i] + 1, by |-> "migration"]
            /\ versions'[i] = versions[i] + 1
        BY <4>1, <4>2, WriteType
      <4>4. tver'[o] = versions[i] + 1 /\ rows' = rows /\ Current(o)' = k /\ Id(o)' = i
        BY <2>0, <2>4, SameRow DEF put_absent
      <4> HIDE DEF k, i
      <4>5. tver'[o] <= versions'[i]
        <5>1. versions[i] + 1 \in Nat
          BY <2>0, <4>1
        <5> QED
          BY <4>3, <4>4, <5>1
      <4>6. target'[i].body = rows'[o][k]
        BY <4>3, <4>4
      <4> QED
        BY <3>1, <4>4, <4>5, <4>6 DEF Holds
    <3>2. CASE p # o
      BY <2>0, <2>4, <3>2, HoldsStays DEF put_absent, Goto
    <3> QED
      BY <3>1, <3>2
  <2>5. ASSUME NEW o \in Openers, put_conflict(o) PROVE Holds(p)'
    BY <2>0, <2>5, HoldsStays DEF put_conflict, Goto, locals
  <2>6. ASSUME NEW o \in Openers, inspect(o) PROVE Holds(p)'
    <3>1. CASE Reset(o) /\ Goto(o, "closed")
      BY <2>r, <3>1
    <3>2. CASE /\ target[Id(o)] # None
               /\ target[Id(o)].body = rows[o][Current(o)]
               /\ tver' = [tver EXCEPT ![o] = target[Id(o)].version]
               /\ Goto(o, "reread")
               /\ UNCHANGED <<rows, more, latest>>
      <4>1. CASE p = o
        <5> DEFINE k == Current(o)
                   i == Id(o)
        <5>1. i \in Ids /\ target' = target /\ versions' = versions /\ rows' = rows
          BY <2>6, <3>2, CurrentRow DEF inspect, stores
        <5>2. Current(o)' = k /\ Id(o)' = i
          BY <5>1, SameRow
        <5>3. tver'[o] = target[i].version /\ target[i].body = rows[o][k] /\ target[i] # None
          BY <2>0, <3>2
        <5> HIDE DEF k, i
        <5>4. target[i].version <= versions[i]
          BY <5>1, <5>3 DEF VersionInv
        <5> QED
          BY <4>1, <5>1, <5>2, <5>3, <5>4 DEF Holds
      <4>2. CASE p # o
        BY <2>0, <3>2, <4>2, HoldsStays DEF Goto
      <4> QED
        BY <4>1, <4>2
    <3> QED
      BY <2>6, <3>1, <3>2 DEF inspect
  <2>7. ASSUME NEW o \in Openers, preserve(o) \/ delete(o) \/ update_conflict(o) PROVE Holds(p)'
    BY <2>7, <2>n DEF preserve, delete, update_conflict
  <2>8. ASSUME NEW o \in Openers, reread(o) PROVE Holds(p)'
    <3>1. CASE NextRow(o)
      BY <2>n, <3>1
    <3>2. CASE ~NextRow(o)
      BY <2>0, <2>8, <3>2, HoldsStays DEF reread, Goto
    <3> QED
      BY <3>1, <3>2
  <2>9. ASSUME NEW o \in Openers, update(o) PROVE Holds(p)'
    <3>1. CASE p = o
      <4> DEFINE k == Current(o)
                 i == Id(o)
      <4>1. i \in Ids /\ k \in DOMAIN rows[o] /\ latest[o] \in Bodies
        BY <2>9, CurrentRow DEF update, AtRow, HasRow, TypeOK
      <4>2. Write(i, latest[o], "migration")
        BY <2>9 DEF update
      <4>3. /\ target'[i] = [body |-> latest[o], version |-> versions[i] + 1, by |-> "migration"]
            /\ versions'[i] = versions[i] + 1
        BY <4>1, <4>2, WriteType
      <4>4. tver'[o] = versions[i] + 1 /\ rows'[o] = [rows[o] EXCEPT ![k] = latest[o]]
        BY <2>0, <2>9 DEF update
      <4>5. Current(o)' = k /\ Id(o)' = i
        BY <4>4, SameRow
      <4> HIDE DEF k, i
      <4>6. tver'[o] <= versions'[i]
        <5>1. versions[i] + 1 \in Nat
          BY <2>0, <4>1
        <5> QED
          BY <4>3, <4>4, <5>1
      <4>7. target'[i].body = rows'[o][k]
        BY <4>1, <4>3, <4>4
      <4> QED
        BY <3>1, <4>5, <4>6, <4>7 DEF Holds
    <3>2. CASE p # o
      BY <2>0, <2>9, <3>2, HoldsStays DEF update, Goto
    <3> QED
      BY <3>1, <3>2
  <2>10. ASSUME NEW o \in Openers, mark_done(o) PROVE Holds(p)'
    BY <2>0, <2>10, HoldsStays DEF mark_done, Goto, locals
  <2>11. ASSUME NEW o \in Openers, unaddressed(o) \/ fail(o) PROVE Holds(p)'
    BY <2>11, <2>r DEF unaddressed, fail
  <2>12. ASSUME NEW o \in Openers, NEW i \in Ids, NEW b \in Bodies, set(o, i, b) PROVE Holds(p)'
    BY <2>12, <2>s DEF set, locals
  <2>13. ASSUME NEW k \in Keys, NEW b \in Bodies \cup {None}, LegacyWrite(k, b) PROVE Holds(p)'
    BY <2>13, <2>s DEF LegacyWrite, locals
  <2>14. CASE UNCHANGED vars
    BY <2>14, <2>s DEF vars
  <2> QED
    BY <2>2, <2>3, <2>4, <2>5, <2>6, <2>7, <2>8, <2>9, <2>10, <2>11, <2>12, <2>13, <2>14
    DEF Next, Step
<1> QED
  BY <1>1, <1>2, TypeCorrect, PTL DEF Spec

\* A copy that nobody touches is still followed: whoever held it holds it.
LEMMA FollowedStays ==
    ASSUME NEW k \in Keyed, Followed(k),
           target'[legacy_key[k]] = target[legacy_key[k]], legacy'[k] = legacy[k], budget'["fault"] = budget["fault"],
           \A p \in Openers :
               (pc[p] \in {"reread", "delete", "update"} /\ Current(p) = k /\ Unmoved(Id(p), tver[p]))
                   => /\ pc'[p] \in {"reread", "delete", "update"}
                      /\ DOMAIN rows'[p] = DOMAIN rows[p] /\ tver'[p] = tver[p]
    PROVE  Followed(k)'
<1> DEFINE row == target[legacy_key[k]]
<1> SUFFICES ASSUME row # None, row.by = "migration", row.body # legacy[k],
                    ~(budget["fault"] < MaxFaults)
             PROVE  Held(k)'
  BY DEF Followed
<1>1. Held(k)
  BY DEF Followed
<1>2. PICK p \in Openers :
          pc[p] \in {"reread", "delete", "update"} /\ Current(p) = k /\ Unmoved(Id(p), tver[p])
  BY <1>1 DEF Held
<1>3. pc'[p] \in {"reread", "delete", "update"} /\ DOMAIN rows'[p] = DOMAIN rows[p] /\ tver'[p] = tver[p]
  BY <1>2
<1>4. Current(p)' = k /\ Id(p)' = Id(p) /\ Id(p) = legacy_key[k]
  BY <1>2, <1>3, SameRow DEF Id
<1>5. Unmoved(Id(p), tver[p])'
  BY <1>2, <1>3, <1>4 DEF Unmoved
<1> QED
  BY <1>3, <1>4, <1>5 DEF Held

\* A copy differs from its source only while an opener that can still correct
\* it is on its way to, or after a fault, or once an older module wrote the
\* source when no opener was left to see it.
THEOREM CopyFollows == Spec => []CopyFollowsSource
<1> USE PrefsAssumption
<1>1. Init => FollowInv
  <2> SUFFICES ASSUME Init PROVE FollowInv
    OBVIOUS
  <2>1. budget["fault"] <= MaxFaults
    BY DEF Init
  <2>2. ASSUME NEW k \in Ids, target[k] # None PROVE target[k].by # "migration"
    <3>1. target[k] \in [body : Bodies, version : {0}, by : {"user"}]
      BY <2>2 DEF Init
    <3> QED
      BY <3>1
  <2> QED
    BY <2>1, <2>2, KeyedIds DEF FollowInv, Followed
<1>2. TypeOK /\ AtRow /\ VersionInv /\ FollowInv /\ [Next]_vars => FollowInv'
  <2> SUFFICES ASSUME TypeOK, AtRow, VersionInv, FollowInv, [Next]_vars PROVE FollowInv'
    OBVIOUS
  <2>0. /\ pc \in [Openers -> States] /\ rows \in [Openers -> Page] /\ tver \in [Openers -> Nat]
        /\ versions \in [Ids -> Nat] /\ target \in [Ids -> Row \cup {None}]
        /\ legacy \in [Keys -> Bodies \cup {None}]
        /\ budget \in [{"legacy", "set", "fault"} -> Nat]
    BY DEF TypeOK
  <2>1. budget["fault"] <= MaxFaults /\ \A k \in Keyed \ late : Followed(k)
    BY DEF FollowInv
  <2>2. ASSUME budget'["fault"] = budget["fault"], late' = late, \A k \in Keyed \ late : Followed(k)'
        PROVE  FollowInv'
    BY <2>1, <2>2 DEF FollowInv
  \* An opener that settles its row lets go of a row that is not its own.
  <2>n. ASSUME NEW o \in Openers, NextRow(o), UNCHANGED <<legacy, host, budget>>, NEW k \in Keyed,
               Followed(k), target'[legacy_key[k]] = target[legacy_key[k]],
               ~(pc[o] \in {"reread", "delete", "update"} /\ Current(o) = k /\ Unmoved(Id(o), tver[o]))
        PROVE  Followed(k)'
    <3>1. \A p \in Openers \ {o} : rows'[p] = rows[p] /\ pc'[p] = pc[p] /\ tver'[p] = tver[p]
      BY <2>n, NextRowKeeps
    <3> QED
      BY <2>n, <3>1, FollowedStays
  <2>3. ASSUME NEW o \in Openers, prepare(o) PROVE FollowInv'
    <3>1. ASSUME NEW k \in Keyed \ late PROVE Followed(k)'
      BY <2>0, <2>1, <2>3, FollowedStays DEF prepare, Goto, locals, stores
    <3> QED
      BY <2>2, <2>3, <3>1 DEF prepare, host
  <2>4. ASSUME NEW o \in Openers, query(o) PROVE FollowInv'
    <3>1. ASSUME NEW k \in Keyed \ late PROVE Followed(k)'
      <4>1. \A p \in Openers \ {o} : rows'[p] = rows[p] /\ pc'[p] = pc[p] /\ tver'[p] = tver[p]
        BY <2>0, <2>4 DEF query, Goto
      <4> QED
        BY <2>1, <2>4, <4>1, FollowedStays DEF query, stores
    <3> QED
      BY <2>2, <2>4, <3>1 DEF query, host
  <2>5. ASSUME NEW o \in Openers, put_absent(o) PROVE FollowInv'
    <3>1. PICK j \in Keyed, i \in Ids :
              j = Current(o) /\ i = Id(o) /\ i = legacy_key[j] /\ rows[o][j] \in Bodies
      BY <2>5, CurrentRow DEF put_absent, Id
    <3>2. Write(i, rows[o][j], "migration") /\ rows' = rows
      BY <2>5, <3>1 DEF put_absent
    <3>3. /\ target'[i] = [body |-> rows[o][j], version |-> versions[i] + 1, by |-> "migration"]
          /\ target'[i] # None /\ \A h \in Ids \ {i} : target'[h] = target[h]
      BY <3>1, <3>2, WriteType
    <3>4. /\ tver'[o] = versions[i] + 1 /\ pc'[o] = "reread" /\ Current(o)' = j /\ Id(o)' = i
          /\ \A p \in Openers \ {o} : pc'[p] = pc[p] /\ tver'[p] = tver[p]
      BY <2>0, <2>5, <3>1, <3>2, SameRow DEF put_absent, Goto
    <3>5. Held(j)'
      <4>1. Unmoved(Id(o), tver[o])'
        BY <3>3, <3>4 DEF Unmoved
      <4> QED
        BY <3>4, <4>1 DEF Held
    <3>6. ASSUME NEW k \in Keyed \ late PROVE Followed(k)'
      <4>1. CASE k = j
        BY <3>5, <4>1 DEF Followed
      <4>2. CASE k # j
        <5>1. target'[legacy_key[k]] = target[legacy_key[k]]
          BY <3>1, <3>3, <4>2, OneKey, KeyedIds
        <5> QED
          BY <2>1, <2>5, <3>2, <3>4, <5>1, FollowedStays DEF put_absent
      <4> QED
        BY <4>1, <4>2
    <3> QED
      BY <2>2, <2>5, <3>6 DEF put_absent, host
  <2>6. ASSUME NEW o \in Openers, put_conflict(o) PROVE FollowInv'
    <3>1. ASSUME NEW k \in Keyed \ late PROVE Followed(k)'
      BY <2>0, <2>1, <2>6, FollowedStays DEF put_conflict, Goto, locals, stores
    <3> QED
      BY <2>2, <2>6, <3>1 DEF put_conflict, host
  <2>7. ASSUME NEW o \in Openers, inspect(o) PROVE FollowInv'
    <3>1. \A p \in Openers \ {o} : rows'[p] = rows[p] /\ pc'[p] = pc[p] /\ tver'[p] = tver[p]
      <4>1. CASE Reset(o) /\ Goto(o, "closed")
        BY <4>1, ResetKeeps
      <4>2. CASE /\ tver' = [tver EXCEPT ![o] = target[Id(o)].version]
                 /\ Goto(o, "reread")
                 /\ UNCHANGED <<rows, more, latest>>
        BY <2>0, <4>2 DEF Goto
      <4> QED
        BY <2>7, <4>1, <4>2 DEF inspect
    <3>2. ASSUME NEW k \in Keyed \ late PROVE Followed(k)'
      BY <2>1, <2>7, <3>1, FollowedStays DEF inspect, stores
    <3> QED
      BY <2>2, <2>7, <3>2 DEF inspect, host
  <2>8. ASSUME NEW o \in Openers, preserve(o) PROVE FollowInv'
    <3>1. ASSUME NEW k \in Keyed \ late PROVE Followed(k)'
      BY <2>1, <2>8, <2>n DEF preserve, stores
    <3> QED
      BY <2>2, <2>8, <3>1 DEF preserve, host
  <2>9. ASSUME NEW o \in Openers, reread(o) PROVE FollowInv'
    <3> DEFINE j == Current(o)
    <3>1. ASSUME NEW k \in Keyed \ late PROVE Followed(k)'
      <4>1. CASE legacy[j] = rows[o][j] /\ NextRow(o)
        <5>1. CASE j = k /\ Unmoved(Id(o), tver[o])
          <6>1. target[legacy_key[k]].body = rows[o][k]
            BY <2>9, <5>1 DEF VersionInv, Holds, reread, Id
          <6>2. target'[legacy_key[k]].body = legacy'[k]
            BY <2>9, <4>1, <5>1, <6>1 DEF reread, stores
          <6> QED
            BY <6>2 DEF Followed
        <5>2. CASE ~(j = k /\ Unmoved(Id(o), tver[o]))
          BY <2>1, <2>9, <2>n, <4>1, <5>2 DEF reread, stores
        <5> QED
          BY <5>1, <5>2
      <4>2. CASE /\ Goto(o, IF legacy[j] = None THEN "delete" ELSE "update")
                 /\ UNCHANGED <<rows, more, tver>>
        BY <2>0, <2>1, <2>9, <4>2, FollowedStays DEF reread, Goto, stores
      <4> QED
        BY <2>9, <4>1, <4>2 DEF reread
    <3> QED
      BY <2>2, <2>9, <3>1 DEF reread, host
  <2>10. ASSUME NEW o \in Openers, delete(o) PROVE FollowInv'
    <3>1. Current(o) \in Keyed /\ Id(o) = legacy_key[Current(o)]
      BY <2>10, CurrentRow DEF delete, Id
    <3>2. ASSUME NEW k \in Keyed \ late PROVE Followed(k)'
      <4>0. legacy_key[k] \in Ids /\ (k # Current(o) => legacy_key[k] # Id(o))
        BY <3>1, OneKey, KeyedIds
      <4>1. CASE k = Current(o) /\ Unmoved(Id(o), tver[o])
        <5>1. target'[legacy_key[k]] = None
          BY <2>0, <2>10, <3>1, <4>0, <4>1 DEF delete
        <5> QED
          BY <5>1 DEF Followed
      <4>2. CASE ~(k = Current(o) /\ Unmoved(Id(o), tver[o]))
        <5>1. target'[legacy_key[k]] = target[legacy_key[k]]
          BY <2>0, <2>10, <3>1, <4>0, <4>2 DEF delete
        <5> QED
          BY <2>1, <2>10, <2>n, <4>2, <5>1 DEF delete
      <4> QED
        BY <4>1, <4>2
    <3> QED
      BY <2>2, <2>10, <3>2 DEF delete, host
  <2>11. ASSUME NEW o \in Openers, update(o) PROVE FollowInv'
    <3>1. PICK j \in Keyed, i \in Ids :
              /\ j = Current(o) /\ i = Id(o) /\ i = legacy_key[j]
              /\ j \in DOMAIN rows[o] /\ latest[o] \in Bodies
      BY <2>11, CurrentRow DEF update, AtRow, HasRow, TypeOK, Id
    <3>2. Write(i, latest[o], "migration")
      BY <2>11, <3>1 DEF update
    <3>3. /\ target'[i] = [body |-> latest[o], version |-> versions[i] + 1, by |-> "migration"]
          /\ target'[i] # None /\ \A h \in Ids \ {i} : target'[h] = target[h]
      BY <3>1, <3>2, WriteType
    <3>4. /\ tver'[o] = versions[i] + 1 /\ pc'[o] = "reread" /\ DOMAIN rows'[o] = DOMAIN rows[o]
          /\ \A p \in Openers \ {o} : rows'[p] = rows[p] /\ pc'[p] = pc[p] /\ tver'[p] = tver[p]
      BY <2>0, <2>11, <3>1 DEF update, Goto
    <3>5. Current(o)' = j /\ Id(o)' = i
      BY <3>1, <3>4, SameRow
    <3>6. Held(j)'
      <4>1. Unmoved(Id(o), tver[o])'
        BY <3>3, <3>4, <3>5 DEF Unmoved
      <4> QED
        BY <3>4, <3>5, <4>1 DEF Held
    <3>7. ASSUME NEW k \in Keyed \ late PROVE Followed(k)'
      <4>1. CASE k = j
        BY <3>6, <4>1 DEF Followed
      <4>2. CASE k # j
        <5>1. target'[legacy_key[k]] = target[legacy_key[k]]
          BY <3>1, <3>3, <4>2, OneKey, KeyedIds
        <5> QED
          BY <2>1, <2>11, <3>1, <3>4, <4>2, <5>1, FollowedStays DEF update
      <4> QED
        BY <4>1, <4>2
    <3> QED
      BY <2>2, <2>11, <3>7 DEF update, host
  <2>12. ASSUME NEW o \in Openers, update_conflict(o) PROVE FollowInv'
    <3>1. ASSUME NEW k \in Keyed \ late PROVE Followed(k)'
      BY <2>1, <2>12, <2>n DEF update_conflict, stores
    <3> QED
      BY <2>2, <2>12, <3>1 DEF update_conflict, host
  <2>13. ASSUME NEW o \in Openers, mark_done(o) PROVE FollowInv'
    <3>1. ASSUME NEW k \in Keyed \ late PROVE Followed(k)'
      BY <2>0, <2>1, <2>13, FollowedStays DEF mark_done, Goto, locals
    <3> QED
      BY <2>2, <2>13, <3>1 DEF mark_done, host
  <2>14. ASSUME NEW o \in Openers, fail(o) PROVE FollowInv'
    <3>1. budget'["fault"] = budget["fault"] - 1
      BY <2>0, <2>14 DEF fail, Spend
    <3>2. budget["fault"] \in Nat
      BY <2>0
    <3>3. budget'["fault"] < MaxFaults /\ budget'["fault"] <= MaxFaults
      BY <2>1, <3>1, <3>2
    <3> QED
      BY <3>3 DEF FollowInv, Followed
  <2>15. ASSUME NEW o \in Openers, NEW i \in Ids, NEW b \in Bodies, set(o, i, b) PROVE FollowInv'
    <3>1. /\ target'[i] = [body |-> b, version |-> versions[i] + 1, by |-> "user"]
          /\ \A h \in Ids \ {i} : target'[h] = target[h]
      BY <2>15, WriteType DEF set
    <3>2. budget'["fault"] = budget["fault"]
      BY <2>0, <2>15 DEF set, Spend
    <3>3. ASSUME NEW k \in Keyed \ late PROVE Followed(k)'
      <4>1. CASE legacy_key[k] = i
        BY <3>1, <4>1 DEF Followed
      <4>2. CASE legacy_key[k] # i
        <5>1. target'[legacy_key[k]] = target[legacy_key[k]]
          BY <3>1, <4>2, KeyedIds
        <5> QED
          BY <2>1, <2>15, <3>2, <5>1, FollowedStays DEF set, locals
      <4> QED
        BY <4>1, <4>2
    <3> QED
      BY <2>2, <2>15, <3>2, <3>3 DEF set, host
  <2>16. ASSUME NEW j \in Keys, NEW b \in Bodies \cup {None}, LegacyWrite(j, b) PROVE FollowInv'
    <3>1. budget'["fault"] = budget["fault"]
      BY <2>0, <2>16 DEF LegacyWrite, Spend
    <3>2. target' = target /\ pc' = pc /\ rows' = rows /\ tver' = tver /\ late \subseteq late'
      BY <2>16 DEF LegacyWrite, locals
    <3>3. ASSUME NEW k \in Keyed \ late' PROVE Followed(k)'
      <4>1. CASE k = j
        <5>1. target[legacy_key[k]] = None \/ Held(k)
          BY <2>16, <4>1, <3>3 DEF LegacyWrite
        <5>2. Held(k) => Held(k)'
          BY <3>2 DEF Held, Current, Id, Unmoved
        <5> QED
          BY <3>2, <5>1, <5>2 DEF Followed
      <4>2. CASE k # j
        <5>1. legacy'[k] = legacy[k]
          BY <2>0, KeyedIds, <2>16, <4>2 DEF LegacyWrite
        <5> QED
          BY <2>1, <3>1, <3>2, <5>1, FollowedStays
      <4> QED
        BY <4>1, <4>2
    <3> QED
      BY <2>1, <3>1, <3>3 DEF FollowInv
  <2>18. ASSUME NEW o \in Openers, unaddressed(o) PROVE FollowInv'
    <3>1. \A p \in Openers \ {o} : rows'[p] = rows[p] /\ pc'[p] = pc[p] /\ tver'[p] = tver[p]
      BY <2>18, ResetKeeps DEF unaddressed
    <3>2. ASSUME NEW k \in Keyed \ late PROVE Followed(k)'
      BY <2>1, <2>18, <3>1, FollowedStays DEF unaddressed, stores
    <3> QED
      BY <2>2, <2>18, <3>2 DEF unaddressed, host
  <2>17. CASE UNCHANGED vars
    <3>1. ASSUME NEW k \in Keyed \ late PROVE Followed(k)'
      BY <2>1, <2>17, FollowedStays DEF vars
    <3> QED
      BY <2>2, <2>17, <3>1 DEF vars
  <2> QED
    BY <2>3, <2>4, <2>5, <2>6, <2>7, <2>8, <2>9, <2>10, <2>11, <2>12, <2>13, <2>14, <2>15, <2>16, <2>17, <2>18
    DEF Next, Step
<1>3. FollowInv => CopyFollowsSource
  BY DEF FollowInv, Followed, CopyFollowsSource
<1> QED
  BY <1>1, <1>2, <1>3, TypeCorrect, VersionsRight, PTL DEF Spec

=============================================================================
