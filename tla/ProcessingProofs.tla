-------------------------- MODULE ProcessingProofs --------------------------
(***************************************************************************)
(* What one Execute promises for every slug depth, attempt limit and set   *)
(* of tenants (Execute), and what the members that compute around it do    *)
(* (Processing): preparation, windows, deliveries, classification and      *)
(* vocabulary, for any requests, rows, boundaries, messages, deliveries,   *)
(* clocks and names.                                                       *)
(***************************************************************************)
EXTENDS Execute, Processing, FiniteSetTheorems, WellFoundedInduction, TLAPS

\* Type correctness: the level stays a name of the slug and the attempts stay
\* within the limit.
THEOREM TypeCorrect == Spec => []TypeOK
<1> USE ExecuteAssumption DEF TypeOK, Levels, Tools
<1>1. Init => TypeOK
  <2> SUFFICES ASSUME Init PROVE TypeOK
    OBVIOUS
  <2>1. byDefault \in BOOLEAN /\ seen \in BOOLEAN
    BY Zenon DEF Init
  <2> QED
    BY <2>1 DEF Init
<1>2. TypeOK /\ [Next]_vars => TypeOK'
  <2> SUFFICES ASSUME TypeOK, [Next]_vars PROVE TypeOK'
    OBVIOUS
  <2>1. ASSUME NEW t \in Tools, Begin(t) PROVE TypeOK'
    <3>1. seen' \in BOOLEAN
      BY <2>1, Zenon DEF Begin, Governs
    <3> QED
      BY <2>1, <3>1 DEF Begin
  <2>2. CASE get
    BY <2>2 DEF get, Decide, lookup, sent
  <2>3. CASE load
    BY <2>3 DEF load, Decide, lookup, sent
  <2>4. CASE start
    BY <2>4 DEF start, lookup, sent
  <2>5. ASSUME NEW outcome \in Outcomes, call(outcome) PROVE TypeOK'
    <3>1. calls' \in Nat /\ effects' \in Nat
      BY <2>5 DEF call, Performed
    <3>2. pc' \in {"idle", "send", "resend"} /\ attempt' \in 0..MaxAttempts
      BY <2>5 DEF call, retries
    <3> QED
      BY <2>5, <3>1, <3>2 DEF call, lookup
  <2>6. CASE refuse
    BY <2>6 DEF refuse, lookup, sent
  <2>7. ASSUME NEW l \in Levels, NEW value \in {"allow", "deny"}, set_user_scopes(l, value) PROVE TypeOK'
    <3>1. seen' \in BOOLEAN
      BY <2>7 DEF set_user_scopes, lookup
    <3> QED
      BY <2>7, <3>1 DEF set_user_scopes, lookup, sent
  <2>8. ASSUME NEW c \in Tenants \cup {NoRoute}, configure(c) PROVE TypeOK'
    BY <2>8 DEF configure, lookup, sent
  <2>9. CASE UNCHANGED vars
    BY <2>9 DEF vars, lookup, sent
  <2> QED
    BY <2>1, <2>2, <2>3, <2>4, <2>5, <2>6, <2>7, <2>8, <2>9 DEF Next, Step
<1> QED
  BY <1>1, <1>2, PTL DEF Spec

-----------------------------------------------------------------------------
\* What makes AtMostOneEffect inductive: a call that is still under way has
\* had nothing performed.
EffectInv == effects <= 1 /\ (pc # "idle" => effects = 0)

\* One Execute has the provider perform its action at most once, however many
\* of its calls are refused, rate limited, or lose their answer.
THEOREM SingleEffect == Spec => []AtMostOneEffect
<1>1. Init => EffectInv
  BY DEF Init, EffectInv
<1>2. TypeOK /\ EffectInv /\ [Next]_vars => EffectInv'
  <2> SUFFICES ASSUME TypeOK, EffectInv, [Next]_vars PROVE EffectInv'
    OBVIOUS
  <2> USE DEF EffectInv
  <2>1. ASSUME NEW t \in Tools, Begin(t) PROVE EffectInv'
    BY <2>1 DEF Begin
  <2>2. CASE get
    BY <2>2 DEF get, sent
  <2>3. CASE load
    BY <2>3 DEF load, sent
  <2>4. CASE start
    BY <2>4 DEF start, sent
  <2>5. ASSUME NEW outcome \in Outcomes, call(outcome) PROVE EffectInv'
    <3>1. effects = 0 /\ effects' \in {0, 1}
      BY <2>5 DEF call, Performed
    <3>2. CASE outcome \in {"not_ready", "rate_limited"}
      <4>1. effects' = 0
        BY <2>5, <3>1, <3>2 DEF call, Performed
      <4> QED
        BY <4>1
    <3>3. CASE outcome \notin {"not_ready", "rate_limited"}
      <4>1. pc' = "idle"
        BY <2>5, <3>3 DEF call, retries
      <4> QED
        BY <3>1, <4>1
    <3> QED
      BY <3>2, <3>3
  <2>6. CASE refuse
    BY <2>6 DEF refuse, sent
  <2>7. ASSUME NEW l \in Levels, NEW value \in {"allow", "deny"}, set_user_scopes(l, value) PROVE EffectInv'
    BY <2>7 DEF set_user_scopes, sent
  <2>8. ASSUME NEW c \in Tenants \cup {NoRoute}, configure(c) PROVE EffectInv'
    BY <2>8 DEF configure, sent
  <2>9. CASE UNCHANGED vars
    BY <2>9 DEF vars, sent
  <2> QED
    BY <2>1, <2>2, <2>3, <2>4, <2>5, <2>6, <2>7, <2>8, <2>9 DEF Next, Step
<1>3. EffectInv => AtMostOneEffect
  BY DEF EffectInv, AtMostOneEffect
<1> QED
  BY <1>1, <1>2, <1>3, TypeCorrect, PTL DEF Spec

-----------------------------------------------------------------------------
\* What makes BoundedCalls inductive: how many calls were made when the next
\* one is about to be.  Only an allow-listed action gets past attempt 1, and
\* the readiness retry was spent, if at all, on attempt 1.
CallsInv ==
    /\ pc \in {"get", "load", "client"} => calls = 0
    /\ pc = "send" => /\ attempt >= 1
                      /\ attempt = 1 => calls = 0
                      /\ attempt > 1 => tool = "history" /\ calls <= attempt
    /\ pc = "resend" => attempt = 1 /\ calls = 1
    /\ pc = "idle" => calls <= IF tool = "history" THEN MaxAttempts + 1 ELSE 2

\* The readiness retry and the rate-limit retry do not multiply: at most one
\* call more than the attempts an action is allowed.
THEOREM CallBound == Spec => []BoundedCalls
<1>1. Init => CallsInv
  BY ExecuteAssumption DEF Init, CallsInv
<1>2. TypeOK /\ CallsInv /\ [Next]_vars => CallsInv'
  <2> SUFFICES ASSUME TypeOK, CallsInv, [Next]_vars PROVE CallsInv'
    OBVIOUS
  <2> USE ExecuteAssumption DEF TypeOK, CallsInv
  <2>1. ASSUME NEW t \in Tools, Begin(t) PROVE CallsInv'
    BY <2>1 DEF Begin
  <2>2. CASE get
    BY <2>2 DEF get, Decide, sent
  <2>3. CASE load
    BY <2>3 DEF load, Decide, sent
  <2>4. CASE start
    BY <2>4 DEF start, sent
  <2>5. ASSUME NEW outcome \in Outcomes, call(outcome) PROVE CallsInv'
    <3>1. calls' = calls + 1 /\ tool' = tool /\ retries(outcome) /\ pc \in {"send", "resend"}
      BY <2>5 DEF call
    <3>2. CASE pc' = "idle"
      BY <3>1, <3>2 DEF retries
    <3>3. CASE pc' = "send"
      BY <3>1, <3>3 DEF retries
    <3>4. CASE pc' = "resend"
      BY <3>1, <3>4 DEF retries
    <3> QED
      BY <3>1, <3>2, <3>3, <3>4 DEF retries
  <2>6. CASE refuse
    BY <2>6 DEF refuse, sent
  <2>7. ASSUME NEW l \in Levels, NEW value \in {"allow", "deny"}, set_user_scopes(l, value) PROVE CallsInv'
    BY <2>7 DEF set_user_scopes, sent
  <2>8. ASSUME NEW c \in Tenants \cup {NoRoute}, configure(c) PROVE CallsInv'
    BY <2>8 DEF configure, sent
  <2>9. CASE UNCHANGED vars
    BY <2>9 DEF vars, sent
  <2> QED
    BY <2>1, <2>2, <2>3, <2>4, <2>5, <2>6, <2>7, <2>8, <2>9 DEF Next, Step
<1>3. TypeOK /\ CallsInv => BoundedCalls
  BY ExecuteAssumption DEF TypeOK, CallsInv, BoundedCalls
<1> QED
  BY <1>1, <1>2, <1>3, TypeCorrect, PTL DEF Spec

-----------------------------------------------------------------------------
\* What the rest of the lookup will answer if nothing is saved meanwhile.
Fate ==
    \/ byDefault /\ \A l \in 1..level : prefs[l] = "unset"
    \/ \E l \in 1..level : prefs[l] = "allow" /\ \A m \in 1..level : prefs[m] # "unset" => m <= l

Looking == pc \in {"get", "load"}

\* What makes SentOnlyIfAllowed inductive: until the first save, nothing is
\* saved above the level the lookup has reached; and until the second, a
\* lookup that never saw the action allowed is on its way to refusing it.
LookupInv ==
    /\ Looking => level \in Levels
    /\ pc = "load" => prefs[level] # "unset"
    /\ (Looking /\ saves = 0) => \A l \in Levels : l > level => prefs[l] = "unset"
    /\ (Looking /\ saves < 2 /\ ~seen) => ~Fate
    /\ SentOnlyIfAllowed

\* An action is sent only if the preference that governs it allowed it at some
\* instant of the lookup, unless two saves fell inside that one lookup.
THEOREM Permission == Spec => []SentOnlyIfAllowed
<1>1. Init => LookupInv
  BY DEF Init, LookupInv, Looking, SentOnlyIfAllowed
<1>2. TypeOK /\ LookupInv /\ [Next]_vars => LookupInv'
  <2> SUFFICES ASSUME TypeOK, LookupInv, [Next]_vars PROVE LookupInv'
    OBVIOUS
  <2> USE ExecuteAssumption DEF TypeOK, Levels, LookupInv, Looking, SentOnlyIfAllowed
  <2>1. ASSUME NEW t \in Tools, Begin(t) PROVE LookupInv'
    <3>1. CASE t = "blank"
      BY <2>1, <3>1 DEF Begin
    <3>2. CASE t # "blank"
      <4>1. level' = Depth /\ pc' = "get" /\ saves' = 0 /\ UNCHANGED <<prefs, byDefault>>
        BY <2>1, <3>2 DEF Begin
      <4>2. seen' <=> Governs(prefs, byDefault)
        BY <2>1 DEF Begin
      <4>3. Fate' => Governs(prefs, byDefault)
        BY <4>1 DEF Fate, Governs, Saved
      <4> QED
        BY <4>1, <4>2, <4>3
    <3> QED
      BY <3>1, <3>2
  <2>2. CASE get
    <3>1. CASE prefs[level] # "unset"
      BY <2>2, <3>1 DEF get, lookup, Fate
    <3>2. CASE prefs[level] = "unset" /\ level > 1
      <4>1. level' = level - 1 /\ pc' = "get" /\ UNCHANGED <<prefs, byDefault, lookup>>
        BY <2>2, <3>2 DEF get
      <4>2. Fate' => Fate
        BY <2>2, <3>2, <4>1 DEF Fate, get
      <4> QED
        BY <2>2, <3>2, <4>1, <4>2 DEF get, lookup
    <3>3. CASE prefs[level] = "unset" /\ level = 1
      <4>1. byDefault => Fate
        BY <3>3 DEF Fate
      <4> QED
        BY <2>2, <3>3, <4>1 DEF get, Decide, lookup
    <3> QED
      BY <2>2, <3>1, <3>2, <3>3 DEF get
  <2>3. CASE load
    <3>1. prefs[level] = "allow" => Fate
      BY <2>3 DEF load, Fate
    <3> QED
      BY <2>3, <3>1 DEF load, Decide, lookup
  <2>4. CASE start
    BY <2>4 DEF start, lookup
  <2>5. ASSUME NEW outcome \in Outcomes, call(outcome) PROVE LookupInv'
    <3>1. pc' \in {"idle", "send", "resend"} /\ pc \in {"send", "resend"}
      BY <2>5 DEF call, retries
    <3> QED
      BY <2>5, <3>1 DEF call, lookup
  <2>6. CASE refuse
    BY <2>6 DEF refuse, lookup
  <2>7. ASSUME NEW l \in Levels, NEW value \in {"allow", "deny"}, set_user_scopes(l, value) PROVE LookupInv'
    <3>1. CASE ~Looking
      BY <2>7, <3>1 DEF set_user_scopes, lookup
    <3>2. CASE Looking
      <4>1. UNCHANGED <<pc, tool, level, byDefault>> /\ prefs' = [prefs EXCEPT ![l] = value]
        BY <2>7 DEF set_user_scopes
      <4>2. /\ seen' <=> (seen \/ Governs(prefs', byDefault))
            /\ saves' = IF saves < 2 THEN saves + 1 ELSE saves
        BY <2>7, <3>2 DEF set_user_scopes
      <4>3. ASSUME saves = 0, ~seen' PROVE ~Fate'
        <5>1. CASE l <= level
          <6>1. \A m \in Levels : m > level => prefs'[m] = "unset"
            BY <3>2, <4>1, <4>3, <5>1
          <6>2. Fate' => Governs(prefs', byDefault)
            BY <3>2, <4>1, <6>1 DEF Fate, Governs, Saved
          <6> QED
            BY <4>2, <4>3, <6>2
        <5>2. CASE l > level
          <6>1. \A m \in 1..level : prefs'[m] = prefs[m]
            BY <3>2, <4>1, <5>2
          <6>2. Fate' => Fate
            BY <4>1, <6>1 DEF Fate
          <6> QED
            BY <3>2, <4>2, <4>3, <6>2
        <5> QED
          BY <3>2, <5>1, <5>2
      <4> QED
        BY <3>2, <4>1, <4>2, <4>3
    <3> QED
      BY <3>1, <3>2
  <2>8. ASSUME NEW c \in Tenants \cup {NoRoute}, configure(c) PROVE LookupInv'
    BY <2>8 DEF configure, lookup, Fate
  <2>9. CASE UNCHANGED vars
    BY <2>9 DEF vars, lookup, Fate
  <2> QED
    BY <2>1, <2>2, <2>3, <2>4, <2>5, <2>6, <2>7, <2>8, <2>9 DEF Next, Step
<1>3. LookupInv => SentOnlyIfAllowed
  BY DEF LookupInv
<1> QED
  BY <1>1, <1>2, <1>3, TypeCorrect, PTL DEF Spec

-----------------------------------------------------------------------------
\* The safety part of ImplementsOnce: every step of the pipeline is a step of
\* the promise, or none that its caller can see.  A call that is followed by
\* another has had nothing performed; performing an action ends the request.
THEOREM Refines == Spec => Once!Spec
<1> USE DEF Stage, Once!vars
<1>1. Init => Once!Init
  BY DEF Init, Once!Init
<1>2. TypeOK /\ [Next]_vars => [Once!Next]_(Once!vars)
  <2> SUFFICES ASSUME TypeOK, [Next]_vars PROVE [Once!Next]_(Once!vars)
    OBVIOUS
  <2>1. ASSUME NEW t \in Tools, Begin(t) PROVE Once!Next
    BY <2>1 DEF Begin, Once!Next, Once!Request
  <2>2. CASE get
    BY <2>2 DEF get, Decide, sent, Once!Next, Once!Allow, Once!End, Once!Refuse
  <2>3. CASE load
    BY <2>3 DEF load, Decide, sent, Once!Next, Once!Allow, Once!End, Once!Refuse
  <2>4. CASE start
    BY <2>4 DEF start, sent, Once!Next, Once!End, Once!Refuse
  <2>5. ASSUME NEW outcome \in Outcomes, call(outcome) PROVE [Once!Next]_(Once!vars)
    <3>1. Stage = "allowed"
      BY <2>5 DEF call
    <3>2. PICK n \in Performed(outcome) : effects' = effects + n
      BY <2>5 DEF call
    <3>3. CASE pc' = "idle"
      <4>1. n \in {0, 1} /\ effects \in Nat
        BY DEF Performed, TypeOK
      <4> QED
        BY <3>1, <3>2, <3>3, <4>1 DEF Once!Next, Once!End, Once!Refuse, Once!Perform
    <3>4. CASE pc' # "idle"
      <4>1. pc' \in {"send", "resend"} /\ outcome \in {"not_ready", "rate_limited"}
        BY <2>5, <3>4 DEF call, retries
      <4>2. effects' = effects
        BY <3>2, <4>1 DEF Performed, TypeOK
      <4> QED
        BY <3>1, <4>1, <4>2
    <3> QED
      BY <3>3, <3>4
  <2>6. CASE refuse
    BY <2>6 DEF refuse, sent, Once!Next, Once!End, Once!Refuse
  <2>7. ASSUME NEW l \in Levels, NEW value \in {"allow", "deny"}, set_user_scopes(l, value)
        PROVE UNCHANGED Once!vars
    BY <2>7 DEF set_user_scopes, sent
  <2>8. ASSUME NEW c \in Tenants \cup {NoRoute}, configure(c) PROVE UNCHANGED Once!vars
    BY <2>8 DEF configure, sent
  <2>9. CASE UNCHANGED vars
    BY <2>9 DEF vars, sent
  <2> QED
    BY <2>1, <2>2, <2>3, <2>4, <2>5, <2>6, <2>7, <2>8, <2>9 DEF Next, Step
<1> QED
  BY <1>1, <1>2, TypeCorrect, PTL DEF Spec, Once!Spec

-----------------------------------------------------------------------------
\* The first step of a computation, or one that ends it.
LEMMA JobSteps ==
    ASSUME "at" \in DOMAIN job, [JobNext]_job
    PROVE  \/ \E request \in Requests : prepare_arguments(request)
           \/ \E rows \in Backlogs, paths \in Envelopes, honours \in BOOLEAN, successful \in BOOLEAN :
                 answer_tasks(rows, paths, honours, successful)
           \/ \E floor \in Floors : filter(floor)
           \/ \E d \in Deliveries : send(d)
           \/ corrupt
           \/ \E secret \in Secrets, now \in Clock : receive(secret, now)
           \/ \E known \in Known : decode(known)
           \/ /\ "at" \in DOMAIN job'
              /\ job'.at \in {"reported", "formatted", "classified", "reclassified", "evaluated"}
           \/ UNCHANGED job
<1> DEFINE Away == /\ "at" \in DOMAIN job'
                   /\ job'.at \in {"reported", "formatted", "classified", "reclassified", "evaluated"}
<1>1. ASSUME NEW known \in BOOLEAN, NEW m \in Messages, report(known, m) PROVE Away
  BY <1>1 DEF report
<1>2. ASSUME NEW a \in Actions(Named), NEW profile \in {"LeadingVerb", "SubstringCompatibility"}, NEW p \in Prefs,
             evaluate_actions(a, profile, p)
      PROVE  Away
  BY <1>2 DEF evaluate_actions
<1>3. ASSUME wrap \/ format_failure \/ classify_error PROVE Away
  BY <1>3 DEF wrap, format_failure, classify_error
<1> HIDE DEF Away
<1>4. CASE JobBegin
  BY <1>1, <1>2, <1>4, Zenon DEF JobBegin, Away
<1> QED
  BY <1>3, <1>4, Zenon DEF JobNext, Away

-----------------------------------------------------------------------------
\* A day of the cycle of four hundred years from March 1 of year 0: its century,
\* its four years within that, its year within these, and its day of that year,
\* of which there are 366 before a March that follows a February 29.
InCycle(c, q, r, doy) ==
    /\ c \in 0..3 /\ q \in 0..24 /\ r \in 0..3 /\ doy \in Nat /\ doy <= 365
    /\ doy = 365 => r = 3 /\ (q # 24 \/ c = 3)

DayOfCycle(c, q, r, doy) == 36524 * c + 1461 * q + 365 * r + doy

\* The year of a day of the cycle is found by the reference.
LEMMA YearFound ==
    ASSUME NEW c, NEW q, NEW r, NEW doy, InCycle(c, q, r, doy)
    PROVE  LET doe == DayOfCycle(c, q, r, doy)
           IN  /\ doe \in Nat /\ doe <= 146096
               /\ YearOf(doe) = 100 * c + 4 * q + r
               /\ doe = DaysBeforeYear(100 * c + 4 * q + r) + doy
<1>1. CASE c = 0
  BY <1>1 DEF InCycle, DayOfCycle, YearOf, DaysBeforeYear
<1>2. CASE c = 1
  BY <1>2 DEF InCycle, DayOfCycle, YearOf, DaysBeforeYear
<1>3. CASE c = 2
  BY <1>3 DEF InCycle, DayOfCycle, YearOf, DaysBeforeYear
<1>4. CASE c = 3
  BY <1>4 DEF InCycle, DayOfCycle, YearOf, DaysBeforeYear
<1> QED
  BY <1>1, <1>2, <1>3, <1>4 DEF InCycle

\* Every day of the cycle is one.
LEMMA DayPlaced ==
    ASSUME NEW doe \in Nat, doe <= 146096
    PROVE  \E c, q, r, doy : InCycle(c, q, r, doy) /\ doe = DayOfCycle(c, q, r, doy)
<1> DEFINE c == IF doe = 146096 THEN 3 ELSE doe \div 36524
           inC == doe - 36524 * c
           q == inC \div 1461
           inQ == inC - 1461 * q
           r == IF inQ = 1460 THEN 3 ELSE inQ \div 365
           doy == inQ - 365 * r
<1>1. c \in 0..3 /\ inC \in Nat /\ inC <= 36524 /\ (inC = 36524 => c = 3)
  OBVIOUS
<1> HIDE DEF c, inC
<1>2. q \in 0..24 /\ inQ \in Nat /\ inQ <= 1460 /\ inC = 1461 * q + inQ /\ (inQ = 1460 => q # 24 \/ c = 3)
  BY <1>1
<1> HIDE DEF q, inQ
<1>3. r \in 0..3 /\ doy \in Nat /\ doy <= 365 /\ inQ = 365 * r + doy /\ (doy = 365 => r = 3 /\ inQ = 1460)
  BY <1>2
<1> HIDE DEF r, doy
<1>4. InCycle(c, q, r, doy)
  BY <1>1, <1>2, <1>3 DEF InCycle
<1>5. doe = DayOfCycle(c, q, r, doy)
  <2>1. doe = 36524 * c + inC
    BY <1>1 DEF inC
  <2> QED
    BY <1>1, <1>2, <1>3, <2>1 DEF DayOfCycle
<1> QED
  BY <1>4, <1>5

\* A year of the cycle.
LEMMA YearPlaced ==
    ASSUME NEW yoe \in 0..399
    PROVE  \E c \in 0..3, q \in 0..24, r \in 0..3 :
              /\ yoe = 100 * c + 4 * q + r
              /\ yoe \div 4 = 25 * c + q /\ yoe \div 100 = c
<1>1. WITNESS yoe \div 100 \in 0..3, (yoe % 100) \div 4 \in 0..24, yoe % 4 \in 0..3
<1> QED
  OBVIOUS

\* The months of such a year: only the last ends with the year.
LEMMA MonthFound ==
    ASSUME NEW doy \in Nat, doy <= 365
    PROVE  LET mp == MonthOf(doy)
               day == doy - DaysBeforeMonth(mp) + 1
           IN  /\ mp \in 0..11 /\ CivilMonth(mp) \in 1..12 /\ day \in 1..31
               /\ CivilMonth(mp) \in {4, 6, 9, 11} => day <= 30
               /\ CivilMonth(mp) = 2 => day <= 29 /\ (day = 29 => doy = 365)
BY DEF MonthOf, DaysBeforeMonth, CivilMonth

\* A day of a month is found in that month.
LEMMA MonthPlaced ==
    ASSUME NEW m \in 1..12, NEW d \in 1..31,
           m \in {4, 6, 9, 11} => d <= 30, m = 2 => d <= 29
    PROVE  LET mp == (m + 9) % 12
               doy == DaysBeforeMonth(mp) + d - 1
           IN  /\ mp \in 0..11 /\ CivilMonth(mp) = m
               /\ doy \in Nat /\ doy <= 365 /\ (doy = 365 => m = 2 /\ d = 29)
               /\ MonthOf(doy) = mp
BY DEF MonthOf, DaysBeforeMonth, CivilMonth

\* A year and a day lie in a cycle.
LEMMA YearInCycle ==
    ASSUME NEW y \in Int
    PROVE  \E e \in Int, yoe \in 0..399 : y = 400 * e + yoe /\ y \div 400 = e /\ y % 400 = yoe
<1>1. y = 400 * (y \div 400) + (y % 400)
  OBVIOUS
<1>2. WITNESS y \div 400 \in Int, y % 400 \in 0..399
<1> QED
  BY <1>1

\* Day n is the day doe of the cycle e.
DayIs(n, e, doe) == e \in Int /\ doe \in Nat /\ doe <= 146096 /\ n = 146097 * e + doe

\* A number places a day in a cycle.
LEMMA DayInCycle ==
    ASSUME NEW n \in Int
    PROVE  \E e, doe : DayIs(n, e, doe)
<1>1. n % 146097 <= 146096
  OBVIOUS
<1>2. n = 146097 * (n \div 146097) + (n % 146097)
  OBVIOUS
<1>3. DayIs(n, n \div 146097, n % 146097)
  BY <1>1, <1>2, SMT DEF DayIs
<1> QED
  BY <1>3

\* Cycles follow each other.
LEMMA CycleFound ==
    ASSUME NEW e \in Int, NEW doe \in Nat, doe <= 146096
    PROVE  /\ (146097 * e + doe) % 146097 = doe
           /\ (146097 * e + doe) \div 146097 = e
OBVIOUS

\* The reference's date of a day.
LEMMA CivilOf ==
    ASSUME NEW e \in Int, NEW c, NEW q, NEW r, NEW doy, InCycle(c, q, r, doy)
    PROVE  LET mp == MonthOf(doy)
               m == CivilMonth(mp)
           IN  CivilDate(146097 * e + DayOfCycle(c, q, r, doy)) =
                  <<100 * c + 4 * q + r + 400 * e + (IF m <= 2 THEN 1 ELSE 0), m, doy - DaysBeforeMonth(mp) + 1>>
<1> DEFINE doe == DayOfCycle(c, q, r, doy)
           n == 146097 * e + doe
           yoe == 100 * c + 4 * q + r
<1>1. /\ doe \in Nat /\ doe <= 146096 /\ YearOf(doe) = yoe /\ doe = DaysBeforeYear(yoe) + doy
  BY YearFound
<1>2. yoe \in Nat /\ doy \in Nat /\ DaysBeforeYear(yoe) \in Int
  BY DEF InCycle, DaysBeforeYear
<1> HIDE DEF doe, yoe
<1>3. n % 146097 = doe /\ n \div 146097 = e
  BY <1>1, CycleFound
<1>4. doe - DaysBeforeYear(yoe) = doy
  BY <1>1, <1>2
<1> HIDE DEF n
<1>5. CivilDate(n) =
        LET mp == MonthOf(doy)
            m == CivilMonth(mp)
        IN  <<yoe + 400 * e + (IF m <= 2 THEN 1 ELSE 0), m, doy - DaysBeforeMonth(mp) + 1>>
  BY <1>1, <1>3, <1>4 DEF CivilDate
<1> QED
  BY <1>5 DEF n, doe, yoe

\* A year that begins in March ends with a February 29 just when the civil year
\* it ends in is a leap year.
LEMMA LeapYear ==
    ASSUME NEW e \in Int, NEW c \in 0..3, NEW q \in 0..24, NEW r \in 0..3
    PROVE  LET year == 100 * c + 4 * q + r + 400 * e + 1
           IN  (year % 4 = 0 /\ (year % 100 # 0 \/ year % 400 = 0)) <=> r = 3 /\ (q # 24 \/ c = 3)
<1> DEFINE year == 100 * c + 4 * q + r + 400 * e + 1
<1>1. year % 4 = 0 <=> r = 3
  OBVIOUS
<1>2. year % 100 = 0 <=> r = 3 /\ q = 24
  OBVIOUS
<1>3. year % 400 = 0 <=> r = 3 /\ q = 24 /\ c = 3
  OBVIOUS
<1> QED
  BY <1>1, <1>2, <1>3

\* is_calendar_date lets a date through just when the calendar has it.
LEMMA CalendarAgrees ==
    ASSUME NEW y \in Nat, NEW m \in Nat, NEW d \in Nat
    PROVE  is_calendar_date(<<y, m, d>>) <=> InCalendar(<<y, m, d>>)
<1> DEFINE v == <<y, m, d>>
           num == DayNumber(y, m, d)
<1>0. v[1] = y /\ v[2] = m /\ v[3] = d
  OBVIOUS
<1>1. ASSUME is_calendar_date(v) PROVE InCalendar(v)
  <2>1. m \in 1..12 /\ d # 0 /\ d <= days_in_month(y, m)
    BY <1>0, <1>1 DEF is_calendar_date
  <2>2. /\ d \in 1..31 /\ (m \in {4, 6, 9, 11} => d <= 30)
        /\ m = 2 => d <= 29 /\ (d = 29 => y % 4 = 0 /\ (y % 100 # 0 \/ y % 400 = 0))
    BY <2>1 DEF days_in_month
  <2> DEFINE from == IF m <= 2 THEN y - 1 ELSE y
             mp == (m + 9) % 12
             doy == DaysBeforeMonth(mp) + d - 1
  <2>3. /\ mp \in 0..11 /\ CivilMonth(mp) = m
        /\ doy \in Nat /\ doy <= 365 /\ (doy = 365 => m = 2 /\ d = 29)
        /\ MonthOf(doy) = mp
    BY <2>1, <2>2, MonthPlaced
  <2>4. PICK e \in Int, yoe \in 0..399 :
           from = 400 * e + yoe /\ from \div 400 = e /\ from % 400 = yoe
    <3>1. from \in Int
      BY <2>1
    <3> HIDE DEF from
    <3> QED
      BY <3>1, YearInCycle
  <2>5. PICK c \in 0..3, q \in 0..24, r \in 0..3 :
           yoe = 100 * c + 4 * q + r /\ yoe \div 4 = 25 * c + q /\ yoe \div 100 = c
    BY YearPlaced
  <2>6. y = from + (IF m <= 2 THEN 1 ELSE 0)
    BY <2>1
  <2>7. num = 146097 * e + DaysBeforeYear(yoe) + doy
    <3>1. DaysBeforeYear(yoe) \in Int /\ DaysBeforeMonth(mp) \in Int
      BY <2>3 DEF DaysBeforeYear, DaysBeforeMonth
    <3>2. num = 146097 * e + DaysBeforeYear(yoe) + DaysBeforeMonth(mp) + d - 1
      <4> HIDE DEF mp
      <4> QED
        BY <2>4 DEF DayNumber, mp
    <3> QED
      BY <3>1, <3>2
  <2> HIDE DEF from, mp, doy, num
  <2>8. InCycle(c, q, r, doy)
    <3>1. doy = 365 => r = 3 /\ (q # 24 \/ c = 3)
      <4> SUFFICES ASSUME doy = 365 PROVE r = 3 /\ (q # 24 \/ c = 3)
        OBVIOUS
      <4>1. y % 4 = 0 /\ (y % 100 # 0 \/ y % 400 = 0)
        BY <2>2, <2>3
      <4>2. y = 100 * c + 4 * q + r + 400 * e + 1
        BY <2>3, <2>4, <2>5, <2>6
      <4> QED
        BY <4>1, <4>2, LeapYear
    <3> QED
      BY <2>3, <3>1 DEF InCycle
  <2>9. num = 146097 * e + DayOfCycle(c, q, r, doy)
    <3>1. DayOfCycle(c, q, r, doy) = DaysBeforeYear(yoe) + doy
      BY <2>5, <2>8, YearFound
    <3>2. DaysBeforeYear(yoe) \in Int /\ DayOfCycle(c, q, r, doy) \in Int
      BY <2>3, <2>5 DEF DaysBeforeYear, DayOfCycle
    <3> QED
      BY <2>3, <2>7, <3>1, <3>2
  <2>10. CivilDate(num) = <<100 * c + 4 * q + r + 400 * e + (IF m <= 2 THEN 1 ELSE 0), m,
                            doy - DaysBeforeMonth(mp) + 1>>
    <3>1. CivilDate(146097 * e + DayOfCycle(c, q, r, doy)) =
             <<100 * c + 4 * q + r + 400 * e + (IF CivilMonth(MonthOf(doy)) <= 2 THEN 1 ELSE 0),
               CivilMonth(MonthOf(doy)), doy - DaysBeforeMonth(MonthOf(doy)) + 1>>
      BY <2>8, CivilOf
    <3>2. MonthOf(doy) = mp /\ CivilMonth(mp) = m
      BY <2>3
    <3> QED
      BY <2>9, <3>1, <3>2
  <2>11. doy - DaysBeforeMonth(mp) + 1 = d
    <3>1. DaysBeforeMonth(mp) \in Int
      BY <2>3 DEF DaysBeforeMonth
    <3> QED
      BY <2>2, <3>1, SMT DEF doy
  <2>12. 100 * c + 4 * q + r + 400 * e + (IF m <= 2 THEN 1 ELSE 0) = y
    <3>1. from = 100 * c + 4 * q + r + 400 * e
      BY <2>4, <2>5
    <3> QED
      BY <2>5, <2>6, <3>1
  <2>13. CivilDate(num) = v
    BY <2>10, <2>11, <2>12
  <2> QED
    BY <1>0, <2>1, <2>13 DEF InCalendar, num
<1>2. ASSUME InCalendar(v) PROVE is_calendar_date(v)
  <2>1. m \in 1..12 /\ d >= 1 /\ CivilDate(num) = v /\ num \in Int
    <3>1. m \in 1..12 /\ d >= 1 /\ CivilDate(num) = v
      BY <1>0, <1>2 DEF InCalendar
    <3>2. DaysBeforeMonth((m + 9) % 12) \in Int
      BY <3>1, SMT DEF DaysBeforeMonth
    <3>3. \A from \in Int : from \div 400 \in Int /\ DaysBeforeYear(from % 400) \in Int
      BY SMT DEF DaysBeforeYear
    <3>4. num \in Int
      BY <3>1, <3>2, <3>3, SMT DEF DayNumber
    <3> QED
      BY <3>1, <3>4
  <2> HIDE DEF num
  <2>2. PICK e, doe : DayIs(num, e, doe)
    BY <2>1, DayInCycle
  <2>3. PICK c, q, r, doy : InCycle(c, q, r, doy) /\ doe = DayOfCycle(c, q, r, doy)
    BY <2>2, DayPlaced, SMT DEF DayIs
  <2> DEFINE mp == MonthOf(doy)
             day == doy - DaysBeforeMonth(mp) + 1
             year == 100 * c + 4 * q + r + 400 * e + (IF CivilMonth(mp) <= 2 THEN 1 ELSE 0)
  <2>4. CivilDate(num) = <<year, CivilMonth(mp), day>>
    <3>1. CivilDate(146097 * e + DayOfCycle(c, q, r, doy)) = <<year, CivilMonth(mp), day>>
      BY <2>2, <2>3, CivilOf, SMT DEF DayIs
    <3> QED
      BY <2>2, <2>3, <3>1, SMT DEF DayIs
  <2>5. /\ CivilMonth(mp) \in 1..12 /\ day \in 1..31
        /\ CivilMonth(mp) \in {4, 6, 9, 11} => day <= 30
        /\ CivilMonth(mp) = 2 => day <= 29 /\ (day = 29 => doy = 365)
    BY <2>3, MonthFound DEF InCycle
  <2>6. CivilMonth(mp) = 2 => year = 100 * c + 4 * q + r + 400 * e + 1
    OBVIOUS
  <2> HIDE DEF mp, day, year
  <2>7. y = year /\ m = CivilMonth(mp) /\ d = day
    BY <2>1, <2>4
  <2>8. m = 2 /\ d = 29 => y % 4 = 0 /\ (y % 100 # 0 \/ y % 400 = 0)
    <3> SUFFICES ASSUME m = 2, d = 29 PROVE y % 4 = 0 /\ (y % 100 # 0 \/ y % 400 = 0)
      OBVIOUS
    <3>1. c \in 0..3 /\ q \in 0..24 /\ r \in 0..3 /\ r = 3 /\ (q # 24 \/ c = 3)
      BY <2>3, <2>5, <2>7 DEF InCycle
    <3>2. y = 100 * c + 4 * q + r + 400 * e + 1
      BY <2>6, <2>7
    <3> QED
      BY <2>2, <3>1, <3>2, LeapYear DEF DayIs
  <2>9. d <= days_in_month(y, m)
    BY <2>1, <2>5, <2>7, <2>8 DEF days_in_month
  <2> QED
    BY <1>0, <2>1, <2>9 DEF is_calendar_date
<1> QED
  BY <1>1, <1>2

-----------------------------------------------------------------------------
\* What prepare validates: the arguments with the defaults and the window filled in.
Filled(request) ==
    LET zoned == IF request.zone = Absent THEN request.args
                 ELSE apply_calendar_query_defaults(request.tool, request.args, request.zone)
    IN  IF request.since = Absent THEN zoned
        ELSE apply_window_args(request.tool, zoned, request.since.v)

\* prepare answers with its arguments filled in and validated, or refuses.
LEMMA Prepared ==
    ASSUME NEW request
    PROVE  prepare(request) = IF request.since # Absent /\ request.since.is # "instant"
                              THEN Refused({"validation"})
                              ELSE prepare_execute_arguments(request.tool, Filled(request))
BY DEF prepare, Filled

\* g is f with more keys.
Extends(g, f) ==
    /\ g = [k \in DOMAIN g |-> g[k]]
    /\ DOMAIN f \subseteq DOMAIN g
    /\ \A k \in DOMAIN f : g[k] = f[k]

\* What or_insert gives, and that a second time gives nothing new.
LEMMA Inserted ==
    ASSUME NEW f, NEW k, NEW v, f = [j \in DOMAIN f |-> f[j]]
    PROVE  Extends(OrInsert(f, k, v), f) /\ DOMAIN OrInsert(f, k, v) = DOMAIN f \cup {k}
BY DEF Extends, OrInsert, With

\* A second or_insert of a key gives nothing new.
LEMMA InsertedOnce ==
    ASSUME NEW f, NEW k, NEW v, k \in DOMAIN f
    PROVE  OrInsert(f, k, v) = f
BY DEF OrInsert

\* The records of arguments.
LEMMA ObjectRecords ==
    /\ \A f : Object(f).is = "object" /\ Object(f).of = f
    /\ \A m : Refused(m).is = "refused"
BY DEF Object, Refused

\* The defaults fill in what the caller left out, and only that.
LEMMA FilledExtends ==
    ASSUME NEW r, r.args.is # "other", r.args.of = [k \in DOMAIN r.args.of |-> r.args.of[k]]
    PROVE  /\ Filled(r).is # "other"
           /\ Extends(Filled(r).of, r.args.of)
           /\ r.tool.slug \in Calendar => DOMAIN Filled(r).of \subseteq DOMAIN r.args.of \cup {"timeZone", "singleEvents"}
           /\ r.tool.slug = "NOTION_FETCH_DATA" => Filled(r).of = r.args.of
<1> DEFINE zoned == IF r.zone = Absent THEN r.args
                    ELSE apply_calendar_query_defaults(r.tool, r.args, r.zone)
           f == r.args.of
           f1 == OrInsert(f, "timeZone", r.zone)
           f2 == OrInsert(f1, "singleEvents", Value("true", <<>>))
<1>1. /\ zoned.is # "other" /\ Extends(zoned.of, f)
      /\ DOMAIN zoned.of \subseteq DOMAIN f \cup {"timeZone", "singleEvents"}
      /\ r.tool.slug \notin TZ_DEFAULTING_SLUGS => zoned.of = f
  <2>1. CASE zoned = r.args
    BY <2>1 DEF Extends
  <2>2. CASE zoned # r.args
    <3>1. zoned = Object(f2) /\ r.tool.slug \in TZ_DEFAULTING_SLUGS
      BY <2>2 DEF apply_calendar_query_defaults, NoObject
    <3>2. Extends(f1, f) /\ DOMAIN f1 = DOMAIN f \cup {"timeZone"}
      BY Inserted
    <3>3. Extends(f2, f1) /\ DOMAIN f2 = DOMAIN f1 \cup {"singleEvents"}
      <4>1. f1 = [k \in DOMAIN f1 |-> f1[k]]
        BY <3>2 DEF Extends
      <4> HIDE DEF f1
      <4> QED
        BY <4>1, Inserted
    <3> HIDE DEF f1, f2, zoned
    <3>4. Extends(f2, f)
      BY <3>2, <3>3 DEF Extends
    <3> QED
      BY <3>1, <3>2, <3>3, <3>4, ObjectRecords
  <2> QED
    BY <2>1, <2>2
<1>2. Filled(r) = IF r.since = Absent THEN zoned ELSE apply_window_args(r.tool, zoned, r.since.v)
  BY DEF Filled
<1> HIDE DEF zoned
<1>3. CASE Filled(r) = zoned
  BY <1>1, <1>3 DEF Calendar, TZ_DEFAULTING_SLUGS
<1>4. CASE Filled(r) # zoned
  <2> DEFINE order == spec_for(r.tool.slug).order
             ordered == IF order = "" THEN zoned.of ELSE OrInsert(zoned.of, order, Value("text", <<>>))
             g == IF r.tool.slug = "ASANA_GET_MULTIPLE_TASKS"
                  THEN OrInsert(ordered, "modified_since", Value("instant", r.since.v)) ELSE ordered
  <2>1. r.tool.slug \in TaskSlugs /\ Filled(r) = Object(g)
    BY <1>1, <1>2, <1>4 DEF apply_window_args, NoObject
  <2>2. zoned.of = [k \in DOMAIN zoned.of |-> zoned.of[k]]
    BY <1>1 DEF Extends
  <2>3. Extends(ordered, zoned.of)
    <3>1. CASE order = ""
      BY <2>2, <3>1 DEF Extends
    <3>2. CASE order # ""
      <4> HIDE DEF order
      <4> QED
        BY <2>2, <3>2, Inserted
    <3> QED
      BY <3>1, <3>2
  <2>4. Extends(g, ordered)
    <3>1. ordered = [k \in DOMAIN ordered |-> ordered[k]]
      BY <2>3 DEF Extends
    <3> HIDE DEF ordered
    <3>2. CASE r.tool.slug = "ASANA_GET_MULTIPLE_TASKS"
      BY <3>1, <3>2, Inserted
    <3>3. CASE r.tool.slug # "ASANA_GET_MULTIPLE_TASKS"
      BY <3>1, <3>3 DEF Extends
    <3> QED
      BY <3>2, <3>3
  <2> HIDE DEF ordered, g
  <2>5. Extends(g, f)
    BY <1>1, <2>3, <2>4 DEF Extends
  <2> QED
    BY <2>1, <2>5, ObjectRecords DEF TaskSlugs, Calendar
<1> QED
  BY <1>3, <1>4

\* Arguments that have what the defaults filled in are not filled in again.
LEMMA FilledOnce ==
    ASSUME NEW r, NEW g, r.args.is \notin NoObject, r.args.of = [k \in DOMAIN r.args.of |-> r.args.of[k]],
           r = [tool |-> r.tool, args |-> r.args, zone |-> r.zone, since |-> r.since],
           DOMAIN Filled(r).of \subseteq DOMAIN g
    PROVE  Filled([r EXCEPT !.args = Object(g)]) = Object(g)
<1> DEFINE s == [r EXCEPT !.args = Object(g)]
           zoned(q) == IF q.zone = Absent THEN q.args
                       ELSE apply_calendar_query_defaults(q.tool, q.args, q.zone)
<1>1. s.tool = r.tool /\ s.args = Object(g) /\ s.zone = r.zone /\ s.since = r.since
  OBVIOUS
<1> HIDE DEF s
<1>2. Filled(s) = IF r.since = Absent THEN zoned(s) ELSE apply_window_args(r.tool, zoned(s), r.since.v)
  BY <1>1 DEF Filled
<1>3. Filled(r) = IF r.since = Absent THEN zoned(r) ELSE apply_window_args(r.tool, zoned(r), r.since.v)
  BY DEF Filled
<1> SUFFICES Filled(s) = Object(g)
  BY DEF s
<1> HIDE DEF zoned
<1>4. CASE r.tool.slug \in TaskSlugs
  <2> DEFINE order == spec_for(r.tool.slug).order
  <2>1. r.tool.slug \notin TZ_DEFAULTING_SLUGS
    BY <1>4 DEF TaskSlugs, TZ_DEFAULTING_SLUGS
  <2>2. zoned(s) = Object(g) /\ zoned(r) = r.args
    BY <1>1, <2>1 DEF zoned, apply_calendar_query_defaults
  <2>3. CASE r.since = Absent \/ r.tool.padded
    BY <1>2, <2>2, <2>3 DEF apply_window_args
  <2>4. CASE r.since # Absent /\ ~r.tool.padded
    <3> DEFINE asana == r.tool.slug = "ASANA_GET_MULTIPLE_TASKS"
               ordered(f) == IF order = "" THEN f ELSE OrInsert(f, order, Value("text", <<>>))
               grown(f) == IF asana THEN OrInsert(ordered(f), "modified_since", Value("instant", r.since.v))
                           ELSE ordered(f)
    <3>1. Filled(r) = Object(grown(r.args.of))
      BY <1>3, <1>4, <2>2, <2>4 DEF apply_window_args, NoObject
    <3>2. Filled(s) = Object(grown(g))
      <4>1. Object(g).is \notin NoObject /\ Object(g).of = g
        BY ObjectRecords DEF NoObject
      <4>2. Filled(s) = apply_window_args(r.tool, Object(g), r.since.v)
        BY <1>2, <2>2, <2>4
      <4> QED
        BY <1>4, <2>4, <4>1, <4>2 DEF apply_window_args
    <3> HIDE DEF order, asana
    <3>3. /\ ordered(r.args.of) = [k \in DOMAIN ordered(r.args.of) |-> ordered(r.args.of)[k]]
          /\ order # "" => order \in DOMAIN ordered(r.args.of)
      <4>1. CASE order = ""
        BY <4>1
      <4>2. CASE order # ""
        <5> DEFINE f == OrInsert(r.args.of, order, Value("text", <<>>))
        <5>1. Extends(f, r.args.of) /\ DOMAIN f = DOMAIN r.args.of \cup {order}
          BY Inserted
        <5> HIDE DEF f
        <5>2. f = [k \in DOMAIN f |-> f[k]] /\ order \in DOMAIN f
          BY <5>1 DEF Extends
        <5> QED
          BY <4>2, <5>2 DEF f
      <4> QED
        BY <4>1, <4>2
    <3>4. /\ order # "" => order \in DOMAIN grown(r.args.of)
          /\ asana => "modified_since" \in DOMAIN grown(r.args.of)
      <4> HIDE DEF ordered
      <4>1. CASE asana
        <5>1. DOMAIN OrInsert(ordered(r.args.of), "modified_since", Value("instant", r.since.v)) =
                 DOMAIN ordered(r.args.of) \cup {"modified_since"}
          BY <3>3, Inserted
        <5> QED
          BY <3>3, <4>1, <5>1
      <4>2. CASE ~asana
        BY <3>3, <4>2
      <4> QED
        BY <4>1, <4>2
    <3>5. DOMAIN grown(r.args.of) \subseteq DOMAIN g
      BY <3>1, ObjectRecords
    <3>6. ordered(g) = g
      BY <3>4, <3>5, InsertedOnce
    <3>7. grown(g) = g
      <4> HIDE DEF ordered
      <4>1. asana => "modified_since" \in DOMAIN g
        BY <3>4, <3>5
      <4> QED
        BY <3>6, <4>1, InsertedOnce
    <3> QED
      BY <3>2, <3>7
  <2> QED
    BY <2>3, <2>4
<1>5. CASE r.tool.slug \notin TaskSlugs
  <2>1. Filled(s) = zoned(s) /\ Filled(r) = zoned(r)
    BY <1>2, <1>3, <1>5 DEF apply_window_args
  <2>2. CASE r.zone = Absent \/ r.tool.padded \/ r.tool.slug \notin TZ_DEFAULTING_SLUGS
    BY <1>1, <2>1, <2>2 DEF zoned, apply_calendar_query_defaults
  <2>3. CASE r.zone # Absent /\ ~r.tool.padded /\ r.tool.slug \in TZ_DEFAULTING_SLUGS
    <3> DEFINE f1 == OrInsert(r.args.of, "timeZone", r.zone)
    <3>1. zoned(r) = Object(OrInsert(f1, "singleEvents", Value("true", <<>>)))
      BY <2>3 DEF zoned, apply_calendar_query_defaults, NoObject
    <3>2. f1 = [k \in DOMAIN f1 |-> f1[k]] /\ "timeZone" \in DOMAIN f1
      <4>1. Extends(f1, r.args.of) /\ DOMAIN f1 = DOMAIN r.args.of \cup {"timeZone"}
        BY Inserted
      <4> HIDE DEF f1
      <4> QED
        BY <4>1 DEF Extends
    <3>3. {"timeZone", "singleEvents"} \subseteq DOMAIN g
      <4> HIDE DEF f1
      <4>1. Filled(r).of = OrInsert(f1, "singleEvents", Value("true", <<>>))
        BY <2>1, <3>1, ObjectRecords
      <4>2. DOMAIN OrInsert(f1, "singleEvents", Value("true", <<>>)) = DOMAIN f1 \cup {"singleEvents"}
        BY <3>2, Inserted
      <4> QED
        BY <3>2, <4>1, <4>2
    <3>4. zoned(s) = Object(OrInsert(OrInsert(g, "timeZone", r.zone), "singleEvents", Value("true", <<>>)))
      BY <1>1, <2>3, ObjectRecords DEF zoned, apply_calendar_query_defaults, NoObject
    <3> QED
      BY <2>1, <3>3, <3>4, InsertedOnce
  <2> QED
    BY <2>2, <2>3
<1> QED
  BY <1>4, <1>5

\* Normalised time bounds are instants, and normalised again stay what they are.
LEMMA BoundsOnce ==
    ASSUME NEW f, f = [k \in DOMAIN f |-> f[k]], \A k \in DOMAIN f \cap TimeBounds : IsValue(f[k]),
           normalize_calendar_time_bounds(f).is # "refused"
    PROVE  \E g : /\ normalize_calendar_time_bounds(f) = Object(g)
                  /\ normalize_calendar_time_bounds(g) = Object(g)
                  /\ DOMAIN g = DOMAIN f
                  /\ \A k \in DOMAIN f : g[k] = IF k \in TimeBounds /\ f[k].is = "date"
                                                THEN Value("instant", f[k].v) ELSE f[k]
<1> DEFINE normal(h) == [k \in DOMAIN h |-> IF k \in TimeBounds /\ normalizes(h[k])
                                            THEN normalize_rfc3339_bound(h[k]) ELSE h[k]]
           g == normal(f)
<1>1. \A m : Refused(m).is = "refused"
  BY DEF Refused
<1>2. \A k \in TimeBounds \cap DOMAIN f : f[k].is \in Strings => normalizes(f[k])
  BY <1>1 DEF normalize_calendar_time_bounds
<1>3. normalize_calendar_time_bounds(f) = Object(g)
  BY <1>2 DEF normalize_calendar_time_bounds
<1>4. \A v : Value("instant", v).is = "instant" /\ Value("instant", v).v = v
  BY DEF Value
<1>5. \A k \in DOMAIN f : g[k] = IF k \in TimeBounds /\ f[k].is = "date" THEN Value("instant", f[k].v) ELSE f[k]
  <2> SUFFICES ASSUME NEW k \in DOMAIN f
               PROVE  g[k] = IF k \in TimeBounds /\ f[k].is = "date" THEN Value("instant", f[k].v) ELSE f[k]
    OBVIOUS
  <2>1. g[k] = IF k \in TimeBounds /\ normalizes(f[k]) THEN Value("instant", f[k].v) ELSE f[k]
    BY DEF normalize_rfc3339_bound
  <2> HIDE DEF g
  <2>2. CASE k \in TimeBounds
    <3>1. f[k] = Value(f[k].is, f[k].v)
      BY <2>2 DEF IsValue
    <3>2. normalizes(f[k]) => f[k].is \in {"date", "instant"}
      BY DEF normalizes
    <3>3. f[k].is = "date" => normalizes(f[k])
      BY <1>2, <2>2 DEF Strings
    <3> QED
      BY <2>1, <2>2, <3>1, <3>2, <3>3
  <2>3. CASE k \notin TimeBounds
    BY <2>1, <2>3
  <2> QED
    BY <2>2, <2>3
<1>6. DOMAIN g = DOMAIN f /\ g = [k \in DOMAIN g |-> g[k]]
  OBVIOUS
<1> HIDE DEF g
<1>7. \A k \in DOMAIN g \cap TimeBounds : f[k].is = "date" => g[k].is = "instant" /\ g[k].v = f[k].v
  BY <1>4, <1>5, <1>6
<1>8. \A k \in DOMAIN g \cap TimeBounds : g[k].is \in Strings => normalizes(g[k]) /\ g[k].is = "instant"
  BY <1>2, <1>5, <1>6, <1>7 DEF normalizes
<1>9. normalize_calendar_time_bounds(g) = Object(normal(g))
  BY <1>8 DEF normalize_calendar_time_bounds
<1>10. \A k \in DOMAIN g : normal(g)[k] = g[k]
  <2> SUFFICES ASSUME NEW k \in DOMAIN g, k \in TimeBounds, normalizes(g[k])
               PROVE  normalize_rfc3339_bound(g[k]) = g[k]
    OBVIOUS
  <2>1. g[k].is \in Strings
    BY DEF normalizes, Strings
  <2>2. g[k].is = "instant"
    BY <1>8, <2>1
  <2>3. CASE f[k].is = "date"
    BY <1>4, <1>5, <1>6, <2>3 DEF normalize_rfc3339_bound
  <2>4. CASE f[k].is # "date"
    <3>1. g[k] = f[k] /\ f[k] = Value(f[k].is, f[k].v)
      BY <1>5, <1>6, <2>4 DEF IsValue
    <3> QED
      BY <2>2, <3>1 DEF normalize_rfc3339_bound
  <2> QED
    BY <2>3, <2>4
<1>11. normal(g) = g
  BY <1>6, <1>10
<1> HIDE DEF normal
<1> QED
  BY <1>3, <1>5, <1>6, <1>9, <1>11

\* A fetch type that is there stays; one that was made out is there.
LEMMA FetchTypeOnce ==
    ASSUME NEW f, f = [k \in DOMAIN f |-> f[k]]
    PROVE  LET g == ensure_notion_fetch_type(f)
           IN  /\ ensure_notion_fetch_type(g) = g
               /\ DOMAIN f \subseteq DOMAIN g
               /\ \A k \in DOMAIN f \ {"fetch_type"} : g[k] = f[k]
               /\ "fetch_type" \in DOMAIN f /\ Says(f["fetch_type"]) => g = f
<1> DEFINE given(h) == IF "fetch_type" \in DOMAIN h THEN h["fetch_type"] ELSE At(h, "fetchType")
           filter_ == At(f, "filter")
           w == IF filter_.is = "filter" THEN Value("text", filter_.v) ELSE pages
           g == ensure_notion_fetch_type(f)
<1>1. \A h : Says(given(h)) => ensure_notion_fetch_type(h) = h
  BY DEF ensure_notion_fetch_type
<1>2. CASE Says(given(f))
  BY <1>1, <1>2
<1>3. CASE ~Says(given(f))
  <2>1. g = With(f, "fetch_type", w)
    BY <1>3 DEF ensure_notion_fetch_type
  <2>2. Says(w)
    BY DEF Says, Strings, Value, pages
  <2> HIDE DEF g, w
  <2>3. /\ DOMAIN g = DOMAIN f \cup {"fetch_type"} /\ g["fetch_type"] = w
        /\ \A k \in DOMAIN f \ {"fetch_type"} : g[k] = f[k]
    BY <2>1 DEF With
  <2>4. Says(given(g))
    BY <2>2, <2>3
  <2>5. ~("fetch_type" \in DOMAIN f /\ Says(f["fetch_type"]))
    BY <1>3
  <2> HIDE DEF given
  <2> QED
    BY <1>1, <2>3, <2>4, <2>5 DEF g
<1> QED
  BY <1>2, <1>3

\* What prepare_execute_arguments lets through it lets through again, unchanged.
LEMMA PreparedOnce ==
    ASSUME NEW action, NEW args, args.is # "other", args.of = [k \in DOMAIN args.of |-> args.of[k]],
           action.slug \in Calendar => \A k \in DOMAIN args.of \cap TimeBounds : IsValue(args.of[k]),
           prepare_execute_arguments(action, args).is # "refused"
    PROVE  \E g : /\ prepare_execute_arguments(action, args) = Object(g)
                  /\ prepare_execute_arguments(action, Object(g)) = Object(g)
                  /\ DOMAIN args.of \subseteq DOMAIN g
                  /\ \A k \in DOMAIN args.of \ {"fetch_type"} :
                        g[k] = IF action.slug \in Calendar /\ k \in TimeBounds /\ args.of[k].is = "date"
                               THEN Value("instant", args.of[k].v) ELSE args.of[k]
                  /\ "fetch_type" \in DOMAIN args.of /\ Says(args.of["fetch_type"])
                        => g["fetch_type"] = args.of["fetch_type"]
<1> DEFINE f == args.of
<1>1. \A g : Object(g).is # "other" /\ Object(g).of = g
  BY DEF Object
<1>2. CASE action.slug \in Calendar
  <2>0. action.slug \notin {"NOTION_FETCH_DATA", "GMAIL_SEND_EMAIL", "GMAIL_ADD_LABEL_TO_EMAIL"}
    BY <1>2 DEF Calendar
  <2>1. \A g : prepare_execute_arguments(action, Object(g)) = normalize_calendar_time_bounds(g)
    BY <1>1, <1>2, <2>0 DEF prepare_execute_arguments
  <2>2. prepare_execute_arguments(action, args) = normalize_calendar_time_bounds(f)
    BY <1>2, <2>0 DEF prepare_execute_arguments
  <2>3. PICK g : /\ normalize_calendar_time_bounds(f) = Object(g)
                 /\ normalize_calendar_time_bounds(g) = Object(g)
                 /\ DOMAIN g = DOMAIN f
                 /\ \A k \in DOMAIN f : g[k] = IF k \in TimeBounds /\ f[k].is = "date"
                                               THEN Value("instant", f[k].v) ELSE f[k]
    <3>1. \A k \in DOMAIN f \cap TimeBounds : IsValue(f[k])
      BY <1>2
    <3>2. f = [k \in DOMAIN f |-> f[k]] /\ normalize_calendar_time_bounds(f).is # "refused"
      BY <2>2
    <3> HIDE DEF f
    <3> QED
      BY <3>1, <3>2, BoundsOnce
  <2>4. "fetch_type" \notin TimeBounds
    BY DEF TimeBounds
  <2> QED
    BY <1>2, <2>1, <2>2, <2>3, <2>4
<1>3. CASE action.slug = "NOTION_FETCH_DATA"
  <2>1. action.slug \notin Calendar
    BY <1>3 DEF Calendar
  <2>2. \A g : prepare_execute_arguments(action, Object(g)) = Object(ensure_notion_fetch_type(g))
    BY <1>1, <1>3, <2>1 DEF prepare_execute_arguments
  <2>3. prepare_execute_arguments(action, args) = Object(ensure_notion_fetch_type(f))
    BY <1>3, <2>1 DEF prepare_execute_arguments
  <2> QED
    BY <2>1, <2>2, <2>3, FetchTypeOnce
<1>4. CASE action.slug \notin Calendar \cup {"NOTION_FETCH_DATA"}
  <2>1. prepare_execute_arguments(action, args) = Object(f)
    <3>1. \A m : Refused(m).is = "refused"
      BY DEF Refused
    <3> QED
      BY <1>4, <3>1 DEF prepare_execute_arguments
  <2>2. prepare_execute_arguments(action, Object(f)) = Object(f)
    <3>1. Object(f).is # "other" /\ Object(f).of = f
      BY <1>1
    <3> QED
      BY <1>4, <2>1, <3>1 DEF prepare_execute_arguments
  <2> QED
    BY <1>4, <2>1, <2>2
<1> QED
  BY <1>2, <1>3, <1>4

\* Of a request in hand, the answer is its preparation.
PreparedInv ==
    /\ "at" \in DOMAIN job
    /\ job.at \in {"prepared", "unprepared"} =>
         /\ job.request \in Requests
         /\ job.answer = prepare(job.request)
         /\ job.at = "prepared" <=> job.answer.is # "refused"

\* The answer to a request stays the preparation of that request.
LEMMA PreparedKept == JobSpec => []PreparedInv
<1>1. JobInit => PreparedInv
  BY DEF JobInit, PreparedInv
<1>2. PreparedInv /\ [JobNext]_job => PreparedInv'
  <2> SUFFICES ASSUME PreparedInv, [JobNext]_job PROVE PreparedInv'
    OBVIOUS
  <2>0. "at" \in DOMAIN job
    BY DEF PreparedInv
  <2>1. ASSUME "at" \in DOMAIN job', job'.at \notin {"prepared", "unprepared"} PROVE PreparedInv'
    BY <2>1 DEF PreparedInv
  <2>2. ASSUME NEW request \in Requests, prepare_arguments(request) PROVE PreparedInv'
    <3>1. PICK answer : /\ answer = prepare(request)
                        /\ job' = [at |-> IF answer.is = "refused" THEN "unprepared" ELSE "prepared",
                                   request |-> request, answer |-> answer]
      BY <2>2, Zenon DEF prepare_arguments
    <3>2. /\ "at" \in DOMAIN job' /\ job'.request = request /\ job'.answer = prepare(request)
          /\ job'.at = "prepared" <=> job'.answer.is # "refused"
      BY <3>1
    <3> QED
      BY <3>2 DEF PreparedInv
  <2>3. ASSUME NEW rows \in Backlogs, NEW paths \in Envelopes, NEW honours \in BOOLEAN, NEW successful \in BOOLEAN,
               answer_tasks(rows, paths, honours, successful)
        PROVE  PreparedInv'
    BY <2>1, <2>3 DEF answer_tasks
  <2>4. ASSUME NEW floor \in Floors, filter(floor) PROVE PreparedInv'
    BY <2>0, <2>1, <2>4 DEF filter
  <2>5. ASSUME NEW d \in Deliveries, send(d) PROVE PreparedInv'
    BY <2>1, <2>5 DEF send
  <2>6. CASE corrupt
    BY <2>0, <2>1, <2>6 DEF corrupt
  <2>7. ASSUME NEW secret \in Secrets, NEW now \in Clock, receive(secret, now) PROVE PreparedInv'
    BY <2>1, <2>7 DEF receive
  <2>8. ASSUME NEW known \in Known, decode(known) PROVE PreparedInv'
    BY <2>1, <2>8 DEF decode
  <2>9. CASE UNCHANGED job
    BY <2>9 DEF PreparedInv
  <2>10. ASSUME "at" \in DOMAIN job',
                job'.at \in {"reported", "formatted", "classified", "reclassified", "evaluated"}
         PROVE  PreparedInv'
    BY <2>1, <2>10
  <2> QED
    BY <2>0, <2>2, <2>3, <2>4, <2>5, <2>6, <2>7, <2>8, <2>9, <2>10, JobSteps, Zenon
<1> QED
  BY <1>1, <1>2, PTL DEF JobSpec

\* What PrepareArguments answers is prepared: to prepare it again changes nothing.
LEMMA AnswerStable ==
    ASSUME NEW r \in Requests, r.args.is # "other", prepare(r).is # "refused"
    PROVE  LET given == r.args.of
               answer == prepare(r)
           IN  /\ r.args.is # "null" => prepare([r EXCEPT !.args = answer]) = answer
               /\ prepare_execute_arguments(r.tool, answer) = answer
               /\ \A k \in DOMAIN given \ {"fetch_type"} :
                     answer.of[k] = IF r.tool.slug \in Calendar /\ k \in TimeBounds /\ given[k].is = "date"
                                    THEN Value("instant", given[k].v) ELSE given[k]
               /\ "fetch_type" \in DOMAIN given /\ Says(given["fetch_type"])
                     => answer.of["fetch_type"] = given["fetch_type"]
<1> DEFINE given == r.args.of
           f == Filled(r).of
<1>1. /\ r = [tool |-> r.tool, args |-> r.args, zone |-> r.zone, since |-> r.since]
      /\ given = [k \in DOMAIN given |-> given[k]]
      /\ \A k \in DOMAIN given : IsValue(given[k])
  BY ProcessingAssumption DEF IsRequest, IsObject
<1>2. ~(r.since # Absent /\ r.since.is # "instant") /\ prepare(r) = prepare_execute_arguments(r.tool, Filled(r))
  <2>1. Refused({"validation"}).is = "refused"
    BY DEF Refused
  <2> QED
    BY <2>1, Prepared
<1>3. /\ Filled(r).is # "other" /\ Extends(f, given)
      /\ r.tool.slug \in Calendar => DOMAIN f \subseteq DOMAIN given \cup {"timeZone", "singleEvents"}
      /\ r.tool.slug = "NOTION_FETCH_DATA" => f = given
  BY <1>1, FilledExtends
<1> HIDE DEF f
<1>4. f = [k \in DOMAIN f |-> f[k]] /\ DOMAIN given \subseteq DOMAIN f /\ \A k \in DOMAIN given : f[k] = given[k]
  BY <1>3 DEF Extends
<1>5. PICK g : /\ prepare(r) = Object(g)
               /\ prepare_execute_arguments(r.tool, Object(g)) = Object(g)
               /\ DOMAIN f \subseteq DOMAIN g
               /\ \A k \in DOMAIN f \ {"fetch_type"} :
                     g[k] = IF r.tool.slug \in Calendar /\ k \in TimeBounds /\ f[k].is = "date"
                            THEN Value("instant", f[k].v) ELSE f[k]
               /\ "fetch_type" \in DOMAIN f /\ Says(f["fetch_type"]) => g["fetch_type"] = f["fetch_type"]
  <2>1. r.tool.slug \in Calendar => \A k \in DOMAIN f \cap TimeBounds : IsValue(f[k])
    <3>1. "timeZone" \notin TimeBounds /\ "singleEvents" \notin TimeBounds
      BY DEF TimeBounds
    <3> QED
      BY <1>1, <1>3, <1>4, <3>1
  <2>2. prepare_execute_arguments(r.tool, Filled(r)).is # "refused"
    BY <1>2
  <2> QED
    BY <1>2, <1>3, <1>4, <2>1, <2>2, PreparedOnce DEF f
<1>6. ASSUME r.args.is # "null" PROVE prepare([r EXCEPT !.args = Object(g)]) = Object(g)
  <2> DEFINE s == [r EXCEPT !.args = Object(g)]
  <2>1. Filled(s) = Object(g)
    BY <1>1, <1>5, <1>6, FilledOnce DEF f, NoObject
  <2>2. s.tool = r.tool /\ s.since = r.since
    BY <1>1
  <2> HIDE DEF s
  <2>3. prepare(s) = prepare_execute_arguments(s.tool, Filled(s))
    BY <1>2, <2>2, Prepared
  <2> QED
    BY <1>5, <2>1, <2>2, <2>3 DEF s
<1>7. Object(g).of = g
  BY DEF Object
<1> QED
  BY <1>4, <1>5, <1>6, <1>7

\* A calendar action with nothing but dates is refused just when one of them is
\* not in the calendar.
LEMMA DatesDecide ==
    ASSUME NEW r \in Requests, r.args.is # "other", r.tool.slug \in Calendar, r.since = Absent,
           \A k \in DOMAIN r.args.of : k \in TimeBounds /\ r.args.of[k].is = "date"
    PROVE  prepare(r).is # "refused" <=> \A k \in DOMAIN r.args.of : InCalendar(r.args.of[k].v)
<1> DEFINE given == r.args.of
           f == Filled(r).of
<1>1. given = [k \in DOMAIN given |-> given[k]] /\ \A k \in DOMAIN given : IsValue(given[k])
  BY ProcessingAssumption DEF IsRequest, IsObject
<1>2. prepare(r) = prepare_execute_arguments(r.tool, Filled(r))
  BY Prepared
<1>3. /\ Filled(r).is # "other" /\ Extends(f, given)
      /\ DOMAIN f \subseteq DOMAIN given \cup {"timeZone", "singleEvents"}
  BY <1>1, FilledExtends
<1> HIDE DEF f
<1>4. prepare(r) = normalize_calendar_time_bounds(f)
  <2>1. r.tool.slug \notin {"NOTION_FETCH_DATA", "GMAIL_SEND_EMAIL", "GMAIL_ADD_LABEL_TO_EMAIL"}
    BY DEF Calendar
  <2> QED
    BY <1>2, <1>3, <2>1 DEF f, prepare_execute_arguments
<1>5. (\A g : Object(g).is # "refused") /\ \A m : Refused(m).is = "refused"
  BY DEF Object, Refused
<1>6. prepare(r).is # "refused" <=> ~\E k \in TimeBounds \cap DOMAIN f : f[k].is \in Strings /\ ~normalizes(f[k])
  BY <1>4, <1>5 DEF normalize_calendar_time_bounds
<1>7. TimeBounds \cap DOMAIN f = DOMAIN given
  <2>1. "timeZone" \notin TimeBounds /\ "singleEvents" \notin TimeBounds
    BY DEF TimeBounds
  <2> QED
    BY <1>3, <2>1 DEF Extends
<1>8. \A k \in DOMAIN given : f[k] = given[k]
  BY <1>3 DEF Extends
<1>9. ASSUME NEW k \in DOMAIN given PROVE given[k].is \in Strings /\ (normalizes(given[k]) <=> InCalendar(given[k].v))
  <2>1. given[k].is = "date" /\ given[k].v \in Nat \X Nat \X Nat
    BY <1>1 DEF IsValue
  <2>2. PICK y \in Nat, m \in Nat, d \in Nat : given[k].v = <<y, m, d>>
    BY <2>1
  <2> QED
    BY <2>1, <2>2, CalendarAgrees DEF normalizes, Strings
<1> QED
  BY <1>6, <1>7, <1>8, <1>9

\* The arguments PrepareArguments lets through are a fixed point of preparation
\* that keeps what the caller said, and the dates it lets through are those of the
\* civil calendar, for every request there is.
THEOREM PreparationStable == JobSpec => []PreparedIsStable
<1>1. PreparedInv => PreparedIsStable
  <2> SUFFICES ASSUME PreparedInv, job.at \in {"prepared", "unprepared"}, job.request.args.is # "other"
               PROVE  PreparedIsStable
    BY DEF PreparedIsStable
  <2> DEFINE r == job.request
             given == r.args.of
             action == r.tool
             dates == {k \in TimeBounds \cap DOMAIN given : given[k].is = "date"}
  <2>1. r \in Requests /\ job.answer = prepare(r) /\ (job.at = "prepared" <=> prepare(r).is # "refused")
    BY DEF PreparedInv
  <2>2. ASSUME job.at = "prepared"
        PROVE  /\ r.args.is # "null" => prepare([r EXCEPT !.args = job.answer]) = job.answer
               /\ prepare_execute_arguments(action, job.answer) = job.answer
               /\ \A k \in DOMAIN given \ {"fetch_type"} :
                     job.answer.of[k] = IF action.slug \in Calendar /\ k \in dates
                                        THEN Value("instant", given[k].v) ELSE given[k]
               /\ "fetch_type" \in DOMAIN given /\ Says(given["fetch_type"])
                     => job.answer.of["fetch_type"] = given["fetch_type"]
    <3>1. /\ r.args.is # "null" => prepare([r EXCEPT !.args = job.answer]) = job.answer
          /\ prepare_execute_arguments(action, job.answer) = job.answer
          /\ \A k \in DOMAIN given \ {"fetch_type"} :
                job.answer.of[k] = IF action.slug \in Calendar /\ k \in TimeBounds /\ given[k].is = "date"
                                   THEN Value("instant", given[k].v) ELSE given[k]
          /\ "fetch_type" \in DOMAIN given /\ Says(given["fetch_type"])
                => job.answer.of["fetch_type"] = given["fetch_type"]
      BY <2>1, <2>2, AnswerStable
    <3>2. \A k \in DOMAIN given : k \in dates <=> k \in TimeBounds /\ given[k].is = "date"
      OBVIOUS
    <3> HIDE DEF dates, given, action, r
    <3> QED
      BY <3>1, <3>2
  <2>3. ASSUME action.slug \in Calendar, DOMAIN given = dates, r.since = Absent
        PROVE  job.at = "prepared" <=> \A k \in dates : InCalendar(given[k].v)
    <3>1. \A k \in DOMAIN given : k \in TimeBounds /\ given[k].is = "date"
      BY <2>3
    <3>2. prepare(r).is # "refused" <=> \A k \in DOMAIN given : InCalendar(given[k].v)
      BY <2>1, <2>3, <3>1, DatesDecide
    <3> HIDE DEF dates, given, action, r
    <3> QED
      BY <2>1, <2>3, <3>2
  <2> QED
    BY <2>2, <2>3, Zenon DEF PreparedIsStable
<1> QED
  BY <1>1, PreparedKept, PTL

-----------------------------------------------------------------------------
\* Induction up to a bound, as a fact about a set.
LEMMA UpTo ==
    ASSUME NEW N \in Nat, NEW T, 0 \in T, \A n \in 0..N : n < N /\ n \in T => n + 1 \in T
    PROVE  0..N \subseteq T
<1> SUFFICES ASSUME NEW b \in 0..N, b \notin T PROVE FALSE
  OBVIOUS
<1> DEFINE Bad == {0..n : n \in {m \in 0..N : m \notin T}}
           R == StrictSubsetOrdering(0..N)
<1>1. IsWellFoundedOn(R, SUBSET (0..N))
  <2>1. IsFiniteSet(0..N)
    BY FS_Interval
  <2> QED
    BY <2>1, FS_StrictSubsetOrderingWellFounded, FS_FiniteSubsetsOfFinite
<1>2. Bad \subseteq SUBSET (0..N) /\ Bad # {}
  OBVIOUS
<1> HIDE DEF R, Bad
<1>3. PICK X \in Bad : \A Y \in Bad : ~(<<Y, X>> \in R)
  BY <1>1, <1>2, WFMin
<1>4. PICK n \in 0..N : n \notin T /\ X = 0..n
  BY <1>3 DEF Bad
<1>5. n - 1 \in 0..N /\ n - 1 < N /\ (n - 1) + 1 = n
  BY <1>4
<1>6. n - 1 \notin T
  BY <1>4, <1>5
<1>7. 0..(n - 1) \in Bad
  BY <1>5, <1>6 DEF Bad
<1>8. <<0..(n - 1), X>> \in R
  <2>1. 0..(n - 1) \subseteq 0..n /\ 0..(n - 1) # 0..n /\ 0..n \subseteq 0..N
    BY <1>4, <1>5
  <2> QED
    BY <1>4, <2>1 DEF R, StrictSubsetOrdering
<1> QED
  BY <1>3, <1>7, <1>8

\* The rows collected from the first of them on, as Among does.
Collects(f, s, T, N) ==
    f = [n \in 0..N |-> IF n = 0 THEN <<>> ELSE IF s[n] \in T THEN Append(f[n - 1], s[n]) ELSE f[n - 1]]

\* There is a collection of the first rows, however many.
LEMMA Collected ==
    ASSUME NEW s, NEW T, NEW N \in Nat
    PROVE  \E f : Collects(f, s, T, N)
<1> DEFINE G == {n \in 0..N : \E f : Collects(f, s, T, n)}
<1>1. 0 \in G
  <2>1. Collects([n \in 0..0 |-> <<>>], s, T, 0)
    BY DEF Collects
  <2> QED
    BY <2>1
<1>2. ASSUME NEW n \in 0..N, n < N, n \in G PROVE n + 1 \in G
  <2>1. PICK f : Collects(f, s, T, n)
    BY <1>2
  <2> DEFINE g == [m \in 0..(n + 1) |-> IF m \in 0..n THEN f[m]
                                        ELSE IF s[m] \in T THEN Append(f[m - 1], s[m]) ELSE f[m - 1]]
             step(m) == IF m = 0 THEN <<>> ELSE IF s[m] \in T THEN Append(g[m - 1], s[m]) ELSE g[m - 1]
  <2>2. ASSUME NEW m \in 0..(n + 1) PROVE g[m] = step(m)
    <3>1. CASE m \in 0..n
      <4>1. g[m] = f[m] /\ (m # 0 => g[m - 1] = f[m - 1])
        BY <3>1
      <4>2. f[m] = IF m = 0 THEN <<>> ELSE IF s[m] \in T THEN Append(f[m - 1], s[m]) ELSE f[m - 1]
        BY <2>1, <3>1 DEF Collects
      <4> HIDE DEF g
      <4> QED
        BY <4>1, <4>2
    <3>2. CASE m = n + 1
      <4>1. m # 0 /\ m \notin 0..n /\ m - 1 \in 0..n /\ m - 1 = n
        BY <3>2
      <4>2. g[m] = IF s[m] \in T THEN Append(f[m - 1], s[m]) ELSE f[m - 1]
        BY <4>1
      <4>3. g[m - 1] = f[m - 1]
        BY <4>1
      <4> HIDE DEF g
      <4> QED
        BY <4>1, <4>2, <4>3
    <3> QED
      BY <3>1, <3>2
  <2>3. g = [m \in 0..(n + 1) |-> g[m]]
    OBVIOUS
  <2> HIDE DEF g
  <2>4. Collects(g, s, T, n + 1)
    BY <2>2, <2>3 DEF Collects
  <2> QED
    BY <1>2, <2>4
<1> HIDE DEF G
<1>3. N \in G
  BY <1>1, <1>2, UpTo
<1> QED
  BY <1>3 DEF G

\* Among is the last collection of its rows.
LEMMA AmongCollects ==
    ASSUME NEW s, NEW T, Len(s) \in Nat
    PROVE  \E f : Collects(f, s, T, Len(s)) /\ Among(s, T) = f[Len(s)]
<1> DEFINE f == CHOOSE f : Collects(f, s, T, Len(s))
<1>1. Collects(f, s, T, Len(s))
  BY Collected
<1>2. Among(s, T) = f[Len(s)]
  BY DEF Among, Collects
<1> QED
  BY <1>1, <1>2

\* Two collections of the same rows agree as far as both go.
LEMMA CollectedSame ==
    ASSUME NEW f, NEW g, NEW s, NEW t, NEW T, NEW M \in Nat, NEW N \in Nat, M <= N,
           Collects(f, s, T, M), Collects(g, t, T, N), \A n \in 1..M : s[n] = t[n]
    PROVE  \A n \in 0..M : f[n] = g[n]
<1> DEFINE E == {n \in 0..M : f[n] = g[n]}
<1>1. 0 \in E
  BY DEF Collects
<1>2. ASSUME NEW n \in 0..M, n < M, n \in E PROVE n + 1 \in E
  <2>0. n + 1 \in 0..M /\ n + 1 \in 0..N /\ n + 1 # 0 /\ (n + 1) - 1 = n
    BY <1>2
  <2>1. f[n + 1] = IF s[n + 1] \in T THEN Append(f[n], s[n + 1]) ELSE f[n]
    BY <1>2, <2>0 DEF Collects
  <2>2. g[n + 1] = IF t[n + 1] \in T THEN Append(g[n], t[n + 1]) ELSE g[n]
    BY <1>2, <2>0 DEF Collects
  <2> QED
    BY <1>2, <2>1, <2>2
<1> HIDE DEF E
<1>3. 0..M \subseteq E
  BY <1>1, <1>2, UpTo
<1> QED
  BY <1>3 DEF E

\* Of no rows none are kept.
LEMMA AmongNone == ASSUME NEW T PROVE Among(<<>>, T) = <<>>
<1>1. PICK f : Collects(f, <<>>, T, 0) /\ Among(<<>>, T) = f[0]
  BY AmongCollects
<1> QED
  BY <1>1 DEF Collects

\* One more row is kept at the end if it is wanted.
LEMMA AmongAppend ==
    ASSUME NEW S, NEW r \in Seq(S), NEW e \in S, NEW T
    PROVE  Among(Append(r, e), T) = IF e \in T THEN Append(Among(r, T), e) ELSE Among(r, T)
<1> DEFINE N == Len(r)
           t == Append(r, e)
<1>1. N \in Nat /\ Len(t) = N + 1 /\ t[N + 1] = e /\ \A n \in 1..N : r[n] = t[n]
  OBVIOUS
<1> HIDE DEF t
<1>2. PICK f : Collects(f, r, T, N) /\ Among(r, T) = f[N]
  BY <1>1, AmongCollects
<1> HIDE DEF N
<1>3. PICK g : Collects(g, t, T, N + 1) /\ Among(t, T) = g[N + 1]
  <2>1. Len(t) \in Nat
    BY <1>1
  <2>2. \E g : Collects(g, t, T, Len(t)) /\ Among(t, T) = g[Len(t)]
    BY <2>1, AmongCollects
  <2> QED
    BY <1>1, <2>2
<1>4. f[N] = g[N]
  <2>1. N \in Nat /\ N + 1 \in Nat /\ N <= N + 1 /\ N \in 0..N
    BY <1>1
  <2>2. \A n \in 0..N : f[n] = g[n]
    BY <1>1, <1>2, <1>3, <2>1, CollectedSame
  <2> QED
    BY <2>1, <2>2
<1>5. g[N + 1] = IF e \in T THEN Append(g[N], e) ELSE g[N]
  <2>1. N + 1 \in 0..(N + 1) /\ N + 1 # 0 /\ (N + 1) - 1 = N
    BY <1>1
  <2> QED
    BY <1>1, <1>3, <2>1 DEF Collects
<1> QED
  BY <1>2, <1>3, <1>4, <1>5 DEF t

\* One step of a collection.
LEMMA CollectStep ==
    ASSUME NEW f, NEW s, NEW T, NEW N \in Nat, Collects(f, s, T, N)
    PROVE  /\ f[0] = <<>>
           /\ \A n \in 0..N : n < N => f[n + 1] = IF s[n + 1] \in T THEN Append(f[n], s[n + 1]) ELSE f[n]
<1>1. f[0] = <<>>
  BY DEF Collects
<1>2. ASSUME NEW n \in 0..N, n < N
      PROVE  f[n + 1] = IF s[n + 1] \in T THEN Append(f[n], s[n + 1]) ELSE f[n]
  <2>1. n + 1 \in 0..N /\ n + 1 # 0 /\ (n + 1) - 1 = n
    BY <1>2
  <2> QED
    BY <2>1 DEF Collects
<1> QED
  BY <1>1, <1>2

\* Among keeps of the rows the wanted ones: a sequence of rows.
LEMMA AmongType ==
    ASSUME NEW S, NEW s \in Seq(S), NEW T, NEW f, Collects(f, s, T, Len(s))
    PROVE  \A n \in 0..Len(s) : f[n] \in Seq(S)
<1> DEFINE N == Len(s)
           W == {n \in 0..N : f[n] \in Seq(S)}
<1>1. N \in Nat /\ \A n \in 1..N : s[n] \in S
  OBVIOUS
<1>2. f[0] = <<>> /\ \A n \in 0..N : n < N => f[n + 1] = IF s[n + 1] \in T THEN Append(f[n], s[n + 1]) ELSE f[n]
  BY <1>1, CollectStep
<1> HIDE DEF N
<1>3. 0 \in W
  <2>1. <<>> \in Seq(S)
    OBVIOUS
  <2>2. f[0] \in Seq(S)
    BY <1>2, <2>1, Zenon
  <2> QED
    BY <1>1, <2>2
<1>4. ASSUME NEW n \in 0..N, n < N, n \in W PROVE n + 1 \in W
  <2>1. n + 1 \in 0..N /\ n + 1 \in 1..N
    BY <1>1, <1>4
  <2>2. f[n] \in Seq(S) /\ s[n + 1] \in S
    BY <1>1, <1>4, <2>1
  <2>3. Append(f[n], s[n + 1]) \in Seq(S)
    BY <2>2
  <2>4. f[n + 1] \in Seq(S)
    BY <1>2, <1>4, <2>2, <2>3
  <2> QED
    BY <2>1, <2>4
<1> HIDE DEF W
<1>5. 0..N \subseteq W
  BY <1>1, <1>3, <1>4, UpTo
<1> QED
  BY <1>5 DEF W, N

\* If every row is wanted, all are kept.
LEMMA AmongAll ==
    ASSUME NEW S, NEW s \in Seq(S), NEW T, \A n \in DOMAIN s : s[n] \in T
    PROVE  Among(s, T) = s
<1> DEFINE N == Len(s)
           Same(r, n) == Len(r) = n /\ \A m \in 1..n : r[m] = s[m]
<1>1. N \in Nat /\ \A n \in 1..N : s[n] \in T /\ s[n] \in S
  OBVIOUS
<1>2. PICK f : Collects(f, s, T, N) /\ Among(s, T) = f[N]
  BY <1>1, AmongCollects
<1>3. \A n \in 0..N : f[n] \in Seq(S)
  BY <1>2, AmongType
<1>4. f[0] = <<>> /\ \A n \in 0..N : n < N => f[n + 1] = IF s[n + 1] \in T THEN Append(f[n], s[n + 1]) ELSE f[n]
  BY <1>1, <1>2, CollectStep
<1> HIDE DEF N
<1> DEFINE W == {n \in 0..N : Same(f[n], n)}
<1>5. 0 \in W
  <2>1. Same(<<>>, 0)
    OBVIOUS
  <2> HIDE DEF Same
  <2> QED
    BY <1>1, <1>4, <2>1
<1>6. ASSUME NEW n \in 0..N, n < N, n \in W PROVE n + 1 \in W
  <2>1. n + 1 \in 0..N /\ n + 1 \in 1..N /\ n \in Nat
    BY <1>1, <1>6
  <2>2. f[n] \in Seq(S) /\ s[n + 1] \in S /\ s[n + 1] \in T /\ Same(f[n], n)
    BY <1>1, <1>3, <1>6, <2>1
  <2>3. f[n + 1] = Append(f[n], s[n + 1])
    BY <1>4, <1>6, <2>2
  <2>4. Same(f[n + 1], n + 1)
    <3> DEFINE r == f[n]
    <3>1. /\ Len(Append(r, s[n + 1])) = n + 1 /\ Append(r, s[n + 1])[n + 1] = s[n + 1]
          /\ \A m \in 1..n : Append(r, s[n + 1])[m] = s[m]
      BY <2>1, <2>2
    <3> QED
      BY <2>1, <2>3, <3>1
  <2> HIDE DEF Same
  <2> QED
    BY <2>1, <2>4
<1> HIDE DEF W
<1>7. 0..N \subseteq W
  BY <1>1, <1>5, <1>6, UpTo
<1>8. Same(f[N], N) /\ f[N] \in Seq(S)
  BY <1>1, <1>3, <1>7 DEF W
<1>9. f[N] = s
  BY <1>1, <1>8 DEF N
<1> QED
  BY <1>2, <1>9

\* Of the kept rows the ones that are wanted still are the ones of all rows.
LEMMA AmongTwice ==
    ASSUME NEW S, NEW s \in Seq(S), NEW T, NEW U, U \subseteq T
    PROVE  Among(Among(s, T), U) = Among(s, U)
<1> DEFINE N == Len(s)
<1>1. N \in Nat /\ \A n \in 1..N : s[n] \in S
  OBVIOUS
<1>2. PICK f : Collects(f, s, T, N) /\ Among(s, T) = f[N]
  BY <1>1, AmongCollects
<1>3. PICK g : Collects(g, s, U, N) /\ Among(s, U) = g[N]
  BY <1>1, AmongCollects
<1>4. \A n \in 0..N : f[n] \in Seq(S)
  BY <1>2, AmongType
<1>5. f[0] = <<>> /\ \A n \in 0..N : n < N => f[n + 1] = IF s[n + 1] \in T THEN Append(f[n], s[n + 1]) ELSE f[n]
  BY <1>1, <1>2, CollectStep
<1>6. g[0] = <<>> /\ \A n \in 0..N : n < N => g[n + 1] = IF s[n + 1] \in U THEN Append(g[n], s[n + 1]) ELSE g[n]
  BY <1>1, <1>3, CollectStep
<1> HIDE DEF N
<1> DEFINE W == {n \in 0..N : Among(f[n], U) = g[n]}
<1>7. 0 \in W
  BY <1>1, <1>5, <1>6, AmongNone
<1>8. ASSUME NEW n \in 0..N, n < N, n \in W PROVE n + 1 \in W
  <2>1. n + 1 \in 0..N /\ n + 1 \in 1..N
    BY <1>1, <1>8
  <2>2. f[n] \in Seq(S) /\ s[n + 1] \in S /\ Among(f[n], U) = g[n]
    BY <1>1, <1>4, <1>8, <2>1
  <2>3. Among(Append(f[n], s[n + 1]), U) = IF s[n + 1] \in U THEN Append(g[n], s[n + 1]) ELSE g[n]
    <3> DEFINE r == f[n]
               e == s[n + 1]
    <3>1. r \in Seq(S) /\ e \in S /\ Among(r, U) = g[n]
      BY <2>2
    <3> HIDE DEF r, e
    <3>2. Among(Append(r, e), U) = IF e \in U THEN Append(Among(r, U), e) ELSE Among(r, U)
      BY <3>1, AmongAppend
    <3> QED
      BY <3>1, <3>2 DEF r, e
  <2>4. Among(f[n + 1], U) = IF s[n + 1] \in U THEN Append(g[n], s[n + 1]) ELSE g[n]
    BY <1>5, <1>8, <2>2, <2>3
  <2> QED
    BY <1>6, <1>8, <2>1, <2>4
<1> HIDE DEF W
<1>9. N \in W
  <2>1. 0..N \subseteq W
    BY <1>1, <1>7, <1>8, UpTo
  <2> QED
    BY <1>1, <2>1
<1> QED
  BY <1>2, <1>3, <1>9 DEF W

\* The rows kept are the wanted ones in their order: the one of a position is at
\* its rank among the wanted positions.
LEMMA AmongSelects ==
    ASSUME NEW S, NEW s \in Seq(S), NEW T
    PROVE  Among(s, T) \in Seq(S) /\ Selects(Among(s, T), s, {n \in DOMAIN s : s[n] \in T})
<1> DEFINE N == Len(s)
           at(n) == {m \in 1..n : s[m] \in T}
<1>1. N \in Nat /\ DOMAIN s = 1..N
  OBVIOUS
<1>2. PICK f : Collects(f, s, T, N) /\ Among(s, T) = f[N]
  BY <1>1, AmongCollects
<1>3. \A n \in 0..N : f[n] \in Seq(S)
  BY <1>2, AmongType
<1>4. f[0] = <<>> /\ \A n \in 0..N : n < N => f[n + 1] = IF s[n + 1] \in T THEN Append(f[n], s[n + 1]) ELSE f[n]
  BY <1>1, <1>2, CollectStep
<1> HIDE DEF N
<1> DEFINE W == {n \in 0..N : Selects(f[n], s, at(n))}
<1>5. 0 \in W
  <2>1. at(0) = {}
    OBVIOUS
  <2> HIDE DEF at
  <2>2. Selects(<<>>, s, at(0))
    BY <2>1, FS_EmptySet DEF Selects
  <2> QED
    BY <1>1, <1>4, <2>2
<1>6. ASSUME NEW n \in 0..N, n < N, n \in W PROVE n + 1 \in W
  <2>1. n + 1 \in 0..N /\ n \in Nat
    BY <1>1, <1>6
  <2>2. IsFiniteSet(at(n)) /\ n + 1 \notin at(n)
    <3>1. IsFiniteSet(1..n)
      BY <2>1, FS_Interval
    <3> QED
      BY <2>1, <3>1, FS_Subset
  <2>3. f[n] \in Seq(S) /\ Selects(f[n], s, at(n))
    BY <1>3, <1>6
  <2>4. CASE s[n + 1] \in T
    <3>1. at(n + 1) = at(n) \cup {n + 1}
      BY <2>1, <2>4
    <3>2. \A k \in at(n) : {m \in at(n + 1) : m <= k} = {m \in at(n) : m <= k}
      BY <2>1, <3>1
    <3>3. {m \in at(n + 1) : m <= n + 1} = at(n + 1)
      BY <2>1, <3>1
    <3>4. \A k \in at(n) : k \in {m \in at(n) : m <= k}
      BY <2>1
    <3> DEFINE r == f[n]
               t == f[n + 1]
               A == at(n)
               B == at(n + 1)
    <3>5. t = Append(r, s[n + 1])
      BY <1>4, <1>6, <2>4
    <3>6. Len(r) = Cardinality(A) /\ \A k \in A : r[Cardinality({m \in A : m <= k})] = s[k]
      BY <2>3 DEF Selects
    <3> HIDE DEF r, t, A, B, at
    <3>7. Cardinality(B) = Cardinality(A) + 1 /\ Cardinality(A) \in Nat
      BY <2>2, <3>1, FS_AddElement, FS_CardinalityType DEF A, B
    <3>8. r \in Seq(S) /\ Len(t) = Len(r) + 1 /\ t[Len(r) + 1] = s[n + 1] /\ \A q \in 1..Len(r) : t[q] = r[q]
      BY <2>3, <3>5 DEF r
    <3>9. ASSUME NEW k \in B PROVE t[Cardinality({m \in B : m <= k})] = s[k]
      <4>1. CASE k = n + 1
        BY <3>3, <3>6, <3>7, <3>8, <4>1 DEF B
      <4>2. CASE k \in A
        <5> DEFINE L == {m \in A : m <= k}
        <5>1. IsFiniteSet(L) /\ Cardinality(L) <= Cardinality(A) /\ L # {}
          BY <2>2, <3>4, <4>2, FS_Subset DEF A
        <5>2. {m \in B : m <= k} = L
          BY <3>2, <4>2 DEF A, B
        <5> HIDE DEF L
        <5>3. Cardinality(L) \in 1..Len(r)
          BY <3>6, <3>7, <5>1, FS_EmptySet, FS_CardinalityType
        <5>4. r[Cardinality(L)] = s[k]
          BY <3>6, <4>2 DEF L
        <5> QED
          BY <3>8, <5>2, <5>3, <5>4
      <4> QED
        BY <3>1, <4>1, <4>2 DEF A, B
    <3>10. Selects(t, s, B)
      BY <3>6, <3>7, <3>8, <3>9 DEF Selects
    <3> QED
      BY <2>1, <3>10 DEF t, B
  <2>5. CASE s[n + 1] \notin T
    <3>1. at(n + 1) = at(n)
      BY <2>1, <2>5
    <3>2. f[n + 1] = f[n]
      BY <1>4, <1>6, <2>5
    <3> HIDE DEF at
    <3> QED
      BY <2>1, <2>3, <3>1, <3>2
  <2> QED
    BY <2>4, <2>5
<1> HIDE DEF W
<1>7. N \in W
  BY <1>1, <1>5, <1>6, UpTo
<1> QED
  BY <1>1, <1>2, <1>3, <1>7 DEF W

\* A row is kept if and only if it was there and is wanted.
LEMMA AmongHas ==
    ASSUME NEW S, NEW s \in Seq(S), NEW T
    PROVE  {Among(s, T)[q] : q \in DOMAIN Among(s, T)} = {s[n] : n \in DOMAIN s} \cap T
<1> DEFINE N == Len(s)
           had(t) == {t[q] : q \in DOMAIN t}
           upto(n) == {s[m] : m \in 1..n} \cap T
<1>1. N \in Nat /\ DOMAIN s = 1..N /\ \A n \in 1..N : s[n] \in S
  OBVIOUS
<1>2. PICK f : Collects(f, s, T, N) /\ Among(s, T) = f[N]
  BY <1>1, AmongCollects
<1>3. \A n \in 0..N : f[n] \in Seq(S)
  BY <1>2, AmongType
<1>4. f[0] = <<>> /\ \A n \in 0..N : n < N => f[n + 1] = IF s[n + 1] \in T THEN Append(f[n], s[n + 1]) ELSE f[n]
  BY <1>1, <1>2, CollectStep
<1> HIDE DEF N
<1> DEFINE W == {n \in 0..N : had(f[n]) = upto(n)}
<1>5. 0 \in W
  <2>1. had(<<>>) = {} /\ upto(0) = {}
    OBVIOUS
  <2> QED
    BY <1>1, <1>4, <2>1
<1>6. ASSUME NEW n \in 0..N, n < N, n \in W PROVE n + 1 \in W
  <2>1. n + 1 \in 0..N /\ n + 1 \in 1..N /\ n \in Nat
    BY <1>1, <1>6
  <2>2. f[n] \in Seq(S) /\ s[n + 1] \in S /\ had(f[n]) = upto(n)
    BY <1>1, <1>3, <1>6, <2>1
  <2>3. {s[m] : m \in 1..(n + 1)} = {s[m] : m \in 1..n} \cup {s[n + 1]}
    <3>1. 1..(n + 1) = (1..n) \cup {n + 1}
      BY <2>1
    <3> QED
      BY <3>1
  <2>4. ASSUME NEW r \in Seq(S), NEW e \in S PROVE had(Append(r, e)) = had(r) \cup {e}
    <3> DEFINE t == Append(r, e)
    <3>1. /\ DOMAIN r = 1..Len(r) /\ DOMAIN t = 1..(Len(r) + 1) /\ Len(r) \in Nat
          /\ t[Len(r) + 1] = e /\ \A q \in 1..Len(r) : t[q] = r[q]
      OBVIOUS
    <3> HIDE DEF t
    <3>2. had(t) \subseteq had(r) \cup {e}
      BY <3>1
    <3>3. had(r) \cup {e} \subseteq had(t)
      BY <3>1
    <3> QED
      BY <3>2, <3>3 DEF t
  <2>5. f[n + 1] = IF s[n + 1] \in T THEN Append(f[n], s[n + 1]) ELSE f[n]
    BY <1>4, <1>6
  <2>6. had(f[n + 1]) = IF s[n + 1] \in T THEN had(f[n]) \cup {s[n + 1]} ELSE had(f[n])
    <3> HIDE DEF had
    <3> QED
      BY <2>2, <2>4, <2>5
  <2>7. upto(n + 1) = IF s[n + 1] \in T THEN upto(n) \cup {s[n + 1]} ELSE upto(n)
    BY <2>3
  <2> HIDE DEF had, upto
  <2> QED
    BY <2>1, <2>2, <2>6, <2>7
<1> HIDE DEF W
<1>7. N \in W
  BY <1>1, <1>5, <1>6, UpTo
<1> QED
  BY <1>1, <1>2, <1>7 DEF W

-----------------------------------------------------------------------------
\* A set of numbers up to a bound has a least.
LEMMA Least ==
    ASSUME NEW N \in Nat, NEW S, S \subseteq 0..N, S # {}
    PROVE  \E m \in S : \A j \in S : m <= j
<1> SUFFICES ASSUME ~\E m \in S : \A j \in S : m <= j PROVE FALSE
  OBVIOUS
<1> DEFINE T == {n \in 0..N : \A k \in S : k >= n}
<1>1. 0 \in T
  OBVIOUS
<1>2. ASSUME NEW n \in 0..N, n < N, n \in T PROVE n + 1 \in T
  <2>1. n \notin S
    BY <1>2
  <2> QED
    BY <1>2, <2>1
<1>3. 0..N \subseteq T
  BY <1>1, <1>2, UpTo
<1>4. \A k \in S : k = N
  BY <1>3
<1>5. PICK m \in S : TRUE
  OBVIOUS
<1>6. m \in Nat /\ \A j \in S : m <= j
  BY <1>4
<1> QED
  BY <1>6

\* The rows of a sequence, and those of them a window keeps.
RowsOf(rows) == {rows[n] : n \in DOMAIN rows}

Young(rows, spec, floor) == {rows[n] : n \in {m \in DOMAIN rows : keep_item(rows[m], spec, floor)}}

\* The path at which the array is found is one the response has.
LEMMA Located ==
    ASSUME NEW slug \in TaskSlugs, NEW resp, located(spec_for(slug), resp) # 0
    PROVE  /\ located(spec_for(slug), resp) \in DOMAIN spec_for(slug).paths
           /\ spec_for(slug).paths[located(spec_for(slug), resp)] \in DOMAIN resp.arrays
<1> DEFINE spec == spec_for(slug)
           hits == {i \in DOMAIN spec.paths : spec.paths[i] \in DOMAIN resp.arrays}
<1>1. \E N \in Nat : DOMAIN spec.paths \subseteq 0..N
  <2> DEFINE paths == spec.paths
  <2>1. CASE slug \in {"LINEAR_LIST_LINEAR_ISSUES", "LINEAR_SEARCH_ISSUES"}
    <3>1. paths = <<"data.issues.nodes", "data.data.nodes", "data.nodes", "nodes", "issues.nodes",
                     "data.results", "results", "data.issues", "issues">>
      BY <2>1 DEF spec_for, Spec_
    <3> HIDE DEF paths
    <3>2. DOMAIN paths \subseteq 0..9
      BY <3>1
    <3> QED
      BY <3>2 DEF paths
  <2>2. CASE slug \in {"CLICKUP_GET_FILTERED_TEAM_TASKS", "CLICKUP_GET_TASKS"}
    <3>1. paths = <<"data.tasks", "tasks", "data.data.tasks", "data.results", "results">>
      BY <2>2 DEF spec_for, Spec_
    <3> HIDE DEF paths
    <3>2. DOMAIN paths \subseteq 0..9
      BY <3>1
    <3> QED
      BY <3>2 DEF paths
  <2>3. CASE slug = "NOTION_QUERY_DATABASE_WITH_FILTER"
    <3>1. paths = <<"results", "data.results", "data.data.results">>
      BY <2>3 DEF spec_for, Spec_
    <3> HIDE DEF paths
    <3>2. DOMAIN paths \subseteq 0..9
      BY <3>1
    <3> QED
      BY <3>2 DEF paths
  <2>4. CASE slug = "ASANA_GET_MULTIPLE_TASKS"
    <3>1. paths = <<"data.data", "data">>
      BY <2>4 DEF spec_for, Spec_
    <3> HIDE DEF paths
    <3>2. DOMAIN paths \subseteq 0..9
      BY <3>1
    <3> QED
      BY <3>2 DEF paths
  <2>5. CASE slug = "TODOIST_GET_ALL_TASKS"
    <3>1. PICK root : paths = <<"tasks", "data.tasks", "results", "data.results", "data", root>>
      <4>1. paths = <<"tasks", "data.tasks", "results", "data.results", "data", "">>
        BY <2>5 DEF spec_for, Spec_
      <4> QED
        BY <4>1, Zenon
    <3> HIDE DEF paths
    <3>2. DOMAIN paths \subseteq 0..9
      BY <3>1
    <3> QED
      BY <3>2 DEF paths
  <2> QED
    BY <2>1, <2>2, <2>3, <2>4, <2>5 DEF TaskSlugs
<1> HIDE DEF spec
<1>2. hits # {} /\ located(spec, resp) = CHOOSE i \in hits : \A j \in hits : i <= j
  BY DEF located, spec
<1>3. \E i \in hits : \A j \in hits : i <= j
  <2>1. PICK N \in Nat : DOMAIN spec.paths \subseteq 0..N
    BY <1>1
  <2>2. hits \subseteq 0..N
    BY <2>1
  <2> HIDE DEF hits
  <2> QED
    BY <1>2, <2>2, Least
<1>4. located(spec, resp) \in hits
  <2> HIDE DEF hits
  <2> QED
    BY <1>2, <1>3
<1> QED
  BY <1>4 DEF spec

\* A later boundary keeps no more.
LEMMA LaterKeepsLess ==
    ASSUME NEW row, NEW spec, NEW f \in Nat, NEW g \in Nat, f <= g,
           \A k \in DOMAIN row.shows : row.shows[k].time \in Nat, keep_item(row, spec, g)
    PROVE  keep_item(row, spec, f)
<1> DEFINE dated == {k \in DOMAIN row.shows \cap spec.fields : parses(row.shows[k], spec.format)}
<1>1. dated = {} \/ \E k \in dated : row.shows[k].time >= g
  BY DEF keep_item
<1>2. dated = {} \/ \E k \in dated : row.shows[k].time >= f
  BY <1>1
<1> QED
  BY <1>2 DEF keep_item

\* resp is what a window with the boundary floor leaves of whole.
Windowed(resp, whole, slug, floor) ==
    LET spec == spec_for(slug)
        i == located(spec, whole)
        path == spec.paths[i]
        all == whole.arrays[path]
    IN  /\ DOMAIN resp = {"successful", "arrays", "markdown"}
        /\ resp.successful = whole.successful
        /\ DOMAIN resp.arrays = DOMAIN whole.arrays
        /\ resp.markdown => resp = whole
        /\ ~whole.successful \/ i = 0 => resp = whole
        /\ whole.successful /\ i # 0 =>
             /\ resp.arrays[path] = Among(all, Young(all, spec, floor))
             /\ \A p \in DOMAIN whole.arrays \ {path} : resp.arrays[p] = whole.arrays[p]

\* The rows of an answer are rows of the backlog.
IsAnswer(whole, backlog) ==
    /\ DOMAIN whole = {"successful", "arrays", "markdown"}
    /\ \A p \in DOMAIN whole.arrays : whole.arrays[p] \in Seq(RowsOf(backlog))

\* An answer is its own window from the beginning of time.
LEMMA WindowedAll ==
    ASSUME NEW backlog \in Backlogs, NEW whole, IsAnswer(whole, backlog), NEW slug \in TaskSlugs
    PROVE  Windowed(whole, whole, slug, 0)
<1> DEFINE spec == spec_for(slug)
           i == located(spec, whole)
           path == spec.paths[i]
           all == whole.arrays[path]
<1>1. ASSUME i # 0 PROVE Among(all, Young(all, spec, 0)) = all
  <2>1. all \in Seq(RowsOf(backlog))
    BY <1>1, Located DEF IsAnswer
  <2> HIDE DEF all
  <2>2. ASSUME NEW n \in DOMAIN all PROVE all[n] \in Young(all, spec, 0)
    <3> DEFINE row == all[n]
    <3>1. row \in RowsOf(backlog)
      BY <2>1
    <3>2. \A k \in DOMAIN row.shows : row.shows[k].time \in Nat
      BY <3>1, ProcessingAssumption DEF RowsOf, IsBacklog
    <3> HIDE DEF row
    <3>3. keep_item(row, spec, 0)
      BY <3>2 DEF keep_item
    <3> QED
      BY <3>3 DEF Young, row
  <2> HIDE DEF spec
  <2> QED
    BY <2>1, <2>2, AmongAll
<1> HIDE DEF all
<1> QED
  BY <1>1 DEF Windowed, IsAnswer, all

\* A later window on what a window has left is that window on the answer.
LEMMA WindowedAgain ==
    ASSUME NEW backlog \in Backlogs, NEW whole, IsAnswer(whole, backlog), NEW slug \in TaskSlugs,
           NEW f \in Nat, NEW g \in Nat, f <= g, NEW resp, Windowed(resp, whole, slug, f)
    PROVE  Windowed(filter_response(slug, resp, g), whole, slug, g)
<1> DEFINE spec == spec_for(slug)
           i == located(spec, whole)
           path == spec.paths[i]
           all == whole.arrays[path]
           Y(h) == Young(all, spec, h)
           items == resp.arrays[path]
           kept == {items[n] : n \in {m \in DOMAIN items : keep_item(items[m], spec, g)}}
           after == filter_response(slug, resp, g)
<1>1. /\ DOMAIN resp = {"successful", "arrays", "markdown"}
      /\ resp.successful = whole.successful
      /\ DOMAIN resp.arrays = DOMAIN whole.arrays
      /\ resp.markdown => resp = whole
      /\ ~whole.successful \/ i = 0 => resp = whole
      /\ whole.successful /\ i # 0 =>
           /\ items = Among(all, Y(f))
           /\ \A p \in DOMAIN whole.arrays \ {path} : resp.arrays[p] = whole.arrays[p]
  BY DEF Windowed
<1>2. located(spec, resp) = i
  BY <1>1 DEF located
<1> HIDE DEF spec, i
<1>3. after = IF ~resp.successful THEN resp
              ELSE IF i = 0 \/ \A n \in DOMAIN items : items[n] \in kept THEN resp
              ELSE [resp EXCEPT !.arrays[path] = Among(items, kept), !.markdown = FALSE]
  BY <1>2 DEF filter_response, spec
<1> HIDE DEF after, path, all, items, kept, Y
<1>4. CASE ~whole.successful \/ i = 0
  <2>1. after = whole /\ resp = whole
    BY <1>1, <1>3, <1>4
  <2> QED
    BY <1>1, <1>4, <2>1 DEF Windowed, after, i, spec
<1>5. CASE whole.successful /\ i # 0
  <2>1. path \in DOMAIN whole.arrays /\ all \in Seq(RowsOf(backlog))
    BY <1>5, Located DEF path, i, spec, all, IsAnswer
  <2>2. \A row \in RowsOf(all) : \A k \in DOMAIN row.shows : row.shows[k].time \in Nat
    <3>1. RowsOf(all) \subseteq RowsOf(backlog)
      BY <2>1 DEF RowsOf
    <3> QED
      BY <3>1, ProcessingAssumption DEF RowsOf, IsBacklog
  <2>3. \A h : Y(h) = {row \in RowsOf(all) : keep_item(row, spec, h)}
    BY DEF Y, Young, RowsOf
  <2>4. RowsOf(items) = Y(f)
    <3>1. RowsOf(items) = RowsOf(all) \cap Y(f)
      BY <1>1, <1>5, <2>1, AmongHas DEF RowsOf
    <3> QED
      BY <2>3, <3>1
  <2>5. Y(g) \subseteq Y(f)
    BY <2>2, <2>3, LaterKeepsLess
  <2>6. kept = Y(g)
    <3>1. kept = {row \in RowsOf(items) : keep_item(row, spec, g)}
      BY DEF kept, RowsOf
    <3> QED
      BY <2>3, <2>4, <2>5, <3>1
  <2>7. Among(items, kept) = Among(all, Y(g))
    BY <1>1, <1>5, <2>1, <2>5, <2>6, AmongTwice
  <2>8. CASE \A n \in DOMAIN items : items[n] \in kept
    <3>1. after = resp
      BY <1>3, <2>8
    <3>2. Y(f) = Y(g)
      BY <2>4, <2>5, <2>6, <2>8 DEF RowsOf
    <3>3. items = Among(all, Y(g))
      BY <1>1, <1>5, <3>2
    <3> QED
      BY <1>1, <1>5, <3>1, <3>3 DEF Windowed, after, i, spec, path, all, items, Y
  <2>9. CASE ~\A n \in DOMAIN items : items[n] \in kept
    <3>1. after = [resp EXCEPT !.arrays[path] = Among(items, kept), !.markdown = FALSE]
      BY <1>1, <1>3, <1>5, <2>9
    <3>2. /\ DOMAIN after = {"successful", "arrays", "markdown"} /\ after.successful = whole.successful
          /\ ~after.markdown /\ DOMAIN after.arrays = DOMAIN whole.arrays
          /\ after.arrays[path] = Among(all, Y(g))
          /\ \A p \in DOMAIN whole.arrays \ {path} : after.arrays[p] = resp.arrays[p]
      BY <1>1, <2>1, <2>7, <3>1
    <3> QED
      BY <1>1, <1>5, <3>2 DEF Windowed, after, i, spec, path, all, Y
  <2> QED
    BY <2>8, <2>9
<1> QED
  BY <1>4, <1>5

\* A prepared task fetch has the floor of the host, unless the host gave none or
\* the caller has its own.
LEMMA FloorGiven ==
    ASSUME NEW r \in Requests, r.tool.slug \in TaskSlugs, prepare(r).is # "refused",
           "modified_since" \notin DOMAIN r.args.of, "modified_since" \in DOMAIN prepare(r).of
    PROVE  r.since # Absent /\ prepare(r).of["modified_since"] = Value("instant", r.since.v)
<1> DEFINE f == r.args.of
           order == spec_for(r.tool.slug).order
           ordered == IF order = "" THEN f ELSE OrInsert(f, order, Value("text", <<>>))
<1>1. (\A m : Refused(m).is = "refused") /\ \A g : Object(g).of = g
  BY DEF Refused, Object
<1>2. r.tool.slug \notin TZ_DEFAULTING_SLUGS /\ r.tool.slug \notin Calendar
      /\ r.tool.slug \notin {"NOTION_FETCH_DATA", "GMAIL_SEND_EMAIL", "GMAIL_ADD_LABEL_TO_EMAIL"}
  BY DEF TaskSlugs, TZ_DEFAULTING_SLUGS, Calendar
<1>3. prepare(r) = prepare_execute_arguments(r.tool, Filled(r))
  BY <1>1, Prepared
<1>4. Filled(r).is # "other" /\ prepare(r) = Object(Filled(r).of)
  BY <1>1, <1>2, <1>3 DEF prepare_execute_arguments
<1>5. Filled(r) = IF r.since = Absent THEN r.args ELSE apply_window_args(r.tool, r.args, r.since.v)
  BY <1>2 DEF Filled, apply_calendar_query_defaults
<1>6. Filled(r) # r.args
  BY <1>1, <1>4
<1>7. r.since # Absent
  BY <1>5, <1>6
<1>8. order # "modified_since"
  BY DEF spec_for, Spec_, TaskSlugs
<1>9. f = [k \in DOMAIN f |-> f[k]]
  <2>1. r.args.is # "other"
    BY <1>5, <1>6, <1>7 DEF apply_window_args, NoObject
  <2> QED
    BY <2>1, ProcessingAssumption DEF IsRequest, IsObject
<1>10. Filled(r) = Object(IF r.tool.slug = "ASANA_GET_MULTIPLE_TASKS"
                          THEN OrInsert(ordered, "modified_since", Value("instant", r.since.v)) ELSE ordered)
  BY <1>5, <1>6 DEF apply_window_args
<1>11. "modified_since" \notin DOMAIN ordered
  <2> HIDE DEF order, f
  <2>1. DOMAIN OrInsert(f, order, Value("text", <<>>)) = DOMAIN f \cup {order}
    BY <1>9, Inserted
  <2> QED
    BY <1>8, <2>1 DEF f
<1> HIDE DEF ordered
<1>12. prepare(r).of = OrInsert(ordered, "modified_since", Value("instant", r.since.v))
  BY <1>1, <1>4, <1>10, <1>11
<1>13. OrInsert(ordered, "modified_since", Value("instant", r.since.v))["modified_since"] = Value("instant", r.since.v)
  BY <1>11 DEF OrInsert, With
<1> QED
  BY <1>7, <1>12, <1>13

\* The rows a provider answers are rows of its backlog, and among them all those
\* the host did not ask it to leave out.
LEMMA Answered ==
    ASSUME NEW r \in Requests, r.tool.slug \in TaskSlugs, prepare(r).is # "refused", NEW rows \in Backlogs
    PROVE  LET shown == Narrowed(rows, prepare(r).of)
           IN  /\ shown \in Seq(RowsOf(rows))
               /\ "modified_since" \notin DOMAIN r.args.of =>
                    \A n \in DOMAIN rows : (r.since # Absent => rows[n].modified >= r.since.v[1])
                                             => rows[n] \in RowsOf(shown)
<1> DEFINE args == prepare(r).of
           shown == Narrowed(rows, args)
           late == {rows[n] : n \in {m \in DOMAIN rows : rows[m].modified >= args["modified_since"].v[1]}}
<1>1. rows \in Seq(RowsOf(rows))
  BY ProcessingAssumption DEF IsBacklog, RowsOf
<1>2. CASE shown = rows
  BY <1>1, <1>2 DEF RowsOf
<1>3. CASE shown # rows
  <2>1. shown = Among(rows, late) /\ "modified_since" \in DOMAIN args
    BY <1>3 DEF Narrowed
  <2> HIDE DEF shown, late
  <2>2. shown \in Seq(RowsOf(rows))
    BY <1>1, <2>1, AmongSelects
  <2>3. RowsOf(shown) = RowsOf(rows) \cap late
    BY <1>1, <2>1, AmongHas DEF RowsOf
  <2>4. ASSUME "modified_since" \notin DOMAIN r.args.of, NEW n \in DOMAIN rows,
               r.since # Absent => rows[n].modified >= r.since.v[1]
        PROVE  rows[n] \in RowsOf(shown)
    <3>1. r.since # Absent /\ args["modified_since"] = Value("instant", r.since.v)
      BY <2>1, <2>4, FloorGiven
    <3>2. args["modified_since"].v = r.since.v
      BY <3>1 DEF Value
    <3>3. rows[n] \in late /\ rows[n] \in RowsOf(rows)
      BY <2>4, <3>1, <3>2 DEF late, RowsOf
    <3> QED
      BY <2>3, <3>3
  <2> QED
    BY <2>2, <2>4 DEF shown
<1> QED
  BY <1>2, <1>3

\* An answer in hand is the window of the provider's rows that the latest
\* boundary leaves.
WindowInv ==
    /\ "at" \in DOMAIN job
    /\ job.at \in {"answered", "filtered"} =>
         /\ DOMAIN job = {"at", "slug", "since", "own", "backlog", "first", "resp", "floor"}
         /\ job.slug \in TaskSlugs /\ job.backlog \in Backlogs /\ job.floor \in Nat
         /\ IsAnswer(job.first, job.backlog)
         /\ \A p \in DOMAIN job.first.arrays : \A n \in DOMAIN job.backlog :
               ~job.own /\ (job.since # Absent => job.backlog[n].modified >= job.since.v[1])
                 => job.backlog[n] \in RowsOf(job.first.arrays[p])
         /\ Windowed(job.resp, job.first, job.slug, job.floor)

\* Every step of a job keeps the window.
LEMMA WindowKept ==
    ASSUME PreparedInv, WindowInv, [JobNext]_job
    PROVE  WindowInv'
<1>0. "at" \in DOMAIN job
  BY DEF WindowInv
<1>1. ASSUME "at" \in DOMAIN job', job'.at \notin {"answered", "filtered"} PROVE WindowInv'
  BY <1>1 DEF WindowInv
<1>2. ASSUME NEW rows \in Backlogs, NEW paths \in Envelopes, NEW honours \in BOOLEAN, NEW successful \in BOOLEAN,
             answer_tasks(rows, paths, honours, successful)
      PROVE  WindowInv'
  <2> DEFINE r == job.request
             shown == IF honours THEN Narrowed(rows, job.answer.of) ELSE rows
             whole == [successful |-> successful, arrays |-> [p \in paths |-> shown], markdown |-> TRUE]
  <2>1. /\ r \in Requests /\ r.tool.slug \in TaskSlugs /\ job.answer = prepare(r) /\ prepare(r).is # "refused"
    BY <1>2 DEF answer_tasks, PreparedInv
  <2>2. /\ shown \in Seq(RowsOf(rows))
        /\ "modified_since" \notin DOMAIN r.args.of =>
             \A n \in DOMAIN rows : (r.since # Absent => rows[n].modified >= r.since.v[1])
                                      => rows[n] \in RowsOf(shown)
    <3>1. CASE honours
      BY <2>1, <3>1, Answered
    <3>2. CASE ~honours
      BY <3>2, ProcessingAssumption DEF IsBacklog, RowsOf
    <3> QED
      BY <3>1, <3>2
  <2>3. job' = [at |-> "answered", slug |-> r.tool.slug, since |-> r.since,
                own |-> "modified_since" \in DOMAIN r.args.of, backlog |-> rows,
                first |-> whole, resp |-> whole, floor |-> 0]
    BY <1>2 DEF answer_tasks
  <2> HIDE DEF shown
  <2>4. IsAnswer(whole, rows)
    BY <2>2 DEF IsAnswer
  <2>5. \A p \in DOMAIN whole.arrays : whole.arrays[p] = shown
    OBVIOUS
  <2> HIDE DEF whole, r
  <2>6. Windowed(whole, whole, r.tool.slug, 0)
    BY <2>1, <2>4, WindowedAll
  <2>7. /\ DOMAIN job' = {"at", "slug", "since", "own", "backlog", "first", "resp", "floor"}
        /\ "at" \in DOMAIN job' /\ job'.slug = r.tool.slug /\ job'.since = r.since
        /\ job'.own = ("modified_since" \in DOMAIN r.args.of)
        /\ job'.backlog = rows /\ job'.first = whole /\ job'.resp = whole /\ job'.floor = 0
    BY <2>3
  <2>8. \A p \in DOMAIN whole.arrays : \A n \in DOMAIN rows :
           ~job'.own /\ (job'.since # Absent => rows[n].modified >= job'.since.v[1])
             => rows[n] \in RowsOf(whole.arrays[p])
    BY <2>2, <2>5, <2>7
  <2> QED
    BY <2>1, <2>4, <2>6, <2>7, <2>8 DEF WindowInv
<1>3. ASSUME NEW floor \in Floors, filter(floor) PROVE WindowInv'
  <2>1. /\ job.at \in {"answered", "filtered"} /\ floor \in Nat /\ job.floor <= floor
        /\ job' = [job EXCEPT !.at = "filtered", !.floor = floor, !.resp = filter_response(job.slug, job.resp, floor)]
    <3>1. floor \in Nat /\ job.floor \in Nat
      BY <1>3, ProcessingAssumption DEF filter, WindowInv
    <3> QED
      BY <1>3, <3>1 DEF filter
  <2>2. /\ DOMAIN job = {"at", "slug", "since", "own", "backlog", "first", "resp", "floor"}
        /\ job.slug \in TaskSlugs /\ job.backlog \in Backlogs /\ job.floor \in Nat
        /\ IsAnswer(job.first, job.backlog)
        /\ Windowed(job.resp, job.first, job.slug, job.floor)
    BY <2>1 DEF WindowInv
  <2>3. /\ DOMAIN job' = DOMAIN job /\ job'.slug = job.slug /\ job'.since = job.since /\ job'.own = job.own
        /\ job'.backlog = job.backlog /\ job'.first = job.first /\ job'.floor = floor
        /\ job'.resp = filter_response(job.slug, job.resp, floor)
    BY <2>1, <2>2
  <2>4. Windowed(filter_response(job.slug, job.resp, floor), job.first, job.slug, floor)
    BY <2>1, <2>2, WindowedAgain
  <2> QED
    BY <2>1, <2>2, <2>3, <2>4 DEF WindowInv
<1>4. ASSUME NEW request \in Requests, prepare_arguments(request) PROVE WindowInv'
  <2>1. PICK answer : job' = [at |-> IF answer.is = "refused" THEN "unprepared" ELSE "prepared",
                              request |-> request, answer |-> answer]
    BY <1>4, Zenon DEF prepare_arguments
  <2> QED
    BY <1>1, <2>1
<1>5. ASSUME NEW d \in Deliveries, send(d) PROVE WindowInv'
  BY <1>1, <1>5 DEF send
<1>6. CASE corrupt
  BY <1>0, <1>1, <1>6 DEF corrupt
<1>7. ASSUME NEW secret \in Secrets, NEW now \in Clock, receive(secret, now) PROVE WindowInv'
  BY <1>1, <1>7 DEF receive
<1>8. ASSUME NEW known \in Known, decode(known) PROVE WindowInv'
  BY <1>1, <1>8 DEF decode
<1>9. CASE UNCHANGED job
  BY <1>9 DEF WindowInv
<1>10. ASSUME "at" \in DOMAIN job',
              job'.at \in {"reported", "formatted", "classified", "reclassified", "evaluated"}
       PROVE  WindowInv'
  BY <1>1, <1>10
<1> QED
  BY <1>0, <1>2, <1>3, <1>4, <1>5, <1>6, <1>7, <1>8, <1>9, <1>10, JobSteps, Zenon

\* What filtering leaves, once or again, are in their order exactly the rows that
\* may have changed within the window, whatever rows a provider has and whatever
\* it makes of the injected floor.
THEOREM WindowExact == JobSpec => []WindowIsExact
<1>1. JobInit => WindowInv
  BY DEF JobInit, WindowInv
<1>2. WindowInv => WindowIsExact
  <2> SUFFICES ASSUME WindowInv, job.at = "filtered", job.resp.successful PROVE WindowIsExact
    BY DEF WindowIsExact
  <2> DEFINE spec == spec_for(job.slug)
             i == located(spec, job.first)
             path == spec.paths[i]
             left == job.resp.arrays[path]
             all == job.first.arrays[path]
             times(row) == {row.shows[k].time : k \in {x \in DOMAIN row.shows \cap spec.fields :
                                                          parses(row.shows[x], spec.format)}}
             young(row) == times(row) = {} \/ ~(\A t \in times(row) : t < job.floor)
             Y == Young(all, spec, job.floor)
  <2>1. /\ job.slug \in TaskSlugs /\ job.backlog \in Backlogs /\ job.floor \in Nat
        /\ IsAnswer(job.first, job.backlog)
        /\ \A p \in DOMAIN job.first.arrays : \A n \in DOMAIN job.backlog :
              ~job.own /\ (job.since # Absent => job.backlog[n].modified >= job.since.v[1])
                => job.backlog[n] \in RowsOf(job.first.arrays[p])
        /\ Windowed(job.resp, job.first, job.slug, job.floor)
    BY DEF WindowInv
  <2>2. /\ job.resp.markdown => job.resp = job.first
        /\ i # 0 => /\ left = Among(all, Y)
                    /\ \A p \in DOMAIN job.first.arrays \ {path} : job.resp.arrays[p] = job.first.arrays[p]
    BY <2>1 DEF Windowed
  <2>3. ASSUME NEW row, \A k \in DOMAIN row.shows : row.shows[k].time \in Nat
        PROVE  keep_item(row, spec, job.floor) <=> young(row)
    <3> DEFINE dated == {x \in DOMAIN row.shows \cap spec.fields : parses(row.shows[x], spec.format)}
    <3>1. keep_item(row, spec, job.floor) <=> dated = {} \/ \E k \in dated : row.shows[k].time >= job.floor
      BY DEF keep_item
    <3>2. \A k \in dated : row.shows[k].time \in Nat
      BY <2>3
    <3>3. times(row) = {row.shows[k].time : k \in dated}
      OBVIOUS
    <3> HIDE DEF dated, times, spec
    <3> QED
      BY <2>1, <3>1, <3>2, <3>3
  <2> HIDE DEF young, times
  <2>4. ASSUME i # 0
        PROVE  /\ path \in DOMAIN job.first.arrays
               /\ all \in Seq(RowsOf(job.backlog))
               /\ \A row \in RowsOf(job.backlog) : keep_item(row, spec, job.floor) <=> young(row)
    <3>1. path \in DOMAIN job.first.arrays
      BY <2>1, <2>4, Located
    <3>2. \A row \in RowsOf(job.backlog) : \A k \in DOMAIN row.shows : row.shows[k].time \in Nat
      BY <2>1, ProcessingAssumption DEF RowsOf, IsBacklog
    <3> QED
      BY <2>1, <2>3, <3>1, <3>2 DEF IsAnswer
  <2>5. ASSUME i # 0 PROVE Selects(left, all, {n \in DOMAIN all : young(all[n])})
    <3>1. Selects(Among(all, Y), all, {n \in DOMAIN all : all[n] \in Y})
      BY <2>4, <2>5, AmongSelects
    <3>2. \A n \in DOMAIN all : all[n] \in Y <=> young(all[n])
      <4>1. \A n \in DOMAIN all : all[n] \in RowsOf(job.backlog)
        BY <2>4, <2>5
      <4>2. \A n \in DOMAIN all : all[n] \in Y <=> keep_item(all[n], spec, job.floor)
        BY DEF Young
      <4> HIDE DEF all, Y, spec
      <4> QED
        BY <2>4, <2>5, <4>1, <4>2
    <3>3. {n \in DOMAIN all : all[n] \in Y} = {n \in DOMAIN all : young(all[n])}
      BY <3>2
    <3> QED
      BY <2>2, <2>5, <3>1, <3>3
  <2>6. ASSUME i # 0, NEW n \in DOMAIN job.backlog, job.backlog[n].modified >= job.floor,
               ShowsChange(job.backlog[n], spec), ~job.own,
               job.since # Absent => job.backlog[n].modified >= job.since.v[1]
        PROVE  \E q \in DOMAIN left : left[q] = job.backlog[n]
    <3> DEFINE row == job.backlog[n]
    <3>1. row \in RowsOf(all)
      BY <2>1, <2>4, <2>6
    <3>2. keep_item(row, spec, job.floor)
      BY <2>6 DEF keep_item, ShowsChange
    <3>3. row \in Y
      BY <3>1, <3>2 DEF Young, RowsOf
    <3>4. left = Among(all, Y) /\ all \in Seq(RowsOf(job.backlog))
      BY <2>2, <2>4, <2>6
    <3> HIDE DEF row, Y, all, left
    <3>5. {left[q] : q \in DOMAIN left} = {all[m] : m \in DOMAIN all} \cap Y
      BY <3>4, AmongHas
    <3> QED
      BY <3>1, <3>3, <3>5 DEF RowsOf, row
  <2> HIDE DEF left, all, path, i, spec, Y
  <2> QED
    BY <2>2, <2>5, <2>6, Zenon DEF WindowIsExact, left, all, path, i, spec, young, times
<1>3. PreparedInv /\ WindowInv /\ [JobNext]_job => WindowInv'
  BY WindowKept
<1> QED
  BY <1>1, <1>2, <1>3, PreparedKept, PTL DEF JobSpec

-----------------------------------------------------------------------------
\* The timestamp of a delivery as it is sent.
SentAt == [is |-> "number", at |-> Sent]

\* What a delivery's entries are signed into.
Signed(d) == {[scheme |-> e.scheme, decodes |-> e.decodes, mac |-> Mac(e.secret, "msg", SentAt, d.body)] :
                 e \in d.entries}

\* A delivery on its way is as it was sent or has a part that gives it away:
\* one that is missing or unreadable, or one the signature covers.
TransitInv ==
    /\ "at" \in DOMAIN job
    /\ job.at = "transit" =>
        LET h == job.headers
        IN  /\ DOMAIN job = {"at", "sent", "body", "intact", "headers"}
            /\ DOMAIN h = {"id", "timestamp", "entries"}
            /\ job.sent \in Deliveries
            /\ job.intact \in BOOLEAN
            /\ job.intact => /\ job.body = job.sent.body
                             /\ h.id = "msg" /\ h.timestamp = SentAt /\ h.entries = Signed(job.sent)
            /\ ~job.intact => \/ h.id = "" \/ h.timestamp.is \in {"", "text"} \/ h.entries = {}
                              \/ /\ h.entries = Signed(job.sent)
                                 /\ \/ h.id # "msg" \/ h.timestamp # SentAt \/ job.body # job.sent.body

\* The digests of a delivery's entries are made from what was sent.
LEMMA SignedDigests ==
    ASSUME NEW d, NEW m
    PROVE  m \in candidates(Signed(d))
             <=> \E e \in d.entries : reads(e) /\ e.decodes /\ m = Mac(e.secret, "msg", SentAt, d.body)
<1> DEFINE sign(e) == [scheme |-> e.scheme, decodes |-> e.decodes, mac |-> Mac(e.secret, "msg", SentAt, d.body)]
<1>1. \A e : /\ reads(sign(e)) <=> reads(e)
             /\ sign(e).decodes = e.decodes
             /\ sign(e).mac = Mac(e.secret, "msg", SentAt, d.body)
  BY DEF reads
<1>2. Signed(d) = {sign(e) : e \in d.entries}
  BY DEF Signed
<1> HIDE DEF sign
<1>3. m \in candidates(Signed(d)) <=> \E x \in Signed(d) : reads(x) /\ x.decodes /\ m = x.mac
  BY DEF candidates
<1> QED
  BY <1>1, <1>2, <1>3

\* verify accepts what carries a digest made with the host's secret from just
\* what arrived, within the tolerance.
LEMMA VerifyOk ==
    ASSUME NEW secret, NEW h, NEW body, NEW now \in Nat, h.timestamp.at \in Nat
    PROVE  verify(secret, h, body, now, Tolerance) = "Ok" <=>
             /\ h.id # "" /\ h.timestamp.is \notin {"", "text"} /\ h.entries # {} /\ secret # ""
             /\ now \in (h.timestamp.at - Tolerance)..(h.timestamp.at + Tolerance)
             /\ Mac(secret, h.id, h.timestamp, body) \in candidates(h.entries)
<1>1. skew(now, h.timestamp.at) > Tolerance
        <=> now \notin (h.timestamp.at - Tolerance)..(h.timestamp.at + Tolerance)
  BY ProcessingAssumption DEF skew, abs_diff
<1> QED
  BY <1>1 DEF verify

\* Each step keeps a delivery as it was sent or gives it away, so that it is
\* taken for genuine just when it is.
LEMMA GenuineKept == JobSpec => [](TransitInv /\ AcceptedIffGenuine)
<1> DEFINE Inv == TransitInv /\ AcceptedIffGenuine
<1>1. JobInit => Inv
  BY DEF JobInit, TransitInv, AcceptedIffGenuine
<1>2. Inv /\ [JobNext]_job => Inv'
  <2> SUFFICES ASSUME Inv, [JobNext]_job PROVE Inv'
    OBVIOUS
  <2>1. ASSUME "at" \in DOMAIN job', job'.at \notin {"transit", "verified", "rejected"} PROVE Inv'
    BY <2>1 DEF TransitInv, AcceptedIffGenuine
  <2>2. ASSUME NEW d \in Deliveries, send(d) PROVE Inv'
    <3>1. job' = [at |-> "transit", sent |-> d, body |-> d.body, intact |-> TRUE,
                  headers |-> [id |-> "msg", timestamp |-> SentAt, entries |-> Signed(d)]]
      BY <2>2, Zenon DEF send, SentAt, Signed
    <3> HIDE DEF Inv
    <3>2. TransitInv'
      BY <3>1 DEF TransitInv
    <3>3. AcceptedIffGenuine'
      BY <3>1 DEF AcceptedIffGenuine
    <3> QED
      BY <3>2, <3>3 DEF Inv
  <2>3. CASE corrupt
    <3> DEFINE h == job.headers
               k == job'.headers
    <3>1. /\ job.at = "transit" /\ job.sent \in Deliveries /\ job.intact
          /\ DOMAIN job = {"at", "sent", "body", "intact", "headers"}
          /\ DOMAIN h = {"id", "timestamp", "entries"}
          /\ job.body = job.sent.body
          /\ h.id = "msg" /\ h.timestamp = SentAt /\ h.entries = Signed(job.sent)
      BY <2>3 DEF corrupt, TransitInv
    <3>2. AcceptedIffGenuine'
      <4>1. job'.at = "transit"
        BY <2>3, <3>1 DEF corrupt
      <4> QED
        BY <4>1 DEF AcceptedIffGenuine
    <3> DEFINE Kept == /\ job'.at = "transit" /\ job'.sent = job.sent /\ ~job'.intact /\ job'.intact \in BOOLEAN
                       /\ DOMAIN job' = DOMAIN job /\ DOMAIN k = DOMAIN h
    <3>3. ASSUME NEW id \in {"", "other"}, job' = [job EXCEPT !.intact = FALSE, !.headers.id = id]
          PROVE  TransitInv'
      <4>1. Kept /\ k.id = id /\ k.entries = h.entries
        BY <3>1, <3>3
      <4> QED
        BY <3>1, <4>1 DEF TransitInv
    <3>4. ASSUME NEW t \in [is : {"", "text"}, at : {Sent}] \cup [is : {"number"}, at : Clock \ {Sent}],
                 job' = [job EXCEPT !.intact = FALSE, !.headers.timestamp = t]
          PROVE  TransitInv'
      <4>1. Kept /\ k.timestamp = t /\ k.entries = h.entries
        BY <3>1, <3>4
      <4>2. t.is \in {"", "text"} \/ t # SentAt
        <5>1. SentAt.at = Sent
          BY DEF SentAt
        <5>2. t.is \in {"", "text"} \/ t.at \in Clock \ {Sent}
          OBVIOUS
        <5> QED
          BY <5>1, <5>2
      <4> QED
        BY <3>1, <4>1, <4>2 DEF TransitInv
    <3>5. ASSUME job' = [job EXCEPT !.intact = FALSE, !.headers.entries = {}]
          PROVE  TransitInv'
      <4>1. Kept /\ k.entries = {}
        BY <3>1, <3>5
      <4> QED
        BY <3>1, <4>1 DEF TransitInv
    <3>6. ASSUME NEW part \in job.body.has, job' = [job EXCEPT !.intact = FALSE, !.body.has = @ \ {part}]
          PROVE  TransitInv'
      <4>1. Kept /\ k = h /\ job'.body = [job.body EXCEPT !.has = @ \ {part}]
        BY <3>1, <3>6
      <4>2. "has" \in DOMAIN job.body
        BY <3>1, ProcessingAssumption DEF IsDelivery
      <4>3. job'.body # job.body
        BY <4>1, <4>2
      <4> QED
        BY <3>1, <4>1, <4>3 DEF TransitInv
    <3> QED
      BY <2>3, <3>2, <3>3, <3>4, <3>5, <3>6 DEF corrupt
  <2>4. ASSUME NEW secret \in Secrets, NEW now \in Clock, receive(secret, now) PROVE Inv'
    <3> DEFINE h == job.headers
               d == job.sent
               Ours == \E e \in d.entries : reads(e) /\ e.decodes /\ e.secret = secret
               InTime == now \in (Sent - Tolerance)..(Sent + Tolerance)
    <3>1. job.at = "transit" /\ job.sent \in Deliveries /\ job.intact \in BOOLEAN
      BY <2>4 DEF receive, TransitInv
    <3>2. /\ "at" \in DOMAIN job' /\ job'.at \in {"verified", "rejected"} /\ job'.sent = d /\ job'.intact = job.intact
          /\ job'.secret = secret /\ job'.now = now
          /\ job'.at = "verified" <=> verify(secret, h, job.body, now, Tolerance) = "Ok"
      BY <2>4 DEF receive
    <3>3. CASE job.intact
      <4>1. /\ job.body = d.body
            /\ h.id = "msg" /\ h.timestamp = SentAt /\ h.entries = Signed(d)
        BY <3>1, <3>3 DEF TransitInv
      <4>2. h.timestamp.at = Sent /\ h.timestamp.is = "number" /\ Sent \in Nat /\ now \in Nat
        BY <4>1, ProcessingAssumption DEF SentAt
      <4>3. Mac(secret, h.id, h.timestamp, job.body) \in candidates(h.entries) <=> Ours
        <5>1. \A e : Mac(secret, "msg", SentAt, d.body) = Mac(e.secret, "msg", SentAt, d.body) <=> e.secret = secret
          BY DEF Mac
        <5> QED
          BY <4>1, <5>1, SignedDigests
      <4>4. Ours => h.entries # {}
        BY <4>1 DEF Signed
      <4>5. verify(secret, h, job.body, now, Tolerance) = "Ok" <=> secret # "" /\ InTime /\ Ours
        <5> HIDE DEF Ours
        <5>1. verify(secret, h, job.body, now, Tolerance) = "Ok" <=>
                /\ h.id # "" /\ h.timestamp.is \notin {"", "text"} /\ h.entries # {} /\ secret # ""
                /\ now \in (h.timestamp.at - Tolerance)..(h.timestamp.at + Tolerance)
                /\ Mac(secret, h.id, h.timestamp, job.body) \in candidates(h.entries)
          BY <4>2, VerifyOk
        <5>2. h.id # "" /\ h.timestamp.is \notin {"", "text"}
          BY <4>1, <4>2
        <5>3. now \in (h.timestamp.at - Tolerance)..(h.timestamp.at + Tolerance) <=> InTime
          BY <4>2
        <5> QED
          BY <4>3, <4>4, <5>1, <5>2, <5>3, Zenon
      <4> QED
        BY <3>2, <3>3, <4>5 DEF TransitInv, AcceptedIffGenuine
    <3>4. CASE ~job.intact
      <4>1. \/ h.id = "" \/ h.timestamp.is \in {"", "text"} \/ h.entries = {}
            \/ /\ h.entries = Signed(d)
               /\ h.id # "msg" \/ h.timestamp # SentAt \/ job.body # d.body
        BY <3>1, <3>4 DEF TransitInv
      <4>2. Mac(secret, h.id, h.timestamp, job.body) \in candidates(h.entries) /\ h.entries = Signed(d)
              => h.id = "msg" /\ h.timestamp = SentAt /\ job.body = d.body
        BY SignedDigests DEF Mac
      <4>3. verify(secret, h, job.body, now, Tolerance) # "Ok"
        BY <4>1, <4>2 DEF verify
      <4> QED
        BY <3>2, <3>4, <4>3 DEF TransitInv, AcceptedIffGenuine
    <3> QED
      BY <3>1, <3>3, <3>4
  <2>5. CASE UNCHANGED job
    BY <2>5 DEF TransitInv, AcceptedIffGenuine
  <2>6. CASE JobBegin /\ ~\E d \in Deliveries : send(d)
    <3> DEFINE Begun == "at" \in DOMAIN job' /\ job'.at \in {"unprepared", "prepared", "reported", "evaluated"}
    <3>1. Begun
      <4>1. ASSUME NEW request \in Requests, prepare_arguments(request) PROVE Begun
        <5>1. PICK answer : job' = [at |-> IF answer.is = "refused" THEN "unprepared" ELSE "prepared",
                                    request |-> request, answer |-> answer]
          BY <4>1, Zenon DEF prepare_arguments
        <5> QED
          BY <5>1
      <4>2. ASSUME NEW known \in BOOLEAN, NEW m \in Messages, report(known, m) PROVE Begun
        BY <4>2 DEF report
      <4>3. ASSUME NEW a \in Actions(Named), NEW profile \in {"LeadingVerb", "SubstringCompatibility"},
                   NEW p \in Prefs, evaluate_actions(a, profile, p)
            PROVE  Begun
        BY <4>3 DEF evaluate_actions
      <4> QED
        BY <2>6, <4>1, <4>2, <4>3, Zenon DEF JobBegin
    <3> QED
      BY <2>1, <3>1
  <2>7. ASSUME NEW floor \in Floors, filter(floor) PROVE Inv'
    BY <2>1, <2>7 DEF filter, TransitInv
  <2>8. CASE wrap \/ format_failure \/ classify_error
    BY <2>1, <2>8 DEF wrap, format_failure, classify_error, TransitInv
  <2>9. ASSUME NEW known \in Known, decode(known) PROVE Inv'
    BY <2>1, <2>9 DEF decode
  <2>10. ASSUME NEW backlog \in Backlogs, NEW paths \in Envelopes, NEW honours \in BOOLEAN, NEW successful \in BOOLEAN,
                answer_tasks(backlog, paths, honours, successful)
         PROVE  Inv'
    BY <2>1, <2>10 DEF answer_tasks
  <2> HIDE DEF Inv
  <2> QED
    BY <2>2, <2>3, <2>4, <2>5, <2>6, <2>7, <2>8, <2>9, <2>10, Zenon DEF JobNext
<1> QED
  BY <1>1, <1>2, PTL DEF JobSpec

\* A host accepts exactly the deliveries that are as they were sent, are signed
\* with its secret and are within the tolerance, whatever is sent and when.
THEOREM Genuine == JobSpec => []AcceptedIffGenuine
<1> QED
  BY GenuineKept, PTL

\* The first text that is not blank is one of the texts, after blank ones only,
\* and there is none if and only if all are blank.
LEMMA FirstTextIs ==
    ASSUME NEW n \in Nat, NEW t, DOMAIN t = 1..n
    PROVE  /\ FirstText(t) = "" <=> \A i \in 1..n : t[i] = ""
           /\ FirstText(t) # "" => \E i \in 1..n : t[i] = FirstText(t) /\ \A j \in 1..n : j < i => t[j] = ""
<1> DEFINE given == {i \in DOMAIN t : t[i] # ""}
<1>1. given \subseteq 0..n
  <2>1. 1..n \subseteq 0..n
    OBVIOUS
  <2> QED
    BY <2>1, Zenon
<1>2. \A i \in 1..n : i \in given <=> t[i] # ""
  BY Zenon
<1>3. CASE given = {}
  <2>1. FirstText(t) = ""
    BY <1>3 DEF FirstText
  <2> QED
    BY <2>1, <1>3
<1>4. CASE given # {}
  <2> DEFINE i == CHOOSE i \in given : \A j \in given : i <= j
  <2>1. i \in given /\ \A j \in given : i <= j
    <3>1. \E m \in given : \A j \in given : m <= j
      BY <1>1, <1>4, Least
    <3> QED
      BY <3>1, Zenon
  <2>2. FirstText(t) = t[i]
    BY <1>4, Zenon DEF FirstText
  <2>3. i \in 1..n /\ t[i] # ""
    BY <2>1
  <2>4. \A j \in given : ~(j < i)
    <3> HIDE DEF i, given
    <3>1. given \subseteq Int
      BY <1>1
    <3> QED
      BY <2>1, <3>1
  <2>5. \A j \in 1..n : j < i => t[j] = ""
    BY <1>2, <2>4, Zenon
  <2> HIDE DEF i
  <2> QED
    BY <2>2, <2>3, <2>5, Zenon
<1> QED
  BY <1>3, <1>4

\* The first of two texts that is not blank.
LEMMA FirstOfTwo ==
    ASSUME NEW a, NEW b
    PROVE  FirstText(<<a, b>>) = IF a # "" THEN a ELSE b
<1> DEFINE t == <<a, b>>
<1>1. DOMAIN t = 1..2 /\ t[1] = a /\ t[2] = b
  OBVIOUS
<1> HIDE DEF t
<1>2. /\ FirstText(t) = "" <=> \A i \in 1..2 : t[i] = ""
      /\ FirstText(t) # "" => \E i \in 1..2 : t[i] = FirstText(t) /\ \A j \in 1..2 : j < i => t[j] = ""
  BY <1>1, FirstTextIs
<1>3. 1 \in 1..2 /\ 2 \in 1..2 /\ 1 < 2 /\ \A i \in 1..2 : i = 1 \/ i = 2
  OBVIOUS
<1>4. FirstText(t) = IF a # "" THEN a ELSE b
  BY <1>1, <1>2, <1>3, Zenon
<1> QED
  BY <1>4 DEF t

\* Of one text it is that text.
LEMMA FirstOfOne == \A a : FirstText(<<a>>) = a
<1> SUFFICES ASSUME NEW a PROVE FirstText(<<a>>) = a
  OBVIOUS
<1> DEFINE t == <<a>>
<1>1. DOMAIN t = 1..1 /\ t[1] = a
  OBVIOUS
<1> HIDE DEF t
<1>2. /\ FirstText(t) = "" <=> \A i \in 1..1 : t[i] = ""
      /\ FirstText(t) # "" => \E i \in 1..1 : t[i] = FirstText(t) /\ \A j \in 1..1 : j < i => t[j] = ""
  BY <1>1, FirstTextIs
<1>3. 1 \in 1..1 /\ \A i \in 1..1 : i = 1
  OBVIOUS
<1>4. FirstText(t) = a
  BY <1>1, <1>2, <1>3, Zenon
<1> QED
  BY <1>4 DEF t

\* The first text under one of two keys.
LEMMA FirstUnderTwo ==
    ASSUME NEW o, NEW j, NEW k
    PROVE  first(o, <<j, k>>) = IF text(o, j) # "" THEN text(o, j) ELSE text(o, k)
<1> DEFINE keys == <<j, k>>
<1>1. [i \in DOMAIN keys |-> text(o, keys[i])] = <<text(o, j), text(o, k)>>
  OBVIOUS
<1>2. first(o, keys) = FirstText(<<text(o, j), text(o, k)>>)
  BY <1>1, Zenon DEF first
<1> QED
  BY <1>2, FirstOfTwo

\* The toolkit an object names.
LEMMA Explicit ==
    \A o : explicit_toolkit(o) = IF text(o, "toolkit_slug") # "" THEN text(o, "toolkit_slug") ELSE text(o, "toolkit")
BY FirstUnderTwo DEF explicit_toolkit

\* The id a V2 delivery gives its connection: three keys, in their order.
LEMMA Connection ==
    ASSUME NEW o
    PROVE  first(o, connection_keys) =
             IF text(o, "connection_nano_id") # "" THEN text(o, "connection_nano_id")
             ELSE IF text(o, "connected_account_id") # "" THEN text(o, "connected_account_id")
             ELSE text(o, "connection_id")
<1> DEFINE t == [i \in 1..3 |-> text(o, connection_keys[i])]
           a == text(o, "connection_nano_id")
           b == text(o, "connected_account_id")
           c == text(o, "connection_id")
<1>1. /\ DOMAIN connection_keys = 1..3 /\ connection_keys[1] = "connection_nano_id"
      /\ connection_keys[2] = "connected_account_id" /\ connection_keys[3] = "connection_id"
  BY DEF connection_keys
<1>2. first(o, connection_keys) = FirstText(t)
  BY <1>1, Zenon DEF first
<1>3. DOMAIN t = 1..3 /\ t[1] = a /\ t[2] = b /\ t[3] = c
  BY <1>1
<1> HIDE DEF t, a, b, c
<1>4. /\ FirstText(t) = "" <=> \A i \in 1..3 : t[i] = ""
      /\ FirstText(t) # "" => \E i \in 1..3 : t[i] = FirstText(t) /\ \A j \in 1..3 : j < i => t[j] = ""
  BY <1>3, FirstTextIs
<1>5. {1, 2, 3} \subseteq 1..3 /\ 1 < 2 /\ 1 < 3 /\ 2 < 3 /\ \A i \in 1..3 : i \in {1, 2, 3}
  OBVIOUS
<1>6. FirstText(t) = IF a # "" THEN a ELSE IF b # "" THEN b ELSE c
  BY <1>3, <1>4, <1>5, Zenon
<1> QED
  BY <1>2, <1>6 DEF a, b, c

\* What RoutedByItsOwnIds asks of what is decoded of an event.
Right(got, e, known) ==
    /\ got.trigger = e.trigger
    /\ got.metadata = e.metadata
    /\ got.payload = e.payload
    /\ e.toolkit # "" => got.toolkit = e.toolkit
    /\ e.toolkit = "" /\ e.trigger \in known => got.toolkit = e.trigger

\* The toolkit that an object names, if it names one, and else another, is found.
LEMMA ToolkitFound ==
    ASSUME NEW e, NEW o, NEW p, NamesToolkit(e, o, p)
    PROVE  FirstText(<<explicit_toolkit(o), explicit_toolkit(p)>>) = e.toolkit
<1> DEFINE named(x) == {text(x, "toolkit_slug"), text(x, "toolkit")} \ {""}
<1>1. {e.toolkit} \ {""} = IF named(o) # {} THEN named(o) ELSE named(p)
  <2>1. \A x : TextsOf(x, {"toolkit_slug", "toolkit"}) = named(x)
    BY DEF TextsOf
  <2> HIDE DEF named
  <2> QED
    BY <2>1, Zenon DEF NamesToolkit
<1>2. ASSUME NEW x, {e.toolkit} \ {""} = named(x) PROVE explicit_toolkit(x) = e.toolkit
  <2> DEFINE a == text(x, "toolkit_slug")
             b == text(x, "toolkit")
             t == e.toolkit
  <2>1. explicit_toolkit(x) = IF a # "" THEN a ELSE b
    BY Explicit
  <2>2. {t} \ {""} = {a, b} \ {""}
    BY <1>2
  <2> HIDE DEF a, b, t
  <2>3. /\ a # "" => a \in {t} \ {""}
        /\ b # "" => b \in {t} \ {""}
        /\ t # "" => t \in {a, b} \ {""}
    BY <2>2
  <2>4. explicit_toolkit(x) = t
    <3>1. CASE a # ""
      <4>1. a = t
        BY <2>3, <3>1
      <4> QED
        BY <2>1, <3>1, <4>1
    <3>2. CASE a = ""
      <4>1. b = t
        BY <2>3, <3>2
      <4>2. explicit_toolkit(x) = b
        BY <2>1, <3>2, Zenon
      <4> QED
        BY <4>1, <4>2
    <3> QED
      BY <3>1, <3>2
  <2> QED
    BY <2>4 DEF t
<1>3. ASSUME NEW x, named(x) = {} PROVE explicit_toolkit(x) = ""
  <2>1. text(x, "toolkit_slug") = "" /\ text(x, "toolkit") = ""
    BY <1>3
  <2> QED
    BY <2>1, Explicit
<1>4. FirstText(<<explicit_toolkit(o), explicit_toolkit(p)>>) =
        IF explicit_toolkit(o) # "" THEN explicit_toolkit(o) ELSE explicit_toolkit(p)
  BY FirstOfTwo
<1>5. CASE named(o) # {}
  <2>1. {e.toolkit} \ {""} = named(o)
    BY <1>1, <1>5
  <2>2. explicit_toolkit(o) = e.toolkit /\ e.toolkit # ""
    <3>1. explicit_toolkit(o) = e.toolkit
      BY <1>2, <2>1
    <3> HIDE DEF named
    <3>2. {e.toolkit} \ {""} # {}
      BY <1>5, <2>1
    <3>3. e.toolkit # ""
      BY <3>2
    <3> QED
      BY <3>1, <3>3
  <2> QED
    BY <1>4, <2>2
<1>6. CASE named(o) = {}
  <2>1. {e.toolkit} \ {""} = named(p)
    BY <1>1, <1>6
  <2> QED
    BY <1>2, <1>3, <1>4, <1>6, <2>1
<1> QED
  BY <1>5, <1>6

\* What the toolkit of an event is, if it is named right.
LEMMA ToolkitRight ==
    ASSUME NEW e, NEW named, NEW known, FirstText(named) = e.toolkit
    PROVE  /\ e.toolkit # "" => Toolkit(named, e.trigger, known) = e.toolkit
           /\ e.toolkit = "" /\ e.trigger \in known => Toolkit(named, e.trigger, known) = e.trigger
BY Zenon DEF Toolkit, toolkit_of

\* What an event's fields are.
LEMMA EventFields ==
    ASSUME NEW toolkit, NEW trigger, NEW metadata, NEW payload
    PROVE  /\ Event(toolkit, trigger, metadata, payload).toolkit = toolkit
           /\ Event(toolkit, trigger, metadata, payload).trigger = trigger
           /\ Event(toolkit, trigger, metadata, payload).metadata = metadata
           /\ Event(toolkit, trigger, metadata, payload).payload = payload
BY DEF Event

\* A V3 delivery is decoded as the event it carries.
LEMMA DecodedV3 ==
    ASSUME NEW e, NEW body, NEW known, CarriesV3(e, body)
    PROVE  Right(decode_with_toolkits(body, known), e, known)
<1> DEFINE named == <<explicit_toolkit(body.metadata), explicit_toolkit(body.top)>>
<1>1. /\ "object" \in body.has /\ "metadata" \in body.has
      /\ text(body.top, "type") = V3_TRIGGER_TYPE
      /\ e.trigger # "" /\ e.trigger = text(body.metadata, "trigger_slug")
      /\ e.metadata = Metadata(text(body.top, "id"), text(body.metadata, "log_id"), text(body.metadata, "user_id"),
                               text(body.metadata, "connected_account_id"), text(body.metadata, "trigger_id"))
      /\ NamesToolkit(e, body.metadata, body.top)
      /\ e.payload = "data"
  BY DEF CarriesV3
<1>2. FirstText(named) = e.toolkit
  BY <1>1, ToolkitFound
<1>3. decode_with_toolkits(body, known) = decode_v3(body, known)
  BY <1>1 DEF decode_with_toolkits
<1>4. decode_v3(body, known) =
        Event(Toolkit(named, e.trigger, known), e.trigger, e.metadata, "data")
  BY <1>1, Zenon DEF decode_v3
<1> HIDE DEF named
<1> DEFINE got == decode_with_toolkits(body, known)
<1>5. /\ got.toolkit = Toolkit(named, e.trigger, known)
      /\ got.trigger = e.trigger /\ got.metadata = e.metadata /\ got.payload = "data"
  BY <1>3, <1>4, EventFields
<1> QED
  BY <1>1, <1>2, <1>5, ToolkitRight DEF Right

\* So is V2, by the first id of its connection.
LEMMA DecodedV2 ==
    ASSUME NEW e, NEW body, NEW known, CarriesV2(e, body)
    PROVE  Right(decode_with_toolkits(body, known), e, known)
<1> DEFINE named == <<explicit_toolkit(body.data), explicit_toolkit(body.top)>>
           a == text(body.data, "connection_nano_id")
           b == text(body.data, "connected_account_id")
           c == text(body.data, "connection_id")
           account == e.metadata.connected_account_id
           instance == e.metadata.trigger_id
<1>1. /\ "object" \in body.has /\ "data" \in body.has /\ "timestamp" \in body.has /\ "metadata" \notin body.has
      /\ e.trigger \notin {"", V3_TRIGGER_TYPE} /\ e.trigger = text(body.top, "type")
      /\ e.metadata = Metadata(text(body.top, "id"), text(body.top, "log_id"), text(body.data, "user_id"),
                               account, instance)
      /\ NamesToolkit(e, body.data, body.top)
      /\ e.payload = "data"
  BY DEF CarriesV2
<1>2. FirstText(named) = e.toolkit
  BY <1>1, ToolkitFound
<1>3. first(body.data, connection_keys) = account /\ account # ""
  <2>1. /\ TextsOf(body.data, {"connection_nano_id", "connected_account_id"}) = {a, b} \ {""}
        /\ TextsOf(body.data, {"connection_id"}) = {c} \ {""}
    BY DEF TextsOf
  <2>2. account # "" /\ {account} = IF {a, b} \ {""} # {} THEN {a, b} \ {""} ELSE {c} \ {""}
    BY <2>1, Zenon DEF CarriesV2
  <2>3. first(body.data, connection_keys) = IF a # "" THEN a ELSE IF b # "" THEN b ELSE c
    BY Connection
  <2> HIDE DEF a, b, c, account
  <2>4. CASE {a, b} \ {""} # {}
    <3>1. {account} = {a, b} \ {""}
      BY <2>2, <2>4
    <3> QED
      BY <2>2, <2>3, <3>1
  <2>5. CASE {a, b} \ {""} = {}
    <3>1. {account} = {c} \ {""} /\ a = "" /\ b = ""
      BY <2>2, <2>5
    <3>2. account = c
      BY <3>1
    <3> QED
      BY <2>2, <2>3, <3>1, <3>2
  <2> QED
    BY <2>4, <2>5
<1>4. first(body.data, <<"trigger_nano_id", "trigger_id">>) = instance
  <2> DEFINE x == text(body.data, "trigger_nano_id")
             y == text(body.data, "trigger_id")
  <2>1. /\ TextsOf(body.data, {"trigger_nano_id"}) = {x} \ {""}
        /\ TextsOf(body.data, {"trigger_id"}) = {y} \ {""}
    BY DEF TextsOf
  <2>2. {instance} \ {""} = IF {x} \ {""} # {} THEN {x} \ {""} ELSE {y} \ {""}
    BY <2>1, Zenon DEF CarriesV2
  <2>3. first(body.data, <<"trigger_nano_id", "trigger_id">>) = IF x # "" THEN x ELSE y
    BY FirstUnderTwo
  <2> HIDE DEF x, y, instance
  <2>4. (IF x # "" THEN x ELSE y) = instance
    <3>1. CASE x # ""
      <4>1. {instance} \ {""} = {x} /\ x # ""
        BY <2>2, <3>1
      <4> QED
        BY <4>1
    <3>2. CASE x = ""
      <4>1. {instance} \ {""} = {y} \ {""}
        BY <2>2, <3>2
      <4>2. (y # "" => y \in {instance} \ {""}) /\ (instance # "" => instance \in {y} \ {""})
        BY <4>1
      <4> QED
        BY <3>2, <4>2
    <3> QED
      BY <3>1, <3>2
  <2> QED
    BY <2>3, <2>4
<1>5. decode_with_toolkits(body, known) = decode_v2(body, known)
  BY <1>1 DEF decode_with_toolkits
<1>6. decode_v2(body, known) = Event(Toolkit(named, e.trigger, known), e.trigger, e.metadata, "data")
  <2> HIDE DEF account, instance
  <2> QED
    BY <1>1, <1>3, <1>4, Zenon DEF decode_v2
<1> HIDE DEF named
<1> DEFINE got == decode_with_toolkits(body, known)
<1>7. /\ got.toolkit = Toolkit(named, e.trigger, known)
      /\ got.trigger = e.trigger /\ got.metadata = e.metadata /\ got.payload = "data"
  BY <1>5, <1>6, EventFields
<1> QED
  BY <1>1, <1>2, <1>7, ToolkitRight DEF Right

\* So is V1, by its own three names.
LEMMA DecodedV1 ==
    ASSUME NEW e, NEW body, NEW known, CarriesV1(e, body)
    PROVE  Right(decode_with_toolkits(body, known), e, known)
<1> DEFINE named == <<explicit_toolkit(body.top)>>
           top == body.top
<1>1. /\ "object" \in body.has /\ "payload" \in body.has /\ "metadata" \notin body.has
      /\ text(top, "type") \in {"", V3_TRIGGER_TYPE}
      /\ e.trigger # "" /\ e.trigger = text(top, "trigger_name")
      /\ text(top, "connection_id") # "" /\ text(top, "trigger_id") # ""
      /\ e.metadata = Metadata(text(top, "id"), text(top, "log_id"), text(top, "user_id"),
                               text(top, "connection_id"), text(top, "trigger_id"))
      /\ NamesToolkit(e, top, top)
      /\ e.payload = "payload"
  BY DEF CarriesV1
<1>2. FirstText(named) = e.toolkit
  <2>2. FirstText(<<explicit_toolkit(top), explicit_toolkit(top)>>) = e.toolkit
    BY <1>1, ToolkitFound
  <2>3. FirstText(<<explicit_toolkit(top), explicit_toolkit(top)>>) = explicit_toolkit(top)
    BY FirstOfTwo
  <2> QED
    BY <2>2, <2>3, FirstOfOne
<1>3. decode_with_toolkits(body, known) = decode_v1(body, known)
  BY <1>1 DEF decode_with_toolkits
<1>4. decode_v1(body, known) =
        Event(Toolkit(named, e.trigger, known), e.trigger, e.metadata, "payload")
  BY <1>1, Zenon DEF decode_v1
<1> HIDE DEF named
<1> DEFINE got == decode_with_toolkits(body, known)
<1>5. /\ got.toolkit = Toolkit(named, e.trigger, known)
      /\ got.trigger = e.trigger /\ got.metadata = e.metadata /\ got.payload = "payload"
  BY <1>3, <1>4, EventFields
<1> QED
  BY <1>1, <1>2, <1>5, ToolkitRight DEF Right

\* What is of no version is not decoded.
LEMMA DecodedNot ==
    ASSUME NEW body, NEW known, OfNoVersion(body)
    PROVE  decode_with_toolkits(body, known) = Undecodable
<1> DEFINE type == text(body.top, "type")
<1>1. CASE "object" \notin body.has
  BY <1>1 DEF decode_with_toolkits
<1>2. CASE "object" \in body.has /\ "metadata" \in body.has
  <2>1. decode_with_toolkits(body, known) = IF type = V3_TRIGGER_TYPE THEN decode_v3(body, known) ELSE Undecodable
    <3>1. {"object", "metadata"} \cap body.has # {"object"}
      BY <1>2
    <3> QED
      BY <1>2, <3>1, Zenon DEF decode_with_toolkits
  <2>2. type # V3_TRIGGER_TYPE \/ text(body.metadata, "trigger_slug") = ""
    BY <1>2, Zenon DEF OfNoVersion
  <2> QED
    BY <2>1, <2>2, Zenon DEF decode_v3
<1>3. CASE "object" \in body.has /\ "metadata" \notin body.has /\ type \notin {"", V3_TRIGGER_TYPE}
  <2>1. decode_with_toolkits(body, known) = decode_v2(body, known)
    BY <1>3 DEF decode_with_toolkits
  <2>2. CASE ~({"data", "timestamp"} \subseteq body.has)
    BY <2>1, <2>2 DEF decode_v2
  <2>3. CASE TextsOf(body.data, {"connection_nano_id", "connected_account_id", "connection_id"}) = {}
    <3>1. \A k \in {"connection_nano_id", "connected_account_id", "connection_id"} : text(body.data, k) = ""
      BY <2>3 DEF TextsOf
    <3>2. first(body.data, connection_keys) = ""
      BY <3>1, Connection
    <3> QED
      BY <2>1, <3>2, Zenon DEF decode_v2
  <2> QED
    BY <1>3, <2>2, <2>3, Zenon DEF OfNoVersion
<1>4. CASE "object" \in body.has /\ "metadata" \notin body.has /\ type \in {"", V3_TRIGGER_TYPE}
  <2>1. decode_with_toolkits(body, known) = decode_v1(body, known)
    BY <1>4 DEF decode_with_toolkits
  <2>2. "payload" \notin body.has \/ \E k \in {"trigger_name", "connection_id", "trigger_id"} : text(body.top, k) = ""
    BY <1>4, Zenon DEF OfNoVersion
  <2> QED
    BY <2>1, <2>2, Zenon DEF decode_v1
<1> QED
  BY <1>1, <1>2, <1>3, <1>4

\* Whatever is delivered is decoded as what it is.
LEMMA Decoded ==
    ASSUME NEW d \in Deliveries, NEW known
    PROVE  Right(decode_with_toolkits(d.body, known), d.event, known)
<1>1. \/ CarriesV3(d.event, d.body) \/ CarriesV2(d.event, d.body) \/ CarriesV1(d.event, d.body)
      \/ d.event = Undecodable /\ OfNoVersion(d.body)
  BY ProcessingAssumption DEF IsDelivery
<1>2. CASE d.event = Undecodable /\ OfNoVersion(d.body)
  <2>1. decode_with_toolkits(d.body, known) = d.event
    BY <1>2, DecodedNot
  <2>2. Undecodable.toolkit = "" /\ Undecodable.trigger = ""
    BY DEF Undecodable, Event
  <2> QED
    BY <1>2, <2>1, <2>2, Zenon DEF Right
<1> QED
  BY <1>1, <1>2, DecodedV3, DecodedV2, DecodedV1

\* What makes RoutedByItsOwnIds inductive: a delivery that arrived intact has
\* the body that was sent, and what is decoded is decoded from it.
DeliveryInv ==
    /\ "at" \in DOMAIN job
    /\ job.at \in {"verified", "rejected"} =>
         /\ job.sent \in Deliveries
         /\ job.intact => job.body = job.sent.body
    /\ job.at = "decoded" =>
         /\ job.sent \in Deliveries
         /\ job.event = decode_with_toolkits(job.sent.body, job.known)

\* Each step keeps it, as only what arrived intact is taken for genuine.
LEMMA DeliveryStep ==
    ASSUME TransitInv, AcceptedIffGenuine, DeliveryInv, [JobNext]_job
    PROVE  DeliveryInv'
<1>1. "at" \in DOMAIN job
  BY DEF DeliveryInv
<1>2. ASSUME "at" \in DOMAIN job', job'.at \notin {"verified", "rejected", "decoded"} PROVE DeliveryInv'
  BY <1>2 DEF DeliveryInv
<1>3. ASSUME NEW request \in Requests, prepare_arguments(request) PROVE DeliveryInv'
  BY <1>2, <1>3 DEF prepare_arguments
<1>4. ASSUME NEW rows \in Backlogs, NEW paths \in Envelopes, NEW honours \in BOOLEAN, NEW successful \in BOOLEAN,
             answer_tasks(rows, paths, honours, successful)
      PROVE  DeliveryInv'
  BY <1>2, <1>4 DEF answer_tasks
<1>5. ASSUME NEW floor \in Floors, filter(floor) PROVE DeliveryInv'
  <2>1. "at" \in DOMAIN job' /\ job'.at = "filtered"
    BY <1>1, <1>5 DEF filter
  <2> QED
    BY <1>2, <2>1
<1>6. ASSUME NEW d \in Deliveries, send(d) PROVE DeliveryInv'
  BY <1>2, <1>6 DEF send
<1>7. CASE corrupt
  <2>1. "at" \in DOMAIN job' /\ job'.at = "transit"
    BY <1>1, <1>7 DEF corrupt
  <2> QED
    BY <1>2, <2>1
<1>8. ASSUME NEW secret \in Secrets, NEW now \in Clock, receive(secret, now) PROVE DeliveryInv'
  <2>1. job.at = "transit"
    BY <1>8 DEF receive
  <2>2. job.sent \in Deliveries /\ (job.intact => job.body = job.sent.body)
    BY <2>1 DEF TransitInv
  <2>3. /\ "at" \in DOMAIN job' /\ job'.at \in {"verified", "rejected"}
        /\ job'.sent = job.sent /\ job'.body = job.body /\ job'.intact = job.intact
    BY <1>8 DEF receive
  <2> QED
    BY <2>2, <2>3 DEF DeliveryInv
<1>9. ASSUME NEW known \in Known, decode(known) PROVE DeliveryInv'
  <2>1. job.at = "verified"
    BY <1>9 DEF decode
  <2>2. job.intact /\ job.sent \in Deliveries /\ job.body = job.sent.body
    BY <2>1 DEF AcceptedIffGenuine, DeliveryInv
  <2>3. /\ "at" \in DOMAIN job' /\ job'.at = "decoded" /\ job'.sent = job.sent /\ job'.known = known
        /\ job'.event = decode_with_toolkits(job.body, known)
    BY <1>9 DEF decode
  <2> QED
    BY <2>2, <2>3 DEF DeliveryInv
<1>10. ASSUME "at" \in DOMAIN job', job'.at \in {"reported", "formatted", "classified", "reclassified", "evaluated"}
       PROVE  DeliveryInv'
  BY <1>2, <1>10
<1>11. CASE UNCHANGED job
  BY <1>11 DEF DeliveryInv
<1> QED
  BY <1>1, <1>3, <1>4, <1>5, <1>6, <1>7, <1>8, <1>9, <1>10, <1>11, JobSteps, Zenon

\* Whatever the provider sends, in whichever version and wherever that puts
\* them, an event that a host verified and decoded names the trigger, the
\* connection, the subscription, the user and the toolkit it was sent for.
THEOREM Routed == JobSpec => []RoutedByItsOwnIds
<1>1. JobInit => DeliveryInv
  BY DEF JobInit, DeliveryInv
<1>2. TransitInv /\ AcceptedIffGenuine /\ DeliveryInv /\ [JobNext]_job => DeliveryInv'
  BY DeliveryStep
<1>3. DeliveryInv => RoutedByItsOwnIds
  <2> SUFFICES ASSUME DeliveryInv, job.at = "decoded" PROVE Right(job.event, job.sent.event, job.known)
    BY Zenon DEF RoutedByItsOwnIds, Right
  <2>1. job.sent \in Deliveries /\ job.event = decode_with_toolkits(job.sent.body, job.known)
    BY DEF DeliveryInv
  <2> QED
    BY <2>1, Decoded
<1> QED
  BY <1>1, <1>2, <1>3, GenuineKept, PTL DEF JobSpec

-----------------------------------------------------------------------------
\* A refusal says what it is in words that are classified.
LEMMA RefusalSays ==
    ASSUME NEW t, NEW args, prepare_execute_arguments(t, args).is = "refused"
    PROVE  "validation" \in prepare_execute_arguments(t, args).of
<1>1. \A f : Object(f).is # "refused"
  BY DEF Object
<1>2. \A m : Refused({"validation"} \cup m).of = {"validation"} \cup m /\ Refused({"validation"}).of = {"validation"}
  BY DEF Refused
<1>3. CASE args.is = "other"
  <2>1. prepare_execute_arguments(t, args) = Refused({"validation"} \cup args.of)
    BY <1>3 DEF prepare_execute_arguments
  <2> QED
    BY <1>2, <2>1
<1>4. CASE args.is # "other"
  <2>1. \/ prepare_execute_arguments(t, args) = Refused({"validation"})
        \/ \E f : prepare_execute_arguments(t, args) = Object(f)
    BY <1>4 DEF prepare_execute_arguments, normalize_calendar_time_bounds, Calendar
  <2> QED
    BY <1>1, <1>2, <2>1
<1> QED
  BY <1>3, <1>4

\* So does every refusal of PrepareArguments.
LEMMA PrepareSays ==
    ASSUME NEW request, prepare(request).is = "refused"
    PROVE  "validation" \in prepare(request).of
<1>1. \/ prepare(request) = Refused({"validation"})
      \/ \E args : prepare(request) = prepare_execute_arguments(request.tool, args)
  BY Zenon DEF prepare
<1>2. Refused({"validation"}).of = {"validation"}
  BY DEF Refused
<1> QED
  BY <1>1, <1>2, RefusalSays

\* What an action failed with, inside a gateway's envelope or not.
Seen(cause) == {cause, cause \cup {"gateway"}}

\* The class of a failure is that of the provider's message as it came.
AdviceInv ==
    /\ "at" \in DOMAIN job
    /\ job.at \in {"reported", "formatted", "classified", "reclassified"} =>
         DOMAIN job = {"at", "known", "cause", "message", "class", "first"}
    /\ job.at = "reported" => job.message \in Seen(job.cause)
    /\ job.at \in {"formatted", "classified"} =>
         \E m \in Seen(job.cause) : /\ job.class = classify_composio_error(job.known, m)
                                    /\ job.at = "formatted" => job.message = format_provider_error(job.known, m)
    /\ job.at = "reclassified" =>
         \E m \in Seen(job.cause) :
            /\ job.first = classify_composio_error(job.known, m)
            /\ job.class = classify_composio_error(job.known, format_provider_error(job.known, m))
    /\ job.at = "unprepared" => "validation" \in job.answer.of

\* The classes one by one: what each says of the message it was given to.
LEMMA ClassSays ==
    ASSUME NEW known, NEW m
    PROVE  LET class == classify_composio_error(known, m)
           IN  /\ is_transient(class) =>
                    /\ m \cap {"not_found", "validation", "scope_phrase"} = {}
                    /\ ~({"403", "scope"} \subseteq m)
                    /\ {"denied", "trigger"} \subseteq m => m \cap {"403", "forbidden"} = {}
               /\ asks_to_reconnect(class) => "not_found" \notin m
  BY DEF classify_composio_error, is_transient, asks_to_reconnect, is_insufficient_scope,
         is_trigger_permission, is_embedded_provider_failure

\* A gateway's envelope hides nothing that the message shows without it.
LEMMA SeenThrough ==
    ASSUME NEW known, NEW cause, NEW m \in Seen(cause)
    PROVE  LET inside == classify_composio_error(known, cause \ {"gateway"})
           IN  inside \notin {"upstream_provider", "other"} \/ "provider" \in cause
                 => classify_composio_error(known, m) = inside
<1> DEFINE n == cause \ {"gateway"}
<1>1. \A x \in Signals \ {"gateway"} : x \in m <=> x \in n
  BY DEF Seen
<1>2. is_insufficient_scope(m) <=> is_insufficient_scope(n)
  BY <1>1 DEF is_insufficient_scope, Signals
<1>3. is_trigger_permission(m) <=> is_trigger_permission(n)
  BY <1>1 DEF is_trigger_permission, Signals
<1>4. is_embedded_provider_failure(m) <=> is_embedded_provider_failure(n)
  BY <1>1, <1>2, <1>3 DEF is_embedded_provider_failure, Signals
<1>5. "gateway" \notin n
  OBVIOUS
<1>6. "provider" \in cause => is_embedded_provider_failure(n)
  BY DEF is_embedded_provider_failure
<1>7. /\ "not_found" \in m <=> "not_found" \in n
      /\ "validation" \in m <=> "validation" \in n
      /\ "rate" \in m <=> "rate" \in n
      /\ "platform" \in m <=> "platform" \in n
  BY <1>1 DEF Signals
<1>8. "platform" \in n => is_embedded_provider_failure(n)
  BY DEF is_embedded_provider_failure
<1> HIDE DEF n
<1> QED
  BY <1>2, <1>3, <1>4, <1>5, <1>6, <1>7, <1>8 DEF n, classify_composio_error

\* What Execute has formatted is not taken for transient if it was not, nor
\* for a reason to reconnect if the action does not exist.
LEMMA FormattedOnce ==
    ASSUME NEW known, NEW m
    PROVE  LET class == classify_composio_error(known, m)
               again == classify_composio_error(known, format_provider_error(known, m))
           IN  /\ is_transient(again) => is_transient(class)
               /\ asks_to_reconnect(again) => "not_found" \notin m
<1> DEFINE class == classify_composio_error(known, m)
           f == format_provider_error(known, m)
<1>1. class \in {"trigger_permission", "action_not_found"} => \A x : x \in f <=> x = "provider" \/ x \in Wording(class)
  BY DEF format_provider_error
<1>2. class \notin {"trigger_permission", "action_not_found"}
        => \A x : x \in f <=> x = "provider" \/ x \in Wording(class) \/ x \in m
  BY DEF format_provider_error
<1>3. \A x : /\ class = "trigger_permission" => (x \in Wording(class) <=> x = "trigger")
             /\ class = "action_not_found" => x \notin Wording(class)
             /\ class = "validation" => (x \in Wording(class) <=> x = "validation")
             /\ class = "insufficient_scope" => (x \in Wording(class) <=> x \in {"validation", "scope"})
  BY DEF Wording
<1>4. "not_found" \in m <=> class = "action_not_found"
  BY DEF classify_composio_error
<1>5. is_embedded_provider_failure(f) /\ ("not_found" \notin f <=> class = "action_not_found" \/ "not_found" \notin m)
  BY <1>1, <1>2, <1>3, <1>4 DEF is_embedded_provider_failure, Wording
<1>6. CASE class = "action_not_found"
  <2>1. \A x : x \in f <=> x = "provider"
    BY <1>1, <1>3, <1>6
  <2> QED
    BY <1>4, <1>6, <2>1 DEF classify_composio_error, is_insufficient_scope, is_trigger_permission,
       is_embedded_provider_failure, is_transient, asks_to_reconnect
<1>7. CASE class \in {"validation", "insufficient_scope"}
  <2>1. "validation" \in f /\ "not_found" \notin f
    BY <1>2, <1>3, <1>4, <1>5, <1>7
  <2> QED
    BY <1>4, <1>7, <2>1 DEF classify_composio_error, is_transient, asks_to_reconnect
<1>8. CASE class = "trigger_permission"
  <2>1. \A x : x \in f <=> x \in {"provider", "trigger"}
    BY <1>1, <1>3, <1>8
  <2>2. is_embedded_provider_failure(f)
    BY <1>5
  <2> QED
    BY <1>4, <1>8, <2>1 DEF classify_composio_error, is_insufficient_scope, is_trigger_permission,
       is_embedded_provider_failure, is_transient, asks_to_reconnect
<1>9. CASE class \in {"rate_limited", "gateway"}
  BY <1>4, <1>9 DEF is_transient
<1>10. CASE class \in {"composio_platform", "upstream_provider", "other"}
  <2>1. Wording(class) = {}
    BY <1>10 DEF Wording
  <2>2. \A x : x \in f <=> x = "provider" \/ x \in m
    BY <1>2, <1>10, <2>1
  <2>3. "rate" \notin m
    BY <1>10 DEF classify_composio_error
  <2>4. classify_composio_error(known, f) # "rate_limited" /\ classify_composio_error(known, f) # "gateway"
    BY <1>5, <2>2, <2>3 DEF classify_composio_error
  <2> QED
    BY <1>4, <1>10, <2>4 DEF is_transient
<1>11. class \in {"action_not_found", "validation", "insufficient_scope", "trigger_permission", "rate_limited",
                  "gateway", "composio_platform", "upstream_provider", "other"}
  BY DEF classify_composio_error
<1> QED
  BY <1>6, <1>7, <1>8, <1>9, <1>10, <1>11

\* The class an error is given, however often and behind whatever gateway,
\* never advises against what caused it.
THEOREM Advice == JobSpec => []AdviceFitsCause
<1>1. JobInit => AdviceInv
  BY DEF JobInit, AdviceInv
<1>2. AdviceInv /\ [JobNext]_job => AdviceInv'
  <2> SUFFICES ASSUME AdviceInv, [JobNext]_job PROVE AdviceInv'
    OBVIOUS
  <2>0. \A m, c : m \in Seen(c) <=> m = c \/ m = c \cup {"gateway"}
    BY DEF Seen
  <2>1. ASSUME "at" \in DOMAIN job',
               job'.at \notin {"reported", "formatted", "classified", "reclassified", "unprepared"}
        PROVE  AdviceInv'
    BY <2>1 DEF AdviceInv
  <2>2. ASSUME NEW request \in Requests, prepare_arguments(request) PROVE AdviceInv'
    <3>1. PICK answer : /\ answer = prepare(request)
                        /\ job' = [at |-> IF answer.is = "refused" THEN "unprepared" ELSE "prepared",
                                   request |-> request, answer |-> answer]
      BY <2>2, Zenon DEF prepare_arguments
    <3>2. job'.at = "unprepared" => "validation" \in job'.answer.of
      BY <3>1, PrepareSays
    <3> QED
      BY <3>1, <3>2 DEF AdviceInv
  <2>3. ASSUME NEW known \in BOOLEAN, NEW m \in Messages, report(known, m) PROVE AdviceInv'
    <3>1. /\ DOMAIN job' = {"at", "known", "cause", "message", "class", "first"}
          /\ job'.at = "reported" /\ job'.cause = m /\ job'.message = m
      BY <2>3 DEF report
    <3> QED
      BY <2>0, <3>1 DEF AdviceInv
  <2>4. CASE wrap
    <3>1. /\ DOMAIN job' = {"at", "known", "cause", "message", "class", "first"}
          /\ job'.at = "reported" /\ job'.cause = job.cause /\ job'.message = job.message \cup {"gateway"}
          /\ job.message \in Seen(job.cause)
      BY <2>4 DEF wrap, AdviceInv
    <3>2. job'.message \in Seen(job'.cause)
      BY <2>0, <3>1
    <3> QED
      BY <3>1, <3>2 DEF AdviceInv
  <2>5. CASE format_failure
    <3>1. /\ DOMAIN job' = {"at", "known", "cause", "message", "class", "first"}
          /\ job'.at = "formatted" /\ job'.cause = job.cause /\ job'.known = job.known
          /\ job'.class = classify_composio_error(job.known, job.message)
          /\ job'.message = format_provider_error(job.known, job.message)
          /\ job.message \in Seen(job.cause)
      BY <2>5 DEF format_failure, AdviceInv
    <3> QED
      BY <3>1 DEF AdviceInv
  <2>6. CASE classify_error
    <3>1. /\ DOMAIN job' = {"at", "known", "cause", "message", "class", "first"}
          /\ job'.cause = job.cause /\ job'.known = job.known /\ job'.message = job.message
          /\ job'.first = job.class
          /\ job'.class = classify_composio_error(job.known, job.message)
          /\ job'.at = IF job.at = "reported" THEN "classified" ELSE "reclassified"
          /\ job.at \in {"reported", "formatted"}
      BY <2>6 DEF classify_error, AdviceInv
    <3>2. CASE job.at = "reported"
      BY <3>1, <3>2 DEF AdviceInv
    <3>3. CASE job.at = "formatted"
      <4>1. PICK m \in Seen(job.cause) : /\ job.class = classify_composio_error(job.known, m)
                                         /\ job.message = format_provider_error(job.known, m)
        BY <3>3 DEF AdviceInv
      <4> QED
        BY <3>1, <3>3, <4>1 DEF AdviceInv
    <3> QED
      BY <3>1, <3>2, <3>3
  <2>7. ASSUME NEW backlog \in Backlogs, NEW paths \in Envelopes, NEW honours \in BOOLEAN, NEW successful \in BOOLEAN,
               answer_tasks(backlog, paths, honours, successful)
        PROVE  AdviceInv'
    BY <2>1, <2>7 DEF answer_tasks
  <2>8. ASSUME NEW floor \in Floors, filter(floor) PROVE AdviceInv'
    BY <2>1, <2>8 DEF filter, AdviceInv
  <2>9. ASSUME NEW d \in Deliveries, send(d) PROVE AdviceInv'
    BY <2>1, <2>9 DEF send
  <2>10. CASE corrupt
    BY <2>1, <2>10 DEF corrupt, AdviceInv
  <2>11. ASSUME NEW secret \in Secrets, NEW now \in Clock, receive(secret, now) PROVE AdviceInv'
    BY <2>1, <2>11 DEF receive
  <2>12. ASSUME NEW known \in Known, decode(known) PROVE AdviceInv'
    BY <2>1, <2>12 DEF decode
  <2>13. ASSUME NEW a \in Actions(Named), NEW profile \in {"LeadingVerb", "SubstringCompatibility"},
                NEW p \in Prefs, evaluate_actions(a, profile, p)
         PROVE  AdviceInv'
    BY <2>1, <2>13 DEF evaluate_actions
  <2>14. CASE UNCHANGED job
    BY <2>14 DEF AdviceInv
  <2> QED
    BY <2>2, <2>3, <2>4, <2>5, <2>6, <2>7, <2>8, <2>9, <2>10, <2>11, <2>12, <2>13, <2>14, Zenon DEF JobNext, JobBegin
<1>3. AdviceInv => AdviceFitsCause
  <2> SUFFICES ASSUME AdviceInv PROVE AdviceFitsCause
    OBVIOUS
  <2> DEFINE inside == classify_composio_error(job.known, job.cause \ {"gateway"})
  <2>1. ASSUME job.at \in {"formatted", "classified"}
        PROVE  /\ is_transient(job.class) =>
                    /\ job.cause \cap {"not_found", "validation", "scope_phrase"} = {}
                    /\ ~({"403", "scope"} \subseteq job.cause)
                    /\ {"denied", "trigger"} \subseteq job.cause => job.cause \cap {"403", "forbidden"} = {}
               /\ asks_to_reconnect(job.class) => "not_found" \notin job.cause
               /\ inside \notin {"upstream_provider", "other"} \/ "provider" \in job.cause => job.class = inside
    <3>1. PICK m \in Seen(job.cause) : job.class = classify_composio_error(job.known, m)
      BY <2>1 DEF AdviceInv
    <3>2. job.cause \subseteq m
      BY DEF Seen
    <3>3. /\ is_transient(job.class) =>
               /\ m \cap {"not_found", "validation", "scope_phrase"} = {}
               /\ ~({"403", "scope"} \subseteq m)
               /\ {"denied", "trigger"} \subseteq m => m \cap {"403", "forbidden"} = {}
          /\ asks_to_reconnect(job.class) => "not_found" \notin m
      BY <3>1, ClassSays
    <3>4. inside \notin {"upstream_provider", "other"} \/ "provider" \in job.cause => job.class = inside
      BY <3>1, SeenThrough
    <3> HIDE DEF inside
    <3> QED
      BY <3>2, <3>3, <3>4
  <2>2. ASSUME job.at = "reclassified"
        PROVE  /\ is_transient(job.class) => is_transient(job.first)
               /\ asks_to_reconnect(job.class) => "not_found" \notin job.cause
    <3>1. PICK m \in Seen(job.cause) :
            /\ job.first = classify_composio_error(job.known, m)
            /\ job.class = classify_composio_error(job.known, format_provider_error(job.known, m))
      BY <2>2 DEF AdviceInv
    <3>2. job.cause \subseteq m
      BY DEF Seen
    <3> QED
      BY <3>1, <3>2, FormattedOnce
  <2>3. ASSUME job.at = "unprepared"
        PROVE  ~is_transient(classify_composio_error(is_known_toolkit_action(job.request.tool), job.answer.of))
    <3>1. "validation" \in job.answer.of
      BY <2>3 DEF AdviceInv
    <3> QED
      BY <3>1, ClassSays
  <2> QED
    BY <2>1, <2>2, <2>3 DEF AdviceFitsCause
<1> QED
  BY <1>1, <1>2, <1>3, PTL DEF JobSpec

-----------------------------------------------------------------------------
\* The toolkits with a catalog are those that are badged as ready, for every
\* name a slug is canonically given.
LEMMA ReadyNames ==
    ASSUME NEW n, n \notin DOMAIN ALIASED_TOOLKIT_PREFIXES
    PROVE  catalog_for_toolkit(bus_toolkit(n)) # {} <=> n \in agent_ready_toolkits
<1>1. \A A, B, C : "reads" \in A => <<"reads", "Read">> \in Curate(A, B, C)
  BY DEF Curate
<1>2. \A t : catalog_for_toolkit(t) # {} => t \in agent_ready_toolkits
  BY DEF catalog_for_toolkit, agent_ready_toolkits, CURATED_TOOLKITS
<1>3. \A t \in agent_ready_toolkits : <<"reads", "Read">> \in catalog_for_toolkit(t)
  BY <1>1 DEF agent_ready_toolkits, CURATED_TOOLKITS, catalog_for_toolkit, SHOPIFY_CURATED, STRIPE_CURATED,
     HUBSPOT_CURATED, SALESFORCE_CURATED, AIRTABLE_CURATED, FIGMA_CURATED, CLICKUP_CURATED,
     GITHUB_CURATED, GMAIL_CURATED, GOOGLECALENDAR_CURATED, GOOGLEDRIVE_CURATED,
     GOOGLEDOCS_CURATED, GOOGLESHEETS_CURATED, LINEAR_CURATED, SLACK_CURATED, DISCORD_CURATED,
     TELEGRAM_CURATED, WHATSAPP_CURATED, MICROSOFT_TEAMS_CURATED, ONE_DRIVE_CURATED,
     EXCEL_CURATED, NOTION_CURATED, OUTLOOK_CURATED, JIRA_CURATED, TRELLO_CURATED, ASANA_CURATED,
     DROPBOX_CURATED, TODOIST_CURATED, TWITTER_CURATED, SPOTIFY_CURATED, YOUTUBE_CURATED
<1>4. bus_toolkit(n) = n
  BY DEF bus_toolkit, Segment, MULTI_SEGMENT_TOOLKIT_PREFIXES, MULTI_SEGMENT_TOOLKITS, ALIASED_TOOLKIT_PREFIXES
<1> QED
  BY <1>2, <1>3, <1>4

\* What VocabularyAgrees says of one evaluation.
Agree(a, profile, p) ==
    LET curated == curated_scope_for(a) # None
        catalog == catalog_for_toolkit(bus_toolkit(a.name))
        visible == evaluated_visible(a, profile, p)
    IN  /\ catalog # {} => (visible <=> curated /\ <<a.kind, a.entry>> \in list_visible_tools(bus_toolkit(a.name), p))
        /\ (curated /\ a.name \in default_registry) \/ (catalog = {} /\ profile = "LeadingVerb") =>
              (visible <=> permits_with(a, p))
        /\ catalog = {} /\ p \in Thresholds => (visible => permits_with(a, p))
        /\ catalog # {} <=> a.name \in agent_ready_toolkits

\* It holds of every action under its canonical name.
LEMMA AgreeOnOne ==
    ASSUME NEW a, a.name \notin DOMAIN ALIASED_TOOLKIT_PREFIXES,
           NEW profile \in {"LeadingVerb", "SubstringCompatibility"}, NEW p
    PROVE  Agree(a, profile, p)
<1> DEFINE scope == curated_scope_for(a)
           catalog == catalog_for_toolkit(bus_toolkit(a.name))
           visible == evaluated_visible(a, profile, p)
<1>1. catalog # {} <=> a.name \in agent_ready_toolkits
  BY ReadyNames
<1>2. scope # None => scope = a.entry /\ <<a.kind, a.entry>> \in catalog
  BY DEF curated_scope_for, find_curated
<1>3. <<a.kind, a.entry>> \in list_visible_tools(bus_toolkit(a.name), p)
        <=> <<a.kind, a.entry>> \in catalog /\ allows(p, a.entry)
  BY DEF list_visible_tools
<1>4. catalog # {} => (visible <=> scope # None /\ allows(p, scope))
  BY DEF evaluated_visible, evaluated_scope, is_action_visible_with_pref
<1>5. catalog = {} => scope = None
  BY <1>2
<1>6. catalog = {} => /\ profile = "LeadingVerb" => (visible <=> allows(p, sync_classify_unknown(a)))
                      /\ profile # "LeadingVerb" => (visible <=> allows(p, bus_classify_unknown(a)))
  BY <1>5 DEF evaluated_visible, evaluated_scope, is_action_visible_with_pref
<1>7. sync_toolkit(a.name) \in default_registry <=> a.name \in default_registry
  BY DEF sync_toolkit, Segment, MULTI_SEGMENT_TOOLKITS, default_registry, ALIASED_TOOLKIT_PREFIXES
<1>8. a.name \in default_registry => sync_toolkit(a.name) = a.name /\ bus_toolkit(a.name) = a.name
  BY DEF sync_toolkit, bus_toolkit, Segment, MULTI_SEGMENT_TOOLKITS, MULTI_SEGMENT_TOOLKIT_PREFIXES,
         default_registry, ALIASED_TOOLKIT_PREFIXES
<1>9. default_registry \subseteq agent_ready_toolkits
  BY DEF default_registry, agent_ready_toolkits, CURATED_TOOLKITS
<1>10. a.name \in default_registry /\ scope # None => execute_scope(a) = scope
  BY <1>7, <1>8 DEF execute_scope, curated_scope_for
<1>11. catalog = {} => execute_scope(a) = sync_classify_unknown(a)
  BY <1>1, <1>7, <1>9 DEF execute_scope
<1>12. sync_classify_unknown(a) \in {bus_classify_unknown(a), "Read"}
  BY DEF sync_classify_unknown, bus_classify_unknown
<1>13. p \in Thresholds /\ bus_classify_unknown(a) \in p => "Read" \in p
  BY DEF Thresholds, Scopes, bus_classify_unknown
<1>14. permits_with(a, p) = allows(p, execute_scope(a))
  BY DEF permits_with
<1>15. catalog # {} => (visible <=> scope # None /\ <<a.kind, a.entry>> \in list_visible_tools(bus_toolkit(a.name), p))
  BY <1>2, <1>3, <1>4
<1>16. (scope # None /\ a.name \in default_registry) \/ (catalog = {} /\ profile = "LeadingVerb") =>
           (visible <=> permits_with(a, p))
  BY <1>1, <1>4, <1>6, <1>9, <1>10, <1>11, <1>14
<1>17. catalog = {} /\ p \in Thresholds => (visible => permits_with(a, p))
  BY <1>6, <1>11, <1>12, <1>13, <1>14 DEF allows
<1> QED
  BY <1>1, <1>15, <1>16, <1>17, Zenon DEF Agree

\* An evaluation and a listing of the catalog show the same actions, and none
\* that Execute would refuse for its scope, whatever is evaluated.
THEOREM Vocabulary == JobSpec => []VocabularyAgrees
<1> DEFINE Inv == "at" \in DOMAIN job /\ VocabularyAgrees
<1>1. JobInit => Inv
  BY DEF JobInit, VocabularyAgrees
<1>2. Inv /\ [JobNext]_job => Inv'
  <2> SUFFICES ASSUME Inv, [JobNext]_job PROVE Inv'
    OBVIOUS
  <2>1. ASSUME "at" \in DOMAIN job', job'.at # "evaluated" PROVE Inv'
    BY <2>1 DEF VocabularyAgrees
  <2>2. ASSUME NEW b \in Actions(Named), NEW profile \in {"LeadingVerb", "SubstringCompatibility"},
               NEW p \in Prefs, evaluate_actions(b, profile, p)
        PROVE  Inv'
    <3>1. PICK a : a = canonical_action_slug(b)
      OBVIOUS
    <3>2. job' = [at |-> "evaluated", action |-> a, profile |-> profile, pref |-> p,
                  visible |-> evaluated_visible(a, profile, p),
                  rows |-> list_visible_tools(bus_toolkit(a.name), p)]
      BY <2>2, <3>1 DEF evaluate_actions
    <3>3. a.name \notin DOMAIN ALIASED_TOOLKIT_PREFIXES
      <4>1. \A n \in DOMAIN ALIASED_TOOLKIT_PREFIXES : ALIASED_TOOLKIT_PREFIXES[n] \notin DOMAIN ALIASED_TOOLKIT_PREFIXES
        BY DEF ALIASED_TOOLKIT_PREFIXES
      <4>2. \E n, k, e : b = [name |-> n, kind |-> k, entry |-> e]
        BY DEF Actions
      <4>3. a.name = IF b.name \in DOMAIN ALIASED_TOOLKIT_PREFIXES THEN ALIASED_TOOLKIT_PREFIXES[b.name] ELSE b.name
        BY <3>1, <4>2 DEF canonical_action_slug
      <4> QED
        BY <4>1, <4>3
    <3>4. Agree(a, profile, p)
      BY <3>3, AgreeOnOne
    <3> QED
      BY <3>2, <3>4 DEF VocabularyAgrees, Agree
  <2>3. ASSUME NEW request \in Requests, prepare_arguments(request) PROVE Inv'
    <3>1. PICK answer : job' = [at |-> IF answer.is = "refused" THEN "unprepared" ELSE "prepared",
                                request |-> request, answer |-> answer]
      BY <2>3, Zenon DEF prepare_arguments
    <3> QED
      BY <2>1, <3>1
  <2>4. ASSUME NEW known \in BOOLEAN, NEW m \in Messages, report(known, m) PROVE Inv'
    BY <2>1, <2>4 DEF report
  <2>5. CASE wrap \/ format_failure \/ classify_error
    BY <2>1, <2>5 DEF wrap, format_failure, classify_error
  <2>6. ASSUME NEW backlog \in Backlogs, NEW paths \in Envelopes, NEW honours \in BOOLEAN, NEW successful \in BOOLEAN,
               answer_tasks(backlog, paths, honours, successful)
        PROVE  Inv'
    BY <2>1, <2>6 DEF answer_tasks
  <2>7. ASSUME NEW floor \in Floors, filter(floor) PROVE Inv'
    BY <2>1, <2>7 DEF filter
  <2>8. ASSUME NEW d \in Deliveries, send(d) PROVE Inv'
    BY <2>1, <2>8 DEF send
  <2>9. CASE corrupt
    <3>1. "at" \in DOMAIN job' /\ job'.at = "transit"
      BY <2>9 DEF corrupt
    <3> QED
      BY <2>1, <3>1
  <2>10. ASSUME NEW secret \in Secrets, NEW now \in Clock, receive(secret, now) PROVE Inv'
    BY <2>1, <2>10 DEF receive
  <2>11. ASSUME NEW known \in Known, decode(known) PROVE Inv'
    BY <2>1, <2>11 DEF decode
  <2>12. CASE UNCHANGED job
    BY <2>12 DEF VocabularyAgrees
  <2> HIDE DEF Inv
  <2> QED
    BY <2>2, <2>3, <2>4, <2>5, <2>6, <2>7, <2>8, <2>9, <2>10, <2>11, <2>12, Zenon DEF JobNext, JobBegin
<1> QED
  BY <1>1, <1>2, PTL DEF JobSpec

=============================================================================
