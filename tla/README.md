# TinyConnectors: models, checks and proofs

TinyConnectors is a TinyBus module that gives a host access to third-party
accounts through Composio: it authorizes connections, lists and runs their
actions under scopes the user allows, subscribes to their triggers and keeps an
archive of the deliveries. It is asynchronous Rust: every bus call is a task, a
task gives way at each `.await`, and between two awaits another call, another
module instance over the same storage, or the user in a browser may have
changed what the task read. That is where its correctness is hard to test, and
it is what the modules here are about.

`PROJECT.json` lists components, runs, mutants, the correspondence of
definitions to source lines (`map`), findings, hazards and theorems.

    cd tla
    tlc -workers 2 -config DirectGate.cfg DirectGate     # any run of PROJECT.json
    tlapm GateCacheProofs.tla                            # any module with theorems

## 1. The system

| component (source under `src/crates/`) | state | operations | what is hard | what makes it correct |
|---|---|---|---|---|
| direct route, key gate (`tinyconnectors/src/client/route/direct.rs`) | count of consecutive key rejections, under a mutex | `check_gate`, `record` around every request; `account_owner` before an execute | the mutex is not held across the request, so answers are recorded late | a dead key is left alone; the count overshoots by the requests in flight at most; only a success reopens |
| direct route, triggers (`direct.rs`, `direct_triggers.rs`) | none of its own: instances at Composio, shared by all users of a key | create, enable, list, disable | several requests each; a service that may ignore a filter, omit the owner or the id, or repeat a cursor | no user reaches another's subscription; a listing is complete or an error |
| contract caches (`tinybus_module/contracts.rs`, `contracts/mod.rs`) | catalogs, probes, fetch locks | `toolkit_contracts`, `probe_output`, `clear` | a call writes after its await what it asked as an older tenant | an entry answers for its own tenant; one fetch for concurrent misses |
| module setup (`tinybus_module/mod.rs`, `restricted.rs`) | the client slot, the runtime mode | `setup_factory`, `setup`, `configure` | overlapping setups; the route is replaced under calls in flight | one mode per instance; caches cleared |
| storage link and migration (`tinybus_module/storage.rs`, `state/migration.rs`) | slot of the open storage; markers, rows and streams at the host | `prepare`, both migrations | several instances at once, failures and stops anywhere, writes from open instances and from older modules | nothing lost, duplicated or overwritten; a marker means done |
| preferences (`state/document_store.rs`, `tinyconnectors-sync/src/prefs/`) | a row per toolkit | get, load, save | read twice by a lookup that walks several names | a call is sent only under a preference that allowed it |
| execute pipeline (`tinybus_module/mod.rs`, `execute/`) | locals of the call | permission, preparation, call, two retry policies | an answer may be lost; retries nest | at most one effect; a bounded number of calls |
| OAuth (`client/composio.rs`, `oauth/`) | connection rows at the backend | cleanup, handoff, rate-limit retry | rows change between listing and delete; calls clean up after each other | a usable connection survives; a working handoff is left |
| trigger archive (`triggers/archive.rs`) | a stream per day and prefix | record, list, retention | stamping, naming and appending are separate; sealing races recording | what was acknowledged is listed, a delivery once by the right copy; a day in use is not sealed |
| archive leases (`tinybus_module/archives.rs`) | at most 64 handles | open, get, close | the limit | a closed lease takes no data with it |
| scope policy, catalogs (`tinyconnectors-sync/src/scope`, `.../toolkits/catalog`, `tinyconnectors-bus/src/vocabulary`) | none | classify, curate, filter | two classifications and two name rules for one action | what is listed and what is let through agree |
| tool listings (`tinybus_module/mod.rs`) | none | `list_tools`, `evaluate_actions`, `list_visible_tools` | one preference read, an await, per tool | a listing shows what held while it ran, and what it shows can be run |
| provider identities (`providers/actions.rs`, `tinyconnectors-sync/src/provider`) | none | `get_user_profile`, `refresh_all_identities` | a profile per connection, each over the client of the moment | every listed connection is accounted for |
| overview (`tinybus_module/contracts.rs`, `contracts/overview.rs`) | none | `connected_integrations` | parts fail alone, a Configure in between | it speaks of one tenant; no curated action is lost |
| argument preparation, task window (`execute/prepare.rs`, `calendar.rs`, `task_window.rs`) | none | `prepare`, `filter_response` | run twice on one call; boundary times, dates, mixed formats | a second run changes nothing; no task in the window disappears |
| error classification (`execute/classify.rs`) | none | classify, format | overlapping needles, a gateway's envelope | the advice fits the cause |
| webhook verification (`tinyconnectors-bus/src/composio/triggers/webhook.rs`) | none | `verify`, `decode` | time window, rotating secrets, three payload versions | accepted exactly when genuine; routed by its own ids |

Interaction. A bus call reaches `ConnectorService`, which takes the client (a
route) out of a slot that `configure` replaces, reads preferences through the
storage link, and calls the route. The proxy route is one request per member;
the direct route adds the gate and composes requests. Deliveries come from the
host and are written to the archive through the same storage link, whose first
use in an instance runs the migration.

## 2. Modules

ContractCache, Authorize and Processing prefix `Init`, `Next` and `Spec` with `Cache`,
`OAuth` and `Job`, so that one module can hold the proofs of two components.
Each module's variables carry the names of the source's fields and locals where
they exist; variables marked *history* record what happened and guard nothing.
Code between two awaits is one action. `Mut_...` operators are plausible bugs of
the definition that follows them; each property is known to fail under one.

**DirectGate** (`direct.rs`). `failures` is the gate's count, `stage`/`req` the
request each bus call is at. `Dispatch`, `Gated`, `Record` are the three parts of
`call`; `after_record` is what `execute` and `account_owner` do with the outcome.
Composio's answers (`AnswerByKey`, `AnswerError`) and the key's state (`SetKey`)
are the environment.

**ContractCache** (`tinybus_module/contracts.rs`, `contracts/mod.rs`). A cached
value is abstracted to the tenant it was fetched for. `toolkit_contracts` is
split at its awaits: the first look, waiting for the lock, the second look
(`fetch`/`settle`), the answer (`fetched`/`fetch_failed`). `probe_output` is
split at the connection list, the preference and the action. `configure`
replaces the client and clears.

**PrefsMigration** (`state/migration.rs`, `storage.rs`, `document_store.rs`). One
opener per module instance; every storage call is an action. `put_absent`,
`inspect`, `preserve`, `reread`, `delete`, `update` and their conflicts are the
branches of `migrate_preference`. A row is copied to `Id`, its legacy id encoded
by the constant `legacy_key`; where that gives no key, `unaddressed` fails the
open. `set` is a user's choice through an open instance, `LegacyWrite` an older
module's, `fail` a failed call or a stop.

**StreamMigration** (`state/migration.rs`). `list_streams` lists the legacy streams
there are at that moment, and `Visit` takes them in any order; `read_source_len`
to `mark_done` are the calls of `migrate_streams` for each; `record` appends through an open
instance, `LegacyAppend` through an older module.

**Execute** (`mod.rs` `pref_for`, `permits`, `execute_checked`; `execute/retry.rs`).
The names a slug starts with are levels; `get` walks them from the longest,
`load` reads the chosen one again, `start` takes the client, `call` with
`retries` is both retry policies. `set_user_scopes` and `configure` run between.

**Authorize** (`client/composio.rs`, `oauth/`). `list`, `delete` and `authorize`
are one attempt of one call, `rate_limited` and `rejected` what follows a
refusal. `MakeRow`, `Finish`, `Lapse` are the backend's and the user's. On the
proxy route the backend makes the row with the handoff; the direct route makes it
lazily and refuses `delete_connection`, so there the cleanup has no effect.

**TriggerArchive** (`triggers/archive.rs`). `stamp`, `current_day_file`,
`append` are the three parts of `record`; `list_recent`, `info`, `seal`, `names`,
`read` the listing with its retention pass. Streams are named by prefix and day.
`archive_entry_key` tells deliveries apart: by id and uuid, and a delivery without
a uuid (`Unnamed`: a webhook without a `log_id`) by all that was recorded of it,
the time included. `append_foreign` is external: at any moment a record that does
not parse (`Corrupt`) may come into today's stream.

**DirectTriggers** (`direct.rs`, `direct_triggers.rs`). `ensure_owned`, `upsert`,
`list_page` with `Matches` and `Finish`, `lookup`, `delete` are the requests of
the members, for callers of two users.

**ScopePolicy** (constant operators). An action is the name its slug begins with,
the kind of its words, and the scope its own catalog gives it. The kinds are the
five outcomes of the two heuristics' word lists; each `..._CURATED` is the set of
(kind, scope) pairs of one catalog, since two of its actions with the same pair
cannot be told apart by this code. `sync_toolkit` and `bus_toolkit` are the two
crates' `toolkit_from_slug`, `execute_scope` is what `permits` uses,
`curated_scope_for` and `is_action_visible_with_pref` what listings use.

**Service** (`mod.rs`, `contracts.rs`, `overview.rs`, `providers/actions.rs`)
composes ScopePolicy with the client slot, the mode, the preference rows and the
connections at the provider. `call` is the one member in flight or its answer,
`call.at` the await it is at; `configure`, `set_user_scopes`, `RowChange` and a
second setup happen in between. One member is enough, because members share
nothing but what these actions change. `seen` and `moved` are *history*.

**Preparation**, **TaskWindow**, **Classification**, **Webhook** (constant
operators). Arguments are absent, a JSON null, something else that is no object, or
an object: the defaults fill in what is absent and pass over null, and
`prepare_execute_arguments` takes both for an empty object. (Over the bus null
arrives as absent, so only a caller in the process can pass one.) An object is a function from the keys the code reads to a
value with a form; a row of a task answer is the times it shows and how they are
written; a message is the set of signals the needles would find in it; a body is
the parts it has and the fields in them, an event with all its metadata what is
decoded of it; a signature an injective function of
secret, id, timestamp and body.

**Processing** composes those four as a host uses them (`processing.rs`,
`docs/specs/module-processing.md`): prepare, let a provider answer, filter, filter
again; report a failure, wrap it in a gateway's status, format, classify; send,
corrupt, receive, decode; evaluate an action. Providers, network and gateway are
actions of their own, marked external. The calendar has a reference of its own
(`DayNumber`, `CivilDate`), which knows no month lengths.

`ProcessingAssumption` says which inputs there are: `IsRequest` (arguments are a
function from keys to values, a bare date has three numbers), `IsBacklog` (a
sequence of rows that show times) and `IsDelivery`, which describes each payload
version by where it puts the ids of its event (`CarriesV3`, `CarriesV2`,
`CarriesV1`) or as none (`OfNoVersion`). It is the provider's half of the
agreement that `decode` reads; TLC evaluates it over every input of the
`processing` run.

**ActionOnce** is the abstract specification of Execute: a request is decided,
then refused, given up or performed once, and always ends. `Execute!Once`
instantiates it with `Stage` (which stages of the lookup and the sending count as
deciding and as allowed) and the number of effects.

Preferences, the slot and `configure` occur in several modules: each carries the
actions of the others that touch what it reads. Execute keeps the depth of a slug
and the retries, Service the scope and the listing.

## 3. Runs

| run | result | states | what it shows |
|---|---|---|---|
| `gate` | pass | 3 callers, threshold 3 | `BoundedOvershoot`, `OneStrikePerMember`, `ReopensOnlyOnSuccess`, `ClosedIsFinal`, `RevokedKeyGoesQuiet` |
| `contract_cache` | pass | 3 calls, 2 tenants | `IsolatedUnlessRaced`, `OneFillPerInvalidation`, `WaiterAnswered` |
| `contract_cache_stale` | violation | | `OldTenantNeverAnswers`, finding 1 |
| `prefs_migration` | pass | 766 thousand | `CopyFollowsSource`, `DoneMeansMigrated`, `UserChoiceSurvives`, `EveryOpenerOpens` |
| `stream_migration` | pass | 737 thousand | `CopyThenNew`, `DoneMeansCopied`, `LeavesNothingBehind`, `EveryOpenerOpens` |
| `execute` | pass | 119 thousand | `AtMostOneEffect`, `BoundedCalls`, `SentOnlyIfAllowed`, `ImplementsOnce` |
| `authorize` | pass | 19 thousand | `UsableSurvives`, `LastHandoffLives`, `EveryAuthorizeEnds` |
| `archive` | pass | 6.4 million | `AcknowledgedIsListed`, `ListedOnce`, `OnlyIdleDaysSealed` |
| `direct_triggers` | pass | 1.4 million | `EventsStayHome`, `ListingIsComplete`, `OnlyOwnerDisables`, `AnswersTheRightInstance` |
| `service` | pass | 2.2 million | `ListingIsEnforced`, `OverviewIsTruthful`, `RefreshAccountsForAll`, `OneModeServed` |
| `service_scope` | violation | | `SentWithinCuratedScope`, finding 2 |
| `processing` | pass | 151 thousand | `PreparedIsStable`, `WindowIsExact`, `AdviceFitsCause`, `AcceptedIffGenuine`, `RoutedByItsOwnIds`, `VocabularyAgrees` |

The modules of section 2 with several actors state a `TypeOK` as well (Service's and
Processing's states are tagged by what is under way, and have none); it is the
base of the proofs and not part of the runs.

Several properties are conditional, and the condition is part of what they say:
`IsolatedUnlessRaced` and `UsableSurvives` hold except for one interleaving (finding
1; a handoff finished during a cleanup, section 4), and so say that this is the
*only* way to lose the guarantee. `ListingIsEnforced` and `VocabularyAgrees` compare
execution with listings where both take the scope from the same place; finding 2
is what happens elsewhere. `OverviewIsTruthful` excepts the direct route's tool
listing, whose failure the code tolerates. `RefreshAccountsForAll` allows a profile
to be read as another tenant when a Configure fell after the listing. `SentOnlyIfAllowed` allows
for two saves inside one lookup, which reads each name once. `CopyFollowsSource`
excepts a row that an older module wrote when every opener was past it (`late`).
The `EveryOpenerOpens` of the preferences holds if every legacy row whose id cannot
be encoded goes in the end: while one is there, every open fails at it.
`LeavesNothingBehind` is about the streams an opener visits; one that an older
module begins after the listing is visited by nobody. `AcknowledgedIsListed` is
about deliveries with a single copy and gives a full page its due: what a listing
can miss is bounded by how far racing deliveries overtook each other.
`ListedOnce` is about the others: of copies with a uuid one is listed, the newer of
two whose recordings did not overlap, unless the legacy prefix holds one (section
4) or the better copy was pushed off the page by deliveries appended after it. A
delivery without a uuid that came in twice is listed for each time it was received
at. `PreparedIsStable` excepts null from its first clause: null becomes an empty
object without defaults, which a second preparation then fills in.
`DoneMeansMigrated`, `UserChoiceSurvives`, `DoneMeansCopied` and the second half
of `CopyThenNew` (a target is a prefix of its source, then what was recorded) are
stated for hosts that stop older modules first
(`drained`), the precondition in
`src/crates/tinyconnectors/src/tinybus_module/README.md:30`; `drained` is chosen
in the initial state, and the other properties hold either way. Beside an older
module that still appends, a new delivery can come to lie among legacy ones: the
proof of `CopyThenNew` is what showed that its second half needs `drained`.

### Bounds

- `gate`: two requests overshoot and a third, late, reopens: three callers show
  every pairing; the threshold is the code's. The count needs no cap (three in
  flight past a threshold of three end it).
- `contract_cache`: a lock holder, a waiter and a probe at once; toolkits share
  no state, so one is enough; two tenants are what a mix-up needs.
- `prefs_migration`, `stream_migration`: two instances, since every conflict is
  between two writers; three rows one to a page, of which one keeps its id, one is
  escaped again and one has no key, and two streams of up to three events in pages of two, so that a page is partial and a second one exists; one
  write of each kind and one fault, placed anywhere (`MaxLegacy`, `MaxSets`,
  `MaxRecords`, `MaxFaults`).
- `execute`: a slug of three names has a longest, a middle and a shortest; the
  attempts are the code's six.
- `authorize`: two calls, three rows: one from before and one of each call;
  `MaxAttempts` is the code's three.
- `archive`: two recorders and a listing over three days, the least in which a
  day is idle long enough to be sealed (`IdleDays` 2 at one tick to a day). One
  delivery has a uuid and one has not, each may come in again and may lie in
  either prefix or both from before; two records are appended, any of which may be
  one that does not parse, beside one that is there to begin with; a listing asks
  for one or two entries. Recorders are symmetric.
- `direct_triggers`: two users with a connection each, three instances in pages
  of one and a limit of two pages, so that a listing can exceed `MAX_PAGES`.

- `service`: a toolkit with a provider and a catalog (gmail) and one with neither
  (zoom), with an action that the two heuristics class differently; both kinds of
  route, one tenant each; two changes from outside (`MaxChanges`), since a change
  and its undoing, or a Configure and a save, are what a member can be caught
  between; two interchangeable setup calls; an offer that allows and denies.
- `service_scope`: a toolkit with a catalog and no provider (stripe), one change.
- `processing`: argument objects over up to two keys of each rule, with a blank,
  a text, a number, a good and a bad date and an instant for values; dates around
  every month's ends in a common, a leap and two secular years; rows changed
  before, at and after both boundaries, showing each combination of times;
  every set of signals; every version of a body, each key of a connection
  alone and together; every set of four kinds of signature entry; clocks before,
  at the edges of and after the tolerance; every name a toolkit is known under.

Deadlock checking is off where the bounds end the behaviour (migrations,
`authorize`, `archive`, `direct_triggers`, `service`, `processing`) and on in the
others.

### Fairness

- A step of a call that the executor can run is run: weak fairness per call. A
  request is answered or times out (`REQUEST_TIMEOUT`, 30 s,
  `client/http.rs:13`), so the answer, of either kind, is weakly fair too.
- The fetch lock is a tokio mutex, which serves waiters in order: strong fairness
  of taking it.
- `RevokedKeyGoesQuiet` also assumes that a caller who keeps asking is not met by
  an outage every time: strong fairness of `AnswerByKey`. Without it nothing is
  ever learnt about the key.
- The migrations are started again by the next use of the storage after a
  failure; a host that keeps using the module is assumed.

## 4. Findings

1. *Stale tenant* (`contracts.rs:63`, `:174`): a call that took the client before
   `configure` writes its answer after `clear`, and the entry answers for the new
   tenant. `mod.rs:587` says it must not.
2. *Scope of curated actions* (`mod.rs:467`): `permits` asks the registry of six
   providers for a catalog and else the verb heuristic, so the catalogs of the
   other twenty-five toolkits do not govern execution, although `mod.rs:453` says
   that the curated catalog does. `STRIPE_CANCEL_SUBSCRIPTION`, curated as Admin, is
   executed under the default preference; `DROPBOX_GET_SHARED_LINK_METADATA`,
   curated as Read, is listed and then refused.

Known exceptions, which the properties above are stated around:

- *Cleanup race* (`composio.rs:179`): a handoff listed as unfinished and finished
  by the user before its delete is deleted although it is active by then
  (`oauth/status.rs:29` calls such rows safe to delete).
- *Listing order* (`archive.rs:136`): stream names are compared whole, so legacy
  days come before current ones whatever their date, and of a delivery that came
  in again after the migration the older copy is the one kept.
- *Deliveries without a uuid* (`archive.rs:200`): the key of such an entry is the
  entry itself, so one that is delivered again at another time is listed again.
- *Preserved rows* (`migration.rs:131`): a target that differs from its legacy row
  is kept for "a later open" to retry, but the step is marked done.
- *Formatted failures* (`classify.rs:150`): classifying what Execute has formatted
  already may give another class (an insufficient scope reads as validation, a
  gateway failure as the platform's); it never becomes one to retry, which
  `AdviceFitsCause` checks. A refusal that echoes an argument of no object form
  repeats its words, so these too may be taken for signals.
- *Names* (`vocabulary/slug.rs:51`, `scope/types.rs:97`): the two crates know
  different multi-segment names, so a deny of `google_maps` does not reach its
  actions, and `zoho` claims those of `zoho_mail` in an overview.
- *Overview* (`contracts.rs:273`): it loads preferences by a toolkit's exact name
  and does not apply the offer, unlike `ListTools`.

## 5. Proofs

TLAPS checks the following for every value of the constants that satisfies the
module's named assumption (finite sets, positive sizes, `None` or `NoRoute`
outside the sets it is added to; for Processing, what inputs there are). Each theorem is of the form `Spec => []P`, or `Spec => P` for an
action property, and rests on an invariant that is inductive where `P` is not.

**GateCacheProofs**, about DirectGate and ContractCache.
- `GateOvershoot`: `OvershootInv` adds that the count together with
  the requests in flight stays below threshold plus callers, which needs the
  cardinality of the callers in flight as one joins or leaves. `OneStrike`,
  `GateReopens`, `GateStaysClosed` follow from the stage a request is at.
- `Isolation`: `IsolationInv` adds that, until a `configure` overtakes a writing
  call, every writing call asks as the client in place. `SingleFill`: `FillInv`,
  a call that fetches holds its toolkit's lock and the toolkit has no catalog.

**PrefsMigrationProofs.** Two arguments. For a drained host
(`MarkerIsTrue`, `ChoiceSurvives`), `DrainedInv`: an opener at a row has a target
for every key behind it, so one that reaches the end may put the marker, whoever
wrote the targets; it uses that an opener past the first write of a row has an id
for it (`Addressed`) and that no two rows share one. For any host (`CopyFollows`), `VersionInv` and `FollowInv`: what
an opener remembers of a row is of the version it remembers or the row has moved
on, so a copy that differs from its source is held by an opener that has yet to
read the source again.

**StreamMigrationProofs.** `CursorInv`: what an opener remembers (lengths, offset,
page) is what the streams hold there, or held when they were shorter. `LandsInv`:
an event copied lies at its own offset, an append being accepted only at the
length it expected. `DrainedInv`: a target is a prefix of its source, then what
was recorded, and all of the source once some opener is past it. `OpenedInv`:
nothing is recorded and nobody open before the marker. `CopyInOrder`,
`MarkerIsTrue` and `NothingLeftBehind` follow.

**TriggerProofs.** `TriggersInv` is one invariant over all members: for each call,
what its stage lets it know (`CallInv`: who owns the connection it established,
what its lookup found) and, for a listing, that every steady instance up to the
cursor is collected (`ListInv`). `OwnEventsOnly`, `CompleteListing`,
`OwnerDisables`, `RightInstance` follow; ids do not change owner (`InstStays`).

**ArchiveProofs.** `IdleDaysSealed`: `SealInv`, a stream is appended to on its day
or later, so one idle long enough is of a day that is past, and stays so until
the seal comes. For the other two, `AckInv`: along a stream entries follow each
other in the order they were appended, and what was acknowledged lies in a stream
that is there; `DayInv`: a delivery's stream is of no earlier day than anything that was there
when its recording began. `ListingInv`: everything acknowledged before the listing is in a stream
still to be read (`ToRead`) or `Settled`, its key seen or itself crowded out by a
page of later ones (`FreshOrCrowded`), and a copy that is collected although a
later one was acknowledged (`Superseded`) had that one crowded out first, which
needs the order the streams are queued in (`ReadBefore`, `QueuedInOrder`). Cutting
the last page keeps the balance (`TopPage`, `PushedOff`). `AllListed` and
`EachListedOnce` follow, the latter with `OnceInv`: the keys seen are those of the
entries collected, one each. A record that does not parse is never collected
(`FreshOnce`).

**ServiceProofs**, about Service and Authorize.
- `OneMode`: `ModeInv`, the sealed mode is that of every setup that was served.
  `RefreshComplete`: `RefreshInv`, what is listed is partitioned into read, failed
  and still to do.
- `ListingEnforced` (`ListInv`) and `OverviewTruthful` (`OverviewInv`) assume
  `OwnNames`: `sync_toolkit(t) = t` for every toolkit of the instance. It is
  true of every name but `google_maps` and the aliases (`google_drive`,
  `microsoft_outlook` and the like), which the sync crate reads as toolkit `google`
  or `microsoft`: those are the known exception *Names*, and the runs' instance
  has none of them either.
- `Survival`: `CleanupInv`, a row to be deleted that is active was finished after
  its listing. `Handoff`: `HandoffInv`, the newest row is gone only while some call
  is under way.

**ProcessingProofs**, about Execute and Processing.
- `SingleEffect`: `EffectInv`, a call under way has had nothing performed.
- `CallBound`: `CallsInv`, calls made as a function of the attempt. `Permission`:
  `LookupInv`, until the first save nothing is saved above the level reached, and
  until the second a lookup that never saw the action allowed is on its way to
  refusing it (`Fate`). `Refines` shows, step by step, that `Spec` implements
  `ActionOnce!Spec`; it needs only `TypeOK`, because in the abstraction performing
  ends the request.
- `CalendarAgrees`, of every year, month and day: the source's table of month
  lengths (`is_calendar_date`) and the reference agree. A day of the 400-year cycle
  is a century, four years, a year and a day of it (`DayPlaced`); `YearFound` and
  `MonthFound` show that the reference's divisions find them again, `LeapYear` when
  a year that begins in March ends with a February 29. The large numbers stay
  behind the operators, for the provers' sake.
- `PreparationStable`: `PreparedInv`, the answer in hand is the preparation of the
  request in hand. Preparation fills in defaults and the window, then validates;
  `FilledExtends` and `FilledOnce` say that filling in only adds keys and adds none
  a second time, `BoundsOnce` and `FetchTypeOnce` that normalised values are their
  own normal form (null, which is not filled in the first time, is excepted), `DatesDecide` that nothing but a date can refuse a calendar
  action that has only dates.
- `WindowExact`: `WindowInv`, the answer in hand is what the latest boundary leaves
  of the provider's rows, however often the host has filtered. `Among` is the
  recursive function a filter is; `UpTo` (induction as a fact about a set of
  numbers, from the well-founded principle on subsets) gives `AmongSelects` (the
  kept rows are the wanted ones, in order, by rank) and `AmongTwice` (filtering
  twice is filtering by both conditions), and `LaterKeepsLess` makes the second
  condition the later boundary. `FloorGiven` and `Answered` follow the floor into
  the provider's answer.
- `Genuine`: `TransitInv`, a delivery on its way is as it was sent or has a part
  that gives it away; `VerifyOk` and `SignedDigests` say what `verify` computes.
- `Routed`: `DeliveryInv` on top of it, a delivery that arrived intact has the body
  that was sent, and what is decoded is decoded from that body. `FirstTextIs` is the
  preference among keys; `DecodedV3`, `DecodedV2`, `DecodedV1` and `DecodedNot` are
  the versions, each from its own description in `IsDelivery`.
- `Advice`: `AdviceInv`, the class of a failure is that of the provider's message,
  in a gateway's envelope or not; `ClassSays`, `SeenThrough` and `FormattedOnce`
  are the facts about the order of the needles, `PrepareSays` that every refusal
  of a preparation is worded as a validation failure.
- `Vocabulary`: nothing but the operators; `ReadyNames` and `AgreeOnOne` hold of
  every canonical name, including names no table lists.

**PageTheorems** holds the lemmas the others share: least and greatest elements
of finite sets of naturals, a page as a lower part of what is left, ranks. They
are proved by well-founded induction on subsets, since the library's induction
over finite sets takes an operator.

Every `TypeOK` is proved invariant (`TypeCorrect`, `CachesTypeCorrect`,
`OAuthTypeCorrect`).

Every safety invariant and every action property of the passing runs is stated by
a theorem. Only model-checked are the liveness properties and the fair part of
`ImplementsOnce`: the prover has no fairness and no `ENABLED`.

## 6. Limits

- The storage service, Composio and the backend are modelled from how the code
  uses them: atomic calls with version and offset preconditions, answers of any
  kind, ids never reused.
- Not covered by `AnswersTheRightInstance`: a create without a configuration whose
  instance is disabled before it is looked up may be answered with the id of
  another instance of the same user and connection (`direct.rs:302`).
- An output probe checks the connection as one tenant and may execute as another
  if a Configure falls between (`contracts.rs:126`). `IsolatedUnlessRaced` follows
  what such a probe stores, not what it was allowed to send.
- Legacy preference ids are encoded again before they are copied. For a toolkit
  whose name holds `%` or `/` or begins with `~` the copy would have another id than
  the one `get` and `set` use; toolkit names are plain words, so the model lets the
  encoding be any injective one and users read the encoded ids.
- `OnlyIdleDaysSealed` counts whole days and is about the streams that are recorded
  into; nobody appends to a legacy day once its migration is over.
- Racing recorders append out of timestamp order; `AcknowledgedIsListed` and the
  listing's order are about timestamps.
- Service has one member in flight at a time. Two members interact only through
  the caches (ContractCache), the rows at the backend (Authorize) and the gate
  (DirectGate), which have modules of their own.
- The words of a slug or a message are abstracted to kinds and signals; that a
  needle is spelt as providers spell it is not a question for a model.

Not modelled, and why:

- *Archive leases* (`archives.rs`): a bounded table under one mutex whose only rule
  is its limit.
- *Schema walk* (`contracts/schema_walk.rs`), display tables and the profile
  readers of `toolkits/identity.rs`: structural recursion and data, no state.
- *Proxy route, HTTP client, routed members*: one request or one forwarded call
  each; what they contribute to the others is that an answer comes, fails or
  times out, which every module with a request has as actions.
- *Wire types, release scripts, examples*: not behaviour of the module.

## 7. Plan

Modelled, most important first: tenant isolation and the gate, the migrations,
the execute pipeline and its abstraction, authorization, the archive, the direct
route's triggers, the service's listings, overview, identities and modes with the
scope policy, and the pure functions around them.

Next:

1. A type invariant of Service.
2. Abstract specifications: an atomic archive (a set of acknowledged deliveries)
   that TriggerArchive implements; a migration that happens in one step, which
   both migrations implement for a drained host.
