----------------------------- MODULE Authorize -----------------------------
(***************************************************************************)
(* Concurrent Authorize calls for one toolkit: each attempt first clears   *)
(* the toolkit's unfinished connection rows, when its OAuth is hosted by   *)
(* Meta, and then begins a handoff; a rate limit is retried                *)
(* (crates/tinyconnectors/src/client/composio.rs authorize and             *)
(* clear_stale_handoffs, crates/tinyconnectors/src/oauth/retry.rs).        *)
(*                                                                         *)
(* The rows live in the backend.  A row is made by a handoff, becomes      *)
(* active when the user finishes it in a browser, at any moment, and may   *)
(* fail or expire instead.  Rows are numbered in the order they are made.  *)
(***************************************************************************)
EXTENDS Integers

CONSTANTS
    Callers,        \* Authorize calls in flight
    MaxRows,        \* bound: rows ever made
    MaxAttempts     \* AUTHORIZE_RATE_LIMIT_MAX_ATTEMPTS

ASSUME AuthorizeAssumption ==
    /\ MaxRows \in Nat
    /\ MaxAttempts \in Nat \ {0}

VARIABLES
    meta,       \* is_meta_oauth_toolkit: the toolkit is cleaned up for
    status,     \* the backend's rows: id -> status
    made,       \* how many were made
    pc, attempt,
    stale,      \* rows a cleanup listed and has yet to delete
    url,        \* the row a caller was answered with, 0 for none
    cut,        \* history: rows that were active when a cleanup deleted them
    raced,      \* history: rows the user finished while a cleanup was to delete them
    failed      \* history: an Authorize returned an error after its cleanup

oauth_vars == <<meta, status, made, pc, attempt, stale, url, cut, raced, failed>>
history == <<cut, raced, failed>>

Rows == 1..MaxRows

\* "inflight": PENDING, INITIATED, INITIALIZING; "failed": FAILED, ERROR,
\* EXPIRED; "active": ACTIVE, CONNECTED; "other" anything else.
RowStatuses == {"none", "inflight", "failed", "active", "other", "deleted"}

OAuthTypeOK ==
    /\ meta \in BOOLEAN
    /\ status \in [Rows -> RowStatuses]
    /\ made \in 0..MaxRows
    /\ pc \in [Callers -> {"idle", "list", "delete", "authorize"}]
    /\ attempt \in [Callers -> 0..MaxAttempts]
    /\ stale \in [Callers -> SUBSET Rows]
    /\ url \in [Callers -> 0..MaxRows]
    /\ cut \subseteq Rows
    /\ raced \subseteq Rows
    /\ failed \in BOOLEAN

Goto(c, s) == pc' = [pc EXCEPT ![c] = s]

OAuthInit ==
    /\ meta \in BOOLEAN
    /\ made = IF MaxRows > 0 THEN 1 ELSE 0
    /\ \E s \in {"inflight", "failed", "active", "other"} :
          status = [r \in Rows |-> IF r = 1 THEN s ELSE "none"]
    /\ pc = [c \in Callers |-> "idle"]
    /\ attempt = [c \in Callers |-> 0]
    /\ stale = [c \in Callers |-> {}]
    /\ url = [c \in Callers |-> 0]
    /\ cut = {}
    /\ raced = {}
    /\ failed = FALSE

\* One attempt: a toolkit that is not Meta's is not cleaned up for.
Attempt(c) == Goto(c, IF meta THEN "list" ELSE "authorize")

\* authorize_with_rate_limit_retry: a request that does not validate ends here.
Begin(c) ==
    /\ pc[c] = "idle"
    /\ attempt[c] = 0
    /\ attempt' = [attempt EXCEPT ![c] = 1]
    /\ Attempt(c) \/ UNCHANGED pc
    /\ UNCHANGED <<meta, status, made, stale, url, history>>

Present(r) == status[r] \notin {"none", "deleted"}

\* Any row of the toolkit is cleared.
Mut_clearable_every_row == {r \in Rows : Present(r)}

\* Neither active nor of a status that is_clearable_oauth_status leaves alone.
clearable == {r \in Rows : status[r] \in {"inflight", "failed"}}

\* clear_stale_handoffs: list_connections.
list(c) ==
    /\ pc[c] = "list"
    /\ stale' = [stale EXCEPT ![c] = clearable]
    /\ Goto(c, IF clearable = {} THEN "authorize" ELSE "delete")
    /\ UNCHANGED <<meta, status, made, attempt, url, history>>

\* The listing failed: no cleanup, and the handoff begins all the same.
list_fails(c) ==
    /\ pc[c] = "list"
    /\ Goto(c, "authorize")
    /\ UNCHANGED <<meta, status, made, attempt, stale, url, history>>

\* clear_stale_handoffs: one delete_connection of the loop, in whatever order
\* the backend listed the rows.  A failure is logged and the loop goes on.
delete(c, r) ==
    /\ pc[c] = "delete"
    /\ r \in stale[c]
    /\ \/ UNCHANGED <<status, cut>>
       \/ /\ Present(r)
          /\ status' = [status EXCEPT ![r] = "deleted"]
          /\ cut' = IF status[r] = "active" THEN cut \cup {r} ELSE cut
    /\ stale' = [stale EXCEPT ![c] = @ \ {r}]
    /\ Goto(c, IF stale[c] = {r} THEN "authorize" ELSE "delete")
    /\ UNCHANGED <<meta, made, attempt, url, raced, failed>>

\* External: the backend begins a handoff, and its row exists at once.
MakeRow ==
    /\ made < MaxRows
    /\ made' = made + 1
    /\ status' = [status EXCEPT ![made + 1] = "inflight"]

\* The route's authorize succeeds.
authorize(c) ==
    /\ pc[c] = "authorize"
    /\ MakeRow
    /\ url' = [url EXCEPT ![c] = made + 1]
    /\ Goto(c, "idle")
    /\ UNCHANGED <<meta, attempt, stale, history>>

\* The attempts are not counted.
Mut_rate_limited_forever(c) ==
    /\ pc[c] = "authorize"
    /\ Attempt(c)
    /\ UNCHANGED <<meta, status, made, attempt, stale, url, history>>

\* A rate limit before the last attempt: after the backoff, all over again,
\* cleanup included.
rate_limited(c) ==
    /\ pc[c] = "authorize"
    /\ attempt[c] < MaxAttempts
    /\ attempt' = [attempt EXCEPT ![c] = @ + 1]
    /\ Attempt(c)
    /\ UNCHANGED <<meta, status, made, stale, url, history>>

\* The failure is logged, like one of the cleanup, and not returned.
Mut_rejected_swallowed(c) ==
    /\ pc[c] = "authorize"
    /\ Goto(c, "idle")
    /\ UNCHANGED <<meta, status, made, attempt, stale, url, history>>

\* Any other failure, or a rate limit on the last attempt.  When only the
\* answer was lost, the row was made.
rejected(c) ==
    /\ pc[c] = "authorize"
    /\ \/ UNCHANGED <<status, made>>
       \/ MakeRow
    /\ failed' = TRUE
    /\ Goto(c, "idle")
    /\ UNCHANGED <<meta, attempt, stale, url, cut, raced>>

\* External: the user finishes a handoff in the browser.
Finish(r) ==
    /\ status[r] = "inflight"
    /\ status' = [status EXCEPT ![r] = "active"]
    /\ raced' = IF \E c \in Callers : r \in stale[c] THEN raced \cup {r} ELSE raced
    /\ UNCHANGED <<meta, made, pc, attempt, stale, url, cut, failed>>

\* External: a handoff fails or expires.
Lapse(r) ==
    /\ status[r] = "inflight"
    /\ status' = [status EXCEPT ![r] = "failed"]
    /\ UNCHANGED <<meta, made, pc, attempt, stale, url, history>>

OAuthStep(c) ==
    \/ list(c)
    \/ list_fails(c)
    \/ \E r \in stale[c] : delete(c, r)
    \/ authorize(c)
    \/ rate_limited(c)
    \/ rejected(c)

OAuthNext ==
    \/ \E c \in Callers : Begin(c) \/ OAuthStep(c)
    \/ \E r \in Rows : Finish(r) \/ Lapse(r)

OAuthSpec == OAuthInit /\ [][OAuthNext]_oauth_vars

\* The executor polls each call, and every route call comes back: the HTTP
\* client times out.
OAuthFairSpec == OAuthSpec /\ \A c \in Callers : WF_oauth_vars(OAuthStep(c))

-----------------------------------------------------------------------------
\* However cleanups race each other and the user, the only usable connection
\* one can delete is a handoff that was finished between the listing and its
\* own delete.
UsableSurvives == cut \subseteq raced

\* Cleanups of racing calls take each other's handoffs away, but never the
\* newest one: once the calls are over, and unless one returned an error after
\* its cleanup, the last handoff begun is still there for the user to finish.
LastHandoffLives ==
    (~failed /\ made > 0 /\ \A c \in Callers : pc[c] = "idle") => Present(made)

\* A rate limit never makes a call loop: it ends with a url or an error.
EveryAuthorizeEnds == \A c \in Callers : (pc[c] # "idle") ~> (pc[c] = "idle")

=============================================================================
