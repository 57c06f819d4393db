# EdgeBase: TLA+ models, checks and proofs

This directory is a verification development kept beside EdgeBase: its server
(`packages/server`), the supervisor of its command line and its browser SDK.  It
models the parts whose correctness depends on the order of concurrent steps,
checks them with TLC on small instances, and proves the properties that matter
most with TLAPS for every instance.  Paths below are relative to `src/`; file names without a directory
are in `packages/server/src/lib/` or `packages/server/src/durable-objects/`.

| Module | What it is |
|---|---|
| `DeliveryLedger` | what durable scheduled delivery promises about one key (abstract) |
| `ScheduledDelivery` | `scheduled-delivery.ts` driven by `managed-scheduled-runtime.ts` |
| `ScheduledDelivery_proofs` | its inductive invariant, safety theorems and refinement, proved |
| `ScheduleSupervisor` | the self-host supervisor with its cursor file, over the runtime it drives |
| `ScheduleSupervisor_proofs` | its inductive invariant, safety theorems and refinement, proved |
| `RoomRuntime` | `room-runtime-base.ts`, one room with its sockets, alarm and storage |
| `RoomRuntime_proofs` | its inductive invariant and safety theorems, proved |
| `TokenLineage` | what refresh token rotation promises (abstract) |
| `AuthSessions` | sign-in, refresh, sign-out and the table `_sessions` |
| `AuthSessions_proofs` | its inductive invariant, safety theorems and refinement, proved |
| `TokenTabs` | the token manager of the browser SDK in several tabs, over such a server |
| `TokenTabs_proofs` | its inductive invariant and safety theorems, proved |
| `UploadGrants` | `signed-upload-grants.ts` and the upload and multipart handlers |
| `UploadGrants_proofs` | its inductive invariant and safety theorems, proved |
| `MC...` | the instances of each of them for TLC |

Contents: 1 inventory, 2 plan, 3 scheduled delivery, 4 room runtime, 5 auth
sessions, 6 token tabs, 7 schedule supervisor, 8 upload grants, 9 divergences,
10 what is checked, what is proved, what is left out.

## 1. Inventory of the system

EdgeBase is a backend as a service that runs on Cloudflare Workers, or on a
self-hosted workerd.  A stateless Worker routes requests; Durable Objects (DO:
one single-threaded instance per name, with storage and one alarm) and D1
databases hold the state.  Clients are SDKs in many languages.

Components that hold state over several steps:

| Component | State | Operations | What is hard | What makes it correct |
|---|---|---|---|---|
| **Scheduled delivery** (`scheduled-delivery.ts`) | D1 table `_scheduled_delivery_items`; handlers, timers and late promises in the isolate's memory | claim, retry, expire, run, time out, settle, settle late, prune, inspect | two deliveries of one key; lease against timeout; crash between claim and settlement; late results | a handler is run by one wake at a time and completes at most once; table and report say what happened |
| **Managed scheduled runtime** (`managed-scheduled-runtime.ts`) | none of its own | resolve targets, run plugin migrations, call the executor | a wake mixes targets to execute and to reconcile | a reconciled target is never executed |
| **Room runtime** (`room-runtime-base.ts`) | sockets, players, per-user state, seven kinds of deadline in memory; `roomState`, timers, a deadline blob and one alarm in storage | upgrade, auth, join, send, leave, close, kick, revoke, alarm, hibernate, recover | handlers interleave at every wait for a hook; memory is lost at any idle moment; one alarm for all deadlines | no player and no deadline is lost or left behind |
| **Room members, signals, admin** (`rooms-do.ts`) | joined members, roles, blocked members, media and collab state | join, role, block, signal, member state | same waits as the runtime, plus a second table keyed by user | members and players agree |
| **Room client** (`sdk/js/.../room.ts`) | connection state, pending requests, merged state | connect, reconnect, resend, merge delta | lost answer, reconnect during join | every request is answered once; state converges |
| **Auth sessions** (`auth-d1-service.ts`, `auth-db-adapter.ts`, `routes/auth.ts`) | D1 sessions with current and previous refresh token | sign in, rotate, revoke, limit sessions | two rotations at once; lost answer and retry within the grace period; sign-out during a rotation | one line of tokens per session; a deleted session stays deleted; the limit holds |
| **OAuth flow state** (`oauth-state-store.ts`) | one-time records | issue, consume, expire | two callbacks at once | consumed at most once |
| **Upload grants, multipart** (`signed-upload-grants.ts`, `routes/storage.ts`) | marker object and multipart session in R2, tracked parts in KV | claim, bind, reserve, upload a part, complete, abort, clean up | requests racing on one marker; a put applied whose answer is lost; sizes kept in two stores | a grant lets one upload through, within `maxFileSize` |
| **Response cursors** (`response-cursor-store.ts`) | stored pages | open, next, expire | retry of a page | each page once or again the same |
| **Database live** (`database-live-do.ts`, `database-live-emitter.ts`) | subscriptions on hibernated sockets | subscribe, emit, revoke | change between snapshot and subscription; hibernation | no subscriber misses a change it may see |
| **Database DO** (`database-do.ts`) | SQLite tables, schema version | CRUD, transactions, migration | failure within a migration | all or nothing |
| **Logs DO** (`logs-do.ts`) | buffer, rollups | append, flush, roll up | flush racing append | nothing counted twice |
| **Plugin migrations** (`plugin-migrations.ts`) | version per plugin | lock, run, record | two isolates at once, failure half-way | in order, each recorded only when done |
| **Rate limits** (`middleware/rate-limit.ts`) | counters per window | count | window boundary, eviction | never above the limit within a window |
| **Token manager** (`sdk/js/.../token-manager.ts`) | refresh token, epoch and lock in shared browser storage; access token and messages per tab | elect a refresher, refresh, sign in, sign out | several tabs refresh at once; a tab closes holding the lock; messages handled late | no refresh presents a token that a tab has seen replaced; a sign-out is final in every tab |
| **Durable outbox** (`sdk/js/.../durable-outbox.ts`) | queued writes | enqueue, replay | crash between send and removal | no write lost, order per record kept |
| **Schedule supervisor** (`cli/.../self-host-schedule-supervisor.ts`) | cursor file | observe, send, retry, reconcile | requests given up that still arrive; crash between delivery and cursor; the clock set back | the cursor tells the truth; what falls due is delivered |
| **Deploy lease** (`cli/.../turnstile-deploy-lease.ts`) | remote lease record | acquire, renew, release | two deployers, expiry | one holder at a time |

Interactions.  A provider's cron event or the schedule supervisor calls the
managed scheduled runtime, which runs plugin migrations and then the delivery
executor; any number of those calls may name the same keys.  A room client
talks to the room runtime over a socket; the runtime calls the application's
hooks (`onCreate`, `onJoin`, `onLeave`, `onDestroy`, actions, timers) and the
auth service, and is called back by them through `RoomServerAPI`.  The room
checks every session against the session authority.  The token manager rotates
the sessions that the auth service stores.  The Worker's table routes write
through the database DO or D1 and tell the live emitter, which calls the live
DO's subscribers.

Components without a protocol of their own (query translation, JWT and password
primitives, other routes, providers of email, SMS and push, generated SDKs, CLI
commands, configuration types, dashboard, tools) are in `PROJECT.json` with the
reason they are left out: they translate data, draw screens, or call outside
services in one step.

The hazards of the components modelled so far are in `PROJECT.json`
under "hazards", each at its line with the properties aimed at it.

## 2. Plan

In order of importance to what a user of EdgeBase relies on:

1. `ScheduledDelivery` with `DeliveryLedger`: done, checked and proved.
2. `AuthSessions` with `TokenLineage`: done, checked and proved.  Then
   `TokenTabs`, several tabs over such a server: done, checked and proved.
3. `ScheduleSupervisor`, the sender of the wakes that `ScheduledDelivery`
   receives, against the same `DeliveryLedger`: done, checked
   and proved.
4. `UploadGrants`: done, checked and proved.
5. `RoomRuntime`: done, checked and proved but for one property of rooms
   that use metadata and one of liveness.
6. The liveness properties stay with TLC; what safety they rest on is proved.
7. `RoomMembers`: joined members, roles and blocked members of `rooms-do.ts`,
   composed with `RoomRuntime` over `finalizePlayerLeave` and recovery.
   Invariant: every member is a player or has a grace period running.
8. `DatabaseLive`: subscription, snapshot, change and revocation over
   hibernation.
9. Small stores, each with an abstract specification of a one-time object:
   `OneTimeState` (OAuth flow), `ResponseCursor`, `DeployLease`.
10. `PluginMigrations`, the log buffer, the rate limit counters.  The durable
   outbox of the SDK has no caller in the repository, so how it is driven is
   not the repository's to say.

The whole project is kept to about a dozen runs, so that checking all of it
stays a matter of minutes: a component gets one run of its safety properties
at the instance where its actors first interfere, and a second one only for
behaviour that instance cannot reach.

## 3. Scheduled delivery

### State and actions

A *wake* is one call of `executeManagedScheduledEnvelopes`; `Wakes` are those
that can be under way at once and `Keys` are delivery keys (cron, scheduled
time, item).  `rows` is the D1 table; everything else is memory of a wake:
`mode` (what it was asked to do with each key), `chunk` (the loop index of
`executeScheduledDeliveries`), `claim` and `att` (the worklists of `claimMany`
and the attempts they loaded), `hand` and `mark` (each handler and its time),
`outcome` (the report), `at` (the `now` captured for the store call under
way).  `succ` counts completed handler runs, for the properties.

Each `db.batch` is a D1 transaction and so is one action: `Insert`, `Load`,
`Expire`, `Retry`, `Reload` (the five batches of `claimMany`), `PruneStep`,
`InspectLoad`, `Settle`, `LateSettle`.  Between two of them anything may
interleave, and the time `now` is the one read before the batch, not the time
of its execution, which is why `at` is a variable.  `StartHandler` takes one
of the handler slots, `EndHandler` settles the handler's promise at any time,
`TimeOut` is the timer winning the race while the promise goes on.  `Throw` is
any store call rejecting before it took effect or after it did (in `Settle`);
`LateSettleFails` is the same for a late settlement, which is only logged;
`Crash` ends the isolate with everything it has in memory; `Retire` ends a wake with nothing
pending.

Rows are reduced to status, attempt, lease and settlement time.  The error
texts, the report's counts and the resolution of envelopes to targets
are left out; the resolution is replaced by all `mode`s it may yield.

### Runs

| Run | Instance | What it shows |
|---|---|---|
| `scheduled_race` | 1 key, 2 wakes, clock to 5 | all safety properties while two wakes race on one key: the lease (2) can run out during the lifetime (3) of a wake, a handler can be late (timeout 1), and a second wake can claim, expire, retry and prune in between |
| `scheduled_forget` | 2 keys, 1 wake after another, clock to 8 | the second key falls due when the first is past its retention, so `prune` really deletes a row, and a row that settled late is compared with the cutoff: `ForgottenOnlyWhenStale` |
| `scheduled_chunks` | 3 keys in 2 chunks, 1 slot, fair | handlers queue behind the slot while the lease of the whole chunk runs; the late handlers of the first chunk settle during the second; `WakeReturns` with handlers that never end |

The properties are `OneHandlerPerKey`, `AtMostOneSuccess`,
`SettlementFindsItsClaim` (the exception "settlement lost its running claim"
is unreachable), `RowTellsTheTruth`, `CompleteReportIsTrue`,
`RetryOnlyAfterFailure` (the retry UPDATE accepts statuses it is never asked
to retry), `ForgottenOnlyWhenStale`, and `ImplementsLedger`.

Bounds.  `MaxTime` ends the clock, after every deadline of a first delivery
has passed; `MaxFailures = 1` lets a handler fail on its first attempt only,
so a key sees at most two attempts, enough for a retry to race a late
settlement of the attempt before.  One key suffices for races because no
statement relates two keys except `prune`'s limit and the slots, which the
other runs have.  The proofs need none of these bounds to be small.

`CHECK_DEADLOCK FALSE`: the bounded clock stops.

### Assumptions

- `LeaseMs > TimeoutMs`: checked by the code.
- `RetentionMs >= Redelivery + Lifetime`: a row outlives every redelivery of
  its key.  30 days against a provider's redelivery window; the code does not
  check it, and without it a redelivery after `prune` would run again.
- A wake, its handlers included, is ended by the platform within `Lifetime`;
  nothing in the code depends on more than that bound being below the retention.

### Fairness

`FairSpec` lets time pass only while every wake waits for a handler or its
timer: the code's own steps take no time against its 30 s timers.  Time passes
(`TimelyTick`) and a wake that can go on does (`Progress`), both weakly fair:
the event loop runs ready continuations and timers.  No handler need ever end
and no store call need fail; `EndHandler`, `Crash`, `LateSettle` and `Retire`
are not fair.

### Proofs

`ScheduledDelivery_proofs` proves, for every number of keys, wakes and chunks
and all times that satisfy the assumptions:

| Theorem | Property |
|---|---|
| `Invariance` | the inductive invariant `IInv` |
| `TypeCorrect` | `TypeOK` |
| `MutualExclusion` | `OneHandlerPerKey` |
| `CompletesAtMostOnce` | `AtMostOneSuccess` |
| `ClaimsAreNeverLost` | `SettlementFindsItsClaim` |
| `TableIsTrue` | `RowTellsTheTruth` |
| `CompleteReportsAreTrue` | `CompleteReportIsTrue` |
| `RetriesFollowFailures` | `RetryOnlyAfterFailure` |
| `OnlyStaleRowsAreForgotten` | `ForgottenOnlyWhenStale` |
| `Refinement` | `ImplementsLedger` |

None of the properties is inductive by itself.  `IInv` adds to `TypeOK`:

- `WakeInv`: a wake lives within its lifetime and its keys' windows.  Needed
  to know that `prune`'s cutoff lies before anything a wake may still touch.
- `RowInv`: leases and settlements lie after the scheduled time, and no row
  has the status `timed_out` (the schema has it, nothing writes it).
- `OwnerInv`: at most one wake *owns* a key (claimed and not yet started, or
  started and not yet settled), and the row shows the attempt of its owner,
  running or uncertain.  This is the core: a retry needs a failed row, which a
  row with an owner is not, so a second handler cannot start however late the
  first one is.
- `RetryInv`: a failure that `claimMany` has loaded is still the row's state
  or the attempt has moved on, so that the UPDATE's attempt comparison is
  exactly what excludes the loser of a race.
- `SuccInv`: the row and its owner tell how often the handler completed.

The proof has one lemma per action (`...Keeps`), and frame lemmas for the
steps that leave the table alone or only move a claim.  The refinement maps an
absent row to `new`, or to `retired` once the key's window and a wake's
lifetime have passed; a tick may therefore be a step of the ledger.  Its
lemmas (`ClaimMoves`, `SettlementMoves`, `PruneMoves`, `TableMoves`) say along
which edge of the ledger each batch moves each row.

## 4. Room runtime

### State and actions

`RoomRuntime` is one room: its instance in memory (`mem`, meaningful while
`awake`), its storage (`disk`: deadline blob, saved state, saved timers,
metadata flag, alarm), the platform's sockets (`sock`, with the attachment's
user in `who`), the messages under way (`task`), the departures under way
(`leaves`, calls of `finalizePlayerLeave`) and the alarm pass under way
(`pass`).  `owed` and `want` are history for two properties.

*Atomicity.*  A Durable Object is single-threaded, and its input gate delivers
no event while it waits for its own storage.  A handler is therefore one step
up to its next wait for something else, and there are only two kinds: the auth
service (`MsgAuth`, then `AuthOk` or `AuthFail`) and the application's hooks
(`MsgJoin` then `JoinOk`/`JoinRejected`; `MsgLeave`, `Close`, `Kick` then
`LeaveHook`, `LeaveDestroy`; `AlarmFire` then `AlarmTimers`, `AlarmLeave`,
`AlarmDestroy`).  Between the two halves any other event may run.  Messages of
one socket are served one after the other, as `webSocketMessage` chains them.

*Handlers as functions.*  The helpers the code calls at the end of almost every
handler (`_scheduleNextAlarm`, `syncEphemeralTimersToStorage`, `markDirty`,
`persistState`, the recoveries, the steps of `alarm`) are operators from a
memory and storage pair to such a pair, composed in the order of the code.
`Sync` has the code's guard, which skips a write whose content equals the one
this instance wrote last, although other code deletes the blob.

*Time.*  A deadline is the number of units left, 0 for due; there is no
absolute clock, so the state space is finite without a bound on time.  A stored deadline keeps
running down.  `Tick` waits for a due alarm and for the end of a pass: the
platform fires a due alarm first and a pass takes no time.  `_scheduleNextAlarm` never
sets the alarm at or before now, hence `Max({1, ...})`.

*Hibernation.*  `Hibernate` drops `mem` at any moment at which nothing is
under way and no close event is outstanding (an event that is queued keeps the
object alive).  The next event makes an instance (`Woken`) with `rec` set, as the
constructor does, when it lists sockets; a message recovers it (`Ready`), an
alarm does when `ShouldRecover` says so, a close, an upgrade and a metadata
request do not, as in the code.

*What the application does* is bounded by `Uses`, the set of API calls and
events an instance includes: each run switches on those it is about.

Abstractions: shared and server state are one version number `ver`;
`playerStates` is the set of users who have one; which sockets have gone
silent at a heartbeat is a free choice; a connection id is used again only
when nothing remembers it; a second kick of a user waits for the first.  Broadcasts, deltas, rate
limit buckets and message contents are left out: no property here depends on
them except as named in the hazards.

Four simplifications do matter to how far the properties reach:

- A blob write that fails is left out, with the `catch` that takes back what
  the guard remembers (`:1978-1988`).  `DeadlinesAreStored`, `DirtyWillBeSaved`
  and `StoredDeadlinesWake` are about writes that succeed.
- `handleSend` awaits the session authority (`:608`) and the action handler
  (`:1311-1317`).  The model makes a handler's calls at the receipt of the
  message, one call a message: calls made after the socket has closed, or after
  the room has become empty, are not in it.  Calls while a hook of a join, a
  departure or an alarm pass is awaited are (`HookCall`).
- `roomCreated` is set at the receipt of a join; the code sets it when
  `access.join` has answered (`:1107-1141`).
- `DeadlinesAreStored` is about the deadlines an instance holds.  Those of
  sockets accepted during `onDestroy` are dropped from memory as well, and an
  upgrade to an evicted room overwrites stored deadlines that were never in
  memory (`:537`): section 9.

### Runs

| Run | Instance | Shows |
|---|---|---|
| `room_life` | 2 connections, 2 users, kick, revoke, hibernate | `TypeOK`, `AlarmCoversDeadlines`, `GraceOnlyWhenAbsent`, `LiveAuthedArePlayers`, `DeadlinesAreStored`, `StoredDeadlinesWake` |
| `room_saving` | 1 connection, 1 timer, no grace period; state, oversized state, save, join, metadata, resume, hibernate | `DirtyWillBeSaved` |

Two connections and two users are the least with which a user can have two
connections, two users can leave in one alarm pass, and a client can connect
while another one's hook is awaited.  Deadlines of one or two units give every
order of two deadlines, equality included, since each is set at a different
moment; `StateTTL = 2` lets a state survive or outlive a hibernation.

`CHECK_DEADLOCK FALSE` in `RoomLife` and `RoomSaving`: time may stand still
when nothing is pending (`Tick` is then a stutter), so it says nothing there.

No liveness is stated.  The promise one would want, that a room everybody has
left is forgotten in the end, is false of the code as soon as the instance may
be evicted, which an object without sockets always may: see
`AbandonedRoomIsForgotten` in section 9.  What holds is the safety part of it,
`StoredDeadlinesWake`: a blob that is stored is not left without an alarm.

### Proofs

`RoomRuntime_proofs` proves the safety invariants of the runs for any number of
connections, users and timers, any delays and any `Uses`, from `RoomAssumption`
alone (delays are natural numbers, and only the grace period for a reconnect and
the application's own timers may be 0):

| Theorem | Property |
|---|---|
| `RoomInvariance` | the inductive invariant `IInv` |
| `RoomTypes` | `TypeOK` |
| `AlarmNeverLate` | `AlarmCoversDeadlines` |
| `GraceIsForAbsentUsers` | `GraceOnlyWhenAbsent` |
| `ConnectedUsersArePlayers` | `LiveAuthedArePlayers` |
| `NoDeadlineIsLost` | `DeadlinesAreStored` |
| `UnsavedStateIsScheduled` | `DirtyWillBeSaved` |
| `EvictedRoomsWake` | `StoredDeadlinesWake`, if the room's metadata is never touched |

The last one needs its hypothesis `Plain`: a metadata request to an evicted room
fills `_metadata`, after which the alarm takes the instance for a live one and
recovers nothing (section 9).  That is what the code does, so the property is
false of rooms with metadata, and `room_life`, which checks it, has none.

*Pairs.*  As handlers are functions of a memory and storage pair, so are the
lemmas: one for each operator says what it makes of any sound pair
(`ArmKeeps`, `SyncArmFacts`, `MarkDirtyKeeps`, `PersistStateKeeps`,
`DisconnectKeeps`, `RecoverFacts`, ...), and only the lemmas of the actions
(`...Step`) speak of states.  `Sound` is what every pair between two calls
satisfies; `Covered` (the alarm is in time), `Mirrored` (every stored grace
period is in memory), `Backed` and `Wakes` may be given up while an alarm pass
lasts, and `Follows` says that a step does not lose those it finds.

*The inductive invariant.*

- `SoundInv`: the pair is sound, and covered outside an alarm pass.  In `Sound`,
  `LastStored` is why the write guard of `syncEphemeralTimersToStorage` is
  right: what the instance wrote last is still there, or was deleted with
  nothing in it but a cleanup or a TTL.  `LastAgrees` is why even then the next
  write goes through: memory has the cleanup and the TTL of what was written, so
  a handler that clears one of them has other content to write.
  `DeadlinesAreStored` alone is not inductive: it does not exclude a guard that takes
  a deleted blob for a written one and then skips the write of the next deadline.
- `RecInv`: an instance that is yet to recover has no players, no grace period,
  nothing unsaved and nothing under way, so recovery overwrites nothing.
- `AbsentInv`: a grace period that is yet to be recovered is that of a user
  without a socket.  `GraceOnlyWhenAbsent` needs it at the step that makes
  players of the sockets.
- `MirrorInv`: in an instance that has its players, no stored grace period is
  missing in memory, unless the room has no sockets at all.  This carries
  `AbsentInv` over the next hibernation.
- `TaskInv`: a join is that of an authenticated socket, a closed socket has
  nothing under way but a join, a departure by leave blocks its sockets'
  messages.  `LiveAuthedArePlayers` needs it where a hook returns after its
  socket has changed.
- `WakeInv` (for `Plain` rooms): an instance that believes the blob empty has it
  empty, or looks exactly like a new one without sockets; a stored blob has an alarm.

That the earliest deadline is one (`MinFacts`) is from the well-foundedness of
`<`, as the set of deadlines is of any size.

## 5. Auth sessions

### State and actions

`AuthSessions` is the sessions of one user.  `rows` is `_sessions` reduced to
the current and the previous refresh token, the time of the last rotation, the
expiry and the creation time; `signed`, `sidOf` and `expOf` stand for the
signed tokens (a token is the number under which `signRefreshToken` issued it,
with the session id and the expiry it carries); `held` is what has reached a
client; `heir`, `closed` (the tokens whose session was deleted) and `told` are
history.  `Tickets` are the session ids that an OAuth completion ticket gives
(`completionSessionId`); every other one is new (`generateId`).  `req` is what a request holds
in local variables: the token it presented, the session it found, the token it
signed and the time it read.

A statement, or one `db.batch`, is one action, since D1 runs it as a
transaction; everything a handler awaits between two of them (the signature, a
hook, the user row) lets every other request run.

| Action | Code |
|---|---|
| `SignIn`, `Create`, `CreateFails` | `createSessionAndTokens`: tokens and the time are taken, then `createSessionWithLimit` cleans, inserts and prunes in one batch, which fails when the id has a row |
| `Exchange`, `DeleteExpired`, `ReuseWinner` | its branch for an OAuth completion ticket, which gives the session id (`reuseExistingSession`): a session that is there is answered as it is, an expired one deleted first; after a failed insert it looks once more |
| `Ask` | `POST /auth/refresh` or `/signout`, past signature and expiry |
| `LookupCurrent`, `LookupPrevious` | the two statements of `getSessionByRefreshToken`, with what the callers make of the row |
| `SwapWins`, `SwapLoses` | `compareAndSwapUserSession` in `rotateRefreshTokenFlow`; the loser looks the token up once more (`op = "lost"`) |
| `Answer` | the response, after the hook and the access token |
| `DeleteSession` | the revocation after a reuse beyond the grace period, and the sign-out after `beforeSignOut` |
| `DeleteAll`, `DeleteOne`, `CleanExpired` | password reset and change, a single session's revocation, the daily cron |
| `Die` | the isolate or the connection ends, or a hook denies |

Lost, repeated and late requests need no action of their own: any token ever
held may be presented at any time, and `Die` loses an answer.  `Create` may lose
the answer of its batch, after which the exchange of a ticket finds its own row.

Left out: the completion records of OAuth (claim, lease, checkpoint and cached
answer, `oauth-state-store.ts`).  They make exchanges of one ticket rarer; here
any number of them may run, at any time and side by side, which includes the
retry after the record of a finished exchange could not be written.  Two clock
readings are merged with the statement next to them: `reuseExistingSession`
compares the expiry right after its SELECT, and `rotateRefreshToken` reads the
time it writes before its UPDATE (`auth-d1-service.ts:586`), which the model
reads with it.  The lookup of the user and what precedes
`createSessionAndTokens` change no session and are left out.

### Run and properties

`auth_sessions`: two requests at a time, two session ids, one of them a
ticket's, of which one may be live, three tokens, grace period 0, token lifetime
2, and a clock that shows 0, 1 and 3 (1.4 million states).  Two requests are what
a rotation race needs, or two exchanges of one ticket; three tokens let a token
be rotated twice, so that one is current, one previous and one given up, or a
ticket open a second line after the first was rotated and ended; with one
session allowed every second sign-in evicts.  At time 1 a token rotated at 0 is
beyond the grace period and within its lifetime; at 3 the sessions opened at 0
have expired (`<=` in a sign-in's batch, `<` in the daily cron).

- `RetriesConverge`: all answers to one token are the same token.
- `LateAsksAreRefused`: a token given up before it was presented (its session
  deleted, or rotated longer ago than the grace period) is not answered.
- `ClosedStaysClosed`: no token of a deleted session is accepted again,
  whatever rotation, retry or insert was under way, and its id has a row again
  only if a ticket gives that id.  That a ticket can is the code's behaviour: an
  exchange whose record was not completed (`routes/oauth.ts:1046`) is retried,
  and if its session was deleted meanwhile it inserts the same id again, with
  tokens that nobody has held.
- `SessionLimit`, `NewSessionSurvives`: `maxActiveSessions` under concurrent
  sign-ins with clocks read earlier than their batches run.
- `ImplementsLineage`: every transaction is a step of `TokenLineage`, which
  says that a session is a line of tokens: one heir per token, only the head
  gets one, answers name the heir, and the tokens of a line that ended head no
  line again.  A session id may have another line, of tokens that were neither
  heads nor ancestors before.

`CHECK_DEADLOCK FALSE`: clock and tokens are bounded.

### Proofs

All of it is proved in `AuthSessions_proofs`, for any number of requests,
sessions and tokens, any grace period, lifetime and limit, from
`SessionAssumption` alone:

| Theorem | Property |
|---|---|
| `TypesAreRight` | `TypeOK` |
| `RetriesGetOneAnswer` | `RetriesConverge` |
| `LateAsksGetNoAnswer` | `LateAsksAreRefused` |
| `ClosedSessionsStayClosed` | `ClosedStaysClosed` |
| `SignInIsNotEvicted` | `NewSessionSurvives` |
| `SessionLimitHolds` | `SessionLimit` |
| `SessionsAreLineages` | `ImplementsLineage` |

The inductive invariant `IInv` adds to `TypeOK`:

- `SignedInv`: what is numbered above `signed` is not issued yet, so a token
  just signed is nobody's heir, current or previous token.
- `RowsInv`: a row's tokens carry its session id, and its previous token's
  heir, with its time, is what the row says.  Without it a second lookup could
  answer with a token of another line.
- `FreshInv`: the token a request has signed and not yet written is its own:
  in no row, in no hands, of no ended line; two requests never write the same
  one.  This is what keeps "one heir per token" when two swaps race, and what
  makes the line that a ticket opens a second time a new one.
- `AskInv`: a request works on the session its token names, an insert under an
  id that no ticket gives is of the only token signed for it, and an answer that
  is ready is the heir of the token presented, whatever happened to the row since
  the lookup.
- `LateInv`: a token given up when it was presented is still given up, and its
  request is neither about to swap nor to answer.
- `ClosedInv`: a token whose session was deleted is in no row, and unless a
  ticket gives its session's id, that session has no row and no insert to come.
- `ToldInv`: answers given agree with `heir`, which is written once.

Each action has one lemma.  `SessionLimitHolds` is by counting: `Ahead` is a
strict total order of the live sessions, so the sessions that remain after the
prune each have fewer than `MaxSessions` before them; the last of any finite
set of them has all the others before it, hence there are at most
`MaxSessions`.  The refinement has one lemma for each kind of change of the
table: rows kept (`LineageKept`), deleted (`LineageEnds`), inserted
(`LineageOpens`), rotated (`LineageMoves`).

## 6. Token tabs

### State and actions

`TokenTabs` is the tabs of one browser with the refresh token in request
bodies, `BroadcastChannel` and `navigator.locks` available: the refresh token,
the auth epoch and the refresh lock in `localStorage`, the browser-wide mutation
lock (`mutex`), and per tab its access token, its refresh (`ref`), its sign-in
or sign-out (`auth`), the messages it has yet to handle (`inbox`) and the storage event on
its way (`nulled`).  The server is that of `AuthSessions` with each request one
step, as its theorems allow: rotations of one token converge, and a
token beyond its grace period ends the session.

The steps of `refreshWithLeaderElection` are separate where the code awaits:
look at the lock (`Start`), write it (`WriteLock`), verify after the delay
(`Verify`), the mutation lock (`Send`), the response (`ServerRefresh`), and its
consequences (`Commit`, `Reject`, `GiveUp`).  `WaitTimesOut` removes the lock of
whoever holds it by then; `LockGoesStale` and `Heartbeat` are the lock's
freshness.  `SignIn` to `ServerSignOut` are the mutations of `auth.ts`,
serialized by the mutex as the code does; `SignOut` is local at once and its
revocation waits.  `HandleToken`, `HandleSignedOut` and `HandleNull` are the
handlers of messages and storage events.  `Crash` closes a tab and opens
another: the browser frees its mutation lock, not its lock in `localStorage`.

### Runs and properties

`token_tabs`: two tabs, one sign-in, one sign-out, one crash, one unhandled
message per tab; four refresh tokens if the environment is prompt, two if it is
not (1.9 million states, 80 seconds).  Two tabs are what elects and races; with
four tokens a tab can hold one that is two rotations old.  The same properties
hold with two sign-ins and three tokens (3.8 million states), where a session
can follow another; the run keeps the longer rotations.

- `RefusedForAReason`: if the environment is prompt, a refresh is refused only
  if its session was signed out, or if no tab has stored the token that replaced
  the one it presents (`lost`).  Whoever leads, no refresh presents a token that
  the browser has seen replaced.
- `NoAnswerRestoresSession`: what a refresh or sign-in brings back is not
  committed when the user has signed out since it began.
- `QuietTabsAgree`: no tab keeps an access token when nothing is stored and
  nothing is under way.

`prompt` is chosen in the initial state (`Environments`) and never changes.  A
prompt environment handles what has been answered and posted before the next
request leaves in any tab (`Settled`); it assumes nothing else, and nothing of
time: the grace period may end at any moment (`GraceEnds`), a tab may close with
the answer in its hands and another open long after.

The second reason is real.  When the answer of a rotation is lost, or the tab
closes before it stores it, the browser is left with the token that was rotated.
Presented within the thirty seconds of grace it gets the new one; later the
server takes it for a stolen one and revokes the session (the third disjunct of
`Refreshed`).  The code can do no better, the new token being known to nobody,
so the property says exactly this: that is the one way to lose a session
without a sign-out, and a slow leader, a removed lock, a token read before the
mutation lock was awaited, or a second leader are none.  The mutant that sends
the token read before the wait breaks it.

`Settled` is what the code relies on: `HandleToken` writes whatever token the
message carries.  If other refreshes were answered before the message is
handled, it puts an older token back into storage, the next refresh presents a
token two rotations old, and the session ends.  TLC finds that behaviour, with
four tokens and no sign-out, when `Send` and `ServerSignIn` do not wait for
`Settled`; with three, a sign-out message handled after the next sign-in does
it, since the refresh under way then falls back on the token it began with
(`LatestToken`).  A message that is overtaken can end a session, then, and no
property of this project says that it cannot.  The other two properties are for
all environments.

A commit (`Commit`, `CommitSignIn`) compares the epoch and writes the storage in
one step.  Within its tab the code does so without awaiting, and the mutation
lock excludes other sign-ins; but `localStorage` has no lock between processes,
so a sign-out in another tab between the two statements is not modelled.

`token_tabs_signout` expects the violation of `SignOutIsFinal` (section 9).

`CHECK_DEADLOCK FALSE`: tokens, sign-ins and sign-outs are bounded.

### Proofs

`TokenTabs_proofs` proves the safety properties for any number of tabs, tokens,
sign-ins, sign-outs, crashes and unhandled messages, in prompt environments and
in others:

| Theorem | Property |
|---|---|
| `TabsInvariance` | the inductive invariant `IInv` |
| `TabTypes` | `TypeOK` |
| `RefreshesAreHonoured` | `RefusedForAReason` |
| `NoTabIsLeftSignedIn` | `QuietTabsAgree` |
| `SignOutsAreRespected` | `NoAnswerRestoresSession` |

`TabAssumption` says no more than that the bounds are numbers, of which those
of a late environment are no greater than those of a prompt one, and that
`NoTab` is no tab.

- `EpochInv`: a refresh or a sign-in that carries the present epoch began after
  the last sign-out.  With it `NoAnswerRestoresSession` is a matter of the
  comparison each commit makes.
- `AccessInv`: a tab that has an access token while nothing is stored has a
  storage event coming.  `QuietTabsAgree` is this for tabs without one.
- `MutexInv`: who has asked the server holds the mutation lock, so there is one
  request at a time.
- `TokenInv`: every token was issued for one session, that of the row that has
  it, and an answer is not the token that was asked with.

The rest, `PromptInv`, holds where the environment is prompt, however long the
grace period is:

- `AloneInv`: while a request is not over, no other tab has one and no message
  is on its way but of a sign-out made since, because requests wait for `Settled`.
- `MessageInv`: the messages on their way tell one token, the stored one if
  there is one.
- `OneInv`: if nothing is stored, or a sign-out that is on its way may remove
  what is, one token at most can still be sent.  Without it two tabs could fall
  back on different tokens (`LatestToken`) after a sign-out.
- `AskInv`: what is asked is what is stored, or what would be sent if nothing is.
- `HonourInv`: every token that may still be sent is the current one of its
  session, or was rotated and no tab has stored its replacement, or its session
  was ended by a sign-out.  `RefusedForAReason` follows, and the four before it
  are what a rotation needs to keep it: the one token that can be left behind is
  the one just asked with, and no older one is about.

## 7. Schedule supervisor

### State and actions

`ScheduleSupervisor` is the supervisor and the runtime behind it.  `file` is
the cursor file, for each target the pending boundary, the last one that
succeeded, the latest one seen, whether it was tried and in which mode;
`waiting` are the targets whose `nextAttemptAt` is in the future; `pass` is the
pass under way, with the states it read, what it has yet to send and the
outcomes it got.  `calls` are the requests, each of which is in the network,
before its claim, running its handlers, or answered; `rows` and `hands` are the
table and the handlers, as in `ScheduledDelivery` but without leases, attempts
and chunks: a claim ends by its settlement or by `Lapse`.

A pass is `BeginPass` (read and reconcile with the clock), `WriteBefore` (the
write before anything is sent), `Dispatch` and `Receive` for each chunk,
`Commit` (one write of all outcomes).  In the runtime `Inspect` is the
authority check and the reconciliation, `Claim` is `claimMany`, `Reply` is the
settlement and the response, `SettleLate` the settlement of a handler that had
timed out.

Everything that can go wrong is a fault, and a run allows `MaxFaults` of them
in any order: a request given up while it is in the network or executing, and
lost or still arriving (`GiveUp`), the process dying at any step or a write
failing (`EndPass`), `stop()` during a pass (`Stop`, `GiveUp`), the file lost
(`LoseFile`), the clock set back (`SetClockBack`), a new bundle under a running
runtime (`Deploy`), the runtime restarting (`Restart`), a store call failing
before or after its effect (`StoreFails`: handlers that timed out beside it then
have nobody to settle them), a lease ending (`Lapse`).  `Fragile`
names the targets whose requests faults may touch; the others are always
answered.  Failures of handlers are counted apart, by `MaxFailures`: they are
normal.

### Runs and properties

`supervisor`: one target, two boundaries, two requests, two faults, one failed
handler.  Two requests let one that was given up run beside its retry, two
boundaries let the next one fall due meanwhile, and two faults combine (a crash
after a lost answer, a clock set back after a lost file).

- `FileStaysValid`: what `validateSelfHostScheduleState` demands is never
  broken; a file that broke it would be quarantined and its cursors forgotten.
- `CursorIsTrue`: the last successful boundary's handler has completed, once.
- `BegunIsPursued`: a boundary that was claimed stays pending until it is known
  to have succeeded.
- `CursorAdvances`: only the loss of the file moves a cursor back.
- `DueIsDelivered`: without a fault, whatever falls due is delivered or
  superseded by a later boundary that is.
- `ImplementsLedger`: the same `DeliveryLedger` that `ScheduledDelivery`
  implements, now under the supervisor's retries, replays and reconciliations.

With one fault the safety properties also hold for two targets in one chunk
(0.98 million states), where a handler of a request times out beside one that is
settled, and in chunks of one (1.4 million states); the run leaves them out for
their length.
`supervisor_siblings` expects the violation of `SafeSiblingsGoOn` (section 9),
with two targets in one chunk and one fault.

Fairness: the supervisor's timer re-arms after every pass and its own steps
run (`BeginPass` to `Commit`), retries fall due, the runtime serves what
reaches it, handlers end and are settled; each weakly.  Nothing is assumed of
faults, of the clock or of failing handlers, whose number is bounded.
`DueIsDelivered` is about runs without faults: a target whose request was lost before
its claim is reconciled for ever, as section 9 describes.

`CHECK_DEADLOCK FALSE`: the boundaries end.

### Proofs

`ScheduleSupervisor_proofs` proves the safety properties for any number of
targets, boundaries, requests, faults and failures and any size of a chunk, so
for the two targets that no run of these properties has as well:

| Theorem | Property |
|---|---|
| `Invariance` | the inductive invariant `IInv` |
| `TypesHold` | `TypeOK` |
| `FileIsAlwaysValid` | `FileStaysValid` |
| `CursorsAreTrue` | `CursorIsTrue` |
| `BegunBoundariesArePursued` | `BegunIsPursued` |
| `CursorsAdvance` | `CursorAdvances` |
| `TableImplementsLedger` | `ImplementsLedger` |

The assumptions are `SupervisorAssumption` (finitely many targets, numbers that
are numbers) and `CallAssumption`: `NoCall` is no call.  `IInv` adds to `TypeOK`:

- `KeyInv`: a row and its handler agree.  A settled row has no handler, one
  under way has not completed before, one that completed is recorded or still to
  be settled; this is what makes the table a `DeliveryLedger` however often a
  boundary is sent.
- `AskInv`: what a request asks of a target is the boundary that the file
  pursues, or one that is done, or the file was lost.  So a request that was
  given up and arrives late cannot begin a boundary the file has left.
- `OutInv`: what a request reports as done is done, and it runs only what it
  was asked.
- `FileInv`: the file is valid, its last success is in the table, and a boundary
  that was begun is pending as long as the file is not lost.
- `PassInv`: a pass works on the file it has read (nobody else writes it), and
  the outcomes it has collected are about what that file pursues.

## 8. Upload grants

### State and actions

`UploadGrants` is one grant with a `maxFileSize`: its marker object in R2
(state, ETag, bytes reserved), the multipart session created under its first
claim with the parts stored in R2, the parts as KV has them (`tracked`), and the
requests that carry its token.  Each call to R2 or KV is atomic and is one
action; any other request, the clock and the cleanup may run in between.

| Action | Code |
|---|---|
| `BeginUpload`, `Consume`, `WriteBody` | `POST /upload`: the check of the expiry in `consumeSignedUploadGrant`, its put, then the size of the body, the hooks and the object |
| `BeginCreate`, `ClaimGrant`, `CreateSession`, `Bind`, `Abandon`, `Terminate` | `POST /multipart/create`: the checks, the claim, R2's session, the binding, and the way back when one of them fails |
| `BeginPart`, `ReadReserved`, `Reserve`, `SendPart`, `ReadTracked`, `Track` | `POST /multipart/upload-part`: the reservation (head, conditional put, start over), the part, and the list in KV, read and written whole |
| `BeginAbort`, `AbortSession` | `POST /multipart/abort`, and the abort after a part too many |
| `BeginComplete`, `CheckSizes`, `Complete` | `POST /multipart/complete`: sizes from KV, then R2 |
| `Die`, `Cleanup`, `Tick` | the isolate ends; `cleanupExpiredSignedUploadGrants`; the clock |

A check of the expiry never shares a step with a write: the put of
`consumeSignedUploadGrant` or of the claim follows it in an action of its own,
and the clock and the cleanup, which deletes a marker as soon as its grant has
expired, fit between the two.  A check is one step with a *read* that follows it
(`BeginCreate`, `Continue`), or with the answer of R2 that precedes it
(`CreateSession`, whose end is where `bindSignedMultipartUploadGrant` checks):
what it found is then used by a later step.

Answers that are lost after the put took effect are part of `Bind` and
`CreateSession`.  The client's list at completion is free: any parts in any
sizes that it may have uploaded, where bodies of one size count as equal.  A
second claim is possible only after a cleanup, so its session meets an expired
grant; it is counted in `admitted`, and is aborted or left alone.

*ETags.*  The conditional puts compare ETags, and R2 computes one from the body.
A claim has a random body (`:95`); every other marker is written with none
(`:76`, `:130`, `:197`, `:208`, `:235`), so those share one ETag, and the model
gives them the same.  (The test double of `signed-upload-grants.test.ts` gives
every write an ETag of its own.)

### Run and properties

`upload_grants`: two requests, two parts of size 1 or 2, a limit of 2, a token
that expires at the first tick.  Two requests race at every step, also across
the expiry and a cleanup; two parts of size 2 exceed the limit together and not
alone, and so do two of size 1 and 2.

- `AtMostOneUpload`: every marker lets one upload through, a single body or one
  session, however requests race, fail half-way or come back after the cleanup.
  The count allows one more for each marker that the cleanup deleted, because
  the code does: a request that has passed the check just before the expiry
  (`signed-upload-grants.ts:30`) writes its marker (`:76`, `:95`) after the
  cleanup has deleted the first one, and a second upload is let through
  (section 9).
- `ObjectFits`: what is written is within the limit, although the sizes of parts
  that are checked come from another store than the parts, and although
  reservations may be lost.
- `ClaimIsKept`: between a claim and its binding no other request overwrites the
  marker, for instance a reservation that read a marker the cleanup has deleted
  since.  That is what the random body is for: with the ETag of an empty one, as
  in its mutant, it could.

`upload_budget` expects the violation of `SentWithinBudget` (section 9).

`CHECK_DEADLOCK FALSE`: after expiry nothing may be left to do.

### Proofs

`UploadGrants_proofs` proves these properties and the types for any number of requests,
any parts and sizes and any limit and expiry, from `GrantAssumption`:

| Theorem | Property |
|---|---|
| `GrantTypes` | `TypeOK` |
| `OneUploadPerMarker` | `AtMostOneUpload` |
| `ValidGrantsAreUsedOnce` | a grant that has not expired has let at most one upload through |
| `ObjectsFit` | `ObjectFits` |
| `ClaimsAreKept` | `ClaimIsKept` |

The inductive invariant `IInv` adds to the types:

- `ClaimInv`: the uploads let through and the requests between their claim and
  their session are no more than the markers deleted and the one that is there,
  and no marker is deleted while the grant is valid.  The last part, which
  `ValidGrantsAreUsedOnce` rests on, is why the cleanup must look at the expiry.
- `EtagInv`: a marker without a body has ETag 0, a claim one of its own, so a
  request that compares equal with a claim has seen that claim.
- `SeenInv`: a request that will bind or terminate has seen a claim, one that
  will reserve a bound session.  With `EtagInv` a reservation's put never meets a
  claim (`ClaimsAreKept`).
- `ListInv`: the object is within the limit, and a list that passed the check
  adds up to no more than the limit.  The check adds up the sizes in KV and R2
  those of its parts; both sums are over functions equal to the client's list,
  hence over the same function.

That `object` is a number is not by type alone: it is what `Total` computes of a
list's sizes, a fold over a set.  `TotalIsFold` unfolds the fold to its recursive
function, `SumsExist` shows that the recursion has a solution for sets of any
size, and `TotalIsNat` that its values are numbers; both are by induction, in
the form of a lemma about a set of numbers (`AllNumbers`), which the
well-foundedness of `<` gives.

## 9. Divergences

Three of them have runs that expect a violation; all are listed as findings.

| Run, property | What happens |
|---|---|
| `supervisor_siblings`, `SafeSiblingsGoOn` | A request is lost before its claim. All its targets are then reconciled; `executeScheduledDeliveries` throws for a reconciled target that has no row (`scheduled-delivery.ts:820`), the route answers `blocked` for the whole chunk, and the supervisor keeps every target of it in that mode, siblings that fell due later included, at every retry (`self-host-schedule-supervisor.ts:1638`). The comment at `:988` promises that one ambiguous target cannot block its siblings. |
| `token_tabs_signout`, `SignOutIsFinal` | `token-refreshed` is handled after a sign-out that was made later than it was posted; the handler writes its token to the shared storage without a look at the epoch (`token-manager.ts:635`), and the session is back for every tab until the revocation has reached the server, and for good if the revocation fails. `auth.ts:541` calls the sign-out immediately authoritative. |
| `upload_budget`, `SentWithinBudget` | Two parts read the marker, and both reserve. The second put compares ETags, but the marker it read and the one that the first put wrote have empty bodies and so the same ETag in R2: the put is accepted and overwrites the other reservation (`signed-upload-grants.ts:208`), and both parts go to R2. A marker that has failed can be overwritten and revived in the same way. `docs/docs/storage/signed-urls.md:499` says that concurrent parts cannot reserve more than `maxFileSize`. The object that is completed is within the limit all the same (`ObjectFits`). |

In the room runtime six promises of the documentation or of comments are broken by the code.
Each is stated as an invariant in `RoomRuntime` and was found violated by TLC
on instances of the size of `RoomLife`; they are kept as definitions and are
not part of the runs.

| Property | What happens |
|---|---|
| `NobodyVanishes` | a socket closes while the room hibernates: `webSocketClose` does not recover the instance, finds no player and returns; the user's `onLeave` never runs (`docs/docs/room/server.md:361`) |
| `NamedTimersSurvive` | `setTimer` only marks the room dirty; hibernation before the next save, up to 60 s later, loses the timer (`docs/docs/room/server.md:497`) |
| `AuthDeadlineHolds` | a socket accepted while `onDestroy` is awaited loses its auth deadline when `handleRoomEmpty` clears them all (`docs/docs/api/room.md:141`) |
| `StateIsRestored` | a room evicted without sockets is not recovered by the upgrade of the first returning client (`docs/docs/api/room.md:7`, `docs/docs/room/advanced.md:29`) |
| `GoneMeansEmpty` | an authentication that completes after its socket has closed adds a player that nothing removes (`docs/docs/room/server.md:70`) |
| `AbandonedRoomIsForgotten` | an upgrade to an evicted room writes a blob with nothing but its own auth deadline over the stored TTL (`:537`); when that client leaves, the blob goes and the saved state stays for ever, against the safety net that the comment at `:1618` names |

Seen while modelling:

- A grant may let a second upload through at its expiry: the check of
  `signed-upload-grants.ts:30` is followed by the put of `:76` or `:95`, and
  between the two the cleanup may delete the marker of the first upload, whose
  grant has expired by then (`:261` has no margin).  The object is written twice,
  both times within the limit.  The documentation promises rejection only while
  the URL's TTL is running (`docs/docs/storage/signed-urls.md:494`), which
  `ValidGrantsAreUsedOnce` proves of the uploads let through by then.
- A session id may be used twice: an OAuth exchange that is
  retried after its session was deleted inserts that id again
  (`routes/auth.ts:922`, `routes/oauth.ts:1046`).
- `docs/docs/architecture/auth-architecture.md:199` describes the reuse of a
  token beyond the grace period as revoking all sessions; `routes/auth.ts:3601`
  deletes the one session, as the model does.
- `docs/docs/authentication/session-management.md:333` has a user's expired
  sessions deleted at `POST /auth/refresh`; the code deletes them at a sign-in
  (`auth-db-adapter.ts:194`) and by the daily cron.
- `clearTimer` (`room-runtime-base.ts:1523`) does not mark the room dirty: a
  timer that is set, saved and cleared is back after hibernation, and so is
  one that fired since the last save (`docs/docs/room/server.md:487`).
- `maxPlayers` is compared at the upgrade (`:496`) with the players, who are
  counted from their authentication on: any number of sockets may pass before
  the first of them authenticates (`docs/docs/room/server.md:54`).
- A metadata request fills `_metadata`, which `shouldRecoverBeforeAlarm`
  (`:2448`) takes as a sign that the instance holds live state: the alarm that
  was to clean up the storage of an evicted room then recovers nothing, against
  the purpose stated at `:1618`.

## 10. Checked, proved, left out

*Proved for every instance:* every safety property that the runs check, of all
six components, types included, with one reservation: `StoredDeadlinesWake` is
proved of rooms whose metadata is never touched, as it is false of others.  So
are the refinements of `DeliveryLedger` (by the executor and by the supervisor's
runtime) and of `TokenLineage`.

*Only model-checked:* all liveness (`WakeReturns` and `DueIsDelivered`).

A property that is proved is checked in one run only, the one in which it is
hardest to keep; `AuthSessions`' `TypeOK` is proved and in no run.

What every step relies on is proved in the same way everywhere: the types first,
then an inductive invariant as a conjunction of named parts, one lemma for each
action, and the properties from the invariant.

Out of the prover's reach: liveness under fairness, `ENABLED`, and modules with
RECURSIVE operators (there are none here).  The library's induction theorems take
an operator as a parameter, which the provers cannot instantiate; where an
induction is needed it is made over a set of numbers (`UploadGrants_proofs`,
`AllNumbers`).

*Every property has a mutant* in `PROJECT.json`: a definition changed
the way a plausible bug would (an attempt not compared, a swap by session id
instead of by token, a prune by age alone, a cursor that moves on, a put
without a condition), under which TLC finds the property violated in its own
run.

*Not modelled yet:* the components of the plan from number 7 on; of the parts
that are modelled in part, what their sections and the notes in
`PROJECT.json` name as left out.  Most of the repository's lines are request
validation, translation to SQL, generated SDKs, code generation and deployment
commands: they keep no state between steps, and the models do not cover them.
