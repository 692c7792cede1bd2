# A TLA+ model of air_orchestrator

`air_orchestrator` is the central backend of the AiR platform: a Go service
that serves an HTTP and a gRPC API, keeps users, models and conversations in
MySQL, caches in RAM and Redis, stores files on MinIO/S3 and runs periodic work
from the goroutines of a scheduler. This directory holds TLA+ modules for the parts whose
correctness depends on the order of steps, the TLC configurations that check
them on small instances, and TLAPS proofs of the facts that matter most.

`PROJECT.json` names, for every definition that models code, the lines it
stands for; the runs; a mutant of the code for every property; the hazards and
the theorems.

## The system

| Part | State it keeps | Operations | Hard behaviour |
|---|---|---|---|
| Upload reservations `usecase/storage/reservation.go`, `infrastructure/storage/reservation.go` | Redis records and idempotency keys, `healthy` | reserve, commit, release; tick: sweep, collect orphans, reconcile | MySQL and Redis changed by separate calls; retries; crashes; the tick working from stale listings |
| Quota row `repository/mysql/storage.go` | `used_bytes`, `reserved_bytes` | reserve, commit, release, release all, reset | unsigned arithmetic; callers that move bytes of another upload |
| MasterKey `usecase/masterkey`, `usecase/auth`, `infrastructure/security/exam.go`, `repository/mysql/security.go` | wrapped key and hash in MySQL, raw key in RAM and Redis, nine kinds of data | create and re-encrypt, rewrap, reset, load at login, save data | key and data changed by separate calls; three copies of a key that age differently; failure half way |
| Storage migration `usecase/storage/migration.go`, `app/storage.go` | job records, Redis lock, objects on two backends | start, copy and verify, cut over, clean up, cancel, retry | cancellation against completion; lock expiry; jobs left running by a crash |
| Storage backends `infrastructure/storage` | configuration cache | resolve, probe, presign | stale configuration |
| Accounts `delivery/http/auth.go`, `usecase/auth`, `repository/mysql/auth.go` | users, one-use transport keys in RAM | register, confirm, log in, migrate an old account, reset | check-then-insert; a goroutine that writes a password late; ciphers without authentication |
| Second factor `delivery/http/totp.go` | pending logins and setups in RAM with timers | setup, confirm, login, switch off | old timers deleting new entries; one entry, several requests |
| Tokens `infrastructure/security/exam.go`, `delivery/http/auth.go` | JWTs, blacklist in Redis, refresh cookie | login, refresh, logout | concurrent refreshes; a lost answer |
| Test sessions `usecase/session`, `delivery/http/{test_api,realtime}.go` | map of sessions, gauge, channels, WebSockets | start, send, stop, TTL cleanup | check-then-store; deletion by key; goroutines that wait for each other |
| Models `delivery/http/model_crud.go`, `repository/mysql/model.go` | rows of models; voices and files at the providers | create, save, delete, clone a voice, add files | read, call, write back without a lock; every call may fail |
| Channels and accounts' end `delivery/http/{channels,userdata}.go`, `repository/mysql/{channels,cron}.go` | flags in MySQL, bots at services, files | save, delete, restart, expire, delete an account | row and bot changed by separate calls; order of deletions |
| Scheduler `infrastructure/scheduler/cron.go` | none of its own | storage tick, migrations, subscriptions | goroutines of its own next to the requests |
| Relays: `tguser`, `whats`, `services`, `widget`, `pay`, `donation`, `tgbot`, `crm`, `avito` in `delivery/http` | two connections, goroutines | accept, dial, pump, time out | a side that leaves; a goroutine waiting for one that has gone |
| Calls proxy `delivery/grpc` | map of calls | start, subscribe, hang up | failing subscribers; lost end events |
| Notices `delivery/http/{notifications,instant}.go`, `repository/mysql/notifications.go` | settings row, one channel for all sockets | switch, remove, send, receive | first insert raced by another; sockets competing for messages |
| Application configuration `repository/mysql/app_config*.go`, `usecase/admin`, `app/app_rekey.go` | encrypted rows, keys in RAM | start, read, set, reset, rekey | starts that stop half way; lost answers; two keys of the table |
| Lifecycle `app/app.go` | everything above | construct, shut down | order and forced close |
| Dialogs, services, MCP, mail, metrics | MySQL rows | CRUD | mostly one statement each |

They interact as follows. HTTP handlers (one goroutine each) and the scheduler's
goroutines call the use cases; use cases call MySQL, Redis and the backend one
after another with no transaction around them. MySQL, Redis and the backend
survive a restart of the process; RAM caches do not, and the MasterKey cache is
refilled from Redis at start. Nothing serialises two requests of one user.

What each part has to get right:

- reservations: the quota is never exceeded; retries share one reservation;
  bytes are charged or given back once; nothing is reserved for ever; the tick
  leaves live reservations and their objects alone;
- MasterKey: data is under a key that the row holds and the password opens;
  the user has the raw form of any key that is needed; a reset leaves nothing
  unreadable;
- migration: no object is lost; one job per user; the switch happens after the
  copy was verified; a cancelled job stays cancelled;
- accounts: at most one account with a hash answers to a mail; the password stored is
  one its owner was told of; the migration comes to its end;
- second factor and tokens: a waiting login is used once; only a secret the user
  has is turned on; parallel refreshes leave a working cookie;
- sessions, relays: whatever ends first, everything started for it ends, and
  nothing is said out of order;
- models, channels: what the rows name exists outside, and what exists outside is
  named by a row;
- calls, notices, configuration: a running call stays reachable, a setting once
  acknowledged stays, and the table of keys opens wherever a step was cut short.

## The modules

| Module | What it is |
|---|---|
| `QuotaLedger` | abstract specification: the quota row and the only statements that move it |
| `Reservation` | the reservation service in full, over the row, Redis and the internal backend; it extends `QuotaLedger` |
| `MCReservation` | instances of `Reservation` for TLC |
| `ReservationProofs` | theorems about them |
| `MasterKey` | the key of one user (users share nothing here): creation, rewrap, reset, login, saving data |
| `MCMasterKey` | instances of `MasterKey` for TLC |
| `MasterKeyProofs` | theorems about it |
| `Migration` | the move of one user's files between two backends: start, tick, run, cutover, cancel |
| `MCMigration` | instances of `Migration` for TLC |
| `MigrationProofs` | theorems about it |
| `Account`, `MCAccount` | registration, confirmation, password login, lazy migration, reset |
| `AccountProofs` | theorems about it |
| `Tickets` | abstract specification: a ticket that is honoured at most once |
| `SignIn`, `MCSignIn` | what follows the password: second factor, refresh cookie, logout; it implements `Tickets` |
| `SignInProofs` | theorems about it, and the refinement |
| `TestSession`, `MCTestSession` | the session map of one dialog, its sockets and voice calls with all their goroutines |
| `TestSessionProofs` | theorems about it |
| `Models`, `MCModels` | one user's models, cloned voices and files |
| `Channels`, `MCChannels` | channels, their bots, the end of a subscription and of an account |
| `ChannelProofs` | theorems about it |
| `Relays` | every handler that stands between a client and another service |
| `Calls` | the calls proxy |
| `Notices` | notification settings and instant notices |
| `AppConfig` | the table `app_config`: start, administration, rekey |
| `MCGateways` | one instance of these four, which share no state |
| `ServiceProofs` | theorems about `Calls`, `Notices`, `AppConfig`, the types of `MCGateways`, and `Models` |

### QuotaLedger and Reservation

**State.** `used`, `reserved` are the row of each user. `records` and `idem` are
the Redis keys `reservation:<id>` and `reservation-idempotency:<user>:<key>`;
`objects` is the content of the internal backend. `req[p]` is the local state of
request goroutine `p`: `pc` names the call it makes next, the other fields are
its local variables. `tick` is the same for the scheduler's goroutine. `handed`,
`settled` and `disturbed` are history variables: which client an id was returned
to, which ids were charged or given back, which users' rows moved by something
other than their own reservation. No code reads them.

**Actions.** One action is one call to MySQL, Redis or the backend with the code
up to the next call, so any two handlers interleave between their calls.
`StartUpload ... Presign` is `CreatePresignedUpload` with
`ReserveWithIdempotency`; `StartCommit ... ComDelete` is `CommitStorageUpload`
with `Commit`; `CommitDirect` is the branch without a reservation id;
`RelLoad ... RelDelete` is `Release`; `StartPurge ... PurgeQuota` is
`DeleteUserS3Directory`; `TickHealth ... TickDone` is `Tick`. A call may fail
with or without its effect (`Fault`, at most `MaxFaults` times); errors the code
ignores continue, as `ReleaseIgnored` and `DeleteIgnored` say. `Crash` drops all
goroutines; `RedisLoss` empties Redis.

**Abstractions.** Time is the set `due` of reservations whose `ExpiresAt` has
passed; records may vanish by TTL once due, and a key only after the record it
names. No code writes a `Status` other than `reserved`, so a record is its owner,
key and size. A client commits a reservation with the object it was made for
(the code does not compare them) and repeats the file name in a retry. Listing
and deletion of a purge are one step, and so are the listing and the lookups of
`CollectOrphaned` for one user. `DeleteAllStorageObjects` is a repetition of
`DeleteStorageObject`. Deleting an object leaves the row alone, as in the code:
`used_bytes` only falls by a purge. The two prefixes of the collector's key are
kept (`ObjToReservationKey`, `ReservationKey`), since the lookup depends on them.

### MasterKey

**State.** `hash`, `wrapped`, `data` are in MySQL: the password the hash was made
from, the pair of key and password that the wrapped key stands for, and for each
kind of data what it is encrypted under (nothing, the application's key, or a
MasterKey). `cache` and `redisKey` are the two other copies of the raw key.
`kept` is the set of raw keys shown to the user, who keeps them.

**Actions.** One per call again: `StartCreate ... Deliver` is
`CreateMasterKeyWSS` with `CreateMasterKey`, which walks the kinds in the order
of the code (`Rank`), listing (`EncRead`) and overwriting (`EncWrite`) each;
`RewSave`, `RewClear`, `RewDelete` are `RewrapOrReset`; `ResPassword ...
ResClear` is `ResetPassword`; `LogRead ... LogRedis` the part of `Login` and
`AuthTOTP` that loads the key; `Gate`, `SetKey` is `SetUserAPIKey`; `StartSave`,
`SaveWrite` is `SaveChannelData` and `SaveStorageConfig`. `Restart` refills the
cache from Redis; `Expire` is the TTL of the Redis copy.

**Abstractions.** All rows of a kind are one value. The library that stores an
API key is external: it uses the cached key or the application's. A failing
encryption of one row is a failing write of its kind. Data of one user only.
A rewrap takes any password and any raw key the user kept, as the handler does
not compare them with those in use. A raw key that is not one ends a reset after the
password was written (`ResMalformed`), and the answer that shows a new key may be lost
(`Deliver`). A reset is of the account's own mail here; whose it is, is in `Account`.

### Migration

**State.** `active` is `storage_type` of the user's configuration, `stored` the
content of the two backends, `cached` the backend that the factory's entry in Redis
names (`factory.go:55`, five minutes), `jobs` the table `storage_migrations`, `lock` the
Redis key of the user, `running` the service's map. `work[p]` is the local state
of a request or of the scheduler's goroutine: the job, its pair of backends, the sorted
listing, what the loop has left, the verified keys, and for the tick the jobs it
listed. `owned`, `late` and `astray` are history variables: what the user has stored and
not deleted, what was put where no migration could know of it, and whether a run got the
lock for a job or a pair of backends that were no longer so. `url` is the backend an
upload URL was signed for: the client holds it.

**Actions.** One call to MySQL, Redis or a backend each. `LoadCachedConfig` is the
lookup that `Resolve`, `ResolveByType`, uploads and deletions begin with: it answers with
the entry, or with the row when the entry is gone, and no cutover or change of the
configuration removes the entry. `StartStorageMigration
... Insert` is the handler with `resolveMigrationPair` and `CreateMigration`;
`ListPendingMigrations`, `NextJob` is `ProcessPending` with the pair resolver of
`app/storage.go`; `Enter ... Leave` is `Run`; `SwitchRead`, `SwitchWrite` the
cutover function of `app/storage.go`. `CancelMigration` is the handler, which
writes the table and never reaches `MigrationService.Cancel`. `Disconnect` is a
client that goes away: the request's context ends, and with it every later call
of the run, the one that would record the failure too. `Crash` empties `running`
and leaves the lock to its TTL (`Orphan`); `Expire` is that TTL, also under a
run that is still at work, as the renewals end with the first that fails. A
call that fails may have had its effect.

**Abstractions.** One user. Keys of objects are unique and never overwritten, so
a copy is verified by being there. The sorted order is some fixed order. Of the
manifest only `verified_keys` is kept: the counters decide nothing. A pending row cannot be
read by `GetMigration`, as the counters it takes from the manifest are NULL
there; so a pending job resumes nothing and cannot be cancelled.
Redis is configured, so there is a locker. The backends keep the contract of the
interface. Whether an external backend can be reached is left open, and making its
client is a call that may fail: the entry in Redis has no credentials, and in the
composed program `endpoint_validation.go` asks for an `https://` endpoint which
`minio_client.go:38` refuses. `CopyAndVerify` and `MigrationService.Cancel` have no
caller and are left out.

### Account

**State.** `row` is `users` with `user_auth`; `regKey` is `Exam.regData`; `held` are
the keys a browser's tabs have not used; `letters` is what is in the mail, `tokens`
the clients that hold an authorisation; `work[h]` is a handler's request, `moving` the
goroutines of `MigrateLegacyUser`, `checking` those of `checkAndFinalizeMigration`.
`last`, `raced` and `failed` are history variables: the passwords an owner must reckon
with, accounts that were reset in the middle of the login that migrates them, and
whether the last try to finalize met an error.

A registration and a reset take the mail from the body. Nothing ties it to the mail
the key was sent for or to the token, and `CheckMail` is not repeated. The registration
commits, and the reset writes the password, before steps that may still fail: the client
is then told of an error (`Insert`, `UpdatePassword`). The answer to any statement may be
lost.

**Abstractions.** The transport cipher is not authenticated, so a wrong key gives
`Garbage` and no error. Only one account is older than the e-mail hash. What login
and reset do to a MasterKey is in `MasterKey`.

### SignIn and Tickets

**State.** `secret` is in MySQL, `setup` and `waiting` are the two maps of `totp.go`,
`stores`, `expired`, `fired` the numbers of setups stored, past their time and
whose `AfterFunc` ran; `token` and `jar` are the refresh tokens (with the blacklist
and its ten seconds of grace) and the browser's cookie. A refresh token is its user,
the `respId` of its login and a second: `recent` are those of the current second, and one
asked for again in it is the same token. Redis may fail: an error when the blacklist is
read counts as not blacklisted, and one when it is written is logged. `shown`, `proved`,
`entered`, `cut` and `again` are history variables.

**Refinement.** `TicketOf` maps a waiting login to a ticket: open while its entry can
be found, taken while a handler checks the code, used or gone after. With that map
`SignIn` implements `Tickets`, where a ticket is honoured at most once.

**Abstractions.** One user and one browser. A code is named by the secret it
belongs to; a code of the right secret is in its time.

### TestSession

**State.** One dialog of one user. `entry` is the map, `sess` the session objects,
`open` the channels that are not closed, `slot` the channel in the core's
respondent, `gauge` the metric, `work` what each goroutine that touches the map
holds, `sock` a socket's connection, buffers and three helper goroutines, `voice`
the same for a realtime call, `rt` the core's voice session. `displaced` is a history
variable: sessions that a step put out of the map although it meant another one or none.

**Abstractions.** The core (`startpoint`, the model router) is external: it runs a
listener per session until its context ends or its channel closes. A request for
another provider than the running session's is left out.

### Models

**State.** One user's rows (`model`, `active`), Mistral's voices and the providers'
files, pages that show a row (`page`), files uploaded and not yet added, handlers
(`work`). `asked`, `excused` and `misfiled` are history variables: what the user deleted
by hand, what was reported, and the names `FileAdd` wrote where they name nothing: into
another provider's model, or with a changed id. `FullId` is that change: an id without the prefix
`file-` gets it (`model.go:175`).

**Abstractions.** A row is what the handlers look at: voice, cloned profile, files.
A call to the model router succeeds or fails without effect, in one step; three
attempts at a deletion are one step.

### Channels

**State.** `row` are the flags, `bot` what the services run, `calls` the goroutines of
`stopChannel`, `work` the handlers, `expired` to `disabling` what the scheduler works
with, `served` the users its query selects (role 2, not disabled), `config` and `cached`
where files go, `links` and `files` uploads. `drift`, `cleared`, `kept`, `excused` and
`erased` are history variables: channels whose last call failed, was refused or never
sent; channels that the end of the subscription or account switched off in the row alone;
channels enabled without a subscription; users the scheduler failed; users told that their
files are gone.

**Abstractions.** A bot runs or not; a call that times out may have had its effect.
The settings of a channel are in `MasterKey`.

### Relays, Calls, Notices, AppConfig

`Relays` follows one handler. Twenty-two handlers are records of what they do
between the two sides (`Socket`, `Request`): which pumps they run, which one they
wait for, whether a timer or the client's context ends the wait, whether a
goroutine reads the body and whether the transport is made for this request. `RelayInit`
chooses one. An answer read to its end leaves the connection `"idle"` in the transport,
with its two goroutines, until the target or the transport's timer closes it. A write may
block for as long as the side it goes to is there and does not read. What is carried is
left out.

`Calls` has the backend's calls (`phase`) and the proxy's map (`calls`), requests that
start, follow and hang up, a client's answer lost between the two, a subscriber
that fails at opening, receiving or sending, and a restart, which empties the map.

`Notices` has one user's row with the transactions that change it, and the one
channel from which the sockets of all users receive. A second first insert is
refused by the unique key of `notifications` and rolled back. `told` is a
history variable: what the last committed change of a setting asked for.

`AppConfig` has the rows as a value and the key it is under, the steps of a start
(`boot`), the keys in RAM (`mem`), the administrator's request as the rows it still
has to write (`admin`), and the operator's two moves: the rekey, one transaction,
and the new file. The pair of keys for widget codes is cached at the first request that
needs it, for the life of the process (`mem.pair`), and any number of requests may be
between reading the row and storing it (`hands`). `mails`, `codes`, `lapsed`, `retired` and
`newPair` are history variables: the keys under which addresses are stored, pairs that
signed codes, pairs the table no longer has, keys somebody was told are gone, and whether
a pair was generated while this process was up. A start that fails stops the process before or after its write.
Only one handler that writes plain settings is enumerated by the run; it differs
from the others in the names of its rows. One administrator's request runs at a time,
and the operator starts the process only with the key the table is under.

## What the runs check

Deadlock is checked unless said otherwise: a request can always start, or the
bound on ids or keys makes it return early as a full quota or a refused key would.

### Reservation

Quota 2, so that one large or two small uploads fit and not both; sizes 1 and 2;
two reservation ids, one idempotency key, two goroutines: enough for every pair of
handlers to collide on one reservation, for a retry to lose its claim, and for an
upload to be refused.

| Run | Checks | Shows |
|---|---|---|
| `requests` | `TypeOK`, `QuotaBound`, `LiveRecordsBacked`, `ClientsSeeOneReservation` | requests against each other, without the tick, with one failed call or loss of Redis anywhere |
| `tick` | `RecordsHeld`, `LedgerSpec`, `StuckQuotaReleased` | the tick against two request goroutines that share one reservation id, with one failed call and one crash; the refinement; leaked bytes are given back |
| `doublecommit` | violates `CommitsOnce` | two overlapping commits of one reservation both charge |

`tick` assumes weak fairness of the tick alone (`FairSpec`): `runReservationSweep` in
`cron.go` calls `Tick` every five minutes from a goroutine that lives as long as
the process. Requests and clients owe nothing. `requests` leaves the tick
out (`RequestsSpec`) to keep larger sizes, a key and two ids affordable.
`RecordsHeld` says that no path forgets a record, before or after its bytes were
settled, and that the row covers the records. `LiveRecordsBacked`, and with it
`RecordsHeld`, excludes users in `disturbed`: the reconciler, a purge, a commit
without a reservation and a second settlement do take a live reservation's bytes;
the property says nothing else does.

### MasterKey

Two keys, so that a second creation can follow the first; two passwords; two
goroutines; kinds chosen to differ in what the code does with them: API keys
(gated, failures skipped, rows dropped), channels (not gated, rows survive a
deletion), CRM configurations (a failure aborts the creation).

| Run | Checks | Shows |
|---|---|---|
| `careful` | `TypeOK`, `NoKeyIsLost`, `KeyFitsAccount`, `EncryptsUnderSavedKey` | one key operation at a time, logins and saves interleaved with it, one failed call, one restart |

`CarefulSpec` is an assumption on the client, not on the code: it does not start
a key operation during another, rewraps under the password in use, and resets
with its raw key. It may give its key up, and with it its data, while nothing else is
under way (`GivesUpKey`); from then on it saves nothing as long as the cache holds the
key that is gone (`Stale`), which no code removes from there. Without these
restrictions `KeyFitsAccount` and `EncryptsUnderSavedKey` do not hold (see
"Statements the code does not keep").
`NoKeyIsLost` needs no such client: it is proved for `Spec`. It and `KeyFitsAccount`
stop at the first failed call or restart, because a reset updates the password
before it rewraps the key (`auth.go:224` and `233`).

### Migration

One object and one request are enough for a copy, a switch and a
cleaning to meet the tick, a second job (so that a finished move is followed by
one back), an upload, a deletion and a change of the configuration.

| Run | Checks | Shows |
|---|---|---|
| `migrate` | `TypeOK`, `NoObjectLost`, `ObjectsVisible` | a request and the tick with two jobs, one failed call, lost client or crash anywhere |

`migrate` runs under `Spec`. The pair of backends is read, from the row and from the
factory's cached entry, and the jobs are listed before the lock is taken, and nothing is
looked at again under it (`migration.go:210-231`). So a run may get the lock for a job that
is done or at work, or with a pair that is no longer the user's; `astray` is set then, and
objects can be lost from there: the copy finds its source empty, or source and target
are one backend, which the cleaning empties. Both properties claim nothing once a run has
gone astray or a lock has expired under its holder (`Regular`), and say that nothing else in
the copy, the switch, the cleaning, the stale entry and their failures loses an object.
`ObjectsVisible` asks that what is not lost is in the backend that the row names. For up to
five minutes after the cutover the factory sends requests to the other one, whatever the row
says: a reader does not find the object there until the entry is dropped. The property
excludes objects uploaded during a copy or with a URL signed for the other backend, which
the stale entry makes common, and those there when the user changed the backend without a
migration (`late`).
`OneDisturbance` does not explore beyond an irregular step, nor beyond the second failure.

### Accounts, sign-in, sessions

| Run | Checks | Bounds and assumptions |
|---|---|---|
| `accounts` | `TypeOK`, `OneAccountPerMail`, `PasswordIsLatest`, `FinalizeNotForgotten` | two browsers and goroutines, two mails, one of them of the old account, four transport keys, one restart; any statement may fail before or after its effect. `OneTab`: a browser asks for a key when its last request is sent |
| `signin` | `TypeOK`, `OneEntryPerLogin` (refinement of `Tickets`), `SecondFactorUsable`, `SessionSurvives` | two goroutines, five requests, three secrets, tokens and setups, two waiting logins, one restart. `OnePage`: the user has one settings page open. Deadlock is not checked, since requests are bounded |
| `sessions` | `TypeOK`, `SessionsHeld` | two session objects, two requests, a socket and the cleanup, in any overlap (`Spec`); no answers, which `clients` has |
| `clients` | `AnswersThenStatus`, `GoroutinesReleased`, `GoroutinesEnd` | one session, one text socket, two voice sockets, buffers of one answer for three answers, so that channel, `messageBuffer` and `sendBuffer` all fill; fairness as below |

Text dialogs and voice calls share no state, so the action constraint `CallsFirst` of `clients` has all calls of a behaviour
before its dialogs, which loses no behaviour of either and keeps the product of the two
out of the state space. `Jammed` names the two places where a goroutine waits without a
way out: the pump's send into a full `messageBuffer` (`test_api.go:397`) and the handler's
send of the closing status into a full `sendBuffer` (`test_api.go:450`). When the reader of
that buffer has gone they wait for ever, which `GoroutinesEnd` excepts, and nothing else. What holds
even then is `GoroutinesReleased`: whoever outlives the loop has been told to end.

`FairSpec` of `MCTestSession` has weak fairness of the goroutines that the handlers
start, of the handlers' own steps, and of `cleanupLoop`'s ticker; clients, the core
and its answers owe nothing.

What the properties except are ways in which the code fails, listed as hazards, and the
runs say that nothing else does:

- `OneAccountPerMail` lets a mail have one account with an `EmailHash` and one without.
  `CheckMail` is not repeated when the registration comes, its mail is the body's, and the
  unique index does not see a row without a hash. Once such a mail is registered, the old
  account cannot be migrated any more.
- `PasswordIsLatest` excepts accounts reset between the login that migrates them and the
  migration's write (`raced`): the old password is stored again. Of a reset that was
  answered with an error the owner must reckon with both passwords (`last`). Without
  `OneTab` a second key of the same browser turns a password into garbage.
- `FinalizeNotForgotten` excepts a restart, a lost answer to the last migration's statement
  and a failing `COUNT` or `ALTER` after it, which is logged (`failed`): the column then
  stays nullable for good.
- `SessionSurvives` excepts a token that was issued again in its own second (`again`): the
  refresh blacklists the cookie it sets. Without `OnePage` a wrong code brings an older
  secret back.
- `SessionsHeld` excepts sessions in `displaced`: a store over another start's entry, and a
  removal by key of a session other than the one that was read, by a start, a stop or the
  cleanup. The session just stored is then closed or hidden although nothing was wrong with
  it, and the gauge miscounts. What is left is that each entry taken out of the map is ended
  and counted once, whatever else is under way.

### Models and channels

| Run | Checks | Bounds and assumptions |
|---|---|---|
| `models` | `TypeOK`, `NoStrayVoice`, `RowNamesWhatExists` | two providers, one of them with file ids that begin with `file-`, two voices, one file, two goroutines, one page, two failing calls. `ReadsHold` and the rest of `CarefulNext`: nobody changes a row that a handler or a page has read and will write back |
| `channels` | `TypeOK`, `RowsAreTrue`, `ExpiredIsSwitchedOff` | one user, a kind of channel all calls know and one that only saving knows, two goroutines, two failing calls or restarts. `OneChangeAtATime`: one request at a time changes a channel. Deadlock is not checked: a deleted account asks for nothing |

`FairSpec` of `MCChannels` has weak fairness of the scheduler's goroutine, which runs
daily, and of the goroutine it starts per user, whose calls have a timeout.

`RowNamesWhatExists` excepts what `FileAdd` misfiles: a file of another provider than the
active model's, and an id without the prefix `file-`, which is stored with it
(`mysql/model.go:175`). `RowsAreTrue` excepts a channel only while its last call failed, was
refused or was never sent (`drift`). The end of a subscription or of an account is not among
these: the row is switched off, no service is told, and the property says that a bot that
ran then runs on (`cleared`). `ExpiredIsSwitchedOff` is about the users the scheduler selects
(`served`): demo accounts end too, are not selected (`cron.go:84`), and keep their channels.

### The parts that share nothing

| Run | Checks | Bounds |
|---|---|---|
| `gateways` | `GatewayTypeOK`, `RelayEnds` (`Relays`), `CallReachable` (`Calls`), `SettingsKept`, `NoticeOnceToOwner` (`Notices`), `TableOpens`, `KeyLifetimes` (`AppConfig`) | all 22 handlers; two calls, two clients, one restart; two requests, two users, two sockets, room for two notices of three; two master keys, five generated values, any number of restarts |

A behaviour of `MCGateways` moves one of the parts, chosen at the start, and leaves
the others in their initial state: they share no variable, so nothing is lost, and
the sum of their states is explored rather than the product. Of the notices the
settings and the sockets are two parts. `RelayFairness` is weak fairness of what a
handler and its goroutines do by themselves (timers, deferred closes, the end of a body
whose side is gone) and of a write that fails because its side is gone or its connection
closed. It is strong for the end of a socket's or a stream's read of a side that is gone:
what that side has left behind is read first, and is not without end. No message has to
arrive, no side has to leave, and no side that is there has to take what is written to it: a
`WriteMessage` has no deadline. Deadlock is not checked, as a relay stops.

`RelayEnds` obliges a relay when the side it waits for is gone, its context is, or it is a
single request with a timer; it then also demands that all its goroutines end and that no
connection is left. Two things are excepted, both in the code: a live side that never
reads holds the handler or its pump for ever (`Blocked`), and the idle connection of a
transport made for one request, which has no timer (`"own"`: `services.go:269`, `400`;
`crm.go:31`, `139`, `230`), stays with its two goroutines until the target closes it. The
other transports close theirs after 90 seconds or ten minutes. A
socket relay whose waiting side is alive and silent may stay for ever, and so may
`proxyAvitoRequest`, which has neither a timer nor the client's context.

`KeyLifetimes` excepts the process that is up when a widget pair is generated: it has cached
the old pair and signs on with it, so its codes fail at the next start (`lapsed`, `newPair`).

### Statements the code does not keep

These are definitions of the modules that say what a comment, a README or an
error text says, and that the model violates. No run checks them, save `CommitsOnce`;
each fails with the configuration named here, with the definition as its
`INVARIANT` or `PROPERTY`. None of them needs a failing call, a crash or a restart:
they fail also with `MaxFaults`, `MaxCrashes` and `MaxRestarts` 0.

| Definition | Fails in | Because |
|---|---|---|
| `CommitsOnce` (`Reservation`) | `doublecommit` | two commits both pass the load before either deletes (`reservation.go:162-182`) |
| `CollectorSparesReserved` | `MCReservation_tick.cfg` | the collector's key has two prefixes no record has (`reservation.go:271`, `333`) |
| `ReconcileSparesActive` | `MCReservation_tick.cfg` | the users are listed before the records (`reservation.go:288-321`) |
| `EncryptsUnderSavedKey` (`MasterKey`) | `MCMasterKey_careful.cfg` with `SPECIFICATION CreateSpec` | two overlapping creations read each other's key from the cache (`masterkey.go:66`) |
| `EncryptedDataHasKey` | `MCMasterKey_careful.cfg` with `SPECIFICATION Spec` | nothing removes a key from the cache after a reset (`exam.go:771`) |
| `SetupLivesItsTime` (`SignIn`) | `MCSignIn_signin.cfg` | the timer of an older setup deletes a newer entry (`totp.go:92`) |
| `VoicesGoWithModel` (`Models`) | `MCModels_models.cfg` with `SPECIFICATION Spec`, `Handlers = {h1}` and `MaxFaults = 0` | the loop over a model's voices ends at a preset, which cannot be deleted (`model_crud.go:1308`) |
| `FilesGone` (`Channels`) | `MCChannels_channels.cfg` | the row that names the user's own storage is deleted before its files (`userdata.go:166-171`) |
| `DeletedStops` | `MCChannels_channels.cfg` | `disableChannels` has no case for Instagram (`channels.go:158`) |

Other observations. `DeleteUserS3Directory` (`userdata.go:273`)
resets the row of an account and leaves its reservations in Redis, and a late
commit or release of one takes its bytes from what has been reserved since.
`RewrapOrReset` (`masterkey.go:128`) clears the key before it deletes the data,
where the comment at `repository/mysql/security.go:244` has it cleared after: a
failure in between leaves data that no key opens.

## What is proved

For any users, quotas, sizes, keys, tokens, sessions, objects, jobs, goroutines,
failures and restarts. A property rarely is inductive; each item names what had to
be added to it and why. The theorems named `TypeCorrect` and the like are about
`TypeOK` together with what a handler has in hand at each label, without which the
types themselves are not inductive.

Reservations (`ReservationProofs`):

- `LedgerWithinQuota`: `LedgerSpec => [](LedgerTypeOK /\ QuotaBound)`.
  The bound is inductive together with the types; it needs the order of the
  three tests in `Exceeds`, since the subtractions are on unsigned columns.
- `TypeCorrect`: `Spec => []TypeOK`. One lemma per group of actions, over lemmas for
  the building blocks `Move`, `Goto`, `ReleaseIgnored` and `DeleteIgnored`.
- `ImplementsLedger`: `Spec => LedgerSpec`. The variables of the ledger are
  variables of `Reservation`, so the refinement mapping is the identity, and the
  proof shows that each action is a ledger statement or leaves the row alone.
  With it `WithinQuota` follows from `LedgerWithinQuota`.
- `RetriesShareReservation`: `Spec => []ClientsSeeOneReservation`.
  The property says nothing of handlers between reading a key and answering, so
  the invariant follows ids through them: an id about to be saved is known to
  nobody else (`Fresh`), every id in use was drawn (`Known`), and whoever learnt
  an id or will hand it out finds the key pointing at it while its record lives
  (`HandlersKnow`, `HandedPinned`). It rests on keys outliving records, which is
  the order of the two Redis writes and their equal TTL.
- `RecordsAreHeld`, `LiveAreBacked`: `Spec => []RecordsHeld` and its part `LiveRecordsBacked`. That live reservations are
  backed is not inductive: a record may be evicted while a handler still holds its id and
  will settle it. `BytesBacked` therefore speaks of all ids that were granted and not
  settled: some `g` tells the user and size each was granted for, whoever may still settle
  an id knows it as `g` does (`GrantedAs`), and the reserved bytes of an undisturbed user
  cover what `g` says he is owed (`Backed`). The sums are cardinalities of sets of numbered
  bytes (`Bytes`), so that no fold over a set has to be reasoned about. For the other two
  parts, `Drawn` says that an id not yet saved is neither the tick's nor settled, and
  `Tidy`, until the first failure, that no error path is taken and that whoever drops an id
  has handed it out or deleted its record.

The MasterKey (`MasterKeyProofs`):

- `TypeCorrect`: `Spec => []TypeOK`. A creation may find the cache empty or in other
  hands between `Generate` and `GetKey`, and must have a key when it saves.
- `KeysStayHeld`: `Spec => []NoKeyIsLost`. The property looks at the row and the data
  only; what they hold next comes from the cache and from the handlers, so the
  invariant `AllHeld` asks of every key there too that the user or a creation still
  to answer has it. A creation must then not give up between saving its key and
  answering. The one way it could is an empty cache at `GetKey`, and no step but a
  restart empties the cache. Like the property it holds until the first failed call
  or restart (`Untroubled`).
- `OnlySavedKeyEncrypts`: `CarefulSpec => EncryptsUnderSavedKey`, an action property,
  whatever fails. A re-encryption takes its key from the row it saved steps earlier, and
  between the two only another key operation could change the row. `InOrder` says that
  there is none (`OneOperation`), that the others rest while a key is given up
  (`Deserted`), and what the row and the cache hold at each label (`RowsFit`).
- `AccountFits`: `CarefulSpec => []KeyFitsAccount`. To `InOrder` the invariant `InStep`
  adds, until the first failed call or restart, that the password and the keys in hand
  are the ones in use (`UsesFit`), that the stored password opens the row (`RowOpens`),
  and that data is under a key in use (`DataInUse`). A login reads the row and later
  fills the cache, and is safe because no key is given up while it is under way.

Accounts (`AccountProofs`):

- `AccountTypeCorrect`: `Spec => []TypeOK`.
- `OneMailOneAccount`: `Spec => []OneAccountPerMail`: whatever mail a registration's body
  has, one account with an `EmailHash` answers to a mail and one without. A registration, a
  migration and a reset each write a row; the only check is the unique index, which a
  migration must pass too.
- `MigrationFinalized`: `Spec => []FinalizeNotForgotten`. Inductive with the types; the
  work is in `LastOneChecks`: the update that leaves no legacy account is the one that
  sets the check going or loses its answer, and (`ChecksEnd`) a check that sees the table
  without legacy accounts changes the column or fails.
- `PasswordKept`: `OneTabSpec => []PasswordIsLatest`, whatever fails before or after a write
  and whatever mail a reset names. The password is written by handlers and by goroutines
  that learnt it long before. The invariant `PassInv` says that keys match (`KeysMatch`), so
  that what is written is what was typed (`TypedIsSent`), and that a migration about to
  write has the stored password unless a reset of the account came in between
  (`MovesNothing`). It needs one account with a hash per mail.

Signing in (`SignInProofs`):

- `TypeCorrect`: `Spec => []TypeOK`.
- `LoginIsTicket`: `Spec => OneEntryPerLogin`, the refinement of `Tickets` by `TicketOf`.
  A step of `SignIn` takes, honours or drops at most one ticket or stutters; the
  invariant `OnePlace` says that a login is in one place: not begun, waiting, in the
  hands of one handler, or answered.
- `FactorUsable`: `CarefulSpec => []SecondFactorUsable`. A secret reaches the table only
  from a handler whose code was right, and a right code was typed (`proved`).
- `SessionKept`: `Spec => []SessionSurvives`. `CookieInv` follows the next token to the
  browser: unless it was issued again in its second, nobody else carries it and no blacklist
  has it (`Carried`), tokens not issued yet are untouched (`Unissued`), and a token rotated
  away that the browser still has is covered by an answer on its way (`Covered`).

Test sessions (`TestSessionProofs`):

- `SessionTypeCorrect`: `Spec => []TypeOK`. A channel has the name of the session it was
  made for, and types need that a session with a channel keeps it (`UsedOK`), so that
  no channel is made twice.
- `StatusIsLast`: `Spec => []StatusLast`. `PumpsOK`: a pump ends with empty hands and,
  while the client is there, only on a channel that is closed and empty, and the
  handler looks at the pump before it looks at its buffer. A closed channel stays
  closed and, when empty, empty (`ClosedStays`).
- `AnswersAreInOrder`: `Spec => []AnswersInOrder`. The five stages between core and client
  (`Stages`: `sendBuffer`, `messageBuffer`, the pump's hand, the channel, and the questions
  waiting in it) are one line of rising answers, none above the last one asked
  (`LinesOK`). Lemmas about such lines say what a step can do to one: take its first
  (`TakeFirst`), put one after its last (`PutLast`), move the first of a stage to the end of
  the next (`PassOn`), or have a socket join a channel (`JoinLine`); dropping an answer at a
  full `sendBuffer` leaves a line. `AnswersPrecedeStatus` is this with `StatusIsLast`.
- `HelpersAreReleased`, `VoicesAreReleased`: `Spec => []HelpersReleased` and
  `[]VoiceReleased`, together `GoroutinesAreReleased`: the safety of what `GoroutinesEnd`
  promises. A pump, a sender or a reader that outlives its handler's loop has been told to
  end, by `done`, by the close of `sendBuffer` or by the connection, and the sender of a
  voice call by the core's channels or the ping. Both are inductive with the types, once
  steps of dialogs are known to leave calls alone (`SpeechSame`).
- `SessionsAreHeld`: `Spec => []SessionsHeld`, for any overlap of starts, stops, sockets and
  the cleanup. A step that takes an entry out of the map either holds that very session or
  puts it on record in `displaced`; to that `EndOK` adds that the context is cancelled before
  the entry is deleted and that a session found closed stays closed.

Migration (`MigrationProofs`):

- `MigrationTypeCorrect`: `Spec => []TypeOK`.
- `NothingIsLost`, `ObjectsStayVisible`: `Spec => []NoObjectLost` and `[]ObjectsVisible`, by
  one invariant `Calm`, which is claimed while no lock expired under its holder and no run
  got the lock for a stale job or pair (`Regular`). It says for a run at each label between
  lock and release (`Holds`) that the lock is its own, that up to the switch its source is
  the backend of the row and its listing has all the user should see, that what it has
  copied (`Copied`) is in the other backend, and that what it cleans is not looked for where
  it is cleaned; and that the manifest of a job that is not at work is empty (`Manifests`),
  without which a run could take verified keys of an earlier run for its own. Uploads and
  deletions by the stale entry, cancelled, failed and repeated jobs all go through it.
  `Irregular`: what is irregular stays so, so a regular state has a regular past.

Channels (`ChannelProofs`):

- `ChannelTypeCorrect`: `Spec => []TypeOK`.
- `WhatRowsSayIsTrue`: `CarefulSpec => []RowsAreTrue`. A bot that is as its row says once
  nothing is under way is not inductive: `Agrees` adds what each party is about to say, that
  a goroutine of `stopChannel` will tell what the row has, and that a channel a handler is to
  switch off or to start is still off or on in the row, or was before the end of the
  subscription or the account switched it off there alone (`Told`). For the files, `Erased`:
  once the rows are gone, no upload is under way and the configuration says internal, so that
  the storage emptied is the one that is asked about.
- `MarkedAreSwitchedOff`: `Spec => []MarkedIsSwitchedOff`, the safety of
  `ExpiredIsSwitchedOff`, for any interleaving and without the condition on requests. A user
  is marked after the goroutine that clears the channels has been started, so `MarkedOK`
  says the same of the users the scheduler holds in between (`checked`), and that those
  have reached the end or are gone. Demo accounts are never marked.

Calls, notices, configuration (`ServiceProofs`):

- `CallsReachable`: `CallSpec => []CallReachable`. With `CallsStarted`: whoever asks about a
  call, the map and the clients know only calls that were started.
- `SettingsAreKept`: `NoticeSpec => []SettingsKept`. A request that saw the row was right,
  since rows are never deleted, and nothing is switched on before the first row.
- `NoticesOnce`: `NoticeSpec => []NoticeOnceToOwner`. A notice is in one place
  (`InOnePlace`): the channel, one socket's hand, or what one socket has passed on; and
  numbers are not used twice (`Numbered`).
- `TableAlwaysOpens`, `KeysLiveAsLongAsTheyShould`: `ConfSpec => []TableOpens` and
  `[]KeyLifetimes` (from `KeysOutlive` and `RetiredNeverBack`), by one invariant `ConfInv`: the
  process runs on the key the table is under (`OneMasterKey`), a request writes the keys
  of its kind and clears the session first (`AdminOK`), the email key is made once
  (`EmailOK`), the table has the youngest pair and a process that was not up when one was
  generated, cached or about to be cached, knows no other (`PairOK`), and
  session and service keys are never the same nor used again (`RetireOK`).

- `GatewayTypeCorrect`: `GatewaySpec => []GatewayTypeOK`, from these invariants, that of
  the relays and the room of the channel. Each part's step leaves the others alone, so a
  step of `MCGateways` is a step or a stutter of every part.

Models (`ServiceProofs`):

- `ModelsTypeCorrect`: `Spec => []TypeOK`, with what a handler has in hand at each label
  (`WorkOK`).
- `NoVoiceStrays`, `RowsNameWhatExists`: `CarefulSpec => []NoStrayVoice` and
  `[]RowNamesWhatExists`. That a living voice is in the row, excused or in some handler's
  hands is not inductive: a handler may have in hand what it will do nothing about.
  `Cared` demands that a handler is `Obliged` to the voice: to put it into the row, to delete
  it or to report that it could not. `Spared` says that no handler is obliged to delete what
  the row names, `Sole` that a voice on its way into the row is known to its own handler
  only, and `Made` that whatever a handler knows has been made, so that a new voice is
  nobody's. For the files, `FileInv`: one that waits to be added is stored where it was
  uploaded, waits once and is in no row, so that neither a second addition nor the deletion
  of a model can take it away; and an addition to another provider's model, or with a changed
  id (`FullId`), is on record in `misfiled`. Both parts need that a row is written as it was read
  (`Careful`).

### Assumptions

The named `ASSUME`s of the modules, which TLC evaluates in every run: bounds are
naturals, quotas are naturals and sizes positive, `Buffer` is positive, the null values
and marks (`None`, `NoKey`, `Free`, ...) are not members of their sets, voices are not
files, the legacy
account and its secret are among the users and secrets, the administrator's handlers
are among the four the code has and `MaxGen` is at least 2 (a first start generates
two keys).

Some theorems have a hypothesis on behaviour, the one the runs make, because without it
the code does otherwise:

- `OneTabSpec` of `Account`: one tab per browser (for `PasswordKept` alone);
- `CarefulSpec` of `MasterKey`: one key operation at a time; a rewrap is under the password
  in use and a reset with the raw key in use, or else the key is given up, while nothing
  else is under way; nothing is saved while the cache holds a key that was given up;
- `CarefulSpec` of `SignIn`: one settings page at a time;
- `CarefulSpec` of `Channels`: one request at a time changes a channel, and an account is
  deleted when its uploads are done (`FairSpec`, which the run checks, implies it);
- `CarefulSpec` of `Models`: what a handler or a page has read of a model is still so when
  it is written, unless the model is gone; a page is saved with voices that exist and that
  no handler is about to delete; a model has one voice.

Others except in the property itself what the code does otherwise (`raced`, `failed`, `again`,
`displaced`, `Regular`, `misfiled`, `drift`, `kept`, `lapsed`); "What the runs check" says for
each where in the code that happens.

### Only model-checked

`StuckQuotaReleased`, `ExpiredIsSwitchedOff`, `GoroutinesEnd` and `RelayEnds`, since
liveness under fairness is out of the prover's reach, and so is what a recursive
definition computes for every input. What two of them promise at every moment is proved
(`MarkedAreSwitchedOff`, `GoroutinesAreReleased`); that it then happens is TLC's.
## What is not modelled

- The construction of the parts and the order of the shutdown (`app.go`): the shutdown
  waits for the log bus and the modules, and a five-second timer closes the database
  channel under whoever still uses it (`app.go:77`).
- Widget handlers that no route leads to (`widget.go:275-707`), and handlers that pass
  one call to one SQL statement: dialogs, embeddings, services, operators, user data.
- The refresh of Google tokens in `cron.go`, the other jobs' messages, mail and the
  administrator's notifier: I/O and formatting.
- MCP dispatch, metrics, profiler, Swagger (`docs.go`), generated gRPC code: stateless
  or generated.
- The MinIO client, STS sessions and the probe behind the operations of the backends.

### Further hazards without a property

These are in the code and in no property; most are modelled as far as their steps go.

- A creation of a MasterKey that fails at one of nine kinds of data returns an error
  and never shows the raw key, which the row already holds (`masterkey.go:77`); an API
  key saved between the listing and the update of `EncryptUserAPIKeysWSS` is
  overwritten (`api_keys.go:69`).
- `Exam.regData` is a plain map that concurrent handlers read, write and delete
  (`exam.go:168`, `315`, `318`): the runtime may stop the process. The same map gives a
  second tab's key to the first tab's password.
- Presigning that fails for an idempotent retry releases the reservation the first
  client uses (`http/storage.go:395`); one idempotency key with two file names gives
  two object keys under one reservation (`378`).
- A job of a migration left running by a crash is never listed again; a cancelled one
  may return to running (`migration.go:259`). Two requests may both count no active
  job (`mysql/storage.go:237`).
- A file uploaded to one provider is added to whichever model is active by then
  (`model_crud.go:918`), and an id without `file-` is changed (`mysql/model.go:175`).
- `RefreshToken` writes a 401 when the MasterKey's TTL cannot be renewed and goes on
  without `return`, so the new cookie is lost (`http/auth.go:405`).
- A start of a call whose answer is lost leaves it running on the backend, in no map
  (`calls_proxy.go:87`). `DeleteNotificationsChannel` decides that no channel is left
  by the Telegram number, not by its switch (`notifications.go:298`).
- `helperWidgetKeys` reads and writes its cache without a lock (`server.go:316`). A lost
  answer to the write of a new service key means that nothing restarts and the old
  one is accepted until something does (`dev.go:402`); `RetiredStaysRetired` is about
  answers that arrived.
- `bodyBytes` is shadowed in `proxyCRMRequest`, `proxyCRMPublicRequest` and
  `proxyAvitoRequest`, so request bodies are dropped (`crm.go:48`, `247`, `avito.go:69`).
- Bots: 35 s pass between the check that no channel is enabled and the deletion of the
  rows (`userdata.go:128`); a call that times out may still be carried out
  (`channels.go:508`): `RowsAreTrue` excepts the second (`drift`).

### Plan

Every invariant the runs check is proved; liveness stays with TLC. Of the code, the
shutdown and a liveness run of `Migration` for a job that a crash leaves running are
left.
