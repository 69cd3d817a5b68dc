# A formal model of the 2FA vault

The program is a self-hosted manager of TOTP secrets and accounts. A Go server with
one SQLite database (`internal/`, `cmd/server`) keeps each user's encrypted records,
numbers every write and arbitrates concurrent ones; a Chromium extension
(`apps/extension`) holds a copy of the records on each device, lets the user edit it
offline and synchronises it; an administrator works through a small web application
(`apps/admin`).

This directory holds TLA+ modules of the parts where order, concurrency and failure
matter, TLC runs over small instances, and TLAPS proofs for all instances.
`PROJECT.json` lists components, runs, mutants, the source lines of each
definition, findings, hazards and theorems.

## 1. The system

| Component | State | Operations | Interacts with | Module |
|---|---|---|---|---|
| **Record store** (`internal/storage/sqlite.go`, `handlers.go`) | per user: `vaults.seq`; rows of `items`, `groups`, `accounts`, `relations`, each with `rev`, `seq`, `deleted`, `updated_at` | `GetOrCreateVault`, `PullRecords`, `PushRecords` | devices, by HTTP requests; everything else through the one database connection | VaultStore |
| **Device synchronisation** (`utils/sync.ts`, `App.tsx`, `utils/storage.ts`) | IndexedDB records; `lastSyncSeq` in `chrome.storage`; what one `runSync` holds in memory | pull loop, merges, push, answers, conflicts; save, delete and remove by the user | the record store; the user's handlers write the same IndexedDB between any two awaits | DeviceSync |
| **Sessions and devices** (`internal/auth`, `handlers.go`) | tables `sessions`, `devices`, `users.disabled`; the clock | login, `ValidateSession` (renewal, expiry, revocation), logout, register, revoke, disable, enable | every authenticated request begins with it | Sessions |
| **Envelope** (`sqlite.go` 604-644, `sync.ts` 620-687) | `vaults.envelope`, `envelope_rev`; a device's `vaultEnvelope` | compare-and-set of the wrapped data key; first-device bootstrap | `runSync`, lock state | Connection |
| **Connection** (`remote-config-storage.ts`, `sync-config.ts`, `App.tsx`) | the stored `RemoteConfig`: token, device id, reason, status | connect, re-login, reconnect, disconnect, the end of a sync | device synchronisation, sessions | Connection |
| **Projection** (`sync.ts` 317-564) | account and relation records derived from items | `runProjection` between pull and push | device synchronisation, the administrator's view | Projection |
| **Lock state** (`background.ts`, `crypto.ts`, `App.tsx`) | the worker's password, keys and clock; `wrappedSyncPassword` and settings in `chrome.storage`; the wrapping key in IndexedDB; the panels | `GET_STATE`, `UNLOCK`, `LOCK`, `PING`, the alarm, setup and reset | panels, envelope | LockState |
| **Administration** (`apps/admin`, `handlers.go`) | what a page shows and has asked; users, sessions, devices on the server | setup, login, list, drawer, disable, enable, revoke | sessions, users | Admin |
| **First administrator, registration** (`handlers.go`, `cmd/server`) | table `users` | set up, bootstrap, register | administration | Admin |
| **Audit log, lists** (`sqlite.go` 1270-1366) | append-only log | write, paged reading | administrator | - |
| **Rate limiter** (`ratelimit.go`) | a token bucket per address | `allow` | every request to some routes | - |
| TOTP, age, WebCrypto, API client, rendering, configuration, routing | none of the protocol | pure computation or I/O | | - |

What is hard in it, and what correctness means there:

* *Record store.* The connection is unique (`SetMaxOpenConns(1)`), so statements are
  atomic, but a pull is many statements and no transaction, and a push is one
  transaction that may fail half way. Correct: seq identifies the last write of a
  record and grows; a cursor never passes a write its device lacks; a push happens at
  one moment or not at all, and is answered truthfully; nobody keeps the connection.
* *Device synchronisation.* Everything `runSync` writes back was read before an await.
  Correct: revs and seqs come only from the server; newer content is never replaced by
  older, and in particular a deletion is not undone; a change waits until it is
  pushed; the cursor does not move back.
* *Sessions.* `ValidateSession` reads four things in four statements and then writes.
  Correct: an ended session never returns; no renewal passes the absolute expiry; a
  session is bound to its own user's device; a revoked device and a disabled user are
  not served.
* *Connection and envelope.* A sync ends with a configuration that was read when it
  began; several devices may find no envelope. Correct: the envelope is written once;
  a device without a token knows why; whatever happened, the user's next steps lead
  back to a connection that works, with the vault's envelope.
* *Projection.* Each device derives the same records for itself, from items of which
  the server has dropped a field. Correct: the derived records come to agree with the
  items; the date a user entered is not replaced by another.
* *Lock state.* Handlers stop at awaits, the browser stops the worker. Correct: what
  the user chose about saving the password is kept, a manual lock leaves no
  password behind, the worker's password opens the stored envelope, and it locks.
* *Administration.* Answers are shown when they arrive. Correct: the drawer shows its
  user's devices and nobody's device is revoked in another's name; setup is open to
  the first only; every administrator gets in.

## 2. Modules

```
VaultRecords      rows, inputs, what a push does with one input, what a page is
  PushBatch       a whole push as one recursive function
    PushBatchProofs    facts about a whole push, by induction over its inputs
    AtomicVault   the promise: a push takes effect at one moment
    DeviceSync    runSync on several devices, users editing meanwhile
      DeviceSyncProofs TLAPS proofs (with PushBatchProofs)
  VaultStore      pulls and pushes statement by statement on one connection;
                  PushIsAtomic states that it implements AtomicVault
    VaultStoreProofs   TLAPS proofs (with PushBatchProofs), that refinement among them
    MCVaultStore       VaultStore instantiated
Sessions          auth.Service and the handlers that begin with it
  SessionsProofs    TLAPS proofs
EnvelopeRegister  the promise: an envelope is written once
Connection        configuration, envelope and the outcome of syncs on several devices
  ConnectionProofs  TLAPS proofs, the refinement of EnvelopeRegister among them
  MCConnection      Connection instantiated
Projection        accounts and relations derived from items
  ProjectionProofs  TLAPS proofs
LockState         the service worker, chrome.storage and the panels
  LockStateProofs   TLAPS proofs
Admin             the administrators' pages and the endpoints they use
  AdminProofs       TLAPS proofs
MCDeviceSync, MCSessions, MCProjection, MCLockState, MCAdmin   instances for TLC
```

The modules meet where one takes a result of another as a step: `PushIsAtomic` allows
DeviceSync and Projection to push in one step; Connection takes a pull and push as one
step, because its properties are about keys and tokens; Sessions justifies that a
request of Admin or Connection is refused exactly if its session or device is gone when
it is served.

Operators that a mutant replaces are preceded by the mutant, marked `Mutant:`. No action
of a specification uses them.

### VaultRecords, VaultStore

A *row* is a row of any of the four tables: `PushRecords` has the same loop four times.
`rev = 0` stands for "no such row"; `body` is all that the server stores without
reading. A vault belongs to one user and every statement filters on `user_id`, so one
vault is modelled.

Each SQL statement outside a transaction is an action guarded by `ConnectionFree`.
`GetOrCreateVault` is `FindVault`, `InsertVault` (`INSERT OR IGNORE`), `FindVaultAgain`;
`PullRecords` is `QueryRefs`, one `FetchRecord` per ref, `ReadMore`; `PushRecords` is
`BeginTx`, one `ApplyNext` or `RejectNext` per input, `Commit`, or `Rollback` at any
point of it. `tx` is the transaction's own view. A reader is a device with nothing to
push: `StartSync`, `SavePage`, `SaveLastPage` are runSync's loop, `mark` and `cursor`
the two places lastSyncSeq lives in, and `StopWhileSaving` a panel closed between the
saves of a page. A writer sends arbitrary batches, so that the store is checked against
more than `runSync` would send.

### DeviceSync

`local` is IndexedDB, `seen` what `runSync` read from it, `page` and `answer` the
server's answers, `mark` lastSyncSeq in memory. Between any two of `ReadLocal`,
`SaveMerged`, `ListUnsynced`, `Push`, `SaveAnswer`, `StoreNext` the user's actions
(`OpenForm`, `SaveForm`, `ConfirmDelete`, `RemoveLocally`) and other devices may run.
`OpenForm` keeps the rev the panel shows, `SaveForm` writes that rev back. `SyncStops`
is every early end: an error, a lost answer (the push has happened), a closed panel
with only some kinds of records saved. A push is one step, which `PushIsAtomic` allows;
a pull is two, `QueryRefs` and `FetchRows`, because its refs and rows are read at
different moments. (VaultStore fetches row by row. Here the rows are read together.)
`TakesRemote` and `MergeRow` are the four merge functions.

### Sessions

Each statement of `ValidateSession` is an action of a request `c`, whose record
`call[c]` holds what the request has read (`row`, `now`). After it the request does
one of: nothing to sessions (`Use`), `Logout`, `RegisterDevice` (a transaction, hence one
step), `RevokeDevice`. Logins, the administrator's actions and `Abort` (a failing
statement) interleave. Stored times are cut to the second (`Stored`). `wasRevoked` and
`sawEnabled` are history: they are read by the property `OutStaysOut` and by no guard.

### Connection, EnvelopeRegister

`stored[d]` is chrome.storage (`vaultEnvelope`, `remoteConfig`), `panel[d]` what App.tsx
has in its state, `sync[d]` one `runSync` with the configuration and, during an upload,
the envelope it holds. `GetVault` has the branches of runSync 620-687; `PutEnvelope` is
the upload together with `UpdateVaultEnvelope`, and `heard` says whether its answer
arrives. `Judgement` is `requireAuth` and what `classifySyncError` makes of it.
`ExpireRemoteCredentials`, `RestoreRemoteCredentials`, `Loaded` and `SaveConfig` are the
functions of the two utility files, `EndSync` is the second half of `syncVault`. The
user's handlers are named after the code's; `DisconnectRefused` is the one way on from
the re-login form for a user whose device the server refuses. What goes wrong is bounded
by `MaxFaults` and may only happen to the devices of `Troubled`. A token and the device
registered with it share a number; a number nothing refers to is used again, as random
ids may as well be.

EnvelopeRegister is the abstract specification: a register written once, and what each
device was told last. `Connection!EnvelopeIsWrittenOnce` maps the server's `envelope`
and the ghost `told` to it; `told` is set by the actions that answer a request and read
by no guard.

### Projection

An item, its account and one relation, on the server and on each device. `waiting` is
`seq = 0`, `current` whether the rev is the server's. Item bodies carry what the merge,
the projection and the properties tell apart: which edit, whether it names what the
relation is for, and which date. `Pull` merges a page, `ListItems` reads the items,
`RunProjection` derives from what was listed, `Push` and `SaveAnswer` follow; a sync may
stop between any two (`SyncStops`), or before all kinds are saved (`PullStops`).
`ProjectedRelation` is a set of results, since whether a pulled relation's dates differ
from the item's depends on the second it was pushed in.

### LockState

`worker` is the global state of background.ts, `stored` chrome.storage, `keys` the
`keys` store of IndexedDB, `call[p]` a panel's message and the await at which its handler
is: `UNLOCK` is `ReceiveUnlock`, `Verify`, then `GetWrappingKey` and `WriteWrapped` or
`RemoveWrapped` and `WriteRequired`, then `FinishUnlock`; `GET_STATE` is
`ReceiveGetState`, `UseSettings`, `Unwrap`. Other handlers run in between. `WorkerStops`
clears the worker and answers who waited with undefined. `overlapped` and `mayHold` are
history: several properties are not promised, and do not hold, when two handlers
overlap (a lock that arrives while an unlock is awaiting the browser is undone by it).

### Admin

`page[p]` holds the React state of App.tsx that decides anything, `request[p]` the
requests in flight with what their closures captured (`selected`). The setup is three
statements (`CountUsers`, `CreateUser`, `CreateSession`); other requests are served in
one step. `Reload` and `HandleLogout` leave requests behind whose answers nobody hears.
`Scenarios` bounds a behaviour: who has an account at the start (`bootstrapAdmin`), which
pages are used, how many actions of the administrator's own accord and how many
failures there are.

## 3. What the runs check

| Run | Configuration | Properties |
|---|---|---|
| `vault_store` | 1 reader, 2 writers, 2 records, pages of 1 | `TypeOK`, `SeqsStampWrites`, `CursorMissesNothing`, `AnswersAreCommitted`, `RecordsMoveForward` |
| `vault_live` | 1 reader, 1 writer, batches of two, with fairness | `CallsEnd`, `PushIsAtomic` (VaultStore implements AtomicVault) |
| `device_sync` | 2 devices, 1 record, clock finer than a second | `TypeOK`, `VersionsComeFromServer`, `NewestWriteWins`, `CursorOnlyAdvances` |
| `sessions` | 2 users, 1 device, 2 sessions, 2 requests at once, a moving clock | `TypeOK`, `LifetimeIsCapped`, `BoundDevicesAreOwned`, `OutStaysOut`, `EndedSessionsStayEnded` |
| `lock` | 2 panels, 2 passwords, 4 messages, one reset, with fairness | `TypeOK`, `OptOutIsKept`, `ManualLockForgets`, `MinutesInForce`, `PasswordOpensVault`, `LeftAloneItLocks` |
| `connection` | 2 devices, 2 passwords, 1 record, 2 faults, with fairness | `TypeOK`, `CredentialsAreExplained`, `EnvelopeIsWrittenOnce` (implements EnvelopeRegister), `Recovers` |
| `projection` | 2 devices, 2 edits, one upset, with fairness | `TypeOK`, `CreationDateIsKept`, `AccountsFollowItems` |
| `admin` | 2 pages and users, 1 device, 4 scenarios, with fairness | `TypeOK`, `SetupIsClosed`, `DrawerShowsItsUser`, `RevokedInOwnersName`, `AdminsGetIn` |

Four further runs check what a document says and the code does not do; TLC finds the
counterexample each time:

| Run | Property | What happens |
|---|---|---|
| `cursor_skips` | `CursorCoversReceived` | After a push `runSync` stores the vault's seq as its cursor (`sync.ts:999`), and so passes records other devices pushed since its pull. It never receives them unless they change again. |
| `edits_lost` | `EditsAreNotLost` | An edit saved during an await is overwritten by what the sync had read before it (`sync.ts:712`, `:879`); a merge that keeps a newer local edit gives it the remote's seq (`sync.ts:92`), so that it is never pushed. |
| `records_orphaned` | `RecordsUseVaultKey` | A device that loses the race for the envelope goes on with its own data key (`sync.ts:662`), and one set up before it connected pushes what it had encrypted under its old key: the vault holds records its envelope does not open. |
| `panels_stay_open` | `PanelsLockToo` | The auto-lock empties the worker (`background.ts:62`) and tells no panel. |

`NewestWriteWins` speaks of `updated_at`, as the merges do. The server stamps the moment
of the push and not that of the edit; so "newest" is what the system's own clock calls
newest.

### Bounds

* `MaxSeq`, `MaxBatch` (VaultStore): a push is sent only if its inputs cannot pass
  `MaxSeq`. With two writes over two records and pages of one, a pull meets a page
  that is not the last, a record that moves between its ref and its row, one that
  moves past the page, and a vault that two calls create; two writers give conflicts,
  and batches of two (`VaultLive.cfg`) name a record twice and are rolled back between
  their inputs. Longer histories add nothing the proofs of section 4 do not cover for
  every bound.
* `MaxEdits`, `MaxRemovals`, `MaxTime` (DeviceSync): three edits are enough for a
  create, a concurrent edit on each side and a deletion; two devices give every
  conflict; the clock of `DeviceSync.cfg` has two ticks to a second, so that the
  server's truncation decides merges. One of the three may remove the record from one
  device only; the runs that look for lost edits and skipped records do without.
* `MaxTime` (Sessions): TTL 5 in a lifetime of 6, a clock that reaches 5 and has two
  ticks to a second, so that the first expiry is cut to 4 and a renewal is cut off by
  the absolute expiry. A session that is not renewed expires within the run; one renewed
  up to its absolute expiry outlives the clock, and would be refused by the same
  comparison. Two users for one device give every question of ownership. The proofs
  cover any other sizes.
* Connection: two faults are a session that ends and a device that is revoked, an
  upload whose answer is lost and a reset, and every other pair; three data keys are
  one for each device and one for a second setup; four ids never run out (an id is
  free unless a configuration has it). Faults strike one device: the other is the
  witness that there is another one.
* Projection: two edits are a creation and one change, deletion or revival from either
  device, and every edit may be projected by both; one upset is a removal or a sync
  that stops.
* LockState: four messages are a setup or unlock, and any two more of both panels,
  with a reset between them; minutes go up to two, which tells a changed auto-lock
  time from the default.
* Admin: a fresh server that two administrators find at once, with two failures or one
  action of their own; a server in use with one administrator, two actions and one
  failure, or three actions. Page 1 has two requests in flight, so that answers
  overtake each other. One revocation is in flight at a time. Deadlock is not checked:
  when every bound is used up and everybody is in, nothing is left to do.
* Symmetry is used for runs without liveness only, over sets whose members are
  interchangeable.

### Fairness

* *VaultStore:* a handler goes on once it can (weak fairness); a statement that waits
  for the connection gets it eventually however often others take it in between (strong
  fairness: `database/sql` serves waiters in order). `CallsEnd` rests on the writes
  being finite in number, which the bounds make them: with an endless stream of other
  devices' pushes the pull loop need not end, in the model or in the code.
* *LockState:* a handler that can go on does, answers arrive, minutes pass and the alarm
  goes off. Nothing is assumed of users or of the browser stopping the worker. A handler
  that waits for a wrapping key which is never stored is allowed to wait for ever.
* *Connection:* a sync that has begun goes on (weak), and a user who wants the device
  synchronised takes a step the panel offers (weak, over all of them: set up, unlock,
  connect, log in again, reconnect, disconnect when refused, synchronise). This second
  assumption is about the user and not about code: `Recovers` means that the way back
  the panel offers leads back.
* *Projection:* every device goes on synchronising (strong, since syncs exclude each
  other in the model).
* *Admin:* requests are served and answers arrive or fail (weak, per request), and an
  administrator uses the form that is shown, looks at the page now and then, and logs
  out when told that the session is not accepted (weak).

## 4. What is proved

Every invariant and every action property that a passing run checks, and both
refinements, are theorems: they hold for every value of the constants that the named
assumptions allow. Only the liveness properties are checked by TLC alone.

`PushBatchProofs` has the facts about a whole push that two components need. `Pushed` is a
recursive function of how many inputs have been looked at; the lemmas say that it exists
for every batch (`RunExists`), and that rows stay sound, records only move on and the
answer is true of the rows after any number of inputs (`PushedKeeps`, `PushAllSound`).
Induction is made with `NatSetInduction`: a set of numbers that holds 0 and each successor
holds all numbers, which follows from `<` being well-founded.

`VaultStoreProofs` proves for all sets of readers, writers, records and bodies, every
page limit and batch size (`NoRevAssumption`, `CallersAssumption`, `BoundsAssumption`
are the only assumptions; `MaxSeq` is any natural number):

* `TypeCorrect`: `Spec => []TypeOK`.
* `SeqsStampWritesAlways`: `Spec => []SeqsStampWrites`. Not inductive alone: a commit
  copies the transaction's view, so the view must be stamped too, and a transaction
  must be the only one. `StoreInv` adds `VaultCounted` (no rows without a vault; this
  is what `INSERT OR IGNORE` needs), `OneTransaction` (a caller at "push" is `conn`)
  and `TransactionOK` (the view is stamped, starts from the committed rows and only
  moved forward).
* `RecordsMoveForwardAlways`: the action property, from `StoreInv`: only `Commit`
  changes rows, and `TransactionOK` says what it may commit.
* `CursorMissesNothingAlways`: `Spec => []CursorMissesNothing`. `PullInv` says the
  same of each stage of the pull: `CursorOK` of the stored cursor, `MarkOK` of the
  cursor in memory, `PageOK` of the page being assembled: a record newer than the
  mark and not past the page's end is still to be fetched, or was fetched as it is
  now. A record that moves meanwhile gets a seq beyond the page's end, so that it
  drops out of what the page must cover: that is where `RecordsMoveForward` is used.
* `AnswersAreCommittedAlways`: `Spec => []AnswersAreCommitted`. `AnswerInv` says the same
  of a transaction under way: what it has noted is true of its own view (`NotesTrue`), and
  what it has still to look at was requested. A commit makes the view the vault; commits of
  others only move records forward, which leaves the notes true.
* `PushIsAtomicAlways`: `Spec => PushIsAtomic`, the refinement of AtomicVault. `RunInv` says
  that an open transaction is exactly `Pushed` of the committed vault and its own request
  after the inputs it has looked at; so what it commits is the one step `Push` of
  AtomicVault. Sending is `Send`, and taking an answer, failing and rolling back are
  `Finish`; every other statement is a stutter.

`DeviceSyncProofs` proves for all sets of devices, all finite sets of records and any page
limit, clock resolution and numbers of edits and removals (from `DeviceAssumption`,
`BodiesAssumption` and `NoRevAssumption`; a client lists finitely many records):

* `TypeCorrect`: `Spec => []TypeOK`.
* `VersionsAlwaysComeFromServer`: `Spec => []VersionsComeFromServer`. The property is about
  what is stored; the invariant `Inv` says the like of all that will be stored: the copies
  read before an await (`StoreOK` of `seen`), the rev of an open form (`FormOK`), the rows
  of a page (`PageOK`) and the revs and seqs of an answer (`ReplyOK`). Each was true of the
  server when it was read and the server only moves on, by `PushAllSound`.
* `NewestWriteAlwaysWins`: the action property. A write is applied only on the server's
  current rev; so `CopyOK` says of a record that waits to be pushed on that rev that it is
  not older than the server's, which the merges and the stale forms must not disturb.
* `CursorAlwaysAdvances`: the action property, from `CursorOK`, which orders the stored
  cursor, the mark in memory, the page's end and the answer's seq at each step of a sync.

`SessionsProofs` proves for all sets of users, devices, tokens and concurrent requests
and any lifetimes, clock resolution and `MaxTime` (from `NothingAssumption`,
`TimesAssumption` and `NoSessionAssumption`):

* `SessionTypes`: `Spec => []TypeOK`. `TypeInv` adds what a request at each step may
  rely on (`CallsOK`) and that a stored session has a token given out (`IssuedOK`).
* `BoundDevicesAreOwnedAlways` and `LifetimeIsCappedAlways`. A renewal writes a time
  computed from a row read earlier, and a registration binds a session to a device of
  the user read earlier. So `SessInv` adds `SameSession`: the session a request has read
  is, if it is still there, the one stored, with the same user and absolute expiry. This
  needs that no token is given out twice. `LoginOwned` says that a login goes on only
  with a device of its user, and `OwnersStay` that nobody loses one.
* `EndedSessionsStayEndedAlways`: the action property, from `SessionMoves`, which lists
  all that a step may do to a session.
* `OutStaysOutAlways`: from `OutInv`, which says at each statement of `ValidateSession`
  what the statements before it have found out, and `RevokedOwned`: only a device with
  an owner is revoked, so that no registration brings a revoked one back.

`ConnectionProofs` proves for all sets of devices, passwords and keys, any choice of
passwords and any bounds (from `ConnectionAssumption`):

* `ConnectionTypes`: `Spec => []TypeOK`. The inductive invariant `Inv` adds `DeviceOK`: an
  open panel has a password and a data key, and `SyncOK`: a sync in flight has an open panel
  and a token, what it is about to upload is an envelope, and it ends with
  "device_revoked" only if its device is revoked.
* `CredentialsAreExplainedAlways`: `Spec => []CredentialsAreExplained`. A sync may save the
  configuration it began with over a newer one, so `DeviceOK` says `Explained` of all three
  configurations of a device, the stored one, its panel's and its sync's. A new connection
  makes an id good again (`revoked \ {n}`); that is harmless because the id is fresh, that
  is, in none of the configurations.
* `EnvelopeIsWrittenOnceAlways`: `Spec => EnvelopeIsWrittenOnce`, the refinement of
  EnvelopeRegister, with the envelope and `told` mapped to themselves. `RegisterStep` shows
  each step to be one of `Get`, `Put` and `Forget` or a stutter; a `Put` needs `SyncOK`, since
  the register takes only envelopes.

`ProjectionProofs` proves for any devices, clocks, edits and upsets (from
`ProjectionAssumption`):

* `TypeCorrect`: `Spec => []TypeOK`, with `Inv`, since a merge is well typed only if it never
  meets a record that the server lacks.
* `CreationDateStays`: `Spec => []CreationDateIsKept`. The server drops an item's date, and
  what brings it back is an account. So `DatedOK` says that an item without its date has
  been to the server and its account with it, `ServerOK` that no item gets there before its
  account, and `AccountPulled` and `SyncOK` that a sync that has pulled has that account
  when it projects. `DatesKept` says that no other date is anywhere.

`LockStateProofs` proves for any panels, passwords, messages, resets and auto-lock times
(from `LockAssumption`): `TypeCorrect`, `OptOutKept`, `ManualLockForgetsAlways`,
`MinutesStayInForce` and `PasswordAlwaysOpensVault`. The five are one induction. `CallOK` is
what a handler has found out when it comes to a step; `AloneOK` is what a handler that is
alone relies on: that what it read is what is stored, unless the vault was reset behind its
back (`Outdated`). `ApartOK` is the properties, with what they need of each other.

`AdminProofs` proves for any pages, users, devices, owners and scenarios (from
`AdminAssumption`): `TypeCorrect`, `SetupStaysClosed`, `DrawerAlwaysShowsItsUser` and
`AlwaysRevokedInOwnersName`. `RequestOK` says that a setup sent when somebody had an account
is not past `CountUsers`, and that an answer has only devices of the user it was asked for;
`DrawerOK`, that no answer under way will show another user's devices in the drawer.

TLC checks every proved property on the small instances as well, and the inductive
invariants were checked by TLC before they were proved. Model-checked only: `CallsEnd`,
`LeftAloneItLocks`, `Recovers`, `AccountsFollowItems` and `AdminsGetIn`, which are liveness
under fairness and so rest on ENABLED, out of the prover's reach.

## 5. Not modelled, and observed on the way

* Content of records, encryption, the order of groups, import and export.
* Two panels of one browser: `syncInFlightRef` is per panel, so both may run `runSync`
  over one IndexedDB. DeviceSync runs one sync per device.
* Another server or user on the same device: `handleDeviceReconnect` keeps
  `lastSyncSeq`, so that the old cursor would skip records of the new vault.
* Clock skew: devices and server share one clock in DeviceSync and Projection. What goes
  wrong there goes wrong without skew.
* The audit log's pages, the rate limiter, statistics, routing and configuration, TOTP
  codes and the age format; the reasons are in `PROJECT.json`.

Seen while modelling, and not contradicted by a document, or only in part:

* `ValidateSession` deletes as expired a session that another request has renewed since
  it was read (`auth.go:157`). Two concurrent renewals may leave the earlier expiry.
* A login that read its user as enabled may create its session after the
  administrator's `DeleteSessionsByUser`; the session is refused while the user is
  disabled and works again afterwards.
* A newer local tombstone keeps its old rev after a conflict (`sync.ts:80`), and
  conflicts at every push until its date is overtaken.
* A device that was revoked after its session had expired is told that its password is
  wrong (`handlers.go:141`); only disconnecting helps.
* A reset does not tell the worker (`App.tsx:1511`), which keeps its password: the panel
  that reloads is then "unlocked" with no envelope, and shows neither form.
* Overlapping `UNLOCK`s of two panels may store the choice to be asked for the password
  and a saved password together, or undo a `LOCK` (`background.ts:159`, `:168`).
* Accounts pulled from the server have no `login_identifier_hash` where a new one has
  null, so that the comparison of `runProjection` finds a difference and pushes them
  again after every pull.
* The drawer shows another user's devices when their answer arrives late, and a
  revocation or a disabling opens it again with the user captured before
  (`apps/admin/src/App.tsx:536`, `:592`, `:612`).
* An administrator may disable themselves or every other one; nobody is left to enable
  them. Two concurrent setups may both succeed. A registration before the setup closes
  it for good, and the bootstrap, which counts users too, creates no administrator either.

## 6. Plan

1. *Done:* VaultRecords, VaultStore, AtomicVault; DeviceSync; Sessions; Connection with
   EnvelopeRegister; Projection; LockState; Admin; proofs of every safety and action
   property of each, and of both refinements.
2. Proofs next: that DeviceSync's pull in two steps is one of the pulls of VaultStore, as
   its push in one step is a push of VaultStore.
3. Modelling: two panels per device as a parameter of DeviceSync; the drawer's accounts
   and relations and the audit log's pages in Admin; the rate limiter.
