# A TLA+ model of the Lexe node and app

The Lexe node is a Lightning node that runs in an enclave, on a host that may
stop it at any time, and keeps its state in Lexe's backend and in the user's
Google Drive. An app on the user's phone holds the root seed, provisions the
node and keeps a copy of its payments. This directory models both, checks the
models with TLC and proves central parts of them with TLAPS.

What is modelled is the control of the code: every state change, guard, early
return and error path, in order. Data is abstracted to what the properties tell
apart: payloads are model values, keys and ciphertexts are symbols, durations
are small numbers. File names below are under `src/`; `PROJECT.json` maps every
definition to its lines and lists what can go wrong where (`hazards`).

## The system and its modules

Payments and the Lightning node:

| Part of the code | Module | What is hard |
|---|---|---|
| `lexe-ln/src/payments/{mod,inbound,outbound,onchain}.rs` | `Payments` | late and repeated inputs of a state machine |
| `payments/manager.rs`, payments table of `node/src/persister.rs` | `PaymentsManager` | check, persist, commit with failures, lost replies, crashes; locks released during I/O |
| what an app may rely on | `PaymentLifecycle` | abstract specification, implemented by `PaymentsManager` |
| `command.rs`, `event_handler.rs`, `background_processor.rs` | `LightningNode` | detached handlers, events lost or replayed by a crash, stale preflights |
| `event.rs`, `channel.rs`, `keys_manager.rs`, channel events of `event_handler.rs` | `Channels` | peers that disconnect while a handler waits; where the money of a closed channel goes |

Storage of the node:

| Part of the code | Module | What is hard |
|---|---|---|
| `channel_monitor.rs`, dual store of `node/src/persister.rs` | `ChannelMonitorPersister` | one of two stores fails, full queue, mutual waiting, roll-back |
| `gdrive/src/{gvfs,lexe_dir,api,models}.rs` | `GoogleVfs` | a cache that must be complete, lost replies, crashes during init |
| `gdrive/src/oauth2.rs`, credentials persister of `run.rs` | `GDriveCredentials` | tokens that expire under way, one refresh for many |
| `common/src/enclave.rs`, sealed seeds | `SealedSeeds` | who can unseal what, and where |
| `aes.rs`, `password.rs`, `root_seed.rs`, `lexe-ln/src/persister.rs` | `EncryptedFiles` | a storage that returns something else |
| `lexe-ln/src/wallet/` | `WalletDb` | write-back by a task that is notified through a bounded channel |

Services of the node:

| Part of the code | Module | What is hard |
|---|---|---|
| `run.rs`, `inactivity_timer.rs`, `shutdown.rs`, `task.rs` | `NodeSupervision` | a handle sees a shutdown once; tasks that end early or never |
| `sync.rs`, `notify.rs` | `ChainSync` | requests that arrive during a sync, dropped notifications |
| `p2p.rs` | `PeerConnections` | several actors dial one peer |
| `pay_onchain`, `esplora.rs` | `OnchainSends` | a chain that moves between two requests |
| fees of `esplora.rs`, preflight | `FeeEstimates` | missing estimates, refresh during a call |

API and app:

| Part of the code | Module | What is hard |
|---|---|---|
| `common/src/api/{error,def,rest,server}.rs`, the routers | `ApiErrors`, `ApiEndpoints`, `ApiCalls` | retries of what was done, overload, shutdown with requests under way |
| `common/src/api/auth.rs`, `client.rs` | `BearerAuth` | cached tokens and timestamps that age while callers queue |
| `common/src/tls/` | `TlsTrust` | which node a client can reach, expiring certificates, rotations |
| `approved_versions.rs`, `provision.rs` | `ApprovedVersions`, `Provisioning` | failure between two writes |
| `app-rs/src/{app,secret_store,storage}.rs` | `AppAccount` (composes the two above) | an app that stops anywhere |
| `app-rs/src/{payments,ffs}.rs` | `PaymentDbState`, `AppPaymentDb` | indexes, overlapping syncs, torn writes |
| `common/src/ln/amount.rs` | `Amounts`, `AmountOps` | boundaries of a u64, parts of a millisatoshi |
| `payment-uri/src/lib.rs` | `PaymentUri` | what one wallet displays and another parses |

### How the models are laid out

An action is a stretch of code between two awaits: the node runs on a
single-threaded runtime (`node/src/cli.rs`). Where code holds a lock across an
await, the model has a variable for the holder; where it releases the lock,
what it read before is kept in a variable, and may be stale when used.

In `PaymentsManager` an operation is three steps: it checks and starts its
request under the lock (`new_payment`, `payment_claimed`, ...), the backend
applies or refuses it, and the operation commits and unlocks, or gives up.
`check_onchain_confs` and `check_onchain_receives` release the lock between
reading ids and using them, and are split there. `Crash` forgets memory, `Boot`
is `PaymentsManager::new`. `LightningNode` composes the manager with commands,
event handler, background processor (BGP) and LDK; `cmDb` is the channel
manager that was persisted last and decides which events a crash replays.
`ChannelMonitorPersister` has the queue, the serial task, both stores, the
handshake with the BGP and the repairs at boot. `OnchainSends` uses the state
machine of `Payments` against a chain with its own steps. `AppAccount` extends
`Provisioning`, which extends `ApprovedVersions`, to follow an account from
signup through upgrades. `ApiCalls` takes routes and retries from
`ApiEndpoints` and the error codes from `ApiErrors`. `EncryptedFiles`,
`SealedSeeds` and `TlsTrust` are symbolic: a key opens what it sealed and
nothing else.

`Amounts` and `PaymentUri` are pure. `AmountOps` applies the operators of the
former to an amount in any order; those of the latter are compared with
reference definitions over all inputs within bounds. u64 is scaled down
(10 msat to a satoshi, parts of half a millisatoshi, at most 127 msat), with
the same relations between the limits. Texts are sequences of tokens.

### Assumptions

- LDK, BDK, Esplora, Google, Lexe's backend, runner and gateway are external,
  modelled from how the code uses them and what its comments rely on.
- The backend keys payments by id, refuses to create one twice, and applies a
  batch atomically.
- A request is applied, if ever, before its client gives up. A first attempt
  that lands after a later write is outside the models of the stores;
  `ApiCalls` has such attempts.
- Each payment hash has one HTLC. LDK generates the event of a completed claim
  without a persistable update; after a reload it delivers the events that the
  persisted channel manager still holds, and again that of a claim which the
  monitors know of.
- Detached handlers run in any order, which allows more than the runtime does.
- Clocks agree (`BearerAuth`, `GDriveCredentials`, `TlsTrust`). Processes
  restart within the lifetimes of their certificates; Intel's certificates
  outlive them.
- The prod environment uses a dummy CA for now (a TODO in `lexe_ca.rs`), so the
  separation of environments is checked between staging and dev.
- `AppAccount` signs up only with an empty secret store, as the app's UI does.
  Restoring an account is `todo!()` in the code.

## What TLC checks

| Run | Instances | Checks |
|---|---|---|
| `manager` | pairs of payments of the same and of different kinds | `InSync`, `ConfsSnapshotStaysValid`, `LifecycleSpec` (refinement of `PaymentLifecycle`) |
| `manager_lossy` | a Lightning payment and an onchain send, replies of the backend get lost | `MemoryNotAhead`, `ClaimedIsRecorded`, the inductive invariant `IInv` |
| `node` | an invoice of ours and one that we pay; an invoice of ours that expires; a keysend; crashes, replays, lost replies | `RecordIsTrue`, `PaidAtMostOnce`, the inductive invariant `NodeInv` |
| `monitors` | two channels, two stores, crashes and repairs | `AckedIsDurable`, `ManagerNotAhead`, `MonitorsNeverRollBack` |
| `storage` | `vfs`, `vfs_dirs`, `vfs_lossy`; `credentials`; `seeds`, `seeds_mock`; `files`, `backup` | `VfsIsAStore`, `TokenOutlivesRequest`, `OwnSeedUnseals`, `FilesReadBack` |
| `services` | `channels`; `supervision`, `start`; `chain_sync`, `receives`; `peers`, `peers_map` | `ChannelsAreSafe`, `RunsAsPromised`, `NoSyncIsMissed`, `OkMeansConnected` |
| `wallet` | `sends`, `send_faults`, `send_reorgs`; `wallet_db`, `wallet_ops`; `fees`, `quotes` | `RecordsAreTrue`, `CommitsAreNoticed`, `FeesAreOrdered` |
| `api` | `auth`; `routes`, `calls`, `lossy_call`; `tls`, `tls_uptime`, `tls_mock` | `FreshWhenUsed`, `ResultIsTrue`, `AtMostOnce`, `ConnsAreTrusted`, `OwnNodeIsReachable` |
| `app` | `db`, `db_notes`, `db_pair`, `db_sync`, `db_faults`; `account`, `account_others`; `amounts`; `uris` | `CopyIsConsistent`, `CopyMissesNothing`, `AccountIsKept`, `AmountsAreExact`, `UrisAreFaithful` |
| `progress` | `monitors`; `vfs`; `opening`, `closing`; `supervision`, `stuck`; `chain_sync`; `wallet_db`; `calls`; `account`; `payments` (one invoice each way), `expiring` (one that we pay and that may expire), both without faults | `PersisterProgresses`, `ChannelsProgress`, `NodeEnds`, `CallersAreAnswered`, `LaggardsCatchUp`, `EventuallyRecorded` (liveness) |
| `node_replay` | one invoice that we pay, crashes | `HandlingIsIdempotent`, a disagreement, see below |
| `app_notes` | one payment of the app, `db_notes` | `NotesPoisonNothing`, a disagreement, see below |

`MCStorage`, `MCServices`, `MCWallet`, `MCApi`, `MCApp` and `MCProgress` each
hold the instances of several components. The variable `scenario` is chosen in
the initial state and never changes: it names the instance whose behaviour is
explored, while the variables of the other components are `None` or stay in
their initial state. A property there is a conjunction of
`scenario = "s" => Inst!P /\ Inst!Q`, so a run is the union of independent runs,
one for each scenario, and the properties `P` and `Q` of the components, which
carry the meaning, are checked under the name of what they have in common. The
mutant of such a property breaks one of its parts.

Five of these modules extend the component whose theorem is about the property
that the run checks, so that both mean the same definition: `MCStorage` extends
`EncryptedFiles` (`FilesReadBack`), `MCServices` `ChainSync` (`NoSyncIsMissed`),
`MCWallet` `OnchainSends` (`RecordsAreTrue`), `MCApi` `BearerAuth`
(`FreshWhenUsed`) and `MCApp` `AmountOps` (`AmountsAreExact`). The constants of
that component are in the `.cfg`; further instances of it, with other constants,
are made as for the rest. The specification of such a module is `MCSpec`.

In `MCPaymentsManager` and `MCLightningNode`, `Groups` plays the part of the
scenario: `CONSTRAINT InOneGroup` cuts a behaviour off when the payments that
it began no longer belong to one group. The member `Expiry` of a group of
`MCLightningNode` allows its invoices to expire. Within a group every
interleaving is explored.

Each property has a comment in its component's module that says which
behaviour of the code it is about. The ones that carry most, by the names that
they have in their components:

- `InSync`: while nobody holds the lock, memory is what a reboot would read.
  With lost replies only `MemoryNotAhead` remains.
- `RecordIsTrue`, `PaidAtMostOnce`: a finished record agrees with what happened
  on the network, and no invoice is sent unregistered, or sent again.
- `AckedIsDurable`, `ManagerNotAhead`, `MonitorsNeverRollBack`: an acknowledged
  monitor update is in every store, a persisted channel manager is never ahead
  of the monitors it would be loaded with, and a boot never reads an older
  monitor than an earlier boot would have.
- `ReadsWhatWasWritten`, `DirectoryIsSnapshot`, `OneRoot`: the Google VFS is the
  store that the persister takes it for, through failures and restarts.
- `TokenOutlivesRequest`, `ProxyTokenIsAlive`, `TimestampIsFresh`: what was
  fresh when it was checked is still valid when it is used.
- `CleanExit`, `ReadyMeansConnected`, `ResyncSeesTip`, `NoSenderIsLost`,
  `ReceivesAreChecked`: tasks that end early, fail, or are notified while busy
  lose nothing and promise nothing too early.
- `FinalIsTrue`, `SentIsRecorded`, `CommitsAreNoticed`: onchain records are true
  for the chain, nothing is sent without a record, no batch stays unpersisted,
  whichever operations it has (`wallet_ops` goes through all of them).
- `AtMostOnce`, `ResultIsTrue`: what a caller may conclude from a result, with
  requests that are retried, lost, late or refused.
- `RunConnIsOwn`, `ProvisionConnIsAttested`, `OwnNodeIsReachable`: who can
  connect to whom, and that restarts and rotations cut nobody off.
- `ApprovedIsSealed`, `LatestProvisionedRuns`, `KeepsBackup`: a user always
  has a version that runs, whichever step of provisioning stops, although the
  app may be unable to load it: `ReachesLatest` names the torn file as the one
  other outcome.
- `BackupIsOfASignup`: what is in the Google Drive of an account is the seed of
  one of its signups, not always of the one that was committed.
- `NoGaps`, `KeepsOutcomes`, `IndexInvariants`: the app's copy of the payments.
  `IndexInvariants` and `NeverPoisoned` are checked where no pending payment
  changes between junk and not junk; with notes and claimed amounts of inbound
  invoices, `ConsistentButForInvoices` says what is left of them.
- `QuotesAreOrdered`: the three quotes of one answer are for rates of one
  refresh. Each is for a transaction of its own, whose weight and dust may make
  a lower priority the dearer one.

### Bounds

Payments interact only through the lock, the batches and the snapshots, for
which two payments suffice; confirmation counts 5 and 6 are the two sides of the
threshold of 6. Crashes and boots are unbounded unless a constant
(`MaxFaults`, `MaxBoots`) says otherwise; failures are bounded by one or two per
behaviour, enough for one to hit each step and for a second to hit its repair
where the model has one. Two updates per channel let an older one follow a
newer one. Queues have one or two slots, so that they fill up; the code's have
256 or 16. Two callers, clients or syncs suffice for each race, since a third
would wait behind one of them. There is one more release than the scaled-down
`MAX_SIZE` of approved versions. Symmetry is used for interchangeable callers and clients
in the runs without liveness. URIs have amounts well below `Amount::MAX`; what
happens at the maximum is the business of `amounts`. The scenarios of
`OwnNodeIsReachable` restart processes before their certificates expire.

### Fairness

Fairness is stated in each component whose liveness is checked (`Fairness`) and
restated in `MCProgress` for the instance that runs: channel monitors (with one
store), the Google VFS, channels, supervision, chain sync, the wallet database,
API calls, accounts and payments. That the
credentials persister, the reconnector, the sync of the app's payments and the
confirmation checker get their work done is not checked.

Weak fairness is assumed of steps that stay
possible: the runtime polls every task that can run, requests end because they
time out and their retries are bounded, timers fire. Strong fairness is used
where a step is possible again and again: a caller waiting for Tokio's fair
mutex, a branch of `tokio::select!`, which polls its branches in random order,
and a cooperative close while the LSP is reconnected again and again. LDK is
assumed to resolve what it sends and claims, and Esplora to answer. Nothing is
assumed of users, payers, handlers of other services, or crashes. `closing` has
no channel that the node opens itself, and `opening` no other.

The deadlock check is on in `manager`, `manager_lossy`, `node` and `node_replay`.
It is off in the others, because their components really stop: a node that has shut down, a call that has
returned, a clock at its bound, an operator that has been evaluated.

### Where the code and its documents disagree

Two runs check what a comment or an assertion says and find a behaviour that
contradicts it.

`node_replay`: an event handled before a crash and delivered again is rejected, and the
rejection is fatal (`payments/manager.rs:882`); `event_handler.rs:62` requires
handling to be idempotent. `RecordIsTrue` and `PaidAtMostOnce` hold in spite of
it.

`app_notes`: the user writes a note for an inbound invoice that has an amount
and no description, which makes it cease to be junk, but `update_payment_note`
(`app-rs/src/payments.rs:360`) leaves `pending_not_junk` as it was, against the
invariant at line 91. When the invoice is paid or expires, the next sync removes
it from that index, finds that it is not there, and the assertion at line 334
panics. The lock of the database is held, so every later use of it panics too,
until the app is restarted. The same happens to an invoice with a description
and no amount when a sync sees it while it is being claimed, without any note.
`CopyIsConsistent` shows that nothing but an inbound invoice leads there.

The disagreements below were met while modelling. TLC finds each of them when
the definition named is checked as an invariant, with the constants that allow
the behaviour described. Where a run above checks a definition of this list, it
does so in a scenario without that behaviour.

Records and storage:

- `InSync` with `LostReplies`: after a lost reply memory is behind the backend
  until the next boot (`manager.rs:358`); `manager.rs:63` says that updates are
  in sync.
- `NoPersistAfterFatal`: after a fatal event the shutdown branch of the BGP leads
  to a final persist (`background_processor.rs:223`); lines 79-81 say that the
  BGP prevents it.
- `CompletedClaimIsPersisted`: a payment may be stored as Completed before the
  channel manager that knows of the claim (`manager.rs:382`); lines 397-399 say
  that this cannot be.
- `CacheIsComplete` with `Lossy`: after a lost reply to an upload a retry creates
  a second file of the same name (`gvfs.rs:319`); `gvfs.rs:73` says that the
  cache is complete.
- `ValidForMinimumLifetime`: `auth_code_for_token` reckons the expiry from the
  reply (`oauth2.rs:220`), so that credentials may live shorter than
  `oauth2.rs:307` guarantees. `TokenOutlivesRequest` shows that requests are
  safe.
- `DeletedByPath`: `del_script_pubkey_from_path` leaves the script's entry
  (`wallet/db/mod.rs:1083`); the test at line 409 asserts the opposite.
- `LostOnlyWhilePersisting`: `increment_last_index` notifies nobody
  (`wallet/db/mod.rs:675`); line 786 says that data is at risk for about a
  second.
- `SameSignerSameMachineId`: machine ids depend on `MinCpusvn::CURRENT` of the
  release (`enclave.rs:135`); lines 118 and 312 say that they do not.

Services and chain:

- `NoPeersAfterBgp`: the reconnector may hand LDK a connection after all peers
  were disconnected (`p2p.rs:255`); compare the comment at `run.rs:775`.
- `HandlerDoesNotPanic`: a peer disconnects while the handler waits for the
  wallet; the force close then fails, and the `expect` at `event.rs:98` panics.
- `ForeignRequestShutsDown`: if a foreign peer is gone when its request is
  rejected, the handler returns before the shutdown that `event_handler.rs:205`
  announces (line 218).
- `CreatedIsUnsent`: after a lost reply to a broadcast the record stays Created
  and is not checked again (`command.rs:425`); `onchain.rs:50` says that Created
  means not broadcasted yet.
- `RaceIsTriedAgain`: an old tx mined between two requests is recorded as
  Dropped for good (`esplora.rs:402`); line 401 says "try again later".
- `ReplacementIsAnother` with `MaxReorgs > 0`: a tx mined in the block that
  replaces the tip counts as its own replacement (`esplora.rs:396`); compare
  line 73.
- `CalledAsDocumented`: `get_payments_by_ids` is at `/app/payments/ids`
  (`node/src/server/mod.rs:73`), not where `def.rs:392` says.

App:

- `NoGaps` with `InOrder` false: payments constructed together may become
  visible in the other order, and the older one is never fetched
  (`app-rs/src/payments.rs:895`); line 5 says that the copy holds all payments.
- `IndexInvariants` with `WriteErrors`: a failed write leaves an index entry
  behind (`payments.rs:255`; lines 80 and 91 state the invariants).
- `NeverPoisoned` with `MayDelete` during a sync: the deletion takes no sync
  lock, and the `expect` at `payments.rs:297` panics.
- `FinalizedMatchesNode`: a sync applies a response that is older than a note
  update (`payments.rs:355`); line 7 calls the copy a projection.
- `CommittedSeedIsBackedUp` with `MaxSignups > 1`, as in `account`: a signup that
  fails after the backup is followed by one with a new seed, of which there is no backup
  (`provision.rs:398`, `common/src/api/provision.rs:69`).
- `NoBackupCheckWithoutSeed`: without a seed the handler still looks for a backup
  (`provision.rs:402`); `common/src/api/provision.rs:72` says that it does not.
- `RevokedSeedIsDeleted`: if the deletion of a revoked seed fails it is not tried
  again (`provision.rs:445`); `approved_versions.rs:32` says that it is deleted.
- `UpdatesAreNotOverwritten`: two provisioning requests of one app may overlap
  (`app.rs:387`); `common/src/api/provision.rs:43` forbids it.
- `ReachesLatest` without its second outcome: if the app stops while it writes
  `latest_provisioned`, the file does not deserialize and `App::load` fails until
  it is deleted (`storage.rs:17`); `ffs.rs:111` notes that writes could be safer.
- `amount <= MAX`: `round_sat` of an amount within half a satoshi of
  `Amount::MAX` exceeds it (`amount.rs:190`, line 84), and `msat()` of the
  result panics; `InRange` says so. No amount up to the supply of bitcoin is
  affected.

## What is proved

Eight modules hold the proofs. Each extends one component, and most have further
sections about components that they take as named instances (`Cred`, `Db`,
`Seeds`, `Sup`, `Ln`, `P2p`, `Tls`); a statement about an instance is one about
the component, for all values of its constants.

### `LightningNodeProofs`

About `PaymentsManager`, for every set of payments, notes, replacement txids and
confirmation counts:

| Theorem | Statement |
|---|---|
| `Invariance` | `Spec => []IInv` |
| `TypeCorrectness`, `DataInvariants` | `TypeOK`, `PaymentsDataInvariants` |
| `PersistBeforeCommit` | `MemoryNotAhead` |
| `ClaimsAreRecorded` | `ClaimedIsRecorded` |
| `SnapshotIsSafe` | `ConfsSnapshotStaysValid` |
| `MemoryIsInSync`, `RecordsAreKept`, `Refinement` | `InSync`, `RecordIsKept` and `LifecycleSpec`, if no replies are lost |

None of the properties is inductive: each speaks of memory and the backend,
while a commit takes what it writes from the request under way. `IInv`
therefore adds what that request may say. `BatchAt` relates it to memory: the
lock is held from the check to the commit, so the check is still valid when
its result is committed. `ClaimedAt` says that a claimed payment is Claiming in
memory as well, so that neither the expiry checker nor a failure can take it
elsewhere. `OnchainAt` separates onchain ids from Lightning ids, which keeps
the snapshot of the confirmation checker valid. `SyncedAt` says that without
lost replies the backend is at most the current request ahead of memory.
The proof that a step preserves `IInv` has one case per action; lemmas about
single payments (`ToIsSuccessor`, `FinalizeIsSuccessor`, ...) carry the state
machines. `manager_lossy` checks `IInv` itself.

About `LightningNode`, for every set of invoices and keysends, with crashes,
replayed events and lost replies:

| Theorem | Statement |
|---|---|
| `NodeInvariance` | `NodeSpec => []NodeInv` |
| `RecordsAreTrue` | `RecordIsTrue` |
| `InvoicesArePaidOnce` | `PaidAtMostOnce` |

A record becomes final when a handler, detached from the event that started it,
gets its request through, long after LDK reported the event, and perhaps for the
second time. `NodeInv` therefore ties each stage to the HTLC: a handler runs only
for what LDK has really reported (`TasksAt`), and what it is about to persist is
as true as what is persisted (`TrueOf`). For payments of ours, what was sent is
on record and, while the node is up, in memory (`SentAt`), and a request that
registers a payment is about one that was not sent yet (`RequestAt`): that is
why a second call, or one after a crash, finds the record and refuses. `NodeInv`
contains `IInv`, so the proofs of the manager's steps are used again.

### `PersistenceProofs`

About `ChannelMonitorPersister`, for every set of channels, number of updates and
size of the queue, with one store or two:

| Theorem | Statement |
|---|---|
| `MonitorInvariance` | `Spec => []MonInv` |
| `AcksAreDurable` | `AckedIsDurable` |
| `ManagerIsNotAhead` | `ManagerNotAhead` |
| `MonitorsDoNotRollBack` | `MonitorsNeverRollBack` |

The properties are about the stores; why they hold lies in the queue. `MonInv`
says that the versions of a channel are ordered along their way: a store holds
at most what is being persisted, that is at most what is queued, each queued
version at most the next one, and the last at most memory (`QueueIsOrdered`,
`JobIsOrdered`). The stores that were written without an error hold the version
of the job, so that an acknowledgement finds it in all of them. Whatever a
channel manager knows to be persisted, in memory, on its way to the stores or in
them, is durable in every store (`ManagersAreDurable`); hence a repair at boot
may copy either store's manager or monitors to the other. `WritersRun` says that
a node that is down leaves no request behind, which is the assumption on
requests stated above.

About `GDriveCredentials`, for any number of clients, any times with `Times`, and
a clock without bound:

| Theorem | Statement |
|---|---|
| `CredentialsInvariance` | `Spec => []CredInv` |
| `TokensOutliveRequests` | `TokenOutlivesRequest` |
| `RefreshesAreSingle` | `OneRefreshAtATime` |

Where credentials are copied to (the file, memory, the persister's channel)
their reckoned expiry may be later than the real one, by at most the timeout of
the exchange of the auth code (`Genuine`); a refresh and a request together fit
into the minimum lifetime, which absorbs that error (`RequestAt`).

### `BearerAuthProofs`

About `BearerAuth`, for any number of callers, any times with `AuthTimes` and a
clock without bound:

| Theorem | Statement |
|---|---|
| `AuthInvariance` | `Spec => []AuthInv` |
| `ProxyTokensAreAlive` | `ProxyTokenIsAlive` |
| `AuthsAreShared` | `AuthIsShared` |
| `TimestampsAreFresh` | `TimestampIsFresh`, if the requests of all callers, one after the other, fit into the skew (`SkewCoversQueue`) |
| `WhatIsUsedIsFresh` | `FreshWhenUsed`, the conjunction that `api` checks |

The proxy callback takes what is cached when the connection is made, which may
have been put there by another caller, whose clock was read earlier. So `AuthInv`
says that callers queue for the lock in the order of the times that they read
(`QueueInv`), hence that a token which is fresh for one who still waits lives for
another timeout (`CallerAt`), and that the cached expiration is on the safe side
by the margin (`CacheIsSafe`). The theorems need a lifetime that exceeds an auth
request and a timeout. How old a timestamp may get depends on how many callers
may queue: `WaitInv(n)` gives each place in a queue of at most `n` its own bound.

About `PeerConnections` (`P2p`), for any peers, callers, updates and faults:

| Theorem | Statement |
|---|---|
| `PeersInvariance` | `P2p!Spec => []PeerInv` |
| `RacesAreTolerated` | `TypeOK`, `DialsOnlyItsPeers` and `RaceIsTolerated` |
| `OkOnlyIfConnected` | the action property `OkIfConnected` |

`RaceInv`, a part of `PeerInv`, says that without faults a connection stays, so
that a socket found closed has lost the race, and the next attempt of its caller
finds the peer connected: one retry is enough.

### `WalletProofs`

About `OnchainSends`, for any sends, coins, chains and failures:

| Theorem | Statement |
|---|---|
| `SendInvariance` | `Spec => []SendInv` |
| `SendsAreRecorded`, `BroadcastsAreAccepted` | `SentIsRecorded`, `BroadcastIsAccepted`, with reorgs too |
| `FinalRecordsAreTrue`, `ReplacementsAreOthers` | `FinalIsTrue`, `ReplacementIsAnother`, until the first reorg |
| `RecordsAreAlwaysTrue` | `RecordsAreTrue`, the conjunction of these and `TypeOK` that `wallet` checks |

The confirmation checker reads a height, then asks for each tx and each input in
turn while blocks are found. `ChainInv` says what of its answers is still true
when it has the last one: a tx that was not confirmed is not confirmed at or
below the height that it read, and a spender that it was told of is where it was
(`AnswersAt`, `ResultAt`). After a reorg the last two properties are false, see
the disagreements above; the theorems therefore say `reorgs = 0 => ...`.

About `WalletDb` (`Db`): `CommitsAreAlwaysNoticed` (`CommitsAreNoticed`), for any
batches and any capacity of the channel of at least one. The invariant adds that
the task's snapshot is current unless somebody has notified it since.

### `ApiCallsProofs`

For any calls, number of retries, buffer sizes and faults, over all endpoints of
all clients:

| Theorem | Statement |
|---|---|
| `CallsInvariance` | `Spec => []CallInv` |
| `EffectsAreAtMostOnce` | `AtMostOnce` |
| `ResultsAreTrue` | `ResultIsTrue` |
| `StopCodesStop` | `StopsAtStopCodes` |

`ClientsAreCareful` goes through the tables of endpoints and shows that only
requests that are idempotent are retried. `CallInv` numbers the attempts of a
call, bounds them by the retries of its endpoint, and says that those to come
have left no trace at the server. `TruthInv` follows an answer from the place
where it is made to the caller: a refusal is made only where the handler has not
run and will not run for that attempt (`GoodAttempt`), and the error kinds that
deny an effect keep their meaning when they are encoded and decoded
(`KindsAreTold`). It assumes that no handler reports one of these kinds
(`TruthHypotheses`).

### `SecretsProofs`

| Theorem | Statement |
|---|---|
| `FilesInvariance` | `Spec => []FilesInv`, of `EncryptedFiles` |
| `ReadsAreOwnWrites`, `BackupsRestore` | `ReadIsOwnWrite` and `StoredIsReadable`, `BackupRestores` |
| `StoredReadsBack` | `FilesReadBack`, the conjunction of these and `TypeOK` that `storage` checks |
| `SealInvariance` | `Seeds!Spec => []SealInv`, of `SealedSeeds` |
| `NodesRunOwnSeed` | `RunsOwnSeed` |
| `MachineIdsMeanUnsealable` | `MachineIdMeansUnsealable` |

Both storages may answer with anything put together from what they hold. So
`FilesInv` says of everything stored that it was encrypted by a user under a key
id of its own and is in the history, and what a reader accepts can only be one of
these, because the associated data and the key name its place. `SealInv` says the
same of sealed seeds: whatever is in the backend was sealed by an enclave for its
own user (`SealedAs`), in fields that the unsealing checks.

### `ServicesProofs`

| Theorem | Statement |
|---|---|
| `SyncInvariance`, `NoSyncsAreMissed` | `Spec => []SyncInv`, `NoSyncIsMissed`, of `ChainSync` |
| `SupInvariance` | `Sup!Spec => []SupInv`, of `NodeSupervision` |
| `StartsAsPromised`, `EndsAsPromised` | `ReadyMeansConnected` and `OnlyApprovedRuns`; `CleanExit` and `RecvAtMostOnce` |
| `ChannelInvariance`, `ChannelsAreAlwaysSafe` | `Ln!Spec => []ChanInv`; `TypeOK`, `OnlyTheLspOpens` and `StaticIsNotSwept`, of `Channels` |

They hold for any number of calls, blocks, tasks, channels, failures and boots. `SyncInv` ties every waiting caller to the task that will answer it, and
what the running sync reads to what those it answers have asked for (`SenderAt`);
a check of the wallet that is overtaken by a sync has a notification waiting
(`CheckIsCurrent`). `SupInv` orders the stages of `UserNode::init`, `sync` and
`run`, says which tasks exist in each (`SpawnedInStage`) and what was found out by
then (`StageMeans`). `ChanInv` says where a channel's money may be at each stage
(`ChanAt`) and that HTLCs which wait have one event or one timer (`OneForward`).

### `AppProofs`

About `AmountOps`, for every width of u64, every precision below a millisatoshi
and sequences of operations of any length: `AmountsAreAlwaysExact`
(`AmountsAreExact`, that is `InRange`, `OpsInvert`, `RoundIsNearest` and
`InvoiceSafe`, which `app` checks). `round_sat` does not check its result, which
may exceed the maximum. So the inductive invariant, `InRangeOrRounded`, says
that an amount is in range or is `round_sat(MAX)`: rounding is the only
operation that leaves the range, and that is the only place where it leads. The
proof rests on lemmas about division (`DivMod`, `MultipleDiv`) and on `Rounded`:
the result is a multiple of a satoshi, and it is larger than the amount only if
the amount exceeds the multiple below.

About `TlsTrust` (`Tls`), for any users, nodes, builds, measurements and
lifetimes:

| Theorem | Statement |
|---|---|
| `ConnectionsAreTrusted` | `RunConnIsOwn`, `ProvisionConnIsAttested`, `ConnsGoThroughLexe` |
| `OwnNodesAreReachable` | `OwnNodeIsReachable` |

`TrustInv` says what the certificates are that nodes and gateway show, and of
each connection who is at its end; evidence that speaks of a node's key is of the
node's own build, although AESM may mix up quotes. `ReachInv` adds the ages:
every process was started within its uptime, and its certificates are at least
as young. `OwnNodesAreReachable` is about AESM and a gateway that work: quotes are
not mixed up, and there is no gateway of another environment.

### Hypotheses

The theorems assume of the constants what the `ASSUME`s of `Payments`,
`PaymentsManager`, `LightningNode` (`HashesArePartitioned`) and `ChainSync`
(`SyncAssumption`) say, and what their own `ASSUME` parts name: `BoundsAreNat` and
`GoogleVfsIsBool` of the monitors; `Times` of the credentials; `AuthTimes`,
`SkewCoversQueue`; `BlocksAreCounted`, `StatusIsNoCoin`, `BoundsAreNumbers` of the
sends; `ChannelHolds`; `ApiHypotheses`, `TruthHypotheses`; `FileHypotheses`,
`SealHypotheses`; `TasksAreKnown`, `ChannelsArePartitioned`, `PeerHypotheses`;
`AmountHypotheses`, `TrustHypotheses`, `ReachHypotheses`. They say that counts are
counts, that `None` and the like are not values of another kind, that sets of ids
are disjoint, and how lifetimes compare with timeouts and uptimes. The instances
for which TLC checks a property satisfy what its theorem assumes; TLC evaluates
the hypotheses that are `ASSUME`s of a component or of an MC module
(`InstancesAreProper`).

Where a component is an instance in a proofs module, its properties are checked
by TLC inside the bundled properties of the MC modules; `TypeCorrectness`,
`DataInvariants` and `RecordsAreKept` of the manager are proved for every
instance, and no run repeats them.

## Only model-checked

- Liveness under fairness, which the prover does not handle.
- `ReachesItsHandler` and `KindSurvives` of API calls, and the type invariants of
  `TlsTrust`, `SealedSeeds` and `NodeSupervision`.
- The Google VFS. `ScanIsDirectory` is about a sorted sequence; the others speak
  of how many objects exist, and their proof has not been attempted.
- Provisioning and accounts (`AccountIsKept`): which sealed seeds are deleted
  is a sequence that is sorted, and that a sorted sequence of a set has its
  elements needs induction over data, which is beyond the prover.
- The app's payments (`CopyIsConsistent`, `CopyMissesNothing`) and fees
  (`FeesAreOrdered`), for the same reason: indexes and estimates are sorted or
  folded.
- What `PaymentUri` parses and displays. TLC compares both over bounded inputs.

## Not modelled

- Building, signing and loading the enclave, the SGX wrappers and the loggers:
  no protocol state. Attestation is symbolic, in `TlsTrust`.
- The generated bridge to the app's UI, its executor, the validators of forms:
  what the calls do is modelled with their components.
- Parsers and formatters of single values (invoices, offers, BIP353, DER, PEM,
  hex, BCS): covered by the property tests of the repository, and their data is
  a model value here.
- The insides of LDK, BDK, rustls, axum and Esplora.
- Commands that only read, and the ticks of the BGP that only call into LDK.
- Test utilities and mocks, except where a mock decides what is trusted.
