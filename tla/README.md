# Verification of decentralchain-sdk

decentralchain-sdk is a monorepo of applications and packages around the DecentralChain
blockchain. Its state that several actors share, and that is hard to get right, lies in two places:
the pipeline that brings the chain to clients, and the wallet extension that signs for web pages.

    node --gRPC BlockchainUpdates--> blockchain-postgres-sync --> Postgres --> data-service
                                             |
                                             +--SET/PUBLISH--> Redis --> websocket-api --> clients

    page --port--> background service of cubensis-connect --> wallet --> node
                     | messages, permissions, vault                ^
    popup, notification window, tab (the user) --------------------+

    page <--postMessage, browser-bus--> embedded frame

This project models what the consumer keeps in Postgres, how the consumer process survives
reorganisations, duplicates and crashes, how websocket-api keeps its subscriptions in step with its
clients, how a request of a page becomes a signed transaction, how the vault keeps accounts under a
password, and what two windows promise each other over a bus.

The paths below are relative to `src/`. BPS is `apps/blockchain-postgres-sync`, the extension is
`apps/cubensis-connect`, browser-bus is `packages/sdk/browser-bus`.

## Inventory

**BPS version tables** (`consumer/mod.rs`, `consumer/repo/pg.rs`, `migrations`). State:
`blocks_microblocks`, `asset_updates`, `asset_tickers`, `asset_origins`, three identity sequences.
Operations: append a run of key blocks or a microblock, squash microblocks into their key block,
roll back to a block. Each row is a version that names the next version of its asset in
`superseded_by`, or `i64::MAX - 1`. Hard: supersession inside a batch, moving rows between
blocks, aborted transactions that leave gaps in the sequences. Correct when the versions of an
asset form one chain, no row loses its block, and a rollback restores what readers saw.

**BPS consumer process** (`consumer/mod.rs::start`, `consumer/updates.rs`, `publisher.rs`). State:
the batch of the reader task, the capacity-1 channel, the write transaction, the uid generator,
the metric, the events to publish. It calls Postgres in one transaction per batch and Redis
after the commit. Hard: two concurrent tasks, rollback messages that name blocks by the identifier
they have after a squash, crashes at any await, a startup rollback that has to make the stream
continue where the database ends. Correct when Postgres is a delayed copy of the node's chain.

**BPS transaction uids** (`models/txs/convert.rs`): `height * 100_000 + n`, in memory.
**BPS candles**: aggregates in SQL, recomputed around a rollback.
**BPS configuration, health, migrations**: no state of its own.

**websocket-api subscriptions** (`websocket.rs`, `client.rs`, `updater.rs`). State: the shared map
`ClientIdsByTopics`, each client's own table, the registry of clients, the Redis subscriber's
buffer and the channel behind it. Operations: connect, subscribe, unsubscribe, disconnect, and the
one task that sends publications to clients. A multi-topic's value is a list of subtopics, to which
its clients are subscribed indirectly. Hard: every operation reads Redis between two lock
sections, and the broadcast works on what it read under a lock it no longer holds. Correct when
map, tables and what clients were told agree and clients end with the current value.

**websocket-api keepalive** (pings, pongs, failure threshold), **key refresher** (TTLs of `sub:`
keys), **server and shutdown** (routes, sharded drain), **topics and messages** (parsing).

**data-service**: daemons (a loop with a timeout; the pairs table) and stateless HTTP handlers.

**cubensis-connect requests and messages** (`background.ts`, `controllers/message.ts`,
`controllers/permissions.ts`). State: the message store, the permissions of each site and the
question it waits for (`inPending`), the handlers of pages that wait for the event that a message is
finished, the approvals and fee changes that wait for the wallet or the node. Operations: a call of
a page, approve, reject, change the fee, the settings of a site, lock and unlock, the expiry alarm, a
port that closes, a restart of the service worker. Hard: `approve` and `updateTransactionFee` go on
after an await with the copy they found before; requests of one site share their question; four
different events end a message. Correct when every page is answered once, and is served only for a
site the user trusts and a request he, or the auto-sign he set up, approved.

**cubensis-connect vault and wallets** (`controllers/wallet.ts`, `controllers/VaultController.ts`,
`storage/storage.ts`). State: the accounts in memory, their encrypted copy in the store and on disk, the key
in memory and in the session storage, the flag `locked`. Operations: create, unlock, lock, change the password,
add, remove and recode accounts, delete, restore at startup. Hard: each waits for the derivation of a
key or the creation of a wallet between two steps, a lock or a restart comes at any time, and storage
lags behind memory. Correct when the key opens the vault, no account is lost, and locked means clean.

**cubensis-connect other controllers** (idle alarm, network, assets, notifications, statistics, swap)
and **user interface**: caches and conversions of data of the node; React components.

**browser-bus** (`bus/Bus.ts`, `adapters`, `protocols`). State: the table of active requests with their timers,
the request and event handlers, the messages kept while a frame loads. Hard: answers that come after the
timer, after `destroy` or from a frame that was reloaded, and messages that come before the bus listens.
Correct when a request is settled once, after at most one run of its handler.

**signer, connect provider, ledger, load-tester**: promise chains, APDU exchanges, workers.
**exchange, scanner, admin-dashboard**: web interfaces. **Cryptography, serialization, transaction
and client packages, JVM packages, RIDE compiler**: pure functions or ports of libraries.

Interactions: BPS and websocket-api meet in Redis only; the extension's requests and vault meet in the
flag `locked`, which the vault reports and on which every message is rejected; `ConnectRequests` has
the vault as the three states its handlers distinguish, `Vault` has everything behind them.

`PROJECT.json` lists every component with its status, and under `hazards` what is hard to test.

## Modules

| module | models |
|---|---|
| `VersionTables` | the SQL statements on a version table, as operators on sets of rows |
| `AssetHistory` | the write transactions on both version tables, origins and block rows |
| `SnapshotStack` | what a version table promises its readers (abstract) |
| `BpsConsumer` | node, reader task, channel, consumer loop, Redis, crashes |
| `WsSubscriptions` | Redis and its writers, updater, connection tasks, updates handler |
| `ConnectRequests` | calls of pages, messages, permissions, windows, vault states, ports, restarts |
| `SigningService` | what a signing wallet promises pages (abstract) |
| `Vault` | the vault's operations, its copies in memory, store, disk and session, restarts |
| `BrowserBus` | two windows with their buses, queues, timers, events, reloads |
| `RemoteCall` | what a request to another window promises (abstract) |
| `AssetHistoryProofs`, `AssetReadersProofs` | theorems on the version tables |
| `WsSubscriptionsProofs`, `VaultProofs`, `BrowserBusProofs` | theorems on these modules |
| `BpsConsumerProofs`, `BpsConsumerTimesProofs` | theorems on the consumer process; those that go by when a transaction was made |
| `ConnectRequestsProofs` | theorems on the requests; the refinement of `SigningService` |
| `MCAssetHistory`, `MCBpsConsumer`, `MCWsSubscriptions`, `MCConnectRequests`, `MCVault`, `MCBrowserBus` | instances for TLC |

Definitions commented as a mutant or as faulty are deliberate bugs; no specification uses them,
they show that a property notices the bug. Variables marked history are not in the program;
they record what happened, and properties compare the program's state with them.

### AssetHistory

One action is one item of `handle_updates` in one Postgres transaction. `AppendBlocks` is a run of
key blocks: the squash moves the rows of microblocks to the last key block (`Squashed`), the
microblocks are deleted, the blocks and their versions inserted. `AppendMicroblock` is the same
for one microblock, without the squash. `Rollback` deletes the versions above a block, reopens
what the lowest deleted uids had superseded (matching `superseded_by` alone, as the SQL does),
drops origins whose version is gone, and deletes the blocks. `AbortedAppend` is a transaction that
fails after it took sequence values: Postgres does not give those back. The uid sequences and the
identity of blocks are explicit because the correctness of the rollback rests on uids growing with
blocks. The data columns of a version are not in the model: a version is its uid.

Assumptions: the node sends a block once (a second delivery reuses the row, see `BpsConsumer`); the
node names a stored block in a rollback (that it does is `RollbackTargetStored` there).

### BpsConsumer

The node (external) mines key blocks and microblocks, and reorganises by announcing the block it
returns to. `History` is what it sends to a new subscription: a key block comes merged with its
microblocks, under the last one's identifier, except that the last one may still be open. `Receive`
and `SendBatch` are `UpdatesSourceImpl::run`: a microblock or a rollback ends a batch, a block does
so at the size or the age limit, and age is only looked at when a message arrives. `Start` to
`EndBatch` are the loop of `start`: the startup rollback (`get_blocks_rollback_to`, `rollback`), the
subscription, one transaction per batch (`HandleUpdates`), the metric, the events. `Crash` loses the
process's memory at any point; `FailTransaction` does so when `handle_updates` returns an error;
`IdleTimeout` is the end of a stream that was silent for 600 s (by default), with which the process ends
however healthy it is. On a quiet chain that happens again and again, and each restart rolls the database
back and reads it again, so `MaxCrashes` bounds `Crash` only: `IdleTimeout` adds to `crashes`, which says
that the process restarted, until it is full, and is enabled all the same. Where time runs out before the
stream is empty it is a `Crash`.

Abstractions: every block or microblock carries one transaction, which sets one state entry, and all
transactions are of one type, so that their uids share a primary key; `assets_only` is off; Redis
writes never fail (a failure is logged and skipped, which loses that event by design); transaction
events are published next to state entries in the same way and are left out; the end of the
process on SIGTERM is a crash.

While the process is not subscribed the node may reorganise as deep as it likes. `start_rollback_depth`
is chosen so that it does not: the history variable `stray` records that the node abandoned a block
`Depth` or more below the consumer's last one (near the start of the chain, where the consumer has not
stored as many heights: one that it keeps), see `KeptRows`. Of such histories the replica properties
say nothing: no consumer that keeps anything could resume. `KeepsNoMore` in the proofs shows that the
startup rollback does go back that far, whatever the step.

### WsSubscriptions

A section of `websocket.rs` that holds locks takes the topics lock before a client's and does not
await anything else, so each is one action, and what happens between two sections is another:
`Subscribe` (phase 1), `ReadKey` and `ReadMembers` (the GETs without locks), `RegisterWithValue`,
`RegisterAsNew` or `AlreadySubscribed` (phase 3, where the check is repeated), `WriteKey`;
`Unsubscribe`; `Disconnect`, which collects a client's topics, and `Leave`, which removes them.
The updates handler is `TakeUpdate` (clients noted under the read lock), `Expand` (the new list, under
the write lock), `FetchMembers` or `FailFetch`, `Collect` (the registry) and `SendTo`, client by
client. `Publish` drops the oldest message when the subscriber's buffer is full, as tokio's
broadcast channel does, and `Forward` is the updater task. A subscription's `direct`, `new` and
`sources` are `is_direct`, `is_new` and `indirect_subscription_sources`; an absent entry is `NoSub`.
`heard`, `told` and `renewed` are history: what a client has been sent.

Abstractions: subscription keys, latency timers and the difference that leasing balances are sent as
are left out; lists of subtopics parse; the shards of the client registry act as one; a
connection handles one message at a time, as its task does. Client identifiers are never reused.

### ConnectRequests

The background service is JavaScript: it runs one task at a time, so an action is the code between
two awaits, with the continuations (microtasks) it wakes before the next task. `Call` is
`validatePermission`: it answers at once, joins the question that another request of the site
has put (`JoinQuestion`), or asks (`AskQuestion`, an `authOrigin` message). A site of the whitelist,
which the build carries in its configuration, holds every permission whatever the tables say (`Held`),
is never asked about, and is not blocked by the settings either. `BuildDone` and
`BuildFail` are the end of `newMessage`, where auto-sign may take the message; `ApproveAuth`,
`StartApproval`, `SignOk`, `SignFail`, `LedgerReject`, `NodeAccepts`, `BroadcastOk` and
`BroadcastFail` are `approve`, cut at its awaits; `Complete` is its end, which writes back the copy
of the message it found at the start. `Reject`, `RejectForever`, `Expire`, `Lock`, `Disconnect` and
`AllowOrigin` are the ways a message is rejected. `StartFee`, `FinishFee` and `FailFee` are
`updateTransactionFee`. `SetPermissions` replaces the whole table, as zustand's `setState` does with
a nested object; `DeleteOrigin` deletes one entry and writes the others back. `approve`, `reject` and
`updateTransactionFee` do not look at the status of the message, so a window that has not noticed that a
message is over may still approve it, reject it or change its fee (`Found`); what they do to such a message
counts as an outside event, to keep the runs finite. `ClearMessages` is the background's call of that
name; `deleteVault` makes the same clearing. `Wake` is the event that a
message is finished: it moves each handler that waits for it on (`Outcome`, from `getMessageResult`).
`Restart` clears the messages and ends what was running; the permissions are stored. The wallet and
the node are external: they sign or refuse, accept or refuse, and an answer may be lost.

`phase` is where the handler of a page's call is; a request is made once, and a page that asks again
makes another request. History: `granted` and `blocked` (what the user decided about sites),
`confirmed` (approved builds of requests), `published` (builds the node has accepted), `told` (the build
whose result a page was given), `refitted` (messages built again after an approval of them began),
`undone` (denied messages an approval was working on, or was started on later), `cleared` (messages
dropped by `clearMessages` while their callers may wait).

Left out: what transactions contain, the amounts and intervals of auto-sign limits (a site with
`autosign` may or may not be within them), notifications, statistics, the order of windows. The
constants `Payable` and `Publish` say which requests have a fee and are broadcast, `Listed` which sites
a whitelist may name. One fee change of a message runs at a time, as in the user interface.

### Vault

A key is named by the salt it is derived from, and an encrypted vault by the key that opens it and
the accounts in it. The right password is what lets an operation start; a wrong one changes nothing.
`StartInit`/`FinishInit` are `initVault`; `StartUnlock`, `GetKey` and `FillWallets` are `unlock` with
its two waits; `StartChange`/`FinishChange` are `newPassword`; `StartAdd`/`FinishAdd` and
`StartRecode`/`FinishRecode` are `addWallet` and `updateNetworkCode`; `Remove`, `Lock` and `Delete`
do not wait. None of them looks at the flag `locked` or at whether there is a vault already: only the user
interface keeps a locked vault from being changed, or a second one from being made, and a window that has not
noticed a lock does call them. `Store` puts values into the store and queues their copies, which `Persist` brings to
`disk` one by one; `Rekey` writes the salt and the vault one after the other, as `#setVaultKey` and
`#saveWallets` do. `Restart` starts from `disk` and from what the session storage holds (emptied when
the browser, not only the service worker, restarted), and restores the wallets in the `Background`
slot while windows already see the vault unlocked.

History: `kept` (accounts that must not be lost), `crossed` (an operation went on from what another
had changed while it waited), `torn` (a restart fell between a new salt and its vault, or cut off
writes so). Left out: the trash, which nothing reads; networks and device wallets; export files.

### BrowserBus

The page and the frame have a queue of messages each; `postMessage` keeps their order and loses
those for which nobody listens (`Miss`). `Start` and `Load` are `createSimpleWindowAdapter` for a
frame that is still loading, with the messages it keeps (`Keep`); `Open` is an adapter that is ready
at once. `Request`, `Timeout`, `EndAction` and `Destroy` are the caller's side of `Bus.ts`;
`Refuse`, `Serve`, `ServeLater`, `ServeEnds` and `ServeEndsUnsent` the answering side, where a
handler returns, throws, returns a promise or returns what cannot be cloned. `Reload` is the
browser's: the frame loses everything, and its old answers cannot reach the new one. History: `ran`,
`arrived` and `heard`.

Left out: the lists of event handlers, `changeAdapter` (another bus), and the checks of origin,
channel and message format, which pass between windows that are meant for each other.

## Runs

| run | checks | bounds |
|---|---|---|
| `asset_history` | types, chains, block references, origins, refinement of `SnapshotStack` for both tables | 2 assets, 3 version rows in each table, 4 blocks, batches of 2, tickers on |
| `bps_replica` | replica, rollback targets, transactions once and in order, duplicates, metric | 5 units, 2 reorganisations, 1 block sent again, 1 crash, depth 3, step 2, batches of 2 |
| `bps_liveness` | draining again and again, publication | 4 units, 1 reorganisation, 1 crash, any number of idle timeouts, depth 2, batches of 2 |
| `bps_duplicates` | a violation | 3 units, 1 crash, depth 1 |
| `ws_subscriptions` | agreement of map, tables and answers; current values | 2 clients, a topic, a multi-topic, 2 writes, a failed read, buffers of 1 |
| `connect_requests` | no lost wakeup, consent, trust or whitelist, a second transaction only by a fee change, none after a denial without an approval | 2 sites with one request each, one of them broadcast, the other's site possibly listed; 1 window, 1 fee change, 2 outside events |
| `connect_shared` | every call is answered; refinement of `SigningService` | 2 requests of one site through two ports, no site listed, 1 window, 1 fee change, 2 outside events |
| `connect_blocked` | a violation | as `connect_requests`, 1 outside event |
| `vault` | the key opens, accounts kept, unlocked is ready, locked is clean | 2 accounts, 2 windows, 3 salts, 3 writes under way, 2 restarts |
| `vault_locked` | a violation | 2 accounts, 2 windows, 2 salts, 2 writes under way, no restart |
| `browser_bus` | reachable promises, refinement of `RemoteCall`, settlement | a request of the page, one of the frame without a timeout, 1 event of each window, 2 reloads |
| `browser_bus_early` | a violation | a request of the page, 1 event of each window |

Why the bounds are enough. A chain of versions is disturbed by a rollback only at the row above the
cut and the row below it; the version rows give a row before, at and after the cut and a batch that
supersedes inside itself, for one asset beside another. Five units allow a key block with a
microblock, a second one that squashes it, a reorganisation into the middle and a crash. A startup
rollback over three heights in steps of two visits a full and a shorter step. Two clients are the least for which one can
disturb the other, and buffers of one overflow at the second publication. Two sites are the least for
which the table of permissions of one can be lost to the other (`connect_requests`), and two requests
of one site the least that share a question (`connect_shared`); two outside events allow a block and an
approval of what is over, a lock and an unlock, a deletion and a new vault, or a second approval and a
rejection, around one request. Approvals by a window and by auto-sign race
with one window already. Three salts are a first password and two changes; two windows are the least
that cross. Two reloads of the frame let an answer of the first frame meet the second one's successor.
Assets, clients, accounts and windows are only compared with each other, so `asset_history`,
`ws_subscriptions` and `vault` use their symmetry. `vault` does not explore what follows a state in
which `crossed` or `torn` is set (`CONSTRAINT Undisturbed`), as its properties say nothing of such states.

The runs do not check for deadlock: a node that has used its units and a consumer with nothing to
do stop, and so do writers, pages that have made their requests and windows that are closed.

What is shown:

- *The version tables are what they promise* (`AssetsAreSnapshots`, `TickersAreSnapshots`): for any
  order of batches, squashes, rollbacks and aborts, the current view is the top of a stack of
  snapshots, and a rollback restores the view of its block.
- *Postgres is a delayed replica* (`Replica`): what is stored, with everything still in a batch, the
  channel or the stream applied to it, is the node's chain in every state, through
  reorganisations and crashes. A rollback always finds its block (`RollbackTargetStored`), and
  transactions are stored once (`TxsStoredOnce`), in the order of the chain (`UidsInChainOrder`).
  Four exceptions are in the statements: a stream that restarted at `starting_height` over a
  database that is not empty (`resent`, see below), a node that abandoned what a restarted process
  keeps (`stray`), a block that is sent again, and for uids a process that restarts.
- *Events follow the commit*: with `start_rollback_depth` at least the size of a batch, a crash
  between commit and publication loses no event (`EventsPublished`), the first block excepted. With
  a smaller depth it does: a batch that spans more heights than the startup rollback goes back is
  not sent again. The configuration allows that (`updates_per_request` is larger than the depth
  by default).
- *The consumer drains* (`CatchesUp`) again and again, also when the idle timeout ends it on a quiet chain,
  except that an incomplete batch of blocks waits for the next message, however old it is; if none comes
  before the idle timeout, the process reads it again after its restart, and it waits again.
- *Map, tables and clients agree* (`DirectAgrees`, `GoneIsForgotten`, `HeardIsRegistered`), a direct
  subscription gets updates only while its client was told of it and has not left it
  (`DirectUpdatesAnswered`), and once queues are empty a value that was
  written after a client registered is the one the client has, unless the buffer overflowed
  (`SubscribersCurrent`). The first and the fourth speak of direct subscriptions only: an unsubscription
  from a multi-topic that comes while one of its clients' lists is being worked on leaves indirect entries
  behind, whose updates go on under the multi-topic's key (see below).
- *Every page is answered* (`NoLostWakeup`, `Answered`): whatever ends a message wakes those who
  wait for it, and the alarm ends what nobody decides. Only `clearMessages`, called by itself or for
  `deleteVault`, leaves callers behind.
- *Nothing without consent* (`ServedOnlyIfAllowed`, `ResultHasConsent`): a site that was never trusted
  and that the whitelist does not name is not served and no message of it is approved, and a result is that
  of a build that was approved and, if broadcast, is on the chain itself. What pages see is a behaviour of `SigningService` (`ServesLikeSigner`).
- *A second transaction takes another fee* (`SecondOnlyByFee`): what comes to the chain was approved as it
  is, and however often a message is approved, also when it is over, a request has two different
  transactions only if its message was built again after an approval of it began. That can happen: a fee
  change puts a published message back as unapproved.
- *Denied means not published, unless it is approved* (`DeniedUnlessApproved`): a request whose page was
  told that it is denied has a transaction on the chain only if an approval was running when it was denied,
  or was started later. Both happen: a lock or the alarm denies a message whose approval is at the
  node, and a window approves a message that was rejected elsewhere. No failure of an approval does.
- *The vault can be opened and is complete* (`KeyOpensVault`, `AccountsKept`), *unlocked and locked
  mean what windows think* (`UnlockedIsReady`, `LockedIsClean`), as long as operations do not cross
  and no restart tears a change of the password.
- *A request over the bus is a remote call* (`CallsAreRemote`): settled once, its handler run at most
  once, fulfilled only after it ran; a pending promise can be reached (`PendingIsReachable`) and one
  with a timeout ends (`Settled`), also on a destroyed bus or with a frame that never answers.

Fairness. `bps_liveness`: weak fairness of the reader task and of the loop, which the tokio runtime
polls whenever they can move; for `Start`, that the supervisor restarts the process. The node and
crashes have none. `connect_shared`: weak fairness of the end of each build, which is a
request to the node with an end of its own, and of the alarm for each message (`chrome.alarms` comes
back until no old message is left). Users, pages, wallet and node are owed nothing. `browser_bus`: weak
fairness of each timer, which the browser fires; the other window is owed nothing.

### Where the code departs from what it says

Each of these runs expects a violation; `findings` in `PROJECT.json` quotes the text.

- `bps_duplicates`: the README of BPS says duplicates are absorbed. When the database is so shallow
  that no row has a height the startup rollback looks for, the stream restarts over stored
  blocks. The block rows are absorbed, but the uids of their transactions are taken, the insert
  fails, the process ends, and the next one does the same. Nothing is written twice
  (`ResentWritesNothing`). A block repeated to a process that does not restart has its
  transactions stored again under new uids; `Replica` and `TxsStoredOnce` are therefore stated
  without repeated blocks, `BlocksReplica` with them.
- `connect_blocked`: the README of the extension says a site that is not trusted is blocked until the user
  marks it as trusted. `setPermissions` replaces the permissions of all sites by those of one: when the
  permissions of one site are written (it is trusted, blocked or given auto-sign; that it asks is not
  enough), the blocks, the trust and the auto-sign settings of the others are gone.
- `vault_locked`: `storage.ts` says the key in the session is cleared on lock. `newPassword` that waits
  for its key while the vault is locked sets the key after the lock, and saves the emptied list of
  accounts as the vault.
- `browser_bus_early`: the readme of browser-bus waits for the event with which the frame says it is
  ready. Messages that come while the adapter is made are kept and replayed before a bus can have
  added its callback, and are lost.

Also seen while modelling, without a run:

- BPS: a block and its rollback in one batch commit nothing of the block but publish its events,
  against the comment that Redis only reflects committed state. A rollback publishes nothing, so Redis
  keeps the values of an abandoned chain until the entries are written again.
- websocket-api: subtopics that enter the map by an update whose values are not there yet never reach
  the client's table, and their later updates are dropped at the client. An unsubscription between the
  update of the map and the broadcast leaves an indirect subscription in the client's table that the
  map does not know, and subscribing again is refused; one from a multi-topic whose subtopics are being
  registered or broadcast leaves indirect sources under its key, and the client is sent their updates after
  the answer to its unsubscription. A client that reads a key before it is SET and
  registers after the PUBLISH was handled gets the value from neither. A client that leaves between
  `TakeUpdate` and `Expand` stays listed as an indirect subscriber (it costs memory only).
- the extension: `deleteVault` clears the messages before it locks, so nobody answers the pages that
  wait; `clearMessages` called by itself does the same (the pages of the user interface that were read do
  not call it). A new salt and the vault under its key are two writes; a restart between them leaves a vault
  that no password opens (`torn`). Two operations on the vault that cross can lose an account or the
  key (`crossed`).
- browser-bus: a handler that calls `off` while its event fires has its change overwritten.

## Proofs

All theorems hold for every value of the constants that the named assumptions allow
(`MaxUidAssumption`, `BoundsAssumption`, `ConsumerAssumption`, `SubscriptionsAssumption`,
`ConnectAssumption`, `VaultAssumption`, `BusAssumption`; they say of the constants little more than their types).

**Version tables** (`AssetHistoryProofs`). `TypeCorrect`, `ChainsKept`
and `ReferencesKept` prove `TypeOK`, `VersionChains` and `RowsHaveBlocks`. `VersionChains` is not
inductive: deleting the rows above a block only removes a suffix of each chain if uids grow with
blocks, reopening by `superseded_by` alone only touches the right asset if uids are unique across
assets, and rows taken by a new batch only come last if their uids and their blocks are above all
others. `HistoryInvariant` therefore adds for both tables that uids are unique, below the
sequence, in block order and in stored blocks, and for block rows that uids are unique, below their
sequence, and microblocks above the key blocks. The lemmas of the first section say what each
statement does to a chain (appending, moving rows down, cutting and reopening); the second has
one step per action.

**What readers see** (`AssetReadersProofs`). `AssetsImplement` and `TickersImplement` prove that
`AssetHistory` implements `SnapshotStack`. A snapshot of a block is the latest version of each asset
at or below it; a chain determines it, and its open row is the latest version, so the view is the top
of the stack. Appending adds snapshots above, the squash folds those above a key block into it,
and a cut of the rows above a block leaves the snapshots below as they were. `OriginsAreFirst` proves
`OriginIsFirstVersion`. All of this depends on the columns uid, asset and block alone, so each
statement is first reduced to what it does to those.

**Consumer** (`BpsConsumerProofs`). The invariant is `Base` and `SyncOk`. `Base`: types; heights and
identifiers grow along the node's chain, with one row for each height and its microblocks on top; a
process that is not subscribed has nothing in memory; the database holds the first block with its
transaction or nothing, and in the latter case the block at `starting_height` is what the stream begins
with. `SyncOk`, for histories that are not `stray`: the stored rows are a chain the node once had
(`Chain`: they have the shape of a chain, with identifiers the node has used, and a row it still has
is where it was), and there is a run of chains (`Follows`),
from the stored rows over each message in the transaction, the channel, the batch and the stream to the
rows of the node, in which each rollback finds its block. `BlocksReplica` alone is not inductive: what a
rollback at the end of the stream does to the messages before it can only be said if each prefix of
the stream leads to a chain the node had; and a merge of microblocks gives the row another
identifier, so that a row of an older chain is only known by its place. `Base` alone gives
`TypeCorrect` and `ResentWrites` (`ResentWritesNothing`): the first block collides with its own
transaction. With `SyncOk` follow `TargetStored` (`RollbackTargetStored`) and `RowsReplicated`
(`BlocksReplica`).

Two invariants more carry the uids of one process (`crashes = 0`). `Calm`: the uids in the table are
ordered like the rows, and all are below the next one the generator gives out. A message's block
ends up as the last row, so its transactions have to come last, and they do: the generator never goes
back, not at a rollback and not for a message of a lower height after it, and it moves up to a higher
height past the uids it has used, if those stayed within their height. It needs `UidsFit`: no message finds the uids of its height (`Multiplier`, 100 000 in
the code) used up. Whether that is so is the node's affair, and the code does not check it, so the
theorems say it: `UidsOrderedIfFit` and `DuplicatesAbsorbedIfFit` have `[]UidsFit` as a hypothesis. The
run needs none: its few units always fit.

`Replicated` (`Replica`) says the same of the transactions as `RowsReplicated` of the rows, over any
number of restarts, where no block was sent again and the history is not `stray`. Its invariant is
`CopyOk`: the tables are a chain of blocks with their transactions in uid order (`Mirrors`), which agrees
with the node's wherever they share a block (`Agree`); the messages in flight make it the node's
chain, and at each place where the node's last block was unfinished, so is the chain's (`Leads`). The
last part is what the rows of a running block need: a microblock adds to the last row, and a merge
folds the rows above the last key block, so a chain that is right by its rows could still have the
transactions of one block under another. In uid order means by `Current` that the generator is ahead of
every uid that a merge can fold. A restarted process has a new generator, but what it keeps ends with a
key block below the node's last one or after a reorganisation, whose microblocks are not to come.

`StoredOnce` (`TxsStoredOnce`) and `MetricFollows` (`MetricFollowsCommit`), in `BpsConsumerTimesProofs`, hold of `stray` histories too. What
a restarted process keeps is then no chain the node ever had, the messages in flight do not lead from
it to the node's chain, and a rollback among them may name a block that is not stored. `TimedOk`
therefore goes by heights: there is a height at which the node made each transaction (`Timed`, with `h` as
that height), and
- of the node's chain, each block has the height at which it and its transactions were made, and they
  were made in the order they stand in (`Grown`);
- of the tables, a row is at least as high as the transactions it holds, is named by one of them, and is at
  most one higher than some row before it; no microblock is higher than the last key block (`Tall`).
  A squash gives the row another identifier and more transactions, a row that a repeated block finds under its
  identifier is not lower than the block;
- a process subscribes from above all transactions it has stored (`Waiting`): the startup rollback ends
  at the first row of some height, and no earlier row is higher, as heights climb by one;
- of the messages in flight, none is higher than the one before it except a new block, which is one
  higher, and its identifier is not stored and in no message before it (`Ahead`); and if no block was sent again,
  a message's transactions were made after those of the messages before it and none is stored
  (`OnceAhead`). `Stands` starts the climb: the last row and the last key block are as high as the
  message that was written last (`Level`).

Each message that is written keeps this (`HandledStands`, `HandledOnce`; over a batch `FoldSound`). A block
one higher than the message before it is new, so the upsert stores it instead of finding its
identifier, and the last row is never below the last message of a committed batch. As it is at most one
above that row, the tables keep no gap for the next startup rollback to jump over.

**Subscriptions** (`WsSubscriptionsProofs`). `Invariant` is the conjunction of four parts:
`Wiring` (types, with the bounds left out), `Busy` (what the handler's and the tasks' program counters
say about their variables), `Agreement` (map and table agree on direct subscriptions until the client
is removed, and a leaving task holds every topic that has to go) and `Answers` (a live client was
told of exactly the direct subscriptions in its table that are not new). Agreement until removal,
rather than while live, is what makes it inductive: between `Disconnect` and `Leave` the map still
lists the client, and the collected topics have to cover all of that. From it follow
`DirectSubscriptionsAgree`, `GoneAreForgotten`, `HeardAreRegistered` and `DirectIsAnswered`, for
any number of clients, topics and multi-topics and any sizes of the buffers.
`TypeCorrect` adds the bounds of the queues and the types of the history (`Bounds`).
`SubscribersEndCurrent` proves `SubscribersCurrent` from `Delivery`: for a client that was registered
when a key was last written, either it was told the key's value, or that value is the last one
mentioned for the key on the way to it: in the subscriber's buffer, then in the channel, then in
the hands of the handler with the client still in the list to be sent to (`OnItsWay`). The three
places are one queue to which only its end is added, so "the last one mentioned" survives that the
handler takes older values of the same key first.

**Requests of pages** (`ConnectRequestsProofs`). `TypeCorrect`, `NobodyIsForgotten`
(`NoLostWakeup`), `TrustFirst` (`ServedOnlyIfAllowed`) and `ServedByConsent` (`ResultHasConsent`) for any
sites, requests, ports, windows and whitelist. The invariants tie what is done to what was decided
(`TrustInv`): a site that holds a permission was granted or is listed; a question that ended well belongs
to such a site, and those who wait for it are of its site; a message in the store is of such a site. And
(`ConsentInv`) the build an approval works on was confirmed, only requests that are broadcast go to the
node, and nothing is on the chain that was not confirmed.
`SecondByFee` (`SecondOnlyByFee`) and `DenialHolds` (`DeniedUnlessApproved`) rest on a further invariant,
`ChainInv`, of each request: nothing was approved before its message was built (`Fresh`); unless it was
refitted, all builds that were approved are the one in the store (`Fits`); of one denied and not
`undone`, no approval runs and nothing is on the chain (`Denies`). `TypeOK`, `TrustInv` and
`ConsentInv` prove `Serves`: what the pages see implements `SigningService` (`ServesLikeSigner`), one step of the abstract
service or a stutter for each action.

**Vault** (`VaultProofs`). `Invariant` has a part that always holds and one that holds while
undisturbed. Always: types; key and session key are equal; the newest write on its way is the
store; in the store, on the way and on disk a vault without a key is no vault, and has no accounts; what a window carries
over its waits is a vault that some key opens. While undisturbed: the salt leads to the vault's key and a key
in memory opens it (`Opens`), no account is lost (`Keeps`), an unlocked vault is complete or being
filled (`Ready`), a locked one is clean or being opened (`Clean`). The last two need each other: a window
that fills the wallets is what either of them excuses. `KeyOpens`, `NothingLost`, `Unlocked` and `Locked`
follow, for any number of windows, accounts, salts and restarts.

**Bus** (`BrowserBusProofs`). `TypeCorrect`, `Reachable` (`PendingIsReachable`) and `Remotes`
(`CallsAreRemote`, the refinement of `RemoteCall`). The messages under way carry the invariant: an
action is in the queue once, for a request that was made and whose handler has not run, and an answer
of success means that the handler has run. That a handler runs at most once follows, as running it
takes the only action there is.

Only model-checked: everything about liveness (`CatchesUp`, `EventsPublished`, `Answered`,
`Settled`), as the proof system does not reason about fairness and enabledness.
Every safety property that a passing run checks is stated by a theorem, `UidsInChainOrder` and
`RunningAbsorbsDuplicates` with the hypothesis `[]UidsFit`.

## Not modelled, and what could follow

In order of importance:

1. BPS: several transactions per block in `BpsConsumer`, to separate which restarts break the order of
   uids; candles as an algorithm against a reference definition; transaction events and
   `assets_only`.
2. websocket-api keepalive and key refresher, with discrete time; subscription keys and leases.
3. data-service daemon loop, whose next round is only scheduled after a success; cursor pagination.
4. the extension's idle alarm and auto-sign limits with time and amounts; its asset and network caches.
5. browser-bus lists of handlers while an event fires.
6. signer, connect provider and ledger.

User interfaces, cryptography, serialization, request clients, the JVM packages and the RIDE compiler
are left out: they keep no state that several actors write, or are of a size that a model would
merely repeat. They are most of the repository's lines; the models cover its stateful cores, file by
file in the `map` of `PROJECT.json`.
