---------------------------- MODULE AssetHistory ----------------------------
(***************************************************************************)
(* The version history of assets and asset tickers as the consumer of      *)
(* blockchain-postgres-sync maintains it: key blocks, microblocks on top   *)
(* of the last key block, the squash of those microblocks when the next    *)
(* key block arrives, and rollbacks to any stored block.  Each action is   *)
(* one Postgres transaction (an item of handle_updates); sequences are not *)
(* transactional, so an aborted transaction leaves its uids consumed.      *)
(***************************************************************************)
EXTENDS VersionTables

CONSTANTS
  TickersOn,    \* an asset storage address is configured
  MaxBatch,     \* bound: key blocks of one batch (updates_per_request)
  MaxUpdates,   \* bound: version rows of one batch, per table
  MaxBlockUid   \* bound: block uids handed out

ASSUME BoundsAssumption ==
  /\ TickersOn \in BOOLEAN
  /\ MaxBatch \in Nat /\ MaxUpdates \in Nat /\ MaxBlockUid \in Nat

VARIABLES
  blocks,     \* blocks_microblocks: [uid, key], key iff time_stamp is not null
  blockSeq,   \* next value of the identity column of blocks_microblocks
  assets,     \* asset_updates
  assetSeq,   \* next value of asset_updates_uid_seq
  tickers,    \* asset_tickers
  tickerSeq,  \* next value of asset_tickers_uid_seq
  origins     \* asset_origins: [asset, first], first = first_asset_update_uid

vars == <<blocks, blockSeq, assets, assetSeq, tickers, tickerSeq, origins>>

Block == [uid : Nat, key : BOOLEAN]
Origin == [asset : Assets, first : Nat]

TypeOK ==
  /\ blocks \subseteq Block
  /\ blockSeq \in Nat \ {0}
  /\ assets \subseteq Version
  /\ assetSeq \in Nat \ {0}
  /\ tickers \subseteq Version
  /\ tickerSeq \in Nat \ {0}
  /\ origins \subseteq Origin

Init ==
  /\ blocks = {} /\ blockSeq = 1
  /\ assets = {} /\ assetSeq = 1
  /\ tickers = {} /\ tickerSeq = 1
  /\ origins = {}

----------------------------------------------------------------------------
Microblocks == {b \in blocks : ~b.key}
KeyUids == {b.uid : b \in {k \in blocks : k.key}}

\* Batches of n updates of one table, in block order, for the blocks in B.
Batches(B) ==
  {us \in UNION {[1..n -> [block_uid : B, asset : Assets]] : n \in 0..MaxUpdates} :
     \A i, j \in DOMAIN us : i < j => us[i].block_uid <= us[j].block_uid}

\* Ticker updates are extracted only when a storage address is configured.
TickerBatches(B) == IF TickersOn THEN Batches(B) ELSE {<< >>}

\* Mutant: the rows of microblocks stay where they are.
SquashedInPlace(T) == T

\* squash_microblocks moves the rows of microblocks to the last key block.
Squashed(T) == IF Microblocks = {} THEN T ELSE Repoint(T, Max(KeyUids))

\* Mutant: an origin is overwritten by the newest batch.
ReplaceOrigins(us, base) ==
  {o \in origins : o.asset \notin {us[i].asset : i \in DOMAIN us}} \cup
    {[asset |-> a, first |-> Min(NewUids(us, base, a))] : a \in {us[i].asset : i \in DOMAIN us}}

\* insert_asset_origins: ON CONFLICT (asset_id) DO NOTHING.
InsertOrigins(us, base) ==
  origins \cup
    {[asset |-> a, first |-> Min(NewUids(us, base, a))] :
       a \in {us[i].asset : i \in DOMAIN us} \ {o.asset : o \in origins}}

\* handle_appends on tables whose microblock rows are already where they stay.
WriteVersions(A, T, us, ts) ==
  /\ assetSeq + Len(us) <= MaxUid
  /\ tickerSeq + Len(ts) <= MaxUid
  /\ assets' = AppendVersions(A, us, assetSeq)
  /\ assetSeq' = assetSeq + Len(us)
  /\ tickers' = AppendVersions(T, ts, tickerSeq)
  /\ tickerSeq' = tickerSeq + Len(ts)
  /\ origins' = InsertOrigins(us, assetSeq)

----------------------------------------------------------------------------
\* A run of consecutive key blocks: squash, then insert the blocks and their
\* updates.
AppendBlocks ==
  \E n \in 1..MaxBatch :
    LET new == blockSeq..(blockSeq + n - 1) IN
    /\ blockSeq + n <= MaxBlockUid
    /\ blocks' = (blocks \ Microblocks) \cup {[uid |-> u, key |-> TRUE] : u \in new}
    /\ blockSeq' = blockSeq + n
    /\ \E us \in Batches(new), ts \in TickerBatches(new) :
         WriteVersions(Squashed(assets), Squashed(tickers), us, ts)

\* One microblock, which extends a key block the node has sent before it.
AppendMicroblock ==
  /\ KeyUids # {}
  /\ blockSeq < MaxBlockUid
  /\ blocks' = blocks \cup {[uid |-> blockSeq, key |-> FALSE]}
  /\ blockSeq' = blockSeq + 1
  /\ \E us \in Batches({blockSeq}), ts \in TickerBatches({blockSeq}) :
       WriteVersions(assets, tickers, us, ts)

\* rollback: the node names a stored block (get_block_uid_height).
Rollback ==
  \E b \in blocks :
    /\ assets' = RollbackVersions(assets, b.uid)
    /\ tickers' = RollbackVersions(tickers, b.uid)
    /\ origins' = {o \in origins : o.first \in Uids(assets')}
    /\ blocks' = {c \in blocks : c.uid <= b.uid}
    /\ UNCHANGED <<blockSeq, assetSeq, tickerSeq>>

\* A transaction that fails after it took values from the sequences.
AbortedAppend ==
  /\ \E n \in 1..MaxBatch : blockSeq + n <= MaxBlockUid /\ blockSeq' = blockSeq + n
  /\ \E n \in 0..MaxUpdates : assetSeq + n <= MaxUid /\ assetSeq' = assetSeq + n
  /\ \E n \in 0..(IF TickersOn THEN MaxUpdates ELSE 0) :
       tickerSeq + n <= MaxUid /\ tickerSeq' = tickerSeq + n
  /\ UNCHANGED <<blocks, assets, tickers, origins>>

Next == AppendBlocks \/ AppendMicroblock \/ Rollback \/ AbortedAppend

Spec == Init /\ [][Next]_vars

----------------------------------------------------------------------------
(* Properties.                                                             *)

\* Both tables are chains: each asset with a row has exactly one open row,
\* its latest, and every other row names its immediate successor.  This is
\* what the assets, tickers and decimals views and the primary key
\* (superseded_by, asset_id) rely on through any mix of batches, squashes
\* and rollbacks.
VersionChains == IsChain(assets) /\ IsChain(tickers)

\* No row is left pointing at a block that is not stored any more (the
\* foreign key on block_uid): squash and rollback move or delete every row
\* of a block before they delete the block.
RowsHaveBlocks ==
  \A r \in assets \cup tickers : \E b \in blocks : b.uid = r.block_uid

\* Microblocks only ever sit above the last key block: get_key_block_uid and
\* the "block_uid > key" updates of the squash move nothing else.
MicroblocksOnTop == \A m \in Microblocks : \E k \in KeyUids : \A c \in KeyUids : c <= k /\ k < m.uid

\* Every known asset has exactly one origin, that of its first version, and
\* an asset whose every version was rolled back has none, so a re-issue on
\* the new branch records its own origin.
OriginIsFirstVersion ==
  /\ \A o \in origins : \E r \in assets :
       /\ r.asset = o.asset /\ r.uid = o.first
       /\ \A s \in assets : s.asset = o.asset => o.first <= s.uid
  /\ \A r \in assets : \E o \in origins : o.asset = r.asset
  /\ \A o, p \in origins : o.asset = p.asset => o = p

----------------------------------------------------------------------------
(* Refinement: what the history promises is a stack of snapshots, one per  *)
(* stored block, with the views showing the one on top.                    *)

BlockUids == {b.uid : b \in blocks}

Stack(T) == [b \in BlockUids |-> [a \in Assets |-> VersionAsOf(T, a, b)]]
Shown(T) == [a \in Assets |-> CurrentVersion(T, a)]

AssetSnapshots == INSTANCE SnapshotStack WITH stack <- Stack(assets), shown <- Shown(assets)
TickerSnapshots == INSTANCE SnapshotStack WITH stack <- Stack(tickers), shown <- Shown(tickers)

\* Queries see the newest snapshot, and a rollback to a block restores what
\* queries saw when that block was the last one, for both tables.
AssetsAreSnapshots == AssetSnapshots!Spec
TickersAreSnapshots == TickerSnapshots!Spec
============================================================================
