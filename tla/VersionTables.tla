--------------------------- MODULE VersionTables ---------------------------
(***************************************************************************)
(* The two append-only version tables of blockchain-postgres-sync,         *)
(* asset_updates and asset_tickers, as sets of rows, and the statements    *)
(* the consumer runs on them.  A row is one version of one asset.  Its     *)
(* superseded_by column holds the uid of the next version of the same      *)
(* asset, or MaxUid while the row is the current ("open") version: the     *)
(* assets, tickers and decimals views select superseded_by = MaxUid.       *)
(*                                                                         *)
(* The columns that carry a version's data (name, decimals, volume, ...)   *)
(* are not represented: a version is identified by its uid.                *)
(***************************************************************************)
EXTENDS Integers, Sequences, FiniteSetsExt

CONSTANTS
  Assets,   \* asset identifiers
  MaxUid    \* the sentinel i64::MAX - 1, larger than any uid handed out

ASSUME MaxUidAssumption == MaxUid \in Nat

Version == [uid : Nat, asset : Assets, block_uid : Nat, superseded_by : Nat]

\* One element of the batch a call inserts: which asset, in which block.
Update == [block_uid : Nat, asset : Assets]

Uids(T) == {r.uid : r \in T}

----------------------------------------------------------------------------
(* Inserting a batch.                                                      *)

\* The uids given to the updates of asset a, update i getting base + i - 1.
NewUids(us, base, a) == {base + i - 1 : i \in {j \in DOMAIN us : us[j].asset = a}}

LaterInBatch(us, i) == {j \in DOMAIN us : j > i /\ us[j].asset = us[i].asset}

\* Mutant: the placeholder of the last version of an asset is never replaced.
NewRowsPlaceholder(us, base) ==
  {[uid           |-> base + i - 1,
    asset         |-> us[i].asset,
    block_uid     |-> us[i].block_uid,
    superseded_by |-> IF LaterInBatch(us, i) = {}
                        THEN -1
                        ELSE base + Min(LaterInBatch(us, i)) - 1] : i \in DOMAIN us}

\* Inside the batch each version is superseded by the next one of its asset.
NewRows(us, base) ==
  {[uid           |-> base + i - 1,
    asset         |-> us[i].asset,
    block_uid     |-> us[i].block_uid,
    superseded_by |-> IF LaterInBatch(us, i) = {}
                        THEN MaxUid
                        ELSE base + Min(LaterInBatch(us, i)) - 1] : i \in DOMAIN us}

\* close_*_superseded_by: the open row of every asset of the batch is
\* superseded by the first version of that asset in the batch.
CloseOpen(T, us, base) ==
  {IF r.superseded_by = MaxUid /\ NewUids(us, base, r.asset) # {}
     THEN [r EXCEPT !.superseded_by = Min(NewUids(us, base, r.asset))]
     ELSE r : r \in T}

AppendVersions(T, us, base) == CloseOpen(T, us, base) \cup NewRows(us, base)

----------------------------------------------------------------------------
(* Rolling back to a block, and moving microblock rows to their key block. *)

\* Mutant: the rows of the block rolled back to are deleted as well.
DeletedFrom(T, b) == {r \in T : r.block_uid >= b}

DeletedAbove(T, b) == {r \in T : r.block_uid > b}

\* The smallest deleted uid of every asset that lost a version.
LowestDeleted(T, b) ==
  {Min(Uids({r \in DeletedAbove(T, b) : r.asset = a})) :
     a \in {r.asset : r \in DeletedAbove(T, b)}}

\* Mutant: nothing is reopened.
RollbackWithoutReopening(T, b) == T \ DeletedAbove(T, b)

\* Reopening matches on superseded_by alone, not on the asset.
RollbackVersions(T, b) ==
  {IF r.superseded_by \in LowestDeleted(T, b)
     THEN [r EXCEPT !.superseded_by = MaxUid]
     ELSE r : r \in T \ DeletedAbove(T, b)}

Repoint(T, b) ==
  {IF r.block_uid > b THEN [r EXCEPT !.block_uid = b] ELSE r : r \in T}

----------------------------------------------------------------------------
(* What the views rely on.                                                 *)

Successors(T, r) == {s \in T : s.asset = r.asset /\ s.uid > r.uid}

\* Every row is superseded by the next row of its asset, the last by MaxUid.
IsChain(T) ==
  \A r \in T :
    \/ r.superseded_by = MaxUid /\ Successors(T, r) = {}
    \/ /\ r.superseded_by # MaxUid
       /\ \E s \in Successors(T, r) :
            /\ s.uid = r.superseded_by
            /\ \A q \in Successors(T, r) : s.uid <= q.uid

UidsUnique(T) == \A r, s \in T : r.uid = s.uid => r = s

\* Versions appear in the order of their blocks: what makes "delete every
\* row of a later block" remove a suffix of each asset's chain.
BlockOrdered(T) == \A r, s \in T : r.uid < s.uid => r.block_uid <= s.block_uid

\* The version of asset a the views show: 0 when the asset is not known.
CurrentVersion(T, a) ==
  LET open == {r \in T : r.asset = a /\ r.superseded_by = MaxUid}
  IN  IF open = {} THEN 0 ELSE Max(Uids(open))

\* The version of asset a as of block b.
VersionAsOf(T, a, b) ==
  LET upTo == {r \in T : r.asset = a /\ r.block_uid <= b}
  IN  IF upTo = {} THEN 0 ELSE Max(Uids(upTo))
============================================================================
