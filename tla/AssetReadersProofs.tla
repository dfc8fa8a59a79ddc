------------------------- MODULE AssetReadersProofs -------------------------
(***************************************************************************)
(* Proofs about what readers of AssetHistory rely on, for any assets and   *)
(* any bounds: every known asset has exactly one origin, which names its   *)
(* first version, and both tables implement SnapshotStack.  Only the uid,  *)
(* the asset and the block of a row matter to either, so the statements on *)
(* a version table are first reduced to what they do to those columns.     *)
(***************************************************************************)
EXTENDS AssetHistoryProofs

USE MaxUidAssumption, BoundsAssumption

\* The two columns of a row an origin is compared with.
Twin(r, t) == r.uid = t.uid /\ r.asset = t.asset

Covers(S, T) == \A t \in T : \E s \in S : Twin(s, t)

\* The same with the block of the row.
Places(S, T) == \A t \in T : \E s \in S : Twin(s, t) /\ s.block_uid = t.block_uid

LEMMA PlacesCovers ==
  ASSUME NEW S, NEW T, Places(S, T)
  PROVE  Covers(S, T)
BY DEF Places, Covers

\* What OriginIsFirstVersion says of any origins and any table.
FirstVersions(O, T) ==
  /\ \A o \in O : \E r \in T :
       /\ r.asset = o.asset /\ r.uid = o.first
       /\ \A s \in T : s.asset = o.asset => o.first <= s.uid
  /\ \A r \in T : \E o \in O : o.asset = r.asset
  /\ \A o, p \in O : o.asset = p.asset => o = p

LEMMA SameOrigins ==
  ASSUME NEW O, NEW S, NEW T, FirstVersions(O, S), Covers(S, T), Covers(T, S)
  PROVE  FirstVersions(O, T)
BY DEF FirstVersions, Covers, Twin

\* Moving rows to another block changes neither column.
LEMMA RepointCovers ==
  ASSUME NEW T \in SUBSET Version, NEW k \in Nat
  PROVE  Covers(T, Repoint(T, k)) /\ Covers(Repoint(T, k), T)
<1> DEFINE F(r) == IF r.block_uid > k THEN [r EXCEPT !.block_uid = k] ELSE r
<1>1. \A r \in T : F(r) \in Repoint(T, k) /\ Twin(r, F(r)) /\ Twin(F(r), r)
  BY ChangedRows DEF Repoint, Twin
<1>2. \A t \in Repoint(T, k) : \E r \in T : t = F(r)
  BY DEF Repoint
<1> HIDE DEF F
<1> QED BY <1>1, <1>2 DEF Covers

\* A rollback keeps the columns of the rows up to the block.
LEMMA RollbackPlaces ==
  ASSUME NEW T \in SUBSET Version, NEW b \in Nat
  PROVE  /\ Places(T \ DeletedAbove(T, b), RollbackVersions(T, b))
         /\ Places(RollbackVersions(T, b), T \ DeletedAbove(T, b))
<1> DEFINE K == T \ DeletedAbove(T, b)
           F(r) == IF r.superseded_by \in LowestDeleted(T, b)
                     THEN [r EXCEPT !.superseded_by = MaxUid] ELSE r
<1>1. \A r \in K : F(r) \in RollbackVersions(T, b) /\ Twin(r, F(r)) /\ Twin(F(r), r)
                    /\ F(r).block_uid = r.block_uid
  BY ChangedRows DEF RollbackVersions, Twin
<1>2. \A t \in RollbackVersions(T, b) : \E r \in K : t = F(r)
  BY DEF RollbackVersions
<1> HIDE DEF F, K
<1>3. Places(K, RollbackVersions(T, b)) /\ Places(RollbackVersions(T, b), K)
  BY <1>1, <1>2 DEF Places
<1> QED BY <1>3 DEF K

\* Closing open rows changes none of these columns.
LEMMA CloseOpenPlaces ==
  ASSUME NEW T \in SUBSET Version, NEW us \in Seq(Update), NEW base \in Nat
  PROVE  Places(T, CloseOpen(T, us, base)) /\ Places(CloseOpen(T, us, base), T)
<1> DEFINE F(r) == IF r.superseded_by = MaxUid /\ NewUids(us, base, r.asset) # {}
                     THEN [r EXCEPT !.superseded_by = Min(NewUids(us, base, r.asset))]
                     ELSE r
<1>1. \A a : NewUids(us, base, a) \in SUBSET Nat
  <2>1. \A i \in DOMAIN us : i \in Nat /\ i >= 1
    OBVIOUS
  <2> QED BY <2>1 DEF NewUids
<1>2. ASSUME NEW r \in T
      PROVE  F(r) \in CloseOpen(T, us, base) /\ Twin(r, F(r)) /\ Twin(F(r), r)
                    /\ F(r).block_uid = r.block_uid
  <2>1. F(r) \in CloseOpen(T, us, base)
    BY DEF CloseOpen
  <2>2. CASE r.superseded_by = MaxUid /\ NewUids(us, base, r.asset) # {}
    <3>1. Min(NewUids(us, base, r.asset)) \in Nat
      BY <1>1, <2>2, MinOfNaturals
    <3>2. F(r) = [r EXCEPT !.superseded_by = Min(NewUids(us, base, r.asset))]
      BY <2>2
    <3> QED BY <2>1, <3>1, <3>2, ChangedRows DEF Twin
  <2>3. CASE ~(r.superseded_by = MaxUid /\ NewUids(us, base, r.asset) # {})
    BY <2>1, <2>3 DEF Twin
  <2> QED BY <2>2, <2>3
<1>3. \A t \in CloseOpen(T, us, base) : \E r \in T : t = F(r)
  BY DEF CloseOpen
<1> HIDE DEF F
<1> QED BY <1>2, <1>3 DEF Places

LEMMA NewRowsMeans ==
  ASSUME NEW us \in Seq(Update), NEW base \in Nat
  PROVE  /\ \A t \in NewRows(us, base) : \E i \in DOMAIN us : t.uid = base + i - 1 /\ t.asset = us[i].asset
         /\ \A i \in DOMAIN us : \E t \in NewRows(us, base) : t.uid = base + i - 1 /\ t.asset = us[i].asset
<1> DEFINE G(i) == [uid           |-> base + i - 1,
                    asset         |-> us[i].asset,
                    block_uid     |-> us[i].block_uid,
                    superseded_by |-> IF LaterInBatch(us, i) = {}
                                        THEN MaxUid
                                        ELSE base + Min(LaterInBatch(us, i)) - 1]
<1>1. \A i : G(i).uid = base + i - 1 /\ G(i).asset = us[i].asset
  OBVIOUS
<1>2. NewRows(us, base) = {G(i) : i \in DOMAIN us}
  BY DEF NewRows
<1> HIDE DEF G
<1> QED BY <1>1, <1>2

\* A batch gives new assets an origin: the lowest uid they get in it.
LEMMA AppendKeepsOrigins ==
  ASSUME NEW O \in SUBSET Origin, NEW T \in SUBSET Version, FirstVersions(O, T),
         NEW us \in Seq(Update), NEW base \in Nat, base > 0, \A r \in T : r.uid < base
  PROVE  FirstVersions(
           O \cup {[asset |-> a, first |-> Min(NewUids(us, base, a))] :
                     a \in {us[i].asset : i \in DOMAIN us} \ {o.asset : o \in O}},
           AppendVersions(T, us, base))
<1> DEFINE C == CloseOpen(T, us, base)
           N == AppendVersions(T, us, base)
           first(a) == Min(NewUids(us, base, a))
           named == {us[i].asset : i \in DOMAIN us}
           P == {[asset |-> a, first |-> first(a)] : a \in named \ {o.asset : o \in O}}
<1>1. FirstVersions(O, C)
  BY CloseOpenPlaces, PlacesCovers, SameOrigins
<1>2. \A r \in C : \E s \in T : s.uid = r.uid /\ s.asset = r.asset
  BY CloseOpenPlaces DEF Places, Twin
<1>3. \A r \in C : r.uid \in Nat /\ r.uid < base
  BY <1>2 DEF Version
<1>4. \A t \in N : t \in C \/ \E i \in DOMAIN us : t.uid = base + i - 1 /\ t.asset = us[i].asset
  BY NewRowsMeans DEF AppendVersions
<1>5. \A i \in DOMAIN us : i \in Nat /\ i >= 1
  OBVIOUS
<1>6. \A i \in DOMAIN us : \E t \in N : t.uid = base + i - 1 /\ t.asset = us[i].asset
  BY NewRowsMeans DEF AppendVersions
<1>7. C \subseteq N
  BY DEF AppendVersions
<1>8. \A a \in named :
        /\ first(a) \in NewUids(us, base, a) /\ first(a) \in Nat /\ first(a) >= base
        /\ \A u \in NewUids(us, base, a) : first(a) <= u
  <2> SUFFICES ASSUME NEW a \in named
               PROVE  /\ first(a) \in NewUids(us, base, a) /\ first(a) \in Nat /\ first(a) >= base
                      /\ \A u \in NewUids(us, base, a) : first(a) <= u
    OBVIOUS
  <2> DEFINE U == NewUids(us, base, a)
  <2>1. \A u \in U : u \in Nat /\ u >= base
    BY <1>5 DEF NewUids
  <2>2. U # {}
    BY DEF NewUids
  <2> HIDE DEF U
  <2>3. U \in SUBSET Nat
    BY <2>1
  <2>4. Min(U) \in U /\ \A u \in U : Min(U) <= u
    BY <2>2, <2>3, MinOfNaturals
  <2> QED BY <2>1, <2>4 DEF U
<1>9. \A a, u : u \in NewUids(us, base, a) =>
                 \E i \in DOMAIN us : u = base + i - 1 /\ us[i].asset = a
  BY DEF NewUids
<1>10. \A i \in DOMAIN us : base + i - 1 \in NewUids(us, base, us[i].asset)
  BY DEF NewUids
<1>11. \A p \in P : p.asset \in named /\ p.asset \notin {o.asset : o \in O} /\ p.first = first(p.asset)
                    /\ p = [asset |-> p.asset, first |-> first(p.asset)]
  OBVIOUS
<1>12. \A a \in named \ {o.asset : o \in O} : \E p \in P : p.asset = a
  <2> SUFFICES ASSUME NEW a \in named \ {o.asset : o \in O} PROVE \E p \in P : p.asset = a
    OBVIOUS
  <2>1. [asset |-> a, first |-> first(a)] \in P /\ [asset |-> a, first |-> first(a)].asset = a
    OBVIOUS
  <2> QED BY <2>1
<1>13. \A i \in DOMAIN us : us[i].asset \in named
  OBVIOUS
<1> HIDE DEF C, N, P, named, first
<1>14. \A o \in O : o.first \in Nat
  BY DEF Origin
<1>15. ASSUME NEW o \in O \cup P
       PROVE  \E r \in N : /\ r.asset = o.asset /\ r.uid = o.first
                           /\ \A s \in N : s.asset = o.asset => o.first <= s.uid
  <2>1. CASE o \in O
    <3>1. PICK r \in C : /\ r.asset = o.asset /\ r.uid = o.first
                         /\ \A s \in C : s.asset = o.asset => o.first <= s.uid
      BY <1>1, <2>1 DEF FirstVersions
    <3>2. o.first \in Nat /\ o.first < base
      BY <1>3, <3>1
    <3>3. ASSUME NEW s \in N, s.asset = o.asset PROVE o.first <= s.uid
      <4>1. CASE s \in C
        BY <3>1, <3>3, <4>1
      <4>2. CASE \E i \in DOMAIN us : s.uid = base + i - 1
        BY <1>5, <3>2, <4>2
      <4> QED BY <1>4, <4>1, <4>2
    <3> QED BY <1>7, <3>1, <3>3
  <2>2. CASE o \in P
    <3>1. /\ o.asset \in named /\ o.asset \notin {q.asset : q \in O}
          /\ o.first = first(o.asset) /\ first(o.asset) \in NewUids(us, base, o.asset)
          /\ \A u \in NewUids(us, base, o.asset) : first(o.asset) <= u
      BY <1>8, <1>11, <2>2
    <3>2. PICK i \in DOMAIN us : o.first = base + i - 1 /\ us[i].asset = o.asset
      BY <1>9, <3>1
    <3>3. PICK r \in N : r.uid = o.first /\ r.asset = o.asset
      BY <1>6, <3>2
    <3>4. ASSUME NEW s \in N, s.asset = o.asset PROVE o.first <= s.uid
      <4>1. s \notin C
        BY <1>1, <3>1, <3>4 DEF FirstVersions
      <4>2. PICK j \in DOMAIN us : s.uid = base + j - 1 /\ s.asset = us[j].asset
        BY <1>4, <4>1
      <4>3. s.uid \in NewUids(us, base, o.asset)
        BY <1>10, <3>4, <4>2
      <4> QED BY <3>1, <4>3
    <3> QED BY <3>3, <3>4
  <2> QED BY <2>1, <2>2
<1>16. ASSUME NEW r \in N PROVE \E o \in O \cup P : o.asset = r.asset
  <2>1. CASE r \in C
    BY <1>1, <2>1 DEF FirstVersions
  <2>2. CASE \E i \in DOMAIN us : r.asset = us[i].asset
    BY <1>12, <1>13, <2>2
  <2> QED BY <1>4, <2>1, <2>2
<1>17. ASSUME NEW o \in O \cup P, NEW p \in O \cup P, o.asset = p.asset PROVE o = p
  <2>1. CASE o \in P \/ p \in P
    BY <1>11, <1>17, <2>1
  <2>2. CASE o \in O /\ p \in O
    BY <1>1, <1>17, <2>2 DEF FirstVersions
  <2> QED BY <2>1, <2>2
<1>18. FirstVersions(O \cup P, N)
  BY <1>15, <1>16, <1>17 DEF FirstVersions
<1> QED BY <1>18 DEF P, N, named, first

\* A rollback deletes the later rows of an asset, so its first version is
\* among the rows that stay exactly when any of them stays.
LEMMA RollbackKeepsOrigins ==
  ASSUME NEW O \in SUBSET Origin, NEW T \in SUBSET Version, FirstVersions(O, T),
         UidsUnique(T), BlockOrdered(T), NEW b \in Nat
  PROVE  FirstVersions({o \in O : o.first \in Uids(RollbackVersions(T, b))}, RollbackVersions(T, b))
<1> DEFINE K == T \ DeletedAbove(T, b)
           P == {o \in O : o.first \in Uids(K)}
<1>1. /\ Covers(K, RollbackVersions(T, b)) /\ Covers(RollbackVersions(T, b), K)
      /\ K \subseteq T /\ \A r \in T : r \in K <=> ~(r.block_uid > b)
  BY RollbackPlaces, PlacesCovers DEF DeletedAbove
<1>2. Uids(RollbackVersions(T, b)) = Uids(K)
  BY <1>1 DEF Covers, Twin, Uids
<1>3. \A r \in T : r.uid \in Nat /\ r.block_uid \in Nat
  BY DEF Version
<1> HIDE DEF K
<1>4. ASSUME NEW o \in P
      PROVE  \E r \in K : /\ r.asset = o.asset /\ r.uid = o.first
                          /\ \A s \in K : s.asset = o.asset => o.first <= s.uid
  <2>1. PICK r \in T : /\ r.asset = o.asset /\ r.uid = o.first
                       /\ \A s \in T : s.asset = o.asset => o.first <= s.uid
    BY <1>4 DEF FirstVersions
  <2>2. PICK t \in K : t.uid = o.first
    BY <1>4 DEF Uids
  <2>3. t = r
    BY <1>1, <2>1, <2>2 DEF UidsUnique
  <2> QED BY <1>1, <2>1, <2>2, <2>3
<1>5. ASSUME NEW t \in K PROVE \E o \in P : o.asset = t.asset
  <2>1. PICK o \in O : o.asset = t.asset
    BY <1>1 DEF FirstVersions
  <2>2. PICK r \in T : r.uid = o.first /\ \A s \in T : s.asset = o.asset => o.first <= s.uid
    BY DEF FirstVersions
  <2>3. r.uid <= t.uid /\ r.uid \in Nat /\ t.uid \in Nat /\ t \in T
    BY <1>1, <1>3, <2>1, <2>2
  <2>4. r.block_uid <= t.block_uid
    <3>1. CASE r.uid = t.uid
      <4>1. r = t
        BY <2>3, <3>1 DEF UidsUnique
      <4> QED BY <1>3, <4>1
    <3>2. CASE r.uid # t.uid
      <4>1. r.uid < t.uid
        BY <2>3, <3>2
      <4> QED BY <2>3, <4>1 DEF BlockOrdered
    <3> QED BY <3>1, <3>2
  <2>5. r \in K
    BY <1>1, <1>3, <2>3, <2>4
  <2> QED BY <2>1, <2>2, <2>5 DEF Uids
<1>6. FirstVersions(P, K)
  BY <1>4, <1>5 DEF FirstVersions
<1>7. FirstVersions(P, RollbackVersions(T, b))
  BY <1>1, <1>6, SameOrigins
<1> QED BY <1>2, <1>7

---------------------------------------------------------------------------
LEMMA OriginsKept ==
  IInv /\ IInv' /\ FirstVersions(origins, assets) /\ [Next]_vars => FirstVersions(origins', assets')
<1> SUFFICES ASSUME IInv, IInv', FirstVersions(origins, assets), [Next]_vars
             PROVE  FirstVersions(origins', assets')
  OBVIOUS
<1>1. /\ origins \in SUBSET Origin /\ assets \in SUBSET Version
      /\ assetSeq \in Nat /\ assetSeq > 0
      /\ \A r \in assets : r.uid < assetSeq
      /\ UidsUnique(assets) /\ BlockOrdered(assets)
  BY DEF IInv, TypeOK, TableInv
<1>2. \A B \in SUBSET Nat : Batches(B) \subseteq Seq(Update)
  <2> SUFFICES ASSUME NEW B \in SUBSET Nat, NEW s \in Batches(B) PROVE s \in Seq(Update)
    OBVIOUS
  <2>1. PICK n \in 0..MaxUpdates : s \in [1..n -> [block_uid : B, asset : Assets]]
    BY DEF Batches
  <2>2. \A i \in 1..n : s[i] \in Update
    BY <2>1 DEF Update
  <2>3. s \in [1..n -> Update] /\ n \in Nat
    BY <2>1, <2>2
  <2> QED BY <2>3
<1>3. ASSUME NEW A \in SUBSET Version, FirstVersions(origins, A), \A r \in A : r.uid < assetSeq,
             NEW T, NEW us \in Seq(Update), NEW ts, WriteVersions(A, T, us, ts)
      PROVE  FirstVersions(origins', assets')
  <2>1. /\ assets' = AppendVersions(A, us, assetSeq)
        /\ origins' = origins \cup
             {[asset |-> a, first |-> Min(NewUids(us, assetSeq, a))] :
                a \in {us[i].asset : i \in DOMAIN us} \ {o.asset : o \in origins}}
    BY <1>3 DEF WriteVersions, InsertOrigins
  <2> QED BY <1>1, <1>3, <2>1, AppendKeepsOrigins
<1>4. CASE AppendBlocks
  <2>1. PICK n \in 1..MaxBatch :
          LET new == blockSeq..(blockSeq + n - 1) IN
          \E us \in Batches(new), ts \in TickerBatches(new) :
            WriteVersions(Squashed(assets), Squashed(tickers), us, ts)
    BY <1>4 DEF AppendBlocks
  <2> DEFINE new == blockSeq..(blockSeq + n - 1)
  <2>2. new \in SUBSET Nat
    BY DEF IInv, TypeOK
  <2>3. PICK us \in Batches(new), ts \in TickerBatches(new) :
          WriteVersions(Squashed(assets), Squashed(tickers), us, ts)
    BY <2>1
  <2>4. us \in Seq(Update)
    BY <1>2, <2>2
  <2> HIDE DEF new
  <2> DEFINE A == Squashed(assets)
  <2>5. /\ A \in SUBSET Version /\ FirstVersions(origins, A)
        /\ \A r \in A : r.uid < assetSeq
    <3>1. CASE Microblocks = {}
      BY <1>1, <3>1 DEF Squashed
    <3>2. CASE Microblocks # {}
      <4> DEFINE k == Max(KeyUids)
      <4>1. k \in Nat
        BY <3>2, LastKeyBlock DEF IInv
      <4>2. A = Repoint(assets, k)
        BY <3>2 DEF Squashed
      <4> HIDE DEF A, k
      <4>3. A \subseteq Version /\ TableInv(A, assetSeq)
        BY <1>1, <4>1, <4>2, RepointKeepsTable DEF IInv
      <4>4. FirstVersions(origins, A)
        BY <1>1, <4>1, <4>2, RepointCovers, SameOrigins
      <4> QED BY <4>3, <4>4 DEF TableInv
    <3> QED BY <3>1, <3>2
  <2> HIDE DEF A
  <2>6. WriteVersions(A, Squashed(tickers), us, ts)
    BY <2>3 DEF A
  <2> QED BY <1>3, <2>4, <2>5, <2>6
<1>5. CASE AppendMicroblock
  <2>1. {blockSeq} \in SUBSET Nat
    BY DEF IInv, TypeOK
  <2>2. PICK us \in Batches({blockSeq}), ts \in TickerBatches({blockSeq}) :
          WriteVersions(assets, tickers, us, ts)
    BY <1>5 DEF AppendMicroblock
  <2>3. us \in Seq(Update)
    BY <1>2, <2>1
  <2> QED BY <1>1, <1>3, <2>2, <2>3
<1>6. CASE Rollback
  <2>1. PICK b \in blocks :
          /\ assets' = RollbackVersions(assets, b.uid)
          /\ origins' = {o \in origins : o.first \in Uids(assets')}
    BY <1>6 DEF Rollback
  <2>2. b.uid \in Nat
    BY DEF IInv, TypeOK, Block
  <2> QED BY <1>1, <2>1, <2>2, RollbackKeepsOrigins
<1>7. CASE AbortedAppend \/ UNCHANGED vars
  <2>1. assets' = assets /\ origins' = origins
    BY <1>7 DEF AbortedAppend, vars
  <2> QED BY <2>1
<1> QED BY <1>4, <1>5, <1>6, <1>7 DEF Next

\* Whatever is appended, squashed, rolled back or aborted, every known asset
\* has one origin, that of its first version (insert_asset_origins and the
\* cascade of rollback).
THEOREM OriginsAreFirst == Spec => []OriginIsFirstVersion
<1>1. Init => FirstVersions(origins, assets)
  BY DEF Init, FirstVersions
<1>2. IInv /\ IInv' /\ FirstVersions(origins, assets) /\ [Next]_vars => FirstVersions(origins, assets)'
  BY OriginsKept DEF FirstVersions
<1>3. FirstVersions(origins, assets) => OriginIsFirstVersion
  BY DEF FirstVersions, OriginIsFirstVersion
<1> QED BY <1>1, <1>2, <1>3, HistoryInvariant, PTL DEF Spec

---------------------------------------------------------------------------
(* Snapshots.  A view shows the snapshot of the newest block, and each step *)
(* of the history moves the stack of snapshots of each table as            *)
(* SnapshotStack allows.                                                   *)

LEMMA MaxIs ==
  ASSUME NEW S \in SUBSET Nat, NEW m \in S, \A y \in S : y <= m
  PROVE  Max(S) = m
<1>1. \A y \in S : m >= y /\ y \in Nat
  OBVIOUS
<1>2. \E x \in S : \A y \in S : x >= y
  BY <1>1
<1>3. Max(S) \in S /\ \A y \in S : Max(S) >= y
  BY <1>2 DEF Max
<1>4. Max(S) >= m /\ Max(S) <= m /\ Max(S) \in Nat /\ m \in Nat
  BY <1>3
<1> QED BY <1>4

\* A set of naturals below some number has a greatest element.
LEMMA MaxOfBounded ==
  ASSUME NEW S \in SUBSET Nat, S # {}, NEW n \in Nat, \A x \in S : x < n
  PROVE  Max(S) \in S /\ \A y \in S : y <= Max(S)
<1> DEFINE D == {n - x : x \in S}
<1>0. \A x \in S : n - x \in Nat
  OBVIOUS
<1>1. D \in SUBSET Nat /\ D # {}
  BY <1>0
<1>2. PICK d \in D : \A e \in D : d <= e
  BY <1>1, MinOfNaturals
<1>3. PICK m \in S : d = n - m
  OBVIOUS
<1>4. \A x \in S : n - m <= n - x
  BY <1>2, <1>3
<1>5. \A x \in S : x <= m
  BY <1>4
<1> QED BY <1>5, MaxIs

\* The rows of an asset up to a block.
RowsUpTo(T, a, b) == {r \in T : r.asset = a /\ r.block_uid <= b}

LEMMA SameVersions ==
  ASSUME NEW S, NEW T, NEW a, NEW b, NEW c,
         Covers(RowsUpTo(S, a, b), RowsUpTo(T, a, c)), Covers(RowsUpTo(T, a, c), RowsUpTo(S, a, b))
  PROVE  VersionAsOf(S, a, b) = VersionAsOf(T, a, c)
<1>1. Uids(RowsUpTo(S, a, b)) = Uids(RowsUpTo(T, a, c))
  BY DEF Uids, Covers, Twin
<1>2. RowsUpTo(S, a, b) = {} <=> RowsUpTo(T, a, c) = {}
  BY DEF Covers
<1> QED BY <1>1, <1>2 DEF VersionAsOf, RowsUpTo

\* Tables with the same rows up to a block have the same versions there.
LEMMA SameUpTo ==
  ASSUME NEW S, NEW T, NEW b, \A r \in T : r.block_uid <= b => \E s \in S : Twin(s, r) /\ s.block_uid = r.block_uid,
         \A s \in S : s.block_uid <= b => \E r \in T : Twin(r, s) /\ r.block_uid = s.block_uid
  PROVE  \A a : VersionAsOf(S, a, b) = VersionAsOf(T, a, b)
<1> SUFFICES ASSUME NEW a PROVE VersionAsOf(S, a, b) = VersionAsOf(T, a, b)
  OBVIOUS
<1>1. Covers(RowsUpTo(S, a, b), RowsUpTo(T, a, b)) /\ Covers(RowsUpTo(T, a, b), RowsUpTo(S, a, b))
  BY DEF Covers, RowsUpTo, Twin
<1> QED BY <1>1, SameVersions

\* A batch for later blocks changes no earlier snapshot.
LEMMA AppendAsOf ==
  ASSUME NEW T \in SUBSET Version, NEW us \in Seq(Update), NEW base \in Nat, NEW b \in Nat,
         \A i \in DOMAIN us : b < us[i].block_uid
  PROVE  \A a : VersionAsOf(AppendVersions(T, us, base), a, b) = VersionAsOf(T, a, b)
<1> DEFINE C == CloseOpen(T, us, base)
<1>1. \A r \in NewRows(us, base) : \E i \in DOMAIN us : r.block_uid = us[i].block_uid
  BY DEF NewRows
<1>2. \A i \in DOMAIN us : us[i].block_uid \in Nat
  <2>1. \A i \in DOMAIN us : us[i] \in Update
    OBVIOUS
  <2> QED BY <2>1 DEF Update
<1>3. \A r \in NewRows(us, base) : ~(r.block_uid <= b)
  BY <1>1, <1>2
<1>4. Places(T, C) /\ Places(C, T)
  BY CloseOpenPlaces
<1>5. AppendVersions(T, us, base) = C \cup NewRows(us, base)
  BY DEF AppendVersions
<1> DEFINE N == AppendVersions(T, us, base)
<1>6. \A r \in T : r.block_uid <= b => \E s \in N : Twin(s, r) /\ s.block_uid = r.block_uid
  BY <1>4, <1>5 DEF Places
<1>7. \A s \in N : s.block_uid <= b => \E r \in T : Twin(r, s) /\ r.block_uid = s.block_uid
  <2> HIDE DEF C
  <2> QED BY <1>3, <1>4, <1>5 DEF Places
<1> HIDE DEF N
<1>8. \A a : VersionAsOf(N, a, b) = VersionAsOf(T, a, b)
  BY <1>6, <1>7, SameUpTo
<1> QED BY <1>8 DEF N

\* Neither does a rollback to a later block.
LEMMA RollbackAsOf ==
  ASSUME NEW T \in SUBSET Version, NEW b \in Nat, NEW c \in Nat, c <= b
  PROVE  \A a : VersionAsOf(RollbackVersions(T, b), a, c) = VersionAsOf(T, a, c)
<1> DEFINE K == T \ DeletedAbove(T, b)
<1>1. Places(K, RollbackVersions(T, b)) /\ Places(RollbackVersions(T, b), K)
  BY RollbackPlaces
<1>2. \A r \in T : r.block_uid <= c => r \in K
  BY DEF DeletedAbove, Version
<1>3. K \subseteq T
  OBVIOUS
<1> HIDE DEF K
<1> QED BY <1>1, <1>2, <1>3, SameUpTo DEF Places

\* A squash folds the rows above k into k and leaves those below.
LEMMA RepointAsOf ==
  ASSUME NEW T \in SUBSET Version, NEW k \in Nat, NEW t \in Nat, \A r \in T : r.block_uid <= t
  PROVE  /\ \A a : VersionAsOf(Repoint(T, k), a, k) = VersionAsOf(T, a, t)
         /\ \A c \in Nat : c < k => \A a : VersionAsOf(Repoint(T, k), a, c) = VersionAsOf(T, a, c)
<1> DEFINE F(r) == IF r.block_uid > k THEN [r EXCEPT !.block_uid = k] ELSE r
           N == Repoint(T, k)
<1>1. \A r \in T : /\ F(r) \in N /\ Twin(r, F(r)) /\ Twin(F(r), r)
                   /\ F(r).block_uid = IF r.block_uid > k THEN k ELSE r.block_uid
  BY ChangedRows DEF Repoint, Twin
<1>2. \A s \in N : \E r \in T : s = F(r)
  BY DEF Repoint
<1>3. \A r \in T : r.block_uid \in Nat
  BY DEF Version
<1> HIDE DEF F, N
<1>4. \A s \in N : s.block_uid <= k
  BY <1>1, <1>2, <1>3
<1>5. ASSUME NEW a PROVE VersionAsOf(N, a, k) = VersionAsOf(T, a, t)
  <2>1. Covers(RowsUpTo(N, a, k), RowsUpTo(T, a, t))
    BY <1>1, <1>4 DEF Covers, RowsUpTo, Twin
  <2>2. Covers(RowsUpTo(T, a, t), RowsUpTo(N, a, k))
    BY <1>1, <1>2 DEF Covers, RowsUpTo, Twin
  <2> QED BY <2>1, <2>2, SameVersions
<1>6. ASSUME NEW a, NEW c \in Nat, c < k PROVE VersionAsOf(N, a, c) = VersionAsOf(T, a, c)
  <2>1. \A r \in T : r.block_uid <= c => \E s \in N : Twin(s, r) /\ s.block_uid = r.block_uid
    BY <1>1, <1>3, <1>6
  <2>2. \A s \in N : s.block_uid <= c => \E r \in T : Twin(r, s) /\ r.block_uid = s.block_uid
    BY <1>1, <1>2, <1>3, <1>6
  <2> QED BY <2>1, <2>2, SameUpTo
<1> QED BY <1>5, <1>6 DEF N

\* The views show the version of the newest block.
LEMMA CurrentIsNewest ==
  ASSUME NEW T \in SUBSET Version, NEW seq \in Nat, TableInv(T, seq), NEW a,
         NEW t \in Nat, \A r \in T : r.block_uid <= t
  PROVE  CurrentVersion(T, a) = VersionAsOf(T, a, t)
<1> DEFINE rows == RowsUpTo(T, a, t)
           open == {r \in T : r.asset = a /\ r.superseded_by = MaxUid}
<1>1. rows = {r \in T : r.asset = a}
  BY DEF RowsUpTo
<1>2. \A r \in T : r.uid \in Nat /\ r.uid < seq
  BY DEF TableInv, Version
<1>3. VersionAsOf(T, a, t) = IF rows = {} THEN 0 ELSE Max(Uids(rows))
  BY DEF VersionAsOf, RowsUpTo
<1>4. CurrentVersion(T, a) = IF open = {} THEN 0 ELSE Max(Uids(open))
  BY DEF CurrentVersion
<1>5. CASE rows = {}
  <2>1. open = {}
    BY <1>1, <1>5
  <2> QED BY <1>3, <1>4, <1>5, <2>1
<1>6. CASE rows # {}
  <2> HIDE DEF rows
  <2>1. Uids(rows) \in SUBSET Nat /\ Uids(rows) # {} /\ \A u \in Uids(rows) : u < seq
    BY <1>1, <1>2, <1>6 DEF Uids
  <2> DEFINE m == Max(Uids(rows))
  <2>2. m \in Uids(rows) /\ \A u \in Uids(rows) : u <= m
    BY <2>1, MaxOfBounded
  <2>3. m \in Nat
    BY <2>1, <2>2
  <2> HIDE DEF m
  <2>4. PICK r \in rows : r.uid = m
    BY <2>2 DEF Uids
  <2>5. \A s \in rows : s.uid <= m /\ s.uid \in Nat
    BY <1>1, <1>2, <2>2 DEF Uids
  <2>6. \A s \in rows : s \in T /\ s.asset = a
    BY <1>1
  <2>7. Successors(T, r) = {}
    BY <1>1, <2>3, <2>4, <2>5, <2>6 DEF Successors
  <2>8. r \in open
    <3>1. r.superseded_by = MaxUid
      BY <2>4, <2>6, <2>7 DEF TableInv, IsChain
    <3> QED BY <2>4, <2>6, <3>1
  <2>9. \A s \in open : s.uid = m
    <3> SUFFICES ASSUME NEW s \in open PROVE s.uid = m
      OBVIOUS
    <3>1. Successors(T, s) = {} /\ s \in rows
      BY <1>1 DEF TableInv, IsChain
    <3>2. ~(r.uid > s.uid)
      BY <2>4, <2>6, <3>1 DEF Successors
    <3> QED BY <2>3, <2>4, <2>5, <3>1, <3>2
  <2>10. Uids(open) = {m} /\ open # {}
    <3> HIDE DEF open
    <3> QED BY <2>4, <2>8, <2>9 DEF Uids
  <2>11. Max({m}) = m
    BY <2>3, MaxIs
  <2> QED BY <1>3, <1>4, <1>6, <2>10, <2>11 DEF m
<1> QED BY <1>5, <1>6

---------------------------------------------------------------------------
(* The stack of table T over the blocks B, and how it may move.            *)

Snapshots(T, B) == [b \in B |-> [a \in Assets |-> VersionAsOf(T, a, b)]]
TopOf(s) == IF DOMAIN s = {} THEN [a \in Assets |-> 0] ELSE s[Max(DOMAIN s)]
Folded(s, k) == [b \in {c \in DOMAIN s : c <= k} |-> IF b = k THEN TopOf(s) ELSE s[b]]

Extends(s, n) ==
  /\ DOMAIN s \subseteq DOMAIN n
  /\ \A b \in DOMAIN s : n[b] = s[b]
  /\ \A b \in DOMAIN n \ DOMAIN s : \A c \in DOMAIN s : c < b

Moves(s, n) ==
  \/ Extends(s, n)
  \/ \E k \in DOMAIN s : Extends(Folded(s, k), n)
  \/ \E b \in DOMAIN s : n = [c \in {d \in DOMAIN s : d <= b} |-> s[c]]

LEMMA SnapshotsMeans ==
  ASSUME NEW T, NEW B
  PROVE  /\ DOMAIN Snapshots(T, B) = B
         /\ \A b \in B : Snapshots(T, B)[b] = [a \in Assets |-> VersionAsOf(T, a, b)]
BY DEF Snapshots

LEMMA SameSnapshot ==
  ASSUME NEW S, NEW T, NEW b, NEW c, \A a : VersionAsOf(S, a, b) = VersionAsOf(T, a, c)
  PROVE  [a \in Assets |-> VersionAsOf(S, a, b)] = [a \in Assets |-> VersionAsOf(T, a, c)]
OBVIOUS

\* The top of the stack is what the view of the table shows.
LEMMA ViewIsTop ==
  ASSUME NEW T \in SUBSET Version, NEW seq \in Nat, TableInv(T, seq),
         NEW B \in SUBSET Nat, NEW n \in Nat, \A b \in B : b < n,
         \A r \in T : r.block_uid \in B
  PROVE  [a \in Assets |-> CurrentVersion(T, a)] = TopOf(Snapshots(T, B))
<1>1. CASE B = {}
  <2>1. T = {}
    BY <1>1
  <2>2. \A a : CurrentVersion(T, a) = 0
    BY <2>1 DEF CurrentVersion
  <2> QED BY <1>1, <2>2, SnapshotsMeans DEF TopOf
<1>2. CASE B # {}
  <2> DEFINE t == Max(B)
  <2>1. t \in B /\ \A b \in B : b <= t
    BY <1>2, MaxOfBounded
  <2>2. TopOf(Snapshots(T, B)) = Snapshots(T, B)[t]
    BY <1>2, SnapshotsMeans DEF TopOf
  <2> HIDE DEF t
  <2>3. Snapshots(T, B)[t] = [a \in Assets |-> VersionAsOf(T, a, t)]
    BY <2>1, SnapshotsMeans
  <2>4. \A a : CurrentVersion(T, a) = VersionAsOf(T, a, t)
    <3>1. t \in Nat /\ \A r \in T : r.block_uid <= t
      BY <2>1
    <3> QED BY <3>1, CurrentIsNewest
  <2> QED BY <2>2, <2>3, <2>4
<1> QED BY <1>1, <1>2

\* A batch pushes the snapshots of its blocks.
LEMMA AppendExtends ==
  ASSUME NEW T \in SUBSET Version, NEW us \in Seq(Update), NEW base \in Nat,
         NEW B \in SUBSET Nat, NEW new \in SUBSET Nat, \A b \in B, c \in new : b < c,
         \A i \in DOMAIN us : us[i].block_uid \in new
  PROVE  Extends(Snapshots(T, B), Snapshots(AppendVersions(T, us, base), B \cup new))
<1> DEFINE N == AppendVersions(T, us, base)
<1>1. \A b \in B : \A a : VersionAsOf(N, a, b) = VersionAsOf(T, a, b)
  <2> SUFFICES ASSUME NEW b \in B PROVE \A a : VersionAsOf(N, a, b) = VersionAsOf(T, a, b)
    OBVIOUS
  <2>1. \A i \in DOMAIN us : b < us[i].block_uid
    OBVIOUS
  <2> QED BY <2>1, AppendAsOf
<1> HIDE DEF N
<1>2. \A b \in B : Snapshots(N, B \cup new)[b] = Snapshots(T, B)[b]
  <2> SUFFICES ASSUME NEW b \in B PROVE Snapshots(N, B \cup new)[b] = Snapshots(T, B)[b]
    OBVIOUS
  <2>1. /\ Snapshots(N, B \cup new)[b] = [a \in Assets |-> VersionAsOf(N, a, b)]
        /\ Snapshots(T, B)[b] = [a \in Assets |-> VersionAsOf(T, a, b)]
    BY SnapshotsMeans
  <2> QED BY <1>1, <2>1
<1> QED BY <1>2, SnapshotsMeans DEF Extends, N

\* A squash into k folds the snapshots above k into that of k.
LEMMA RepointFolds ==
  ASSUME NEW T \in SUBSET Version, NEW B \in SUBSET Nat, NEW n \in Nat, \A b \in B : b < n,
         \A r \in T : r.block_uid \in B, NEW k \in B
  PROVE  Snapshots(Repoint(T, k), {c \in B : c <= k}) = Folded(Snapshots(T, B), k)
<1> DEFINE t == Max(B)
           s == Snapshots(T, B)
           N == Repoint(T, k)
           F == Folded(s, k)
           L == Snapshots(N, {c \in B : c <= k})
<1>1. t \in B /\ \A b \in B : b <= t
  BY MaxOfBounded
<1>2. TopOf(s) = s[t] /\ DOMAIN s = B
  BY SnapshotsMeans DEF TopOf
<1> HIDE DEF t
<1>3. TopOf(s) = [a \in Assets |-> VersionAsOf(T, a, t)]
  <2>1. s[t] = [a \in Assets |-> VersionAsOf(T, a, t)]
    BY <1>1, SnapshotsMeans
  <2> QED BY <1>2, <2>1
<1>4. /\ \A a : VersionAsOf(N, a, k) = VersionAsOf(T, a, t)
      /\ \A c \in Nat : c < k => \A a : VersionAsOf(N, a, c) = VersionAsOf(T, a, c)
  <2>1. t \in Nat /\ k \in Nat /\ \A r \in T : r.block_uid <= t
    BY <1>1
  <2> QED BY <2>1, RepointAsOf
<1> HIDE DEF N, s
<1>5. \A b \in {c \in B : c <= k} : L[b] = [a \in Assets |-> VersionAsOf(N, a, b)]
  BY SnapshotsMeans
<1>6. ASSUME NEW b \in {c \in B : c <= k}
      PROVE  [a \in Assets |-> VersionAsOf(N, a, b)] = IF b = k THEN TopOf(s) ELSE s[b]
  <2>1. CASE b = k
    BY <1>3, <1>4, <2>1
  <2>2. CASE b # k
    <3>1. b \in Nat /\ b < k /\ b \in B
      BY <2>2
    <3>2. s[b] = [a \in Assets |-> VersionAsOf(T, a, b)]
      BY <3>1, SnapshotsMeans DEF s
    <3>3. \A a : VersionAsOf(N, a, b) = VersionAsOf(T, a, b)
      BY <1>4, <3>1
    <3>4. [a \in Assets |-> VersionAsOf(N, a, b)] = [a \in Assets |-> VersionAsOf(T, a, b)]
      BY <3>3, SameSnapshot
    <3> QED BY <2>2, <3>2, <3>4
  <2> QED BY <2>1, <2>2
<1>7. L = [b \in {c \in B : c <= k} |-> IF b = k THEN TopOf(s) ELSE s[b]]
  BY <1>6 DEF Snapshots
<1>8. F = [b \in {c \in B : c <= k} |-> IF b = k THEN TopOf(s) ELSE s[b]]
  BY <1>2 DEF Folded
<1> QED BY <1>7, <1>8 DEF N, s

\* A rollback pops the snapshots above its block.
LEMMA RollbackPops ==
  ASSUME NEW T \in SUBSET Version, NEW B \in SUBSET Nat, NEW b \in B
  PROVE  Snapshots(RollbackVersions(T, b), {c \in B : c <= b}) =
           [c \in {d \in B : d <= b} |-> Snapshots(T, B)[c]]
<1> DEFINE N == RollbackVersions(T, b)
<1>1. \A c \in {d \in B : d <= b} : \A a : VersionAsOf(N, a, c) = VersionAsOf(T, a, c)
  <2> SUFFICES ASSUME NEW c \in {d \in B : d <= b}
               PROVE  \A a : VersionAsOf(N, a, c) = VersionAsOf(T, a, c)
    OBVIOUS
  <2>1. c \in Nat /\ b \in Nat /\ c <= b
    OBVIOUS
  <2> QED BY <2>1, RollbackAsOf
<1> HIDE DEF N
<1>2. \A c \in {d \in B : d <= b} : [a \in Assets |-> VersionAsOf(N, a, c)] = Snapshots(T, B)[c]
  <2> SUFFICES ASSUME NEW c \in {d \in B : d <= b}
               PROVE  [a \in Assets |-> VersionAsOf(N, a, c)] = Snapshots(T, B)[c]
    OBVIOUS
  <2>1. [a \in Assets |-> VersionAsOf(N, a, c)] = [a \in Assets |-> VersionAsOf(T, a, c)]
    BY <1>1, SameSnapshot
  <2>2. Snapshots(T, B)[c] = [a \in Assets |-> VersionAsOf(T, a, c)]
    BY SnapshotsMeans
  <2> QED BY <2>1, <2>2
<1>3. Snapshots(N, {c \in B : c <= b}) = [c \in {d \in B : d <= b} |-> [a \in Assets |-> VersionAsOf(N, a, c)]]
  BY DEF Snapshots
<1> QED BY <1>2, <1>3 DEF N

---------------------------------------------------------------------------
(* The steps of the history.                                               *)

LEMMA BatchMeans ==
  ASSUME NEW B \in SUBSET Nat, NEW s, s \in Batches(B) \/ s \in TickerBatches(B)
  PROVE  s \in Seq(Update) /\ \A i \in DOMAIN s : s[i].block_uid \in B
<1>1. CASE s \in Batches(B)
  <2>1. PICK n \in 0..MaxUpdates : s \in [1..n -> [block_uid : B, asset : Assets]]
    BY <1>1 DEF Batches
  <2>2. \A i \in 1..n : s[i] \in Update /\ s[i].block_uid \in B
    BY <2>1 DEF Update
  <2>3. s \in [1..n -> Update] /\ n \in Nat /\ DOMAIN s = 1..n
    BY <2>1, <2>2
  <2> QED BY <2>2, <2>3
<1>2. CASE s = << >>
  <2>1. << >> \in Seq(Update) /\ DOMAIN << >> = {}
    OBVIOUS
  <2> QED BY <1>2, <2>1
<1> QED BY <1>1, <1>2 DEF TickerBatches

\* What the invariant says of a table and the stored blocks.
LEMMA BlockUidsMeans ==
  ASSUME IInv
  PROVE  /\ BlockUids \in SUBSET Nat /\ blockSeq \in Nat /\ \A b \in BlockUids : b < blockSeq
         /\ assets \in SUBSET Version /\ tickers \in SUBSET Version
         /\ assetSeq \in Nat /\ tickerSeq \in Nat
         /\ TableInv(assets, assetSeq) /\ TableInv(tickers, tickerSeq)
         /\ \A r \in assets \cup tickers : r.block_uid \in BlockUids
BY DEF IInv, TypeOK, Block, BlocksInv, RowsHaveBlocks, BlockUids

\* A batch on a table, without a squash and after one.
LEMMA BatchMoves ==
  ASSUME NEW T \in SUBSET Version, NEW us \in Seq(Update), NEW base \in Nat,
         NEW B \in SUBSET Nat, NEW new \in SUBSET Nat, \A b \in B, c \in new : b < c,
         \A i \in DOMAIN us : us[i].block_uid \in new
  PROVE  Moves(Snapshots(T, B), Snapshots(AppendVersions(T, us, base), B \cup new))
BY AppendExtends DEF Moves

LEMMA SquashMoves ==
  ASSUME NEW T \in SUBSET Version, NEW us \in Seq(Update), NEW base \in Nat,
         NEW B \in SUBSET Nat, NEW new \in SUBSET Nat, \A b \in B, c \in new : b < c,
         \A i \in DOMAIN us : us[i].block_uid \in new,
         NEW n \in Nat, \A b \in B : b < n, \A r \in T : r.block_uid \in B, NEW k \in B,
         NEW K, K = {b \in B : b <= k}
  PROVE  Moves(Snapshots(T, B), Snapshots(AppendVersions(Repoint(T, k), us, base), K \cup new))
<1> DEFINE R == Repoint(T, k)
<1>1. R \in SUBSET Version
  <2>1. \A r \in T : [r EXCEPT !.block_uid = k] \in Version
    BY ChangedRows
  <2> QED BY <2>1 DEF Repoint
<1>2. Snapshots(R, K) = Folded(Snapshots(T, B), k)
  BY RepointFolds
<1>3. K \in SUBSET Nat /\ \A b \in K, c \in new : b < c
  OBVIOUS
<1> HIDE DEF R
<1>4. Extends(Snapshots(R, K), Snapshots(AppendVersions(R, us, base), K \cup new))
  BY <1>1, <1>3, AppendExtends
<1>5. k \in DOMAIN Snapshots(T, B)
  BY SnapshotsMeans
<1>6. Moves(Snapshots(T, B), Snapshots(AppendVersions(R, us, base), K \cup new))
  BY <1>2, <1>4, <1>5 DEF Moves
<1> QED BY <1>6 DEF R

LEMMA WriteMoves ==
  ASSUME IInv, NEW new \in SUBSET Nat, \A c \in new : blockSeq <= c,
         NEW us \in Batches(new), NEW ts \in TickerBatches(new)
  PROVE  /\ WriteVersions(assets, tickers, us, ts) =>
              /\ Moves(Snapshots(assets, BlockUids), Snapshots(assets', BlockUids \cup new))
              /\ Moves(Snapshots(tickers, BlockUids), Snapshots(tickers', BlockUids \cup new))
         /\ \A k \in BlockUids :
              WriteVersions(Repoint(assets, k), Repoint(tickers, k), us, ts) =>
                LET kept == {b \in BlockUids : b <= k} IN
                /\ Moves(Snapshots(assets, BlockUids), Snapshots(assets', kept \cup new))
                /\ Moves(Snapshots(tickers, BlockUids), Snapshots(tickers', kept \cup new))
<1>1. /\ us \in Seq(Update) /\ \A i \in DOMAIN us : us[i].block_uid \in new
      /\ ts \in Seq(Update) /\ \A i \in DOMAIN ts : ts[i].block_uid \in new
  BY BatchMeans
<1>2. /\ BlockUids \in SUBSET Nat /\ blockSeq \in Nat /\ \A b \in BlockUids : b < blockSeq
      /\ assets \in SUBSET Version /\ tickers \in SUBSET Version
      /\ assetSeq \in Nat /\ tickerSeq \in Nat
      /\ \A r \in assets : r.block_uid \in BlockUids
      /\ \A r \in tickers : r.block_uid \in BlockUids
  BY BlockUidsMeans
<1>3. \A b \in BlockUids, c \in new : b < c
  BY <1>2
<1>4. Moves(Snapshots(assets, BlockUids),
            Snapshots(AppendVersions(assets, us, assetSeq), BlockUids \cup new))
  BY <1>1, <1>2, <1>3, BatchMoves
<1>5. ASSUME NEW k \in BlockUids
      PROVE  Moves(Snapshots(assets, BlockUids),
                   Snapshots(AppendVersions(Repoint(assets, k), us, assetSeq), {b \in BlockUids : b <= k} \cup new))
  <2> DEFINE K == {b \in BlockUids : b <= k}
  <2>1. K = {b \in BlockUids : b <= k}
    OBVIOUS
  <2> HIDE DEF K
  <2>2. Moves(Snapshots(assets, BlockUids), Snapshots(AppendVersions(Repoint(assets, k), us, assetSeq), K \cup new))
    BY <1>1, <1>2, <1>3, <2>1, SquashMoves
  <2> QED BY <2>2 DEF K
<1>6. Moves(Snapshots(tickers, BlockUids),
            Snapshots(AppendVersions(tickers, ts, tickerSeq), BlockUids \cup new))
  BY <1>1, <1>2, <1>3, BatchMoves
<1>7. ASSUME NEW k \in BlockUids
      PROVE  Moves(Snapshots(tickers, BlockUids),
                   Snapshots(AppendVersions(Repoint(tickers, k), ts, tickerSeq), {b \in BlockUids : b <= k} \cup new))
  <2> DEFINE K == {b \in BlockUids : b <= k}
  <2>1. K = {b \in BlockUids : b <= k}
    OBVIOUS
  <2> HIDE DEF K
  <2>2. Moves(Snapshots(tickers, BlockUids), Snapshots(AppendVersions(Repoint(tickers, k), ts, tickerSeq), K \cup new))
    BY <1>1, <1>2, <1>3, <2>1, SquashMoves
  <2> QED BY <2>2 DEF K
<1> QED BY <1>4, <1>5, <1>6, <1>7 DEF WriteVersions

LEMMA TablesMove ==
  ASSUME IInv, Next
  PROVE  /\ Moves(Snapshots(assets, BlockUids), Snapshots(assets', BlockUids'))
         /\ Moves(Snapshots(tickers, BlockUids), Snapshots(tickers', BlockUids'))
<1>1. CASE AppendBlocks
  <2>1. PICK n \in 1..MaxBatch :
          LET new == blockSeq..(blockSeq + n - 1) IN
          /\ blocks' = (blocks \ Microblocks) \cup {[uid |-> u, key |-> TRUE] : u \in new}
          /\ \E us \in Batches(new), ts \in TickerBatches(new) :
               WriteVersions(Squashed(assets), Squashed(tickers), us, ts)
    BY <1>1 DEF AppendBlocks
  <2> DEFINE new == blockSeq..(blockSeq + n - 1)
  <2>2. PICK us \in Batches(new), ts \in TickerBatches(new) :
          WriteVersions(Squashed(assets), Squashed(tickers), us, ts)
    BY <2>1
  <2>3. new \in SUBSET Nat /\ \A c \in new : blockSeq <= c
    BY BlockUidsMeans
  <2>4. blocks' = (blocks \ Microblocks) \cup {[uid |-> u, key |-> TRUE] : u \in new}
    BY <2>1
  <2> HIDE DEF new
  <2>5. BlockUids' = {b.uid : b \in blocks \ Microblocks} \cup new
    <3> DEFINE F(u) == [uid |-> u, key |-> TRUE]
    <3>1. \A u : F(u).uid = u
      OBVIOUS
    <3>2. blocks' = (blocks \ Microblocks) \cup {F(u) : u \in new}
      BY <2>4
    <3> HIDE DEF F
    <3> QED BY <3>1, <3>2 DEF BlockUids
  <2>6. CASE Microblocks = {}
    <3>1. BlockUids' = BlockUids \cup new
      BY <2>5, <2>6 DEF BlockUids
    <3>2. WriteVersions(assets, tickers, us, ts)
      BY <2>2, <2>6 DEF Squashed
    <3> QED BY <2>3, <3>1, <3>2, WriteMoves
  <2>7. CASE Microblocks # {}
    <3> DEFINE k == Max(KeyUids)
    <3>1. /\ k \in KeyUids /\ k \in Nat /\ \A c \in KeyUids : c <= k
          /\ \A m \in Microblocks : k < m.uid
      BY <2>7, LastKeyBlock DEF IInv
    <3>2. WriteVersions(Repoint(assets, k), Repoint(tickers, k), us, ts)
      BY <2>2, <2>7 DEF Squashed
    <3> HIDE DEF k
    <3>3. k \in BlockUids
      BY <3>1 DEF KeyUids, BlockUids
    <3>4. {b.uid : b \in blocks \ Microblocks} = {b \in BlockUids : b <= k}
      <4>1. \A b \in blocks : b.uid \in Nat /\ (b \in Microblocks \/ b.uid \in KeyUids)
        BY DEF IInv, TypeOK, Block, Microblocks, KeyUids
      <4>2. \A b \in blocks : b.uid <= k <=> b \notin Microblocks
        BY <3>1, <4>1
      <4> QED BY <4>2 DEF BlockUids
    <3> QED BY <2>3, <2>5, <3>2, <3>3, <3>4, WriteMoves
  <2> QED BY <2>6, <2>7
<1>2. CASE AppendMicroblock
  <2>1. /\ blocks' = blocks \cup {[uid |-> blockSeq, key |-> FALSE]}
        /\ \E us \in Batches({blockSeq}), ts \in TickerBatches({blockSeq}) :
             WriteVersions(assets, tickers, us, ts)
    BY <1>2 DEF AppendMicroblock
  <2>2. BlockUids' = BlockUids \cup {blockSeq}
    <3> DEFINE m == [uid |-> blockSeq, key |-> FALSE]
    <3>1. m.uid = blockSeq /\ blocks' = blocks \cup {m}
      BY <2>1
    <3> HIDE DEF m
    <3> QED BY <3>1 DEF BlockUids
  <2>3. {blockSeq} \in SUBSET Nat /\ \A c \in {blockSeq} : blockSeq <= c
    BY BlockUidsMeans
  <2> QED BY <2>1, <2>2, <2>3, WriteMoves
<1>3. CASE Rollback
  <2>1. PICK b \in blocks :
          /\ assets' = RollbackVersions(assets, b.uid)
          /\ tickers' = RollbackVersions(tickers, b.uid)
          /\ blocks' = {c \in blocks : c.uid <= b.uid}
    BY <1>3 DEF Rollback
  <2>2. b.uid \in BlockUids /\ BlockUids' = {c \in BlockUids : c <= b.uid}
    BY <2>1 DEF BlockUids
  <2>3. ASSUME NEW T \in SUBSET Version
        PROVE  Moves(Snapshots(T, BlockUids), Snapshots(RollbackVersions(T, b.uid), BlockUids'))
    <3>1. Snapshots(RollbackVersions(T, b.uid), BlockUids') =
            [c \in {d \in BlockUids : d <= b.uid} |-> Snapshots(T, BlockUids)[c]]
      BY <2>2, BlockUidsMeans, RollbackPops
    <3>2. DOMAIN Snapshots(T, BlockUids) = BlockUids
      BY SnapshotsMeans
    <3> QED BY <2>2, <3>1, <3>2 DEF Moves
  <2> QED BY <2>1, <2>3, BlockUidsMeans
<1>4. CASE AbortedAppend
  <2>1. assets' = assets /\ tickers' = tickers /\ BlockUids' = BlockUids
    BY <1>4 DEF AbortedAppend, BlockUids
  <2>2. \A s : Extends(s, s)
    BY DEF Extends
  <2> QED BY <2>1, <2>2 DEF Moves
<1> QED BY <1>1, <1>2, <1>3, <1>4 DEF Next

ViewsShowTops ==
  Shown(assets) = TopOf(Stack(assets)) /\ Shown(tickers) = TopOf(Stack(tickers))

LEMMA ViewsAreTops == IInv => ViewsShowTops
<1> SUFFICES ASSUME IInv PROVE ViewsShowTops
  OBVIOUS
<1>1. \A T : Stack(T) = Snapshots(T, BlockUids) /\ Shown(T) = [a \in Assets |-> CurrentVersion(T, a)]
  BY DEF Stack, Snapshots, Shown
<1>2. [a \in Assets |-> CurrentVersion(assets, a)] = TopOf(Snapshots(assets, BlockUids))
  BY BlockUidsMeans, ViewIsTop
<1>3. [a \in Assets |-> CurrentVersion(tickers, a)] = TopOf(Snapshots(tickers, BlockUids))
  BY BlockUidsMeans, ViewIsTop
<1> QED BY <1>1, <1>2, <1>3 DEF ViewsShowTops

\* The asset views show a stack of snapshots: appending pushes, a squash
\* folds, and a rollback shows again what the views showed at its block.
THEOREM AssetsImplement == Spec => AssetsAreSnapshots
<1>1. Init => AssetSnapshots!Init
  <2> SUFFICES ASSUME Init PROVE AssetSnapshots!Init
    OBVIOUS
  <2>1. BlockUids = {} /\ \A a : CurrentVersion(assets, a) = 0
    BY DEF Init, BlockUids, CurrentVersion
  <2>2. Stack(assets) = << >>
    BY <2>1 DEF Stack
  <2>3. Shown(assets) = AssetSnapshots!NoVersions
    BY <2>1 DEF Shown, AssetSnapshots!NoVersions
  <2> QED BY <2>2, <2>3 DEF AssetSnapshots!Init
<1>2. IInv /\ ViewsShowTops' /\ [Next]_vars => [AssetSnapshots!Next]_<<Stack(assets), Shown(assets)>>
  <2> SUFFICES ASSUME IInv, ViewsShowTops', [Next]_vars
               PROVE  [AssetSnapshots!Next]_<<Stack(assets), Shown(assets)>>
    OBVIOUS
  <2>1. CASE UNCHANGED vars
    <3>1. assets' = assets /\ BlockUids' = BlockUids
      BY <2>1 DEF vars, BlockUids
    <3>2. Stack(assets)' = Stack(assets)
      BY <3>1 DEF Stack
    <3>3. Shown(assets)' = Shown(assets)
      BY <3>1 DEF Shown
    <3> QED BY <3>2, <3>3
  <2>2. CASE Next
    <3> DEFINE s == Stack(assets)
               n == Stack(assets)'
    <3>1. Shown(assets)' = TopOf(n)
      BY DEF ViewsShowTops
    <3>2. s = Snapshots(assets, BlockUids) /\ n = Snapshots(assets', BlockUids')
      BY DEF Stack, Snapshots
    <3>3. Moves(s, n)
      BY <2>2, <3>2, TablesMove
    <3>0. \A S : Max(S) = AssetSnapshots!Max(S)
      BY DEF Max, AssetSnapshots!Max
    <3>4. TopOf(n) = AssetSnapshots!Top(n) /\ TopOf(s) = AssetSnapshots!Top(s)
      BY <3>0 DEF TopOf, AssetSnapshots!Top, AssetSnapshots!NoVersions
    <3>5. CASE Extends(s, n)
      <4>1. AssetSnapshots!Push(s)
        BY <3>5 DEF Extends, AssetSnapshots!Push
      <4> QED BY <3>1, <3>4, <4>1 DEF AssetSnapshots!Next, AssetSnapshots!Append
    <3>6. ASSUME NEW k \in DOMAIN s, Extends(Folded(s, k), n)
          PROVE  AssetSnapshots!Next
      <4>1. Folded(s, k) = AssetSnapshots!FoldInto(s, k)
        BY <3>4 DEF Folded, AssetSnapshots!FoldInto
      <4>2. AssetSnapshots!Push(AssetSnapshots!FoldInto(s, k))
        BY <3>6, <4>1 DEF Extends, AssetSnapshots!Push
      <4> QED BY <3>1, <3>4, <4>2 DEF AssetSnapshots!Next, AssetSnapshots!SquashAndAppend
    <3>7. ASSUME NEW b \in DOMAIN s, n = [c \in {d \in DOMAIN s : d <= b} |-> s[c]]
          PROVE  AssetSnapshots!Next
      BY <3>1, <3>4, <3>7 DEF AssetSnapshots!Next, AssetSnapshots!Rollback
    <3> QED BY <3>3, <3>5, <3>6, <3>7 DEF Moves
  <2> QED BY <2>1, <2>2
<1>3. IInv => ViewsShowTops
  BY ViewsAreTops
<1> QED BY <1>1, <1>2, <1>3, HistoryInvariant, PTL DEF Spec, AssetsAreSnapshots, AssetSnapshots!Spec

\* The same of the tickers view.
THEOREM TickersImplement == Spec => TickersAreSnapshots
<1>1. Init => TickerSnapshots!Init
  <2> SUFFICES ASSUME Init PROVE TickerSnapshots!Init
    OBVIOUS
  <2>1. BlockUids = {} /\ \A a : CurrentVersion(tickers, a) = 0
    BY DEF Init, BlockUids, CurrentVersion
  <2>2. Stack(tickers) = << >>
    BY <2>1 DEF Stack
  <2>3. Shown(tickers) = TickerSnapshots!NoVersions
    BY <2>1 DEF Shown, TickerSnapshots!NoVersions
  <2> QED BY <2>2, <2>3 DEF TickerSnapshots!Init
<1>2. IInv /\ ViewsShowTops' /\ [Next]_vars => [TickerSnapshots!Next]_<<Stack(tickers), Shown(tickers)>>
  <2> SUFFICES ASSUME IInv, ViewsShowTops', [Next]_vars
               PROVE  [TickerSnapshots!Next]_<<Stack(tickers), Shown(tickers)>>
    OBVIOUS
  <2>1. CASE UNCHANGED vars
    <3>1. tickers' = tickers /\ BlockUids' = BlockUids
      BY <2>1 DEF vars, BlockUids
    <3>2. Stack(tickers)' = Stack(tickers)
      BY <3>1 DEF Stack
    <3>3. Shown(tickers)' = Shown(tickers)
      BY <3>1 DEF Shown
    <3> QED BY <3>2, <3>3
  <2>2. CASE Next
    <3> DEFINE s == Stack(tickers)
               n == Stack(tickers)'
    <3>1. Shown(tickers)' = TopOf(n)
      BY DEF ViewsShowTops
    <3>2. s = Snapshots(tickers, BlockUids) /\ n = Snapshots(tickers', BlockUids')
      BY DEF Stack, Snapshots
    <3>3. Moves(s, n)
      BY <2>2, <3>2, TablesMove
    <3>0. \A S : Max(S) = TickerSnapshots!Max(S)
      BY DEF Max, TickerSnapshots!Max
    <3>4. TopOf(n) = TickerSnapshots!Top(n) /\ TopOf(s) = TickerSnapshots!Top(s)
      BY <3>0 DEF TopOf, TickerSnapshots!Top, TickerSnapshots!NoVersions
    <3>5. CASE Extends(s, n)
      <4>1. TickerSnapshots!Push(s)
        BY <3>5 DEF Extends, TickerSnapshots!Push
      <4> QED BY <3>1, <3>4, <4>1 DEF TickerSnapshots!Next, TickerSnapshots!Append
    <3>6. ASSUME NEW k \in DOMAIN s, Extends(Folded(s, k), n)
          PROVE  TickerSnapshots!Next
      <4>1. Folded(s, k) = TickerSnapshots!FoldInto(s, k)
        BY <3>4 DEF Folded, TickerSnapshots!FoldInto
      <4>2. TickerSnapshots!Push(TickerSnapshots!FoldInto(s, k))
        BY <3>6, <4>1 DEF Extends, TickerSnapshots!Push
      <4> QED BY <3>1, <3>4, <4>2 DEF TickerSnapshots!Next, TickerSnapshots!SquashAndAppend
    <3>7. ASSUME NEW b \in DOMAIN s, n = [c \in {d \in DOMAIN s : d <= b} |-> s[c]]
          PROVE  TickerSnapshots!Next
      BY <3>1, <3>4, <3>7 DEF TickerSnapshots!Next, TickerSnapshots!Rollback
    <3> QED BY <3>3, <3>5, <3>6, <3>7 DEF Moves
  <2> QED BY <2>1, <2>2
<1>3. IInv => ViewsShowTops
  BY ViewsAreTops
<1> QED BY <1>1, <1>2, <1>3, HistoryInvariant, PTL DEF Spec, TickersAreSnapshots, TickerSnapshots!Spec
=============================================================================
