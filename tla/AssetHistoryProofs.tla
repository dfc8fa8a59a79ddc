------------------------- MODULE AssetHistoryProofs -------------------------
(***************************************************************************)
(* Proofs about AssetHistory: its types, the chains of both version        *)
(* tables, and the references from rows to blocks hold for any sets of     *)
(* assets and any bounds.  The facts about the statements on one version   *)
(* table come first: what inserting a batch, rolling back to a block and   *)
(* moving microblock rows do to a table that satisfies TableInv.           *)
(***************************************************************************)
EXTENDS AssetHistory, WellFoundedInduction, SequenceTheorems, TLAPS

\* A version table whose uids are all below the sequence's next value.
TableInv(T, seq) ==
  /\ \A r \in T : r.uid < seq /\ r.uid < MaxUid
  /\ UidsUnique(T)
  /\ BlockOrdered(T)
  /\ IsChain(T)

\* Min of a non-empty set of naturals is its least element.
LEMMA MinOfNaturals ==
  ASSUME NEW S \in SUBSET Nat, S # {}
  PROVE  Min(S) \in S /\ \A y \in S : Min(S) <= y
<1>1. PICK x \in S : \A y \in S : ~ (<<y, x>> \in OpToRel(<, Nat))
  BY NatLessThanWellFounded, WFMin
<1>2. \A y \in S : x <= y
  <2> SUFFICES ASSUME NEW y \in S PROVE x <= y
    OBVIOUS
  <2>1. ~ (y < x)
    BY <1>1 DEF OpToRel
  <2> QED BY <2>1
<1>3. \E m \in S : \A y \in S : m <= y
  BY <1>2
<1> QED BY <1>3 DEF Min

\* Changing one column keeps a row a row and the other columns as they are.
LEMMA ChangedRows ==
  ASSUME NEW r \in Version, NEW n \in Nat
  PROVE  /\ [r EXCEPT !.superseded_by = n] \in Version
         /\ [r EXCEPT !.superseded_by = n].uid = r.uid
         /\ [r EXCEPT !.superseded_by = n].asset = r.asset
         /\ [r EXCEPT !.superseded_by = n].block_uid = r.block_uid
         /\ [r EXCEPT !.superseded_by = n].superseded_by = n
         /\ [r EXCEPT !.block_uid = n] \in Version
         /\ [r EXCEPT !.block_uid = n].uid = r.uid
         /\ [r EXCEPT !.block_uid = n].asset = r.asset
         /\ [r EXCEPT !.block_uid = n].block_uid = n
         /\ [r EXCEPT !.block_uid = n].superseded_by = r.superseded_by
BY DEF Version

\* Squashing microblocks into key block k: rows only change block, and the
\* blocks above k collapse into k, so the order of blocks is kept.
LEMMA RepointKeepsTable ==
  ASSUME NEW T \in SUBSET Version, NEW seq \in Nat, NEW k \in Nat, TableInv(T, seq)
  PROVE  /\ Repoint(T, k) \subseteq Version
         /\ TableInv(Repoint(T, k), seq)
         /\ \A t \in Repoint(T, k) : t.block_uid <= k
         /\ \A t \in Repoint(T, k) : t.block_uid = k \/ \E r \in T : r.block_uid = t.block_uid
<1> DEFINE F(r) == IF r.block_uid > k THEN [r EXCEPT !.block_uid = k] ELSE r
           N == Repoint(T, k)
<1>1. \A r \in T : /\ F(r) \in N /\ F(r) \in Version
                   /\ F(r).uid = r.uid /\ F(r).asset = r.asset
                   /\ F(r).superseded_by = r.superseded_by
                   /\ F(r).block_uid = IF r.block_uid > k THEN k ELSE r.block_uid
  <2> SUFFICES ASSUME NEW r \in T
               PROVE  /\ F(r) \in N /\ F(r) \in Version
                      /\ F(r).uid = r.uid /\ F(r).asset = r.asset
                      /\ F(r).superseded_by = r.superseded_by
                      /\ F(r).block_uid = IF r.block_uid > k THEN k ELSE r.block_uid
    OBVIOUS
  <2>1. F(r) \in N
    BY Zenon DEF Repoint
  <2>2. CASE r.block_uid > k
    <3> DEFINE c == [r EXCEPT !.block_uid = k]
    <3>1. F(r) = c
      BY <2>2
    <3>2. c \in Version /\ c.uid = r.uid /\ c.asset = r.asset /\ c.block_uid = k
          /\ c.superseded_by = r.superseded_by
      BY ChangedRows
    <3> HIDE DEF c
    <3> QED BY <2>1, <2>2, <3>1, <3>2
  <2>3. CASE ~ (r.block_uid > k)
    BY <2>1, <2>3
  <2> QED BY <2>2, <2>3
<1>2. \A t \in N : \E r \in T : t = F(r)
  BY DEF Repoint
<1>3. N \subseteq Version
  BY <1>1, <1>2
<1>4. \A t \in N : t.uid < seq /\ t.uid < MaxUid
  BY <1>1, <1>2 DEF TableInv
<1>5. UidsUnique(N)
  <2> SUFFICES ASSUME NEW t \in N, NEW u \in N, t.uid = u.uid PROVE t = u
    BY DEF UidsUnique
  <2>1. PICK r \in T : t = F(r)
    BY <1>2
  <2>2. PICK q \in T : u = F(q)
    BY <1>2
  <2>3. r.uid = q.uid
    BY <1>1, <2>1, <2>2
  <2>4. r = q
    BY <2>3 DEF TableInv, UidsUnique
  <2> QED BY <2>1, <2>2, <2>4
<1>6. BlockOrdered(N)
  <2> SUFFICES ASSUME NEW t \in N, NEW u \in N, t.uid < u.uid PROVE t.block_uid <= u.block_uid
    BY DEF BlockOrdered
  <2>1. PICK r \in T : t = F(r)
    BY <1>2
  <2>2. PICK q \in T : u = F(q)
    BY <1>2
  <2>3. r.block_uid <= q.block_uid
    BY <1>1, <2>1, <2>2 DEF TableInv, BlockOrdered
  <2>4. r.block_uid \in Nat /\ q.block_uid \in Nat
    BY DEF Version
  <2> QED BY <1>1, <2>1, <2>2, <2>3, <2>4
<1>7. IsChain(N)
  <2> SUFFICES ASSUME NEW t \in N
               PROVE  \/ t.superseded_by = MaxUid /\ Successors(N, t) = {}
                      \/ /\ t.superseded_by # MaxUid
                         /\ \E s \in Successors(N, t) :
                              /\ s.uid = t.superseded_by
                              /\ \A q \in Successors(N, t) : s.uid <= q.uid
    BY DEF IsChain
  <2>1. PICK r \in T : t = F(r)
    BY <1>2
  <2>2. \A u \in Successors(N, t) : \E q \in Successors(T, r) : u = F(q)
    BY <1>1, <1>2, <2>1 DEF Successors
  <2>3. \A q \in Successors(T, r) : F(q) \in Successors(N, t) /\ F(q).uid = q.uid
    BY <1>1, <2>1 DEF Successors
  <2>4. t.superseded_by = r.superseded_by
    BY <1>1, <2>1
  <2>5. CASE r.superseded_by = MaxUid /\ Successors(T, r) = {}
    BY <2>2, <2>4, <2>5
  <2>6. CASE /\ r.superseded_by # MaxUid
             /\ \E s \in Successors(T, r) :
                  /\ s.uid = r.superseded_by
                  /\ \A q \in Successors(T, r) : s.uid <= q.uid
    <3>1. PICK s \in Successors(T, r) :
              /\ s.uid = r.superseded_by
              /\ \A q \in Successors(T, r) : s.uid <= q.uid
      BY <2>6
    <3>2. F(s) \in Successors(N, t) /\ F(s).uid = t.superseded_by
      BY <2>3, <2>4, <3>1
    <3>3. \A u \in Successors(N, t) : F(s).uid <= u.uid
      BY <2>2, <2>3, <3>1
    <3> QED BY <2>4, <2>6, <3>2, <3>3
  <2> QED BY <2>5, <2>6 DEF TableInv, IsChain
<1>8. \A t \in N : t.block_uid <= k /\ (t.block_uid = k \/ \E r \in T : r.block_uid = t.block_uid)
  <2> SUFFICES ASSUME NEW t \in N
               PROVE  t.block_uid <= k /\ (t.block_uid = k \/ \E r \in T : r.block_uid = t.block_uid)
    OBVIOUS
  <2>1. PICK r \in T : t = F(r)
    BY <1>2
  <2>2. r.block_uid \in Nat
    BY DEF Version
  <2> QED BY <1>1, <2>1, <2>2
<1> QED BY <1>3, <1>4, <1>5, <1>6, <1>7, <1>8 DEF TableInv

\* Deleting the rows of every block above b and reopening what they
\* superseded leaves a chain: because rows are in block order, what is
\* deleted of an asset is a suffix of its versions, and the row that named
\* the first deleted one is the last that stays.
LEMMA RollbackKeepsTable ==
  ASSUME NEW T \in SUBSET Version, NEW seq \in Nat, NEW b \in Nat, TableInv(T, seq)
  PROVE  /\ RollbackVersions(T, b) \subseteq Version
         /\ TableInv(RollbackVersions(T, b), seq)
         /\ \A t \in RollbackVersions(T, b) :
              t.block_uid <= b /\ \E r \in T : r.block_uid = t.block_uid
<1> DEFINE D == DeletedAbove(T, b)
           L == LowestDeleted(T, b)
           F(r) == IF r.superseded_by \in L THEN [r EXCEPT !.superseded_by = MaxUid] ELSE r
           N == RollbackVersions(T, b)
<1> USE MaxUidAssumption
<1>1. \A r \in T \ D : /\ F(r) \in N /\ F(r) \in Version
                       /\ F(r).uid = r.uid /\ F(r).asset = r.asset
                       /\ F(r).block_uid = r.block_uid
                       /\ F(r).superseded_by = IF r.superseded_by \in L THEN MaxUid ELSE r.superseded_by
  <2> SUFFICES ASSUME NEW r \in T \ D
               PROVE  /\ F(r) \in N /\ F(r) \in Version
                      /\ F(r).uid = r.uid /\ F(r).asset = r.asset
                      /\ F(r).block_uid = r.block_uid
                      /\ F(r).superseded_by = IF r.superseded_by \in L THEN MaxUid ELSE r.superseded_by
    OBVIOUS
  <2>1. F(r) \in N
    BY Zenon DEF RollbackVersions
  <2>2. CASE r.superseded_by \in L
    <3> DEFINE c == [r EXCEPT !.superseded_by = MaxUid]
    <3>1. F(r) = c
      BY <2>2
    <3>2. c \in Version /\ c.uid = r.uid /\ c.asset = r.asset /\ c.block_uid = r.block_uid
          /\ c.superseded_by = MaxUid
      BY ChangedRows
    <3> HIDE DEF c
    <3> QED BY <2>1, <2>2, <3>1, <3>2
  <2>3. CASE r.superseded_by \notin L
    BY <2>1, <2>3
  <2> QED BY <2>2, <2>3
<1>2. \A t \in N : \E r \in T \ D : t = F(r)
  BY DEF RollbackVersions
<1>3. N \subseteq Version
  BY <1>1, <1>2
<1>4. \A t \in N : t.uid < seq /\ t.uid < MaxUid
  BY <1>1, <1>2 DEF TableInv
<1>5. UidsUnique(N)
  <2> SUFFICES ASSUME NEW t \in N, NEW u \in N, t.uid = u.uid PROVE t = u
    BY DEF UidsUnique
  <2>1. PICK r \in (T \ D) : t = F(r)
    BY <1>2
  <2>2. PICK q \in (T \ D) : u = F(q)
    BY <1>2
  <2>3. r.uid = q.uid
    BY <1>1, <2>1, <2>2
  <2>4. r = q
    BY <2>3 DEF TableInv, UidsUnique
  <2> QED BY <2>1, <2>2, <2>4
<1>6. BlockOrdered(N)
  BY <1>1, <1>2 DEF TableInv, BlockOrdered
<1>7. \A l \in L : \E d \in D : d.uid = l
  <2> SUFFICES ASSUME NEW l \in L PROVE \E d \in D : d.uid = l
    OBVIOUS
  <2>1. PICK e \in D : l = Min(Uids({r \in D : r.asset = e.asset}))
    BY DEF LowestDeleted
  <2> DEFINE U == Uids({r \in D : r.asset = e.asset})
  <2>2. U \in SUBSET Nat /\ U # {}
    BY DEF Uids, DeletedAbove, Version
  <2>3. l \in U
    BY <2>1, <2>2, MinOfNaturals
  <2> QED BY <2>3 DEF Uids
<1>8. IsChain(N)
  <2> SUFFICES ASSUME NEW t \in N
               PROVE  \/ t.superseded_by = MaxUid /\ Successors(N, t) = {}
                      \/ /\ t.superseded_by # MaxUid
                         /\ \E s \in Successors(N, t) :
                              /\ s.uid = t.superseded_by
                              /\ \A q \in Successors(N, t) : s.uid <= q.uid
    BY DEF IsChain
  <2>1. PICK r \in T \ D : t = F(r)
    BY <1>2
  <2>2. r \in Version /\ r.uid \in Nat /\ r.block_uid \in Nat /\ r.block_uid <= b
    BY DEF DeletedAbove, Version
  <2>3. \A u \in Successors(N, t) : \E q \in Successors(T, r) \ D : u = F(q)
    BY <1>1, <1>2, <2>1 DEF Successors
  <2>4. \A q \in Successors(T, r) \ D : F(q) \in Successors(N, t) /\ F(q).uid = q.uid
    BY <1>1, <2>1 DEF Successors
  <2>5. CASE r.superseded_by = MaxUid /\ Successors(T, r) = {}
    <3>1. t.superseded_by = MaxUid
      BY <1>1, <2>1, <2>5
    <3> QED BY <2>3, <2>5, <3>1
  <2>6. CASE /\ r.superseded_by # MaxUid
             /\ \E s \in Successors(T, r) :
                  /\ s.uid = r.superseded_by
                  /\ \A q \in Successors(T, r) : s.uid <= q.uid
    <3>1. PICK s \in Successors(T, r) :
              /\ s.uid = r.superseded_by
              /\ \A q \in Successors(T, r) : s.uid <= q.uid
      BY <2>6
    <3>2. s \in T /\ s \in Version /\ s.asset = r.asset /\ s.uid > r.uid
      BY DEF Successors
    <3>3. CASE s \in D
      <4> DEFINE U == Uids({d \in D : d.asset = s.asset})
      <4>1. U \in SUBSET Nat /\ s.uid \in U
        BY <3>2, <3>3 DEF Uids, DeletedAbove, Version
      <4>2. \A d \in D : d.asset = s.asset => s.uid <= d.uid
        <5> SUFFICES ASSUME NEW d \in D, d.asset = s.asset PROVE s.uid <= d.uid
          OBVIOUS
        <5>1. d \in T /\ d.block_uid > b /\ d.uid \in Nat /\ d.block_uid \in Nat
          BY DEF DeletedAbove, Version
        <5>2. d.uid > r.uid
          BY <2>2, <5>1 DEF TableInv, UidsUnique, BlockOrdered
        <5> QED BY <3>1, <3>2, <5>1, <5>2 DEF Successors
      <4>3. \A u \in U : s.uid <= u
        BY <4>2 DEF Uids
      <4>4. Min(U) = s.uid
        <5>1. Min(U) \in U /\ \A y \in U : Min(U) <= y
          BY <4>1, MinOfNaturals
        <5>2. Min(U) <= s.uid /\ s.uid <= Min(U) /\ Min(U) \in Nat /\ s.uid \in Nat
          BY <4>1, <4>3, <5>1
        <5> QED BY <5>2
      <4>5. s.uid \in L
        BY <3>3, <4>4 DEF LowestDeleted
      <4>6. t.superseded_by = MaxUid
        BY <1>1, <2>1, <3>1, <4>5
      <4>7. \A q \in Successors(T, r) : q \in D
        <5> SUFFICES ASSUME NEW q \in Successors(T, r) PROVE q.block_uid > b
          BY DEF DeletedAbove, Successors
        <5>1. q \in T /\ s.uid <= q.uid /\ q.uid \in Nat /\ s.uid \in Nat
          BY <3>1, <3>2 DEF Successors, Version
        <5>2. s.block_uid <= q.block_uid
          BY <3>2, <5>1 DEF TableInv, UidsUnique, BlockOrdered, Version
        <5> QED BY <3>2, <3>3, <5>1, <5>2 DEF DeletedAbove, Version
      <4> QED BY <2>3, <4>6, <4>7
    <3>4. CASE s \notin D
      <4>1. s.uid \notin L
        <5> SUFFICES ASSUME s.uid \in L PROVE FALSE
          OBVIOUS
        <5>1. PICK d \in D : d.uid = s.uid
          BY <1>7
        <5> QED BY <3>2, <3>4, <5>1 DEF TableInv, UidsUnique, DeletedAbove
      <4>2. t.superseded_by = r.superseded_by
        BY <1>1, <2>1, <3>1, <4>1
      <4>3. F(s) \in Successors(N, t) /\ F(s).uid = t.superseded_by
        BY <2>4, <3>1, <3>4, <4>2
      <4>4. \A u \in Successors(N, t) : F(s).uid <= u.uid
        <5> SUFFICES ASSUME NEW u \in Successors(N, t) PROVE F(s).uid <= u.uid
          OBVIOUS
        <5>1. PICK q \in Successors(T, r) \ D : u = F(q)
          BY <2>3
        <5>2. u.uid = q.uid /\ F(s).uid = s.uid
          BY <2>4, <3>4, <5>1
        <5> QED BY <3>1, <5>2
      <4> QED BY <2>6, <4>2, <4>3, <4>4
    <3> QED BY <3>3, <3>4
  <2> QED BY <2>1, <2>5, <2>6 DEF TableInv, IsChain
<1>9. \A t \in N : t.block_uid <= b /\ \E r \in T : r.block_uid = t.block_uid
  <2> SUFFICES ASSUME NEW t \in N
               PROVE  t.block_uid <= b /\ \E r \in T : r.block_uid = t.block_uid
    OBVIOUS
  <2>1. PICK r \in T \ D : t = F(r)
    BY <1>2
  <2>2. r.block_uid \in Nat /\ ~ (r.block_uid > b)
    BY DEF Version, DeletedAbove
  <2> QED BY <1>1, <2>1, <2>2
<1> QED BY <1>3, <1>4, <1>5, <1>6, <1>8, <1>9 DEF TableInv

\* Inserting a batch in block order closes the open row of every asset it
\* updates onto the first of its new rows, and chains the new rows.
LEMMA AppendKeepsTable ==
  ASSUME NEW T \in SUBSET Version, NEW base \in Nat, NEW us \in Seq(Update),
         TableInv(T, base), base + Len(us) <= MaxUid,
         \A i, j \in DOMAIN us : i < j => us[i].block_uid <= us[j].block_uid,
         \A r \in T, i \in DOMAIN us : r.block_uid <= us[i].block_uid
  PROVE  /\ AppendVersions(T, us, base) \subseteq Version
         /\ TableInv(AppendVersions(T, us, base), base + Len(us))
         /\ \A t \in AppendVersions(T, us, base) :
              \/ \E r \in T : r.block_uid = t.block_uid
              \/ \E i \in DOMAIN us : us[i].block_uid = t.block_uid
<1> DEFINE New(a) == NewUids(us, base, a)
           F(r) == IF r.superseded_by = MaxUid /\ New(r.asset) # {}
                     THEN [r EXCEPT !.superseded_by = Min(New(r.asset))]
                     ELSE r
           Later(i) == LaterInBatch(us, i)
           G(i) == [uid |-> base + i - 1, asset |-> us[i].asset,
                    block_uid |-> us[i].block_uid,
                    superseded_by |-> IF Later(i) = {} THEN MaxUid ELSE base + Min(Later(i)) - 1]
           N == AppendVersions(T, us, base)
<1> USE MaxUidAssumption
<1>1. /\ \A i \in DOMAIN us : i \in Nat /\ 1 <= i /\ i <= Len(us)
      /\ \A i \in DOMAIN us : us[i].asset \in Assets /\ us[i].block_uid \in Nat
      /\ Len(us) \in Nat
  <2>1. Len(us) \in Nat /\ DOMAIN us = 1..Len(us)
    BY LenProperties
  <2>2. \A i \in DOMAIN us : us[i] \in Update
    BY <2>1, ElementOfSeq
  <2>3. \A i \in DOMAIN us : us[i].asset \in Assets /\ us[i].block_uid \in Nat
    BY <2>2 DEF Update
  <2> QED BY <2>1, <2>3
<1>2. \A a : /\ New(a) \subseteq base..(base + Len(us) - 1)
             /\ \A n \in New(a) : \E j \in DOMAIN us : us[j].asset = a /\ n = base + j - 1
             /\ \A j \in DOMAIN us : us[j].asset = a => base + j - 1 \in New(a)
  BY <1>1 DEF NewUids
<1>3. \A a : New(a) # {} => /\ Min(New(a)) \in New(a)
                            /\ \A y \in New(a) : Min(New(a)) <= y
  <2> SUFFICES ASSUME NEW a, New(a) # {}
               PROVE  Min(New(a)) \in New(a) /\ \A y \in New(a) : Min(New(a)) <= y
    OBVIOUS
  <2>1. New(a) \in SUBSET Nat
    BY <1>1, <1>2
  <2> HIDE DEF New
  <2> QED BY <2>1, MinOfNaturals
<1>4. \A i \in DOMAIN us : Later(i) # {} => /\ Min(Later(i)) \in Later(i)
                                            /\ \A y \in Later(i) : Min(Later(i)) <= y
  <2> SUFFICES ASSUME NEW i \in DOMAIN us, Later(i) # {}
               PROVE  Min(Later(i)) \in Later(i) /\ \A y \in Later(i) : Min(Later(i)) <= y
    OBVIOUS
  <2>1. Later(i) \in SUBSET Nat
    BY <1>1 DEF LaterInBatch
  <2> HIDE DEF Later
  <2> QED BY <2>1, MinOfNaturals
<1>5. \A r \in T : /\ F(r) \in N /\ F(r) \in Version
                   /\ F(r).uid = r.uid /\ F(r).asset = r.asset /\ F(r).block_uid = r.block_uid
                   /\ F(r).superseded_by = IF r.superseded_by = MaxUid /\ New(r.asset) # {}
                                              THEN Min(New(r.asset)) ELSE r.superseded_by
  <2> SUFFICES ASSUME NEW r \in T
               PROVE  /\ F(r) \in N /\ F(r) \in Version
                      /\ F(r).uid = r.uid /\ F(r).asset = r.asset /\ F(r).block_uid = r.block_uid
                      /\ F(r).superseded_by = IF r.superseded_by = MaxUid /\ New(r.asset) # {}
                                                 THEN Min(New(r.asset)) ELSE r.superseded_by
    OBVIOUS
  <2>1. F(r) \in N
    BY Zenon DEF AppendVersions, CloseOpen
  <2>2. CASE r.superseded_by = MaxUid /\ New(r.asset) # {}
    <3> DEFINE m == Min(New(r.asset))
               c == [r EXCEPT !.superseded_by = m]
    <3>1. m \in Nat
      BY <1>1, <1>2, <1>3, <2>2
    <3>2. F(r) = c
      BY <2>2
    <3> HIDE DEF m, New
    <3>3. c \in Version /\ c.uid = r.uid /\ c.asset = r.asset /\ c.block_uid = r.block_uid
          /\ c.superseded_by = m
      BY <3>1, ChangedRows
    <3> HIDE DEF c
    <3> QED BY <2>1, <2>2, <3>2, <3>3 DEF m
  <2>3. CASE ~ (r.superseded_by = MaxUid /\ New(r.asset) # {})
    BY <2>1, <2>3
  <2> QED BY <2>2, <2>3
<1>6. \A i \in DOMAIN us : /\ G(i) \in N /\ G(i) \in Version
                           /\ G(i).uid = base + i - 1 /\ G(i).asset = us[i].asset
                           /\ G(i).block_uid = us[i].block_uid
                           /\ G(i).superseded_by = IF Later(i) = {} THEN MaxUid
                                                     ELSE base + Min(Later(i)) - 1
  <2> SUFFICES ASSUME NEW i \in DOMAIN us
               PROVE  /\ G(i) \in N /\ G(i) \in Version
                      /\ G(i).uid = base + i - 1 /\ G(i).asset = us[i].asset
                      /\ G(i).block_uid = us[i].block_uid
                      /\ G(i).superseded_by = IF Later(i) = {} THEN MaxUid
                                                ELSE base + Min(Later(i)) - 1
    OBVIOUS
  <2>1. G(i) \in N
    BY Zenon DEF AppendVersions, NewRows
  <2>2. (IF Later(i) = {} THEN MaxUid ELSE base + Min(Later(i)) - 1) \in Nat
    <3>1. CASE Later(i) = {}
      BY <3>1
    <3>2. CASE Later(i) # {}
      <4>1. Min(Later(i)) \in Later(i) /\ Later(i) \subseteq DOMAIN us
        BY <1>4, <3>2 DEF LaterInBatch
      <4>2. Min(Later(i)) \in Nat /\ 1 <= Min(Later(i))
        BY <1>1, <4>1
      <4> HIDE DEF Later
      <4> QED BY <3>2, <4>2
    <3> QED BY <3>1, <3>2
  <2>3. base + i - 1 \in Nat
    BY <1>1
  <2> QED BY <1>1, <2>1, <2>2, <2>3 DEF Version
<1>7. \A t \in N : (\E r \in T : t = F(r)) \/ (\E i \in DOMAIN us : t = G(i))
  BY DEF AppendVersions, CloseOpen, NewRows
<1> HIDE DEF F, G, N
<1>8. N \subseteq Version
  BY <1>5, <1>6, <1>7
<1>9. \A r \in T : r.uid \in Nat /\ r.block_uid \in Nat /\ r.uid < base /\ r.uid < MaxUid
  BY DEF TableInv, Version
<1>10. \A t \in N : t.uid < base + Len(us) /\ t.uid < MaxUid
  <2> SUFFICES ASSUME NEW t \in N PROVE t.uid < base + Len(us) /\ t.uid < MaxUid
    OBVIOUS
  <2>1. ASSUME NEW r \in T, t = F(r) PROVE t.uid < base + Len(us) /\ t.uid < MaxUid
    BY <1>1, <1>5, <1>9, <2>1
  <2>2. ASSUME NEW i \in DOMAIN us, t = G(i) PROVE t.uid < base + Len(us) /\ t.uid < MaxUid
    BY <1>1, <1>6, <2>2
  <2> QED BY <1>7, <2>1, <2>2
<1>a. \A u \in N : u.uid >= base => \E j \in DOMAIN us : u = G(j)
  <2> SUFFICES ASSUME NEW u \in N, u.uid >= base, NEW r \in T, u = F(r) PROVE FALSE
    BY <1>7
  <2> QED BY <1>5, <1>9
<1>b. \A i \in DOMAIN us : G(i).uid \in Nat /\ G(i).uid >= base
  BY <1>1, <1>6
<1>11. UidsUnique(N)
  <2> SUFFICES ASSUME NEW t \in N, NEW u \in N, t.uid = u.uid PROVE t = u
    BY DEF UidsUnique
  <2>1. CASE \E r \in T : t = F(r)
    <3>1. PICK r \in T : t = F(r)
      BY <2>1
    <3>2. PICK q \in T : u = F(q)
      BY <1>1, <1>5, <1>6, <1>7, <1>9, <3>1
    <3>3. r.uid = q.uid
      BY <1>5, <3>1, <3>2
    <3>4. r = q
      BY <3>3 DEF TableInv, UidsUnique
    <3> QED BY <3>1, <3>2, <3>4
  <2>2. CASE \E i \in DOMAIN us : t = G(i)
    <3>1. PICK i \in DOMAIN us : t = G(i)
      BY <2>2
    <3>2. PICK j \in DOMAIN us : u = G(j)
      BY <1>a, <1>b, <3>1
    <3>3. i = j
      BY <1>1, <1>6, <3>1, <3>2
    <3> QED BY <3>1, <3>2, <3>3
  <2> QED BY <1>7, <2>1, <2>2
<1>12. BlockOrdered(N)
  <2> SUFFICES ASSUME NEW t \in N, NEW u \in N, t.uid < u.uid PROVE t.block_uid <= u.block_uid
    BY DEF BlockOrdered
  <2>1. CASE \E r \in T : t = F(r)
    <3>1. PICK r \in T : t = F(r)
      BY <2>1
    <3>2. CASE \E q \in T : u = F(q)
      <4>1. PICK q \in T : u = F(q)
        BY <3>2
      <4> QED BY <1>5, <3>1, <4>1 DEF TableInv, BlockOrdered
    <3>3. CASE \E j \in DOMAIN us : u = G(j)
      BY <1>5, <1>6, <3>1, <3>3
    <3> QED BY <1>7, <3>2, <3>3
  <2>2. CASE \E i \in DOMAIN us : t = G(i)
    <3>1. PICK i \in DOMAIN us : t = G(i)
      BY <2>2
    <3>2. PICK j \in DOMAIN us : u = G(j)
      <4>1. u.uid \in Nat /\ t.uid \in Nat
        BY <1>8 DEF Version
      <4> QED BY <1>a, <1>b, <3>1, <4>1
    <3>3. i < j
      BY <1>1, <1>6, <3>1, <3>2
    <3> QED BY <1>6, <3>1, <3>2, <3>3
  <2> QED BY <1>7, <2>1, <2>2
<1>13. IsChain(N)
  <2> SUFFICES ASSUME NEW t \in N
               PROVE  \/ t.superseded_by = MaxUid /\ Successors(N, t) = {}
                      \/ /\ t.superseded_by # MaxUid
                         /\ \E s \in Successors(N, t) :
                              /\ s.uid = t.superseded_by
                              /\ \A q \in Successors(N, t) : s.uid <= q.uid
    BY DEF IsChain
  <2>1. ASSUME NEW r \in T, t = F(r)
        PROVE  \/ t.superseded_by = MaxUid /\ Successors(N, t) = {}
               \/ /\ t.superseded_by # MaxUid
                  /\ \E s \in Successors(N, t) :
                       /\ s.uid = t.superseded_by
                       /\ \A q \in Successors(N, t) : s.uid <= q.uid
    <3>1. \A u \in Successors(N, t) :
             \/ \E q \in Successors(T, r) : u = F(q)
             \/ \E j \in DOMAIN us : u = G(j) /\ us[j].asset = r.asset
      BY <1>5, <1>6, <1>7, <2>1 DEF Successors
    <3>2. \A q \in Successors(T, r) : F(q) \in Successors(N, t) /\ F(q).uid = q.uid
      BY <1>5, <2>1 DEF Successors
    <3>3. \A j \in DOMAIN us : us[j].asset = r.asset => G(j) \in Successors(N, t)
      BY <1>1, <1>5, <1>6, <1>9, <2>1 DEF Successors
    <3>4. r.superseded_by = MaxUid => Successors(T, r) = {}
      BY DEF TableInv, IsChain
    <3>5. CASE r.superseded_by = MaxUid /\ New(r.asset) = {}
      <4>1. t.superseded_by = MaxUid
        BY <1>5, <2>1, <3>5
      <4>2. \A j \in DOMAIN us : us[j].asset # r.asset
        BY <1>2, <3>5
      <4> QED BY <3>1, <3>4, <3>5, <4>1, <4>2
    <3>6. CASE r.superseded_by = MaxUid /\ New(r.asset) # {}
      <4> DEFINE m == Min(New(r.asset))
      <4>1. t.superseded_by = m
        BY <1>5, <2>1, <3>6
      <4>2. m \in New(r.asset) /\ \A y \in New(r.asset) : m <= y
        BY <1>3, <3>6
      <4>3. PICK j \in DOMAIN us : us[j].asset = r.asset /\ m = base + j - 1
        BY <1>2, <4>2
      <4>4. G(j) \in Successors(N, t) /\ G(j).uid = m /\ m < MaxUid
        BY <1>1, <1>6, <3>3, <4>3
      <4>5. \A u \in Successors(N, t) : m <= u.uid
        <5> SUFFICES ASSUME NEW u \in Successors(N, t) PROVE m <= u.uid
          OBVIOUS
        <5>1. PICK i \in DOMAIN us : u = G(i) /\ us[i].asset = r.asset
          BY <3>1, <3>4, <3>6
        <5> QED BY <1>2, <1>6, <4>2, <5>1
      <4> HIDE DEF m
      <4> QED BY <4>1, <4>4, <4>5
    <3>7. CASE r.superseded_by # MaxUid
      <4>1. t.superseded_by = r.superseded_by
        BY <1>5, <2>1, <3>7
      <4>2. PICK s \in Successors(T, r) :
               /\ s.uid = r.superseded_by
               /\ \A q \in Successors(T, r) : s.uid <= q.uid
        BY <3>7 DEF TableInv, IsChain
      <4>3. F(s) \in Successors(N, t) /\ F(s).uid = t.superseded_by /\ F(s).uid = s.uid
        BY <3>2, <4>1, <4>2
      <4>4. \A u \in Successors(N, t) : s.uid <= u.uid
        <5> SUFFICES ASSUME NEW u \in Successors(N, t) PROVE s.uid <= u.uid
          OBVIOUS
        <5>1. s.uid < base /\ s.uid \in Nat
          BY <1>9 DEF Successors
        <5>2. ASSUME NEW q \in Successors(T, r), u = F(q) PROVE s.uid <= u.uid
          BY <3>2, <4>2, <5>2
        <5>3. ASSUME NEW j \in DOMAIN us, u = G(j) PROVE s.uid <= u.uid
          BY <1>1, <1>6, <5>1, <5>3
        <5> QED BY <3>1, <5>2, <5>3
      <4> QED BY <3>7, <4>1, <4>3, <4>4
    <3> QED BY <3>5, <3>6, <3>7
  <2>2. ASSUME NEW i \in DOMAIN us, t = G(i)
        PROVE  \/ t.superseded_by = MaxUid /\ Successors(N, t) = {}
               \/ /\ t.superseded_by # MaxUid
                  /\ \E s \in Successors(N, t) :
                       /\ s.uid = t.superseded_by
                       /\ \A q \in Successors(N, t) : s.uid <= q.uid
    <3>1. \A u \in Successors(N, t) : \E j \in Later(i) : u = G(j)
      <4> SUFFICES ASSUME NEW u \in Successors(N, t) PROVE \E j \in Later(i) : u = G(j)
        OBVIOUS
      <4>1. u \in N /\ u.asset = us[i].asset /\ u.uid > base + i - 1
        BY <1>6, <2>2 DEF Successors
      <4>2. PICK j \in DOMAIN us : u = G(j)
        <5>1. u.uid \in Nat /\ u.uid >= base
          BY <1>1, <1>8, <4>1 DEF Version
        <5> QED BY <1>a, <4>1, <5>1
      <4>3. j > i /\ us[j].asset = us[i].asset
        BY <1>1, <1>6, <4>1, <4>2
      <4> QED BY <4>2, <4>3 DEF LaterInBatch
    <3>2. \A j \in Later(i) : j \in DOMAIN us /\ G(j) \in Successors(N, t) /\ G(j).uid = base + j - 1
      <4> SUFFICES ASSUME NEW j \in Later(i)
                   PROVE  j \in DOMAIN us /\ G(j) \in Successors(N, t) /\ G(j).uid = base + j - 1
        OBVIOUS
      <4>1. j \in DOMAIN us /\ j > i /\ us[j].asset = us[i].asset
        BY DEF LaterInBatch
      <4>2. G(j).uid > t.uid /\ G(j).asset = t.asset /\ G(j) \in N
        BY <1>1, <1>6, <2>2, <4>1
      <4> QED BY <1>6, <4>1, <4>2 DEF Successors
    <3>3. CASE Later(i) = {}
      BY <1>6, <2>2, <3>1, <3>3
    <3>4. CASE Later(i) # {}
      <4> DEFINE k == Min(Later(i))
      <4>1. k \in Later(i) /\ \A y \in Later(i) : k <= y
        BY <1>4, <3>4
      <4>2. t.superseded_by = base + k - 1
        BY <1>6, <2>2, <3>4
      <4> HIDE DEF k, Later
      <4>3. /\ G(k) \in Successors(N, t) /\ G(k).uid = base + k - 1
            /\ k \in DOMAIN us
        BY <3>2, <4>1
      <4>4. \A u \in Successors(N, t) : G(k).uid <= u.uid
        BY <1>1, <3>1, <3>2, <4>1, <4>3
      <4>5. base + k - 1 # MaxUid
        BY <1>1, <4>3
      <4> QED BY <4>2, <4>3, <4>4, <4>5
    <3> QED BY <3>3, <3>4
  <2> QED BY <1>7, <2>1, <2>2
<1>14. \A t \in N : \/ \E r \in T : r.block_uid = t.block_uid
                    \/ \E i \in DOMAIN us : us[i].block_uid = t.block_uid
  BY <1>5, <1>6, <1>7
<1> QED BY <1>8, <1>10, <1>11, <1>12, <1>13, <1>14 DEF TableInv, N

----------------------------------------------------------------------------
(* The transactions.                                                       *)

\* Block uids grow with the identity column and are not reused.
BlocksInv ==
  /\ \A b \in blocks : b.uid < blockSeq
  /\ \A b, c \in blocks : b.uid = c.uid => b = c

\* The inductive invariant: VersionChains is not inductive alone, because a
\* rollback keeps a chain only if rows are in block order (TableInv), and a
\* batch is in block order only if no row names a block that is not stored.
IInv ==
  /\ TypeOK
  /\ BlocksInv
  /\ TableInv(assets, assetSeq)
  /\ TableInv(tickers, tickerSeq)
  /\ RowsHaveBlocks
  /\ MicroblocksOnTop

USE MaxUidAssumption, BoundsAssumption

\* The last key block while microblocks are stored on top of it.
LEMMA LastKeyBlock ==
  ASSUME TypeOK, MicroblocksOnTop, Microblocks # {}
  PROVE  /\ Max(KeyUids) \in KeyUids /\ Max(KeyUids) \in Nat
         /\ \A c \in KeyUids : c <= Max(KeyUids)
         /\ \A m \in Microblocks : Max(KeyUids) < m.uid
<1>1. KeyUids \subseteq Nat
  BY DEF KeyUids, TypeOK, Block
<1>2. PICK m \in Microblocks : TRUE
  OBVIOUS
<1>3. PICK k \in KeyUids : \A c \in KeyUids : c <= k /\ k < m.uid
  BY <1>2 DEF MicroblocksOnTop
<1>4. \E x \in KeyUids : \A y \in KeyUids : x >= y
  BY <1>1, <1>3
<1>5. Max(KeyUids) \in KeyUids /\ \A y \in KeyUids : Max(KeyUids) >= y
  BY <1>4 DEF Max
<1>6. \A n \in Microblocks : Max(KeyUids) < n.uid
  <2> SUFFICES ASSUME NEW n \in Microblocks PROVE Max(KeyUids) < n.uid
    OBVIOUS
  <2>1. PICK j \in KeyUids : \A c \in KeyUids : c <= j /\ j < n.uid
    BY DEF MicroblocksOnTop
  <2>2. n.uid \in Nat
    BY DEF Microblocks, TypeOK, Block
  <2>3. /\ Max(KeyUids) \in Nat /\ j \in Nat
        /\ Max(KeyUids) >= Max(KeyUids) /\ Max(KeyUids) <= j /\ j < n.uid
    BY <1>1, <1>5, <2>1
  <2> QED BY <2>2, <2>3
<1> QED BY <1>1, <1>5, <1>6

\* A batch written on tables that satisfy TableInv, for blocks that are not
\* before any block the tables mention.
LEMMA WriteKeepsTables ==
  ASSUME NEW A \in SUBSET Version, NEW T \in SUBSET Version, NEW B \in SUBSET Nat,
         TypeOK, TableInv(A, assetSeq), TableInv(T, tickerSeq),
         \A r \in A \cup T, b \in B : r.block_uid <= b,
         NEW us \in Batches(B), NEW ts \in TickerBatches(B),
         WriteVersions(A, T, us, ts)
  PROVE  /\ assets' \subseteq Version /\ TableInv(assets', assetSeq')
         /\ tickers' \subseteq Version /\ TableInv(tickers', tickerSeq')
         /\ assetSeq' \in Nat \ {0} /\ tickerSeq' \in Nat \ {0}
         /\ \A t \in assets' \cup tickers' :
              (\E r \in A \cup T : r.block_uid = t.block_uid) \/ t.block_uid \in B
         /\ origins' \subseteq Origin
<1>1. /\ us \in Seq(Update) /\ ts \in Seq(Update)
      /\ \A i \in DOMAIN us : us[i].block_uid \in B /\ us[i].asset \in Assets
      /\ \A i \in DOMAIN ts : ts[i].block_uid \in B
      /\ \A i, j \in DOMAIN us : i < j => us[i].block_uid <= us[j].block_uid
      /\ \A i, j \in DOMAIN ts : i < j => ts[i].block_uid <= ts[j].block_uid
  <2>1. \A s \in Batches(B) : /\ s \in Seq(Update)
                              /\ \A i \in DOMAIN s : s[i].block_uid \in B /\ s[i].asset \in Assets
                              /\ \A i, j \in DOMAIN s : i < j => s[i].block_uid <= s[j].block_uid
    <3> SUFFICES ASSUME NEW s \in Batches(B)
                 PROVE  /\ s \in Seq(Update)
                        /\ \A i \in DOMAIN s : s[i].block_uid \in B /\ s[i].asset \in Assets
                        /\ \A i, j \in DOMAIN s : i < j => s[i].block_uid <= s[j].block_uid
      OBVIOUS
    <3>1. PICK n \in 0..MaxUpdates : s \in [1..n -> [block_uid : B, asset : Assets]]
      BY DEF Batches
    <3>2. \A i \in 1..n : s[i] \in Update
      BY <3>1 DEF Update
    <3>3. s \in [1..n -> Update]
      BY <3>1, <3>2
    <3>4. s \in Seq(Update)
      <4>1. n \in Nat
        OBVIOUS
      <4> QED BY <3>3, <4>1
    <3>5. \A i, j \in DOMAIN s : i < j => s[i].block_uid <= s[j].block_uid
      BY DEF Batches
    <3>6. \A i \in DOMAIN s : s[i].block_uid \in B /\ s[i].asset \in Assets
      BY <3>1
    <3> QED BY <3>4, <3>5, <3>6
  <2>2. us \in Batches(B) /\ (ts \in Batches(B) \/ ts = << >>)
    BY DEF TickerBatches
  <2>3. << >> \in Seq(Update) /\ DOMAIN << >> = {}
    OBVIOUS
  <2>4. CASE ts \in Batches(B)
    BY <2>1, <2>2, <2>4
  <2>5. CASE ts = << >>
    BY <2>1, <2>2, <2>3, <2>5
  <2> QED BY <2>2, <2>4, <2>5
<1>2. /\ assetSeq \in Nat /\ tickerSeq \in Nat /\ Len(us) \in Nat /\ Len(ts) \in Nat
      /\ assetSeq > 0 /\ tickerSeq > 0
  BY <1>1 DEF TypeOK
<1>3. /\ assetSeq + Len(us) <= MaxUid /\ tickerSeq + Len(ts) <= MaxUid
      /\ assets' = AppendVersions(A, us, assetSeq) /\ assetSeq' = assetSeq + Len(us)
      /\ tickers' = AppendVersions(T, ts, tickerSeq) /\ tickerSeq' = tickerSeq + Len(ts)
      /\ origins' = InsertOrigins(us, assetSeq)
  BY DEF WriteVersions
<1>4. /\ assets' \subseteq Version /\ TableInv(assets', assetSeq')
      /\ \A t \in assets' : (\E r \in A : r.block_uid = t.block_uid) \/ t.block_uid \in B
  <2>1. \A r \in A, i \in DOMAIN us : r.block_uid <= us[i].block_uid
    BY <1>1
  <2>2. /\ AppendVersions(A, us, assetSeq) \subseteq Version
        /\ TableInv(AppendVersions(A, us, assetSeq), assetSeq + Len(us))
        /\ \A t \in AppendVersions(A, us, assetSeq) :
             \/ \E r \in A : r.block_uid = t.block_uid
             \/ \E i \in DOMAIN us : us[i].block_uid = t.block_uid
    BY <1>1, <1>2, <1>3, <2>1, AppendKeepsTable
  <2> QED BY <1>1, <1>3, <2>2
<1>5. /\ tickers' \subseteq Version /\ TableInv(tickers', tickerSeq')
      /\ \A t \in tickers' : (\E r \in T : r.block_uid = t.block_uid) \/ t.block_uid \in B
  <2>1. \A r \in T, i \in DOMAIN ts : r.block_uid <= ts[i].block_uid
    BY <1>1
  <2>2. /\ AppendVersions(T, ts, tickerSeq) \subseteq Version
        /\ TableInv(AppendVersions(T, ts, tickerSeq), tickerSeq + Len(ts))
        /\ \A t \in AppendVersions(T, ts, tickerSeq) :
             \/ \E r \in T : r.block_uid = t.block_uid
             \/ \E i \in DOMAIN ts : ts[i].block_uid = t.block_uid
    BY <1>1, <1>2, <1>3, <2>1, AppendKeepsTable
  <2> QED BY <1>1, <1>3, <2>2
<1>6. origins' \subseteq Origin
  <2>1. \A a \in {us[i].asset : i \in DOMAIN us} : a \in Assets /\ Min(NewUids(us, assetSeq, a)) \in Nat
    <3> SUFFICES ASSUME NEW i \in DOMAIN us
                 PROVE  us[i].asset \in Assets /\ Min(NewUids(us, assetSeq, us[i].asset)) \in Nat
      OBVIOUS
    <3> DEFINE U == NewUids(us, assetSeq, us[i].asset)
    <3>1. \A j \in DOMAIN us : j \in Nat /\ j >= 1
      BY <1>1
    <3>2. U \in SUBSET Nat /\ U # {}
      BY <1>2, <3>1 DEF NewUids
    <3>3. Min(U) \in Nat
      BY <3>2, MinOfNaturals
    <3> QED BY <1>1, <3>3
  <2> QED BY <1>3, <2>1 DEF InsertOrigins, Origin, TypeOK
<1> QED BY <1>2, <1>3, <1>4, <1>5, <1>6

LEMMA InitInv == Init => IInv
BY DEF Init, IInv, TypeOK, BlocksInv, TableInv, UidsUnique, BlockOrdered, IsChain,
       RowsHaveBlocks, MicroblocksOnTop, Microblocks, Version, Block, Origin

LEMMA AppendBlocksInv == IInv /\ AppendBlocks => IInv'
<1> SUFFICES ASSUME IInv, AppendBlocks PROVE IInv'
  OBVIOUS
<1> USE DEF IInv
<1>1. PICK n \in 1..MaxBatch :
        LET new == blockSeq..(blockSeq + n - 1) IN
        /\ blockSeq + n <= MaxBlockUid
        /\ blocks' = (blocks \ Microblocks) \cup {[uid |-> u, key |-> TRUE] : u \in new}
        /\ blockSeq' = blockSeq + n
        /\ \E us \in Batches(new), ts \in TickerBatches(new) :
             WriteVersions(Squashed(assets), Squashed(tickers), us, ts)
  BY DEF AppendBlocks
<1> DEFINE new == blockSeq..(blockSeq + n - 1)
           A == Squashed(assets)
           T == Squashed(tickers)
<1>2. PICK us \in Batches(new), ts \in TickerBatches(new) : WriteVersions(A, T, us, ts)
  BY <1>1
<1>3. blockSeq \in Nat /\ blockSeq > 0 /\ n \in Nat /\ n >= 1 /\ new \in SUBSET Nat
  BY DEF TypeOK
<1>4. /\ A \subseteq Version /\ TableInv(A, assetSeq)
      /\ T \subseteq Version /\ TableInv(T, tickerSeq)
      /\ \A t \in A \cup T : \E b \in blocks \ Microblocks : b.uid = t.block_uid
  <2>1. CASE Microblocks = {}
    BY <2>1 DEF Squashed, TypeOK, RowsHaveBlocks
  <2>2. CASE Microblocks # {}
    <3> DEFINE k == Max(KeyUids)
    <3>1. /\ k \in KeyUids /\ k \in Nat
          /\ \A m \in Microblocks : k < m.uid
      BY <2>2, LastKeyBlock
    <3>2. A = Repoint(assets, k) /\ T = Repoint(tickers, k)
      BY <2>2 DEF Squashed
    <3> HIDE DEF k, A, T
    <3>3. /\ assets \in SUBSET Version /\ tickers \in SUBSET Version
          /\ assetSeq \in Nat /\ tickerSeq \in Nat
      BY DEF TypeOK
    <3>4. /\ A \subseteq Version /\ TableInv(A, assetSeq)
          /\ \A t \in A : t.block_uid <= k
          /\ \A t \in A : t.block_uid = k \/ \E r \in assets : r.block_uid = t.block_uid
      BY <3>1, <3>2, <3>3, RepointKeepsTable
    <3>5. /\ T \subseteq Version /\ TableInv(T, tickerSeq)
          /\ \A t \in T : t.block_uid <= k
          /\ \A t \in T : t.block_uid = k \/ \E r \in tickers : r.block_uid = t.block_uid
      BY <3>1, <3>2, <3>3, RepointKeepsTable
    <3>6. \A t \in A \cup T : \E b \in blocks \ Microblocks : b.uid = t.block_uid
      <4> SUFFICES ASSUME NEW t \in A \cup T
                   PROVE  \E b \in blocks \ Microblocks : b.uid = t.block_uid
        OBVIOUS
      <4>1. PICK b \in blocks : b.uid = t.block_uid
        BY <3>1, <3>4, <3>5 DEF RowsHaveBlocks, KeyUids
      <4>2. b.uid <= k /\ b.uid \in Nat
        BY <3>4, <3>5, <4>1 DEF TypeOK, Block
      <4>3. b \notin Microblocks
        BY <3>1, <4>2
      <4> QED BY <4>1, <4>3
    <3> QED BY <3>4, <3>5, <3>6
  <2> QED BY <2>1, <2>2
<1>5. \A r \in A \cup T, b \in new : r.block_uid <= b
  <2> SUFFICES ASSUME NEW r \in A \cup T, NEW b \in new PROVE r.block_uid <= b
    OBVIOUS
  <2>1. PICK c \in blocks : c.uid = r.block_uid
    BY <1>4
  <2>2. c.uid < blockSeq /\ c.uid \in Nat
    BY DEF BlocksInv, TypeOK, Block
  <2> QED BY <1>3, <2>1, <2>2
<1> HIDE DEF A, T, new
<1>6. /\ assets' \subseteq Version /\ TableInv(assets', assetSeq')
      /\ tickers' \subseteq Version /\ TableInv(tickers', tickerSeq')
      /\ assetSeq' \in Nat \ {0} /\ tickerSeq' \in Nat \ {0}
      /\ \A t \in assets' \cup tickers' :
           (\E r \in A \cup T : r.block_uid = t.block_uid) \/ t.block_uid \in new
      /\ origins' \subseteq Origin
  BY <1>2, <1>3, <1>4, <1>5, WriteKeepsTables
<1>7. /\ blocks' = (blocks \ Microblocks) \cup {[uid |-> u, key |-> TRUE] : u \in new}
      /\ blockSeq' = blockSeq + n
      /\ \A u \in new : u \in Nat /\ blockSeq <= u /\ u < blockSeq + n
  BY <1>1, <1>3 DEF new
<1>8. \A u \in new : LET b == [uid |-> u, key |-> TRUE]
                      IN  b \in Block /\ b \in blocks' /\ b.uid = u /\ b.key
  BY <1>7 DEF Block
<1>9. \A b \in blocks' : \/ b \in blocks /\ b \notin Microblocks
                         \/ b \in Block /\ b.uid \in new /\ b = [uid |-> b.uid, key |-> TRUE]
  <2>1. \A u \in new : LET b == [uid |-> u, key |-> TRUE]
                     IN  b \in Block /\ b.uid \in new /\ b = [uid |-> b.uid, key |-> TRUE]
    BY <1>8
  <2>2. \A b \in blocks' : b \in blocks \ Microblocks \/ \E u \in new : b = [uid |-> u, key |-> TRUE]
    BY <1>7
  <2> SUFFICES ASSUME NEW b \in blocks'
               PROVE  \/ b \in blocks /\ b \notin Microblocks
                      \/ b \in Block /\ b.uid \in new /\ b = [uid |-> b.uid, key |-> TRUE]
    OBVIOUS
  <2>3. CASE b \in blocks \ Microblocks
    BY <2>3
  <2>4. CASE \E u \in new : b = [uid |-> u, key |-> TRUE]
    BY <2>1, <2>4
  <2> QED BY <2>2, <2>3, <2>4
<1>10. blocks \subseteq Block /\ blocks' \subseteq Block
  BY <1>9 DEF TypeOK
<1>11. TypeOK'
  <2>1. blockSeq' \in Nat \ {0}
    BY <1>3, <1>7
  <2> QED BY <1>6, <1>10, <2>1 DEF TypeOK
<1>12. BlocksInv'
  <2>1. \A b \in blocks' : b.uid < blockSeq'
    <3> SUFFICES ASSUME NEW b \in blocks' PROVE b.uid < blockSeq'
      OBVIOUS
    <3>1. CASE b \in blocks
      BY <1>3, <1>7, <3>1 DEF BlocksInv, TypeOK, Block
    <3>2. CASE b \notin blocks
      BY <1>7, <1>9, <3>2
    <3> QED BY <3>1, <3>2
  <2>2. \A b, c \in blocks' : b.uid = c.uid => b = c
    <3> SUFFICES ASSUME NEW b \in blocks', NEW c \in blocks', b.uid = c.uid PROVE b = c
      OBVIOUS
    <3>1. \A d \in blocks' : \/ d \in blocks /\ d.uid < blockSeq
                             \/ d = [uid |-> d.uid, key |-> TRUE] /\ blockSeq <= d.uid
      BY <1>7, <1>9 DEF BlocksInv
    <3>2. b.uid \in Nat
      BY <1>10 DEF Block
    <3>3. CASE b \in blocks /\ b.uid < blockSeq
      BY <1>3, <3>1, <3>2, <3>3 DEF BlocksInv
    <3>4. CASE b = [uid |-> b.uid, key |-> TRUE] /\ blockSeq <= b.uid
      <4>1. c = [uid |-> c.uid, key |-> TRUE]
        BY <1>3, <3>1, <3>2, <3>4
      <4> QED BY <3>4, <4>1
    <3> QED BY <3>1, <3>3, <3>4
  <2> QED BY <2>1, <2>2 DEF BlocksInv
<1>13. RowsHaveBlocks'
  <2> SUFFICES ASSUME NEW t \in assets' \cup tickers' PROVE \E b \in blocks' : b.uid = t.block_uid
    BY DEF RowsHaveBlocks
  <2>1. CASE \E r \in A \cup T : r.block_uid = t.block_uid
    BY <1>4, <1>7, <2>1
  <2>2. CASE t.block_uid \in new
    BY <1>8, <2>2
  <2> QED BY <1>6, <2>1, <2>2
<1>14. MicroblocksOnTop'
  <2>1. \A b \in blocks' : b.key
    BY <1>9, <1>10 DEF Microblocks, Block
  <2> QED BY <2>1 DEF MicroblocksOnTop, Microblocks
<1> QED BY <1>6, <1>11, <1>12, <1>13, <1>14

LEMMA AppendMicroblockInv == IInv /\ AppendMicroblock => IInv'
<1> SUFFICES ASSUME IInv, AppendMicroblock PROVE IInv'
  OBVIOUS
<1> USE DEF IInv
<1>1. /\ KeyUids # {}
      /\ blocks' = blocks \cup {[uid |-> blockSeq, key |-> FALSE]}
      /\ blockSeq' = blockSeq + 1
  BY DEF AppendMicroblock
<1>2. PICK us \in Batches({blockSeq}), ts \in TickerBatches({blockSeq}) :
        WriteVersions(assets, tickers, us, ts)
  BY DEF AppendMicroblock
<1>3. /\ blockSeq \in Nat /\ blockSeq > 0 /\ {blockSeq} \in SUBSET Nat
      /\ assets \in SUBSET Version /\ tickers \in SUBSET Version
  BY DEF TypeOK
<1>4. \A b \in blocks : b.uid \in Nat /\ b.uid < blockSeq
  BY DEF TypeOK, Block, BlocksInv
<1>5. \A r \in assets \cup tickers, b \in {blockSeq} : r.block_uid <= b
  BY <1>3, <1>4 DEF RowsHaveBlocks
<1>6. /\ assets' \subseteq Version /\ TableInv(assets', assetSeq')
      /\ tickers' \subseteq Version /\ TableInv(tickers', tickerSeq')
      /\ assetSeq' \in Nat \ {0} /\ tickerSeq' \in Nat \ {0}
      /\ \A t \in assets' \cup tickers' :
           (\E r \in assets \cup tickers : r.block_uid = t.block_uid) \/ t.block_uid \in {blockSeq}
      /\ origins' \subseteq Origin
  BY <1>2, <1>3, <1>5, WriteKeepsTables
<1> DEFINE new == [uid |-> blockSeq, key |-> FALSE]
<1>7. new \in Block /\ new.uid = blockSeq /\ blocks' = blocks \cup {new}
  BY <1>1, <1>3 DEF Block
<1> HIDE DEF new
<1>8. TypeOK'
  <2>1. blocks' \subseteq Block /\ blockSeq' \in Nat \ {0}
    BY <1>1, <1>3, <1>7 DEF TypeOK
  <2> QED BY <1>6, <2>1 DEF TypeOK
<1>9. BlocksInv'
  <2>1. \A b \in blocks' : b.uid < blockSeq'
    BY <1>1, <1>3, <1>4, <1>7
  <2>2. \A b, c \in blocks' : b.uid = c.uid => b = c
    BY <1>3, <1>4, <1>7 DEF BlocksInv
  <2> QED BY <2>1, <2>2 DEF BlocksInv
<1>10. RowsHaveBlocks'
  <2> SUFFICES ASSUME NEW t \in assets' \cup tickers' PROVE \E b \in blocks' : b.uid = t.block_uid
    BY DEF RowsHaveBlocks
  <2>1. CASE \E r \in assets \cup tickers : r.block_uid = t.block_uid
    BY <1>7, <2>1 DEF RowsHaveBlocks
  <2>2. CASE t.block_uid \in {blockSeq}
    BY <1>7, <2>2
  <2> QED BY <1>6, <2>1, <2>2
<1>11. MicroblocksOnTop'
  <2>1. KeyUids' = KeyUids
    BY <1>1 DEF KeyUids
  <2>2. \A c \in KeyUids : c \in Nat /\ c < blockSeq
    BY <1>4 DEF KeyUids
  <2>3. \E k \in KeyUids : \A c \in KeyUids : c <= k
    <3>1. PICK b \in {blockSeq - c : c \in KeyUids} :
            \A e \in {blockSeq - c : c \in KeyUids} : b <= e
      <4> DEFINE S == {blockSeq - c : c \in KeyUids}
      <4>1. S \in SUBSET Nat /\ S # {}
        BY <1>1, <1>3, <2>2
      <4> QED BY <4>1, MinOfNaturals
    <3>2. PICK k \in KeyUids : b = blockSeq - k
      BY <3>1
    <3>3. \A c \in KeyUids : blockSeq - k <= blockSeq - c
      BY <3>1, <3>2
    <3> QED BY <1>3, <2>2, <3>3
  <2>4. \A m \in Microblocks' : m \in Microblocks \/ m.uid = blockSeq
    BY <1>1 DEF Microblocks
  <2> QED BY <1>3, <2>1, <2>2, <2>3, <2>4 DEF MicroblocksOnTop
<1> QED BY <1>6, <1>8, <1>9, <1>10, <1>11

LEMMA RollbackInv == IInv /\ Rollback => IInv'
<1> SUFFICES ASSUME IInv, Rollback PROVE IInv'
  OBVIOUS
<1> USE DEF IInv
<1>1. PICK b \in blocks :
        /\ assets' = RollbackVersions(assets, b.uid)
        /\ tickers' = RollbackVersions(tickers, b.uid)
        /\ origins' = {o \in origins : o.first \in Uids(assets')}
        /\ blocks' = {c \in blocks : c.uid <= b.uid}
        /\ UNCHANGED <<blockSeq, assetSeq, tickerSeq>>
  BY DEF Rollback
<1>2. /\ b.uid \in Nat /\ assetSeq \in Nat /\ tickerSeq \in Nat
      /\ assets \in SUBSET Version /\ tickers \in SUBSET Version
  BY DEF TypeOK, Block
<1>3. /\ assets' \subseteq Version /\ TableInv(assets', assetSeq)
      /\ \A t \in assets' : t.block_uid <= b.uid /\ \E r \in assets : r.block_uid = t.block_uid
  <2>1. /\ RollbackVersions(assets, b.uid) \subseteq Version
        /\ TableInv(RollbackVersions(assets, b.uid), assetSeq)
        /\ \A t \in RollbackVersions(assets, b.uid) :
             t.block_uid <= b.uid /\ \E r \in assets : r.block_uid = t.block_uid
    <3>1. TableInv(assets, assetSeq)
      OBVIOUS
    <3> QED BY <1>2, <3>1, RollbackKeepsTable
  <2> QED BY <1>1, <2>1
<1>4. /\ tickers' \subseteq Version /\ TableInv(tickers', tickerSeq)
      /\ \A t \in tickers' : t.block_uid <= b.uid /\ \E r \in tickers : r.block_uid = t.block_uid
  <2>1. /\ RollbackVersions(tickers, b.uid) \subseteq Version
        /\ TableInv(RollbackVersions(tickers, b.uid), tickerSeq)
        /\ \A t \in RollbackVersions(tickers, b.uid) :
             t.block_uid <= b.uid /\ \E r \in tickers : r.block_uid = t.block_uid
    <3>1. TableInv(tickers, tickerSeq)
      OBVIOUS
    <3> QED BY <1>2, <3>1, RollbackKeepsTable
  <2> QED BY <1>1, <2>1
<1>5. TypeOK'
  BY <1>1, <1>3, <1>4 DEF TypeOK
<1>6. BlocksInv'
  BY <1>1 DEF BlocksInv
<1>7. RowsHaveBlocks'
  BY <1>1, <1>3, <1>4 DEF RowsHaveBlocks
<1>8. MicroblocksOnTop'
  <2> SUFFICES ASSUME NEW m \in Microblocks'
               PROVE  \E k \in KeyUids' : \A c \in KeyUids' : c <= k /\ k < m.uid
    BY DEF MicroblocksOnTop
  <2>1. m \in Microblocks /\ m.uid <= b.uid /\ m.uid \in Nat
    BY <1>1 DEF Microblocks, TypeOK, Block
  <2>2. PICK k \in KeyUids : \A c \in KeyUids : c <= k /\ k < m.uid
    BY <2>1 DEF MicroblocksOnTop
  <2>3. k \in Nat /\ k < m.uid
    BY <2>2 DEF KeyUids, TypeOK, Block
  <2>4. k \in KeyUids' /\ KeyUids' \subseteq KeyUids
    BY <1>1, <1>2, <2>1, <2>2, <2>3 DEF KeyUids
  <2> QED BY <2>2, <2>4
<1> QED BY <1>1, <1>3, <1>4, <1>5, <1>6, <1>7, <1>8

LEMMA AbortedAppendInv == IInv /\ AbortedAppend => IInv'
<1> SUFFICES ASSUME IInv, AbortedAppend PROVE IInv'
  OBVIOUS
<1> USE DEF IInv
<1>1. /\ UNCHANGED <<blocks, assets, tickers, origins>>
      /\ blockSeq' \in Nat /\ blockSeq' >= blockSeq
      /\ assetSeq' \in Nat /\ assetSeq' >= assetSeq
      /\ tickerSeq' \in Nat /\ tickerSeq' >= tickerSeq
  BY DEF AbortedAppend, TypeOK
<1>2. TypeOK'
  BY <1>1 DEF TypeOK
<1>3. BlocksInv'
  BY <1>1 DEF BlocksInv, TypeOK, Block
<1>4. TableInv(assets, assetSeq)' /\ TableInv(tickers, tickerSeq)'
  BY <1>1 DEF TableInv, TypeOK, Version
<1>5. RowsHaveBlocks' /\ MicroblocksOnTop'
  BY <1>1 DEF RowsHaveBlocks, MicroblocksOnTop, Microblocks, KeyUids
<1> QED BY <1>2, <1>3, <1>4, <1>5

\* The inductive invariant holds of every behaviour.
THEOREM HistoryInvariant == Spec => []IInv
<1>1. Init => IInv
  BY InitInv
<1>2. IInv /\ [Next]_vars => IInv'
  <2> SUFFICES ASSUME IInv, [Next]_vars PROVE IInv'
    OBVIOUS
  <2>1. CASE AppendBlocks
    BY <2>1, AppendBlocksInv
  <2>2. CASE AppendMicroblock
    BY <2>2, AppendMicroblockInv
  <2>3. CASE Rollback
    BY <2>3, RollbackInv
  <2>4. CASE AbortedAppend
    BY <2>4, AbortedAppendInv
  <2>5. CASE UNCHANGED vars
    BY <2>5 DEF vars, IInv, TypeOK, BlocksInv, TableInv, UidsUnique, BlockOrdered, IsChain,
                Successors, RowsHaveBlocks, MicroblocksOnTop, Microblocks, KeyUids
  <2> QED BY <2>1, <2>2, <2>3, <2>4, <2>5 DEF Next
<1> QED BY <1>1, <1>2, PTL DEF Spec

\* The tables, sequences and block rows always have their types.
THEOREM TypeCorrect == Spec => []TypeOK
<1>1. IInv => TypeOK
  BY DEF IInv
<1> QED BY <1>1, HistoryInvariant, PTL

\* Through any mix of batches, squashes, rollbacks and aborted transactions
\* each asset keeps exactly one open row, its latest, in both tables.
THEOREM ChainsKept == Spec => []VersionChains
<1>1. IInv => VersionChains
  BY DEF IInv, VersionChains, TableInv
<1> QED BY <1>1, HistoryInvariant, PTL

\* No version row is left without its block, so the foreign key on block_uid
\* never makes a squash or a rollback fail.
THEOREM ReferencesKept == Spec => []RowsHaveBlocks
<1>1. IInv => RowsHaveBlocks
  BY DEF IInv
<1> QED BY <1>1, HistoryInvariant, PTL
============================================================================
