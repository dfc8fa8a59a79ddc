------------------------- MODULE BpsConsumerProofs -------------------------
(***************************************************************************)
(* Proofs about BpsConsumer.                                               *)
(*                                                                         *)
(* The invariant has two parts.  Base: the types, the shape of the node's  *)
(* chain (heights and identifiers grow along it), what a process has in    *)
(* memory when it starts, and what the database and the stream hold before *)
(* and after the first block.  SyncOk: unless the node abandoned what a    *)
(* restarted process keeps, the rows are a chain the node once had, and    *)
(* the messages in flight, applied to them one by one, lead through chains *)
(* the node had to the chain it has now (Follows).  A rollback in flight   *)
(* therefore names a row that will be there when its turn comes, so no     *)
(* transaction fails on it, and what is caught up is the node's chain.     *)
(* The chains are followed by their rows.                                  *)
(*                                                                         *)
(* The uids of one process need one more.  Calm orders the uids of the     *)
(* table, and of what is on its way, by the rows, as long as no message    *)
(* finds the uids of its height used up (UidsFit).                         *)
(*                                                                         *)
(* The transactions need another.  CopyOk: without blocks sent again the   *)
(* tables are a chain of blocks with their transactions in uid order       *)
(* (Mirrors), the messages in flight make it the chain of the node, with   *)
(* the last block unfinished exactly where the node's was (Leads), and the *)
(* generator is ahead of every uid that a merge folds (Current).           *)
(***************************************************************************)
EXTENDS BpsConsumer, WellFoundedInduction, SequenceTheorems, FiniteSetTheorems, TLAPS

(* Induction and recursion over an interval.                               *)

\* Every non-empty set of naturals has a least element.
LEMMA LeastNatural ==
  ASSUME NEW S \in SUBSET Nat, S # {}
  PROVE  \E x \in S : \A y \in S : x <= y
<1>1. PICK x \in S : \A y \in S : ~ (<<y, x>> \in OpToRel(<, Nat))
  BY NatLessThanWellFounded, WFMin
<1>2. \A y \in S : x <= y
  <2> SUFFICES ASSUME NEW y \in S PROVE x <= y
    OBVIOUS
  <2>1. ~ (y < x)
    BY <1>1 DEF OpToRel
  <2> QED BY <2>1
<1> QED BY <1>2

\* Induction up to n, over a set: what holds for 0, and for i if for i - 1.
LEMMA IntervalInduction ==
  ASSUME NEW n \in Nat, NEW S, 0 \in S, \A i \in 1..n : i - 1 \in S => i \in S
  PROVE  \A i \in 0..n : i \in S
<1> DEFINE T == {i \in 0..n : i \notin S}
<1>1. SUFFICES ASSUME T # {} PROVE FALSE
  OBVIOUS
<1>2. PICK x \in T : \A y \in T : x <= y
  <2>1. T \in SUBSET Nat
    OBVIOUS
  <2> HIDE DEF T
  <2> QED BY <1>1, <2>1, LeastNatural
<1>3. x \in 1..n /\ x - 1 \notin T
  BY <1>2
<1> QED BY <1>3

\* The last index with a property, and the first.
LEMMA GreatestIndex ==
  ASSUME NEW n \in Nat, NEW I \in SUBSET (1..n), I # {}
  PROVE  Max(I) \in I /\ \A i \in I : i <= Max(I)
<1> DEFINE J == {j \in 0..n : n - j \in I}
<1>1. PICK x \in J : \A y \in J : x <= y
  <2>1. PICK i \in I : TRUE
    OBVIOUS
  <2>2. J \in SUBSET Nat /\ n - i \in J
    OBVIOUS
  <2> HIDE DEF J
  <2> QED BY <2>2, LeastNatural
<1>2. PICK m \in I : x = n - m
  BY <1>1
<1>3. \A i \in I : i <= m
  <2> SUFFICES ASSUME NEW i \in I PROVE i <= m
    OBVIOUS
  <2>1. n - i \in J
    OBVIOUS
  <2>2. x <= n - i
    BY <1>1, <2>1
  <2> QED BY <1>2, <2>2
<1>4. \E z \in I : \A y \in I : z >= y
  BY <1>3
<1> QED BY <1>4 DEF Max

LEMMA LeastIndex ==
  ASSUME NEW n \in Nat, NEW I \in SUBSET (1..n), I # {}
  PROVE  Min(I) \in I /\ \A i \in I : Min(I) <= i
<1>1. I \in SUBSET Nat
  OBVIOUS
<1>2. \E x \in I : \A y \in I : x <= y
  BY <1>1, LeastNatural
<1> QED BY <1>2 DEF Min

LEMMA PositionFacts ==
  ASSUME NEW S, NEW c \in Seq(S), NEW id
  PROVE  /\ Position(c, id) \in 0..Len(c)
         /\ Position(c, id) = 0 => \A i \in 1..Len(c) : c[i].id # id
         /\ Position(c, id) # 0 => /\ c[Position(c, id)].id = id
                                  /\ \A i \in 1..Len(c) : c[i].id = id => i <= Position(c, id)
<1> DEFINE I == {i \in 1..Len(c) : c[i].id = id}
<1>1. Position(c, id) = IF I # {} THEN Max(I) ELSE 0
  BY DEF Position, SelectLastInSeq
<1>2. CASE I = {}
  BY <1>1, <1>2
<1>3. CASE I # {}
  <2>1. Max(I) \in I /\ \A i \in I : i <= Max(I)
    <3>1. I \in SUBSET (1..Len(c)) /\ Len(c) \in Nat
      OBVIOUS
    <3> HIDE DEF I
    <3> QED BY <1>3, <3>1, GreatestIndex
  <2> QED BY <1>1, <1>3, <2>1
<1> QED BY <1>2, <1>3

LEMMA LastKeyFacts ==
  ASSUME NEW S, NEW c \in Seq(S)
  PROVE  /\ LastKey(c) \in 0..Len(c)
         /\ LastKey(c) = 0 => \A i \in 1..Len(c) : ~c[i].key
         /\ LastKey(c) # 0 => /\ c[LastKey(c)].key
                              /\ \A i \in 1..Len(c) : c[i].key => i <= LastKey(c)
<1> DEFINE I == {i \in 1..Len(c) : c[i].key}
<1>1. LastKey(c) = IF I # {} THEN Max(I) ELSE 0
  BY DEF LastKey, SelectLastInSeq
<1>2. CASE I = {}
  BY <1>1, <1>2
<1>3. CASE I # {}
  <2>1. Max(I) \in I /\ \A i \in I : i <= Max(I)
    <3>1. I \in SUBSET (1..Len(c)) /\ Len(c) \in Nat
      OBVIOUS
    <3> HIDE DEF I
    <3> QED BY <1>3, <3>1, GreatestIndex
  <2> QED BY <1>1, <1>3, <2>1
<1> QED BY <1>2, <1>3

----------------------------------------------------------------------------
(* Rows of a chain: the merge of microblocks into the last key block.      *)

RowMerged(c) ==
  IF c = << >> \/ Last(c).key THEN c
  ELSE [SubSeq(c, 1, LastKey(c)) EXCEPT ![LastKey(c)].id = Last(c).id]

LEMMA Replaced ==
  ASSUME NEW S, NEW c \in Seq(S), NEW k \in 1..Len(c), NEW r \in S
  PROVE  /\ [c EXCEPT ![k] = r] \in Seq(S) /\ Len([c EXCEPT ![k] = r]) = Len(c)
         /\ \A i \in 1..Len(c) : [c EXCEPT ![k] = r][i] = IF i = k THEN r ELSE c[i]
OBVIOUS

LEMMA Prefix ==
  ASSUME NEW S, NEW c \in Seq(S), NEW k \in 0..Len(c)
  PROVE  /\ SubSeq(c, 1, k) \in Seq(S) /\ Len(SubSeq(c, 1, k)) = k
         /\ \A i \in 1..k : SubSeq(c, 1, k)[i] = c[i]
OBVIOUS

LEMMA Renamed ==
  ASSUME NEW r \in Row, NEW id \in Nat
  PROVE  /\ [r EXCEPT !.id = id] \in Row 
         /\ [r EXCEPT !.id = id] = [id |-> id, h |-> r.h, key |-> r.key]
BY DEF Row

LEMMA RowMergedFacts ==
  ASSUME NEW c \in Seq(Row), c # << >>, ~Last(c).key, c[1].key
  PROVE  /\ LastKey(c) \in 1..(Len(c) - 1) /\ c[LastKey(c)].key
         /\ RowMerged(c) \in Seq(Row) /\ Len(RowMerged(c)) = LastKey(c)
         /\ \A i \in 1..LastKey(c) :
              RowMerged(c)[i] = IF i = LastKey(c) THEN [id |-> Last(c).id, h |-> c[i].h, key |-> c[i].key] ELSE c[i]
         /\ RowMerged(c)[1].key
<1> DEFINE k == LastKey(c)
           id == Last(c).id
<1>1. Len(c) \in Nat \ {0} /\ Last(c) = c[Len(c)] /\ Last(c) \in Row
  BY DEF Last
<1>2. k \in 1..(Len(c) - 1) /\ c[k].key
  <2>1. k # 0
    BY <1>1, LastKeyFacts
  <2>2. k \in 1..Len(c) /\ c[k].key
    BY <2>1, LastKeyFacts
  <2>3. k # Len(c)
    BY <1>1, <2>2
  <2> QED BY <1>1, <2>2, <2>3
<1> HIDE DEF k
<1>3. c[k] \in Row /\ id \in Nat
  <2>1. c[k] \in Row
    BY <1>1, <1>2
  <2>2. \A r \in Row : r.id \in Nat
    BY DEF Row
  <2> QED BY <1>1, <2>1, <2>2
<1> DEFINE q == SubSeq(c, 1, k)
           r == [id |-> id, h |-> c[k].h, key |-> c[k].key]
<1>4. q \in Seq(Row) /\ Len(q) = k /\ \A i \in 1..k : q[i] = c[i]
  BY <1>1, <1>2, Prefix
<1>5. r \in Row /\ r.key = c[k].key /\ r = [c[k] EXCEPT !.id = id]
  BY <1>3, Renamed
<1>6. RowMerged(c) = [q EXCEPT ![k] = [q[k] EXCEPT !.id = id]]
  BY DEF RowMerged, k
<1> HIDE DEF q
<1>7. RowMerged(c) = [q EXCEPT ![k] = r]
  <2>1. q[k] = c[k]
    BY <1>1, <1>2, <1>4
  <2> HIDE DEF r, id
  <2> QED BY <1>5, <1>6, <2>1
<1> HIDE DEF r
<1>8. /\ RowMerged(c) \in Seq(Row) /\ Len(RowMerged(c)) = k
      /\ \A i \in 1..k : RowMerged(c)[i] = IF i = k THEN r ELSE c[i]
  BY <1>2, <1>4, <1>5, <1>7, Replaced
<1>9. RowMerged(c)[1].key
  <2>1. 1 \in 1..k
    BY <1>1, <1>2
  <2>2. RowMerged(c)[1] = r \/ RowMerged(c)[1] = c[1]
    BY <1>8, <2>1
  <2> QED BY <1>2, <1>5, <2>2
<1> QED BY <1>1, <1>2, <1>8, <1>9 DEF r, k

----------------------------------------------------------------------------
(* One transaction: the types of what handle_updates computes.             *)

TxRow == [uid : Nat, tx : Nat, at : Nat]
Db == [blocks : Seq(Row), txs : SUBSET TxRow, gen : [height : Nat, id : Nat],
       events : Seq(Nat), error : Errors]

\* The uid of the first transaction of the block at StartHeight.
FirstUid == StartHeight * Multiplier

\* A database that holds blocks holds the first one.
Begun(s) == s.blocks # << >> => /\ s.blocks[1].key
                                /\ \E t \in s.txs : t.uid = FirstUid /\ t.at = 1

GoodDb(s) == /\ s \in Db
             /\ \A t \in s.txs : t.at \in DOMAIN s.blocks
             /\ Begun(s)

\* The first message to an empty database.
Opening(m) == m.type = "block" /\ m.h = StartHeight /\ m.txs # << >>

LEMMA SquashGood ==
  ASSUME NEW s, GoodDb(s)
  PROVE  /\ GoodDb(Squash(s))
         /\ Squash(s).gen = s.gen /\ Squash(s).events = s.events /\ Squash(s).error = s.error
         /\ (Squash(s).blocks = << >>) <=> (s.blocks = << >>)
         /\ {t.uid : t \in Squash(s).txs} = {t.uid : t \in s.txs}
<1>1. CASE s.blocks = << >> \/ Last(s.blocks).key
  BY <1>1 DEF Squash
<1>2. CASE ~ (s.blocks = << >> \/ Last(s.blocks).key)
  <2> DEFINE b == s.blocks
             k == LastKey(b)
             nb == RowMerged(b)
             F(t) == IF t.at > k THEN [t EXCEPT !.at = k] ELSE t
             nt == {F(t) : t \in s.txs}
  <2>1. b \in Seq(Row) /\ b # << >> /\ s.txs \in SUBSET TxRow /\ b[1].key
        /\ \A t \in s.txs : t.at \in 1..Len(b)
    BY <1>2 DEF GoodDb, Db, Begun
  <2>2. k \in 1..Len(b)
    BY <1>2, <2>1, RowMergedFacts
  <2> HIDE DEF k
  <2>5. nb \in Seq(Row) /\ Len(nb) = k /\ nb[1].key
    BY <1>2, <2>1, RowMergedFacts DEF k
  <2>6. \A t \in s.txs : /\ F(t) \in TxRow /\ F(t).uid = t.uid /\ F(t).at \in 1..k
                         /\ t.at = 1 => F(t).at = 1
    BY <2>1, <2>2 DEF TxRow
  <2>7. nt \in SUBSET TxRow /\ \A t \in nt : t.at \in 1..k
    BY <2>6
  <2> HIDE DEF F
  <2>8. {t.uid : t \in nt} = {t.uid : t \in s.txs}
    BY <2>6
  <2>9. \E t \in nt : t.uid = FirstUid /\ t.at = 1
    BY <1>2, <2>6 DEF GoodDb, Begun
  <2>10. Squash(s) = [s EXCEPT !.blocks = nb, !.txs = nt]
    BY <1>2 DEF Squash, F, k, RowMerged
  <2> HIDE DEF nb, nt
  <2>11. [s EXCEPT !.blocks = nb, !.txs = nt] \in Db
         /\ [s EXCEPT !.blocks = nb, !.txs = nt].blocks = nb
         /\ [s EXCEPT !.blocks = nb, !.txs = nt].txs = nt
         /\ [s EXCEPT !.blocks = nb, !.txs = nt].gen = s.gen
         /\ [s EXCEPT !.blocks = nb, !.txs = nt].events = s.events
         /\ [s EXCEPT !.blocks = nb, !.txs = nt].error = s.error
    BY <2>5, <2>7 DEF GoodDb, Db
  <2>12. nb # << >> /\ DOMAIN nb = 1..k
    BY <2>2, <2>5
  <2> QED BY <1>2, <2>5, <2>7, <2>8, <2>9, <2>10, <2>11, <2>12 DEF GoodDb, Begun
<1> QED BY <1>1, <1>2

LEMMA UpsertGood ==
  ASSUME NEW s, GoodDb(s), NEW m \in Msg, s.blocks = << >> => Opening(m)
  PROVE  /\ Upsert(s, m) \in Db
         /\ Upsert(s, m).gen = s.gen /\ Upsert(s, m).events = s.events /\ Upsert(s, m).error = s.error
         /\ Upsert(s, m).txs = s.txs
         /\ Len(Upsert(s, m).blocks) >= Len(s.blocks)
         /\ Upsert(s, m).blocks[1].key
         /\ Position(Upsert(s, m).blocks, m.id) \in 1..Len(Upsert(s, m).blocks)
         /\ s.blocks = << >> => Position(Upsert(s, m).blocks, m.id) = 1
<1> DEFINE b == s.blocks
           r == [id |-> m.id, h |-> m.h, key |-> m.type = "block"]
<1>1. b \in Seq(Row) /\ s \in Db
  BY DEF GoodDb, Db
<1>2. CASE Position(b, m.id) # 0
  <2>1. Upsert(s, m) = s
    BY <1>2 DEF Upsert
  <2>2. Position(b, m.id) \in 1..Len(b)
    BY <1>1, <1>2, PositionFacts
  <2>3. b # << >>
    BY <2>2
  <2> QED BY <1>1, <2>1, <2>2, <2>3 DEF GoodDb, Begun
<1>3. CASE Position(b, m.id) = 0
  <2>1. Upsert(s, m) = [s EXCEPT !.blocks = Append(b, r)]
    BY <1>3 DEF Upsert
  <2>2. r \in Row
    BY DEF Msg, Row
  <2>3. Append(b, r) \in Seq(Row) /\ Len(Append(b, r)) = Len(b) + 1
        /\ Append(b, r)[Len(b) + 1] = r
        /\ \A i \in 1..Len(b) : Append(b, r)[i] = b[i]
    BY <1>1, <2>2
  <2> DEFINE a == Append(b, r)
  <2> HIDE DEF a
  <2>4. [s EXCEPT !.blocks = a] \in Db /\ [s EXCEPT !.blocks = a].blocks = a
        /\ [s EXCEPT !.blocks = a].txs = s.txs /\ [s EXCEPT !.blocks = a].gen = s.gen
        /\ [s EXCEPT !.blocks = a].events = s.events /\ [s EXCEPT !.blocks = a].error = s.error
    BY <1>1, <2>3 DEF Db, a
  <2>5. Position(a, m.id) = Len(b) + 1
    <3>1. a[Len(b) + 1].id = m.id /\ Len(b) + 1 \in 1..Len(a)
      BY <1>1, <2>3 DEF a
    <3>2. a \in Seq(Row)
      BY <2>3 DEF a
    <3>3. Position(a, m.id) # 0
      BY <3>1, <3>2, PositionFacts
    <3>4. Len(b) + 1 <= Position(a, m.id) /\ Position(a, m.id) \in 0..Len(a)
      BY <3>1, <3>2, <3>3, PositionFacts
    <3> QED BY <1>1, <2>3, <3>4 DEF a
  <2>6. a[1].key
    <3>1. CASE b = << >>
      <4>1. Len(b) = 0 /\ r.key
        BY <3>1 DEF Opening
      <4> HIDE DEF b, r
      <4> QED BY <2>3, <4>1 DEF a
    <3>2. CASE b # << >>
      <4>1. 1 \in 1..Len(b) /\ b[1].key
        BY <1>1, <3>2 DEF GoodDb, Begun
      <4> QED BY <2>3, <4>1 DEF a
    <3> QED BY <3>1, <3>2
  <2>7. Upsert(s, m) = [s EXCEPT !.blocks = a]
    BY <2>1 DEF a
  <2>8. Len(a) = Len(b) + 1 /\ Len(b) \in Nat /\ (b = << >> => Len(b) = 0)
    BY <1>1, <2>3 DEF a
  <2> QED BY <2>4, <2>5, <2>6, <2>7, <2>8
<1> QED
  <2>1. Position(b, m.id) \in Nat
    BY <1>1, PositionFacts
  <2> QED BY <1>2, <1>3

LEMMA InsertGood ==
  ASSUME NEW s, s \in Db, NEW m \in Msg,
         \A t \in s.txs : t.at \in DOMAIN s.blocks,
         s.blocks # << >>, s.blocks[1].key,
         Position(s.blocks, m.id) \in 1..Len(s.blocks),
         \/ \E t \in s.txs : t.uid = FirstUid /\ t.at = 1
         \/ Opening(m) /\ s.gen = NewGenerator /\ Position(s.blocks, m.id) = 1
  PROVE  GoodDb(InsertTxs(s, m)) /\ InsertTxs(s, m).blocks = s.blocks
<1> DEFINE g == AtHeight(s.gen, m.h)
           at == Position(s.blocks, m.id)
           R(i) == [uid |-> NextUid(g, i), tx |-> m.txs[i], at |-> at]
           new == {R(i) : i \in DOMAIN m.txs}
           ng == [g EXCEPT !.id = @ + Len(m.txs)]
           ne == IF \E r \in s.txs, t \in new : r.uid = t.uid THEN "unique_violation" ELSE s.error
<1>1. m.h \in Nat /\ m.txs \in Seq(Nat) /\ s.gen \in [height : Nat, id : Nat]
  BY DEF Msg, Db
<1>2. g \in [height : Nat, id : Nat]
  BY <1>1 DEF AtHeight
<1>3. ng \in [height : Nat, id : Nat]
  BY <1>1, <1>2
<1>4. \A i \in DOMAIN m.txs : NextUid(g, i) \in Nat
  <2> SUFFICES ASSUME NEW i \in 1..Len(m.txs) PROVE NextUid(g, i) \in Nat
    BY <1>1
  <2>1. g.height \in Nat /\ g.id \in Nat
    BY <1>2
  <2>2. g.height * Multiplier \in Nat
    BY <2>1, ConsumerAssumption
  <2> QED BY <2>1, <2>2 DEF NextUid
<1>5. \A i \in DOMAIN m.txs : R(i) \in TxRow
  BY <1>1, <1>4 DEF TxRow
<1>6. new \in SUBSET TxRow
  BY <1>5
<1>7. \A t \in new : t.at = at
  OBVIOUS
<1>8. ne \in Errors
  BY DEF Db, Errors
<1>9. InsertTxs(s, m) = [s EXCEPT !.gen = ng, !.txs = s.txs \cup new, !.events = s.events \o m.txs, !.error = ne]
  BY DEF InsertTxs
<1>10. \E t \in s.txs \cup new : t.uid = FirstUid /\ t.at = 1
  <2>1. CASE \E t \in s.txs : t.uid = FirstUid /\ t.at = 1
    BY <2>1
  <2>2. CASE Opening(m) /\ s.gen = NewGenerator /\ at = 1
    <3>1. g = [height |-> StartHeight, id |-> 0]
      BY <2>2, ConsumerAssumption DEF Opening, AtHeight, NewGenerator
    <3>2. 1 \in DOMAIN m.txs
      BY <1>1, <2>2 DEF Opening
    <3>3. NextUid(g, 1) = FirstUid
      <4>1. StartHeight * Multiplier \in Nat
        BY ConsumerAssumption
      <4> QED BY <3>1, <4>1 DEF NextUid, FirstUid
    <3>4. R(1) \in new /\ R(1).uid = FirstUid /\ R(1).at = 1
      BY <2>2, <3>2, <3>3
    <3> QED BY <3>4
  <2> QED BY <2>1, <2>2
<1>11. s.events \o m.txs \in Seq(Nat)
  BY <1>1 DEF Db
<1> HIDE DEF ng, ne, new
<1>12. /\ InsertTxs(s, m) \in Db /\ InsertTxs(s, m).blocks = s.blocks
       /\ InsertTxs(s, m).txs = s.txs \cup new
  BY <1>3, <1>6, <1>8, <1>9, <1>11 DEF Db
<1>13. \A t \in s.txs \cup new : t.at \in DOMAIN s.blocks
  <2>1. DOMAIN s.blocks = 1..Len(s.blocks)
    BY DEF Db
  <2> QED BY <1>7, <2>1
<1> QED BY <1>10, <1>12, <1>13 DEF GoodDb, Begun

LEMMA HandleGood ==
  ASSUME NEW s, GoodDb(s), NEW m \in Msg,
         s.error = "none" /\ s.blocks = << >> => Opening(m) /\ s.gen = NewGenerator
  PROVE  /\ GoodDb(Handle(m, s))
         /\ s.error # "none" => Handle(m, s) = s
         /\ Handle(m, s).error = "none" => Handle(m, s).blocks # << >>
<1>1. s \in Db /\ s.blocks \in Seq(Row) /\ s.txs \in SUBSET TxRow
  BY DEF GoodDb, Db
<1>2. CASE s.error # "none"
  <2>1. Handle(m, s) = s
    BY <1>2 DEF Handle
  <2> QED BY <1>2, <2>1
<1>3. CASE s.error = "none" /\ m.type = "block"
  <2> DEFINE a == Squash(s)
             b == Upsert(a, m)
  <2>1. Handle(m, s) = InsertTxs(b, m)
    BY <1>3 DEF Handle
  <2>2. GoodDb(a) /\ a.gen = s.gen /\ (a.blocks = << >> <=> s.blocks = << >>)
    BY SquashGood
  <2>3. a.blocks = << >> => Opening(m) /\ a.gen = NewGenerator
    BY <1>3, <2>2
  <2> HIDE DEF a
  <2>4. /\ b \in Db /\ b.gen = a.gen /\ b.txs = a.txs /\ Len(b.blocks) >= Len(a.blocks)
        /\ b.blocks[1].key
        /\ Position(b.blocks, m.id) \in 1..Len(b.blocks)
        /\ a.blocks = << >> => Position(b.blocks, m.id) = 1
    BY <2>2, <2>3, UpsertGood
  <2> HIDE DEF b
  <2>5. \A t \in b.txs : t.at \in DOMAIN b.blocks
    <3>1. a.blocks \in Seq(Row) /\ b.blocks \in Seq(Row)
      BY <2>2, <2>4 DEF GoodDb, Db
    <3>2. \A t \in b.txs : t.at \in 1..Len(a.blocks)
      BY <2>2, <2>4, <3>1 DEF GoodDb
    <3> QED BY <2>4, <3>1, <3>2
  <2>6. b.blocks # << >>
    BY <2>4 DEF Db
  <2>7. \/ \E t \in b.txs : t.uid = FirstUid /\ t.at = 1
        \/ Opening(m) /\ b.gen = NewGenerator /\ Position(b.blocks, m.id) = 1
    BY <2>2, <2>3, <2>4 DEF GoodDb, Begun
  <2>8. GoodDb(InsertTxs(b, m)) /\ InsertTxs(b, m).blocks = b.blocks
    BY <2>4, <2>5, <2>6, <2>7, InsertGood
  <2> QED BY <1>3, <2>1, <2>6, <2>8
<1>4. CASE s.error = "none" /\ m.type = "microblock"
  <2> DEFINE b == Upsert(s, m)
  <2>1. Handle(m, s) = InsertTxs(b, m)
    BY <1>4 DEF Handle
  <2>4. /\ b \in Db /\ b.gen = s.gen /\ b.txs = s.txs /\ Len(b.blocks) >= Len(s.blocks)
        /\ b.blocks[1].key
        /\ Position(b.blocks, m.id) \in 1..Len(b.blocks)
        /\ s.blocks = << >> => Position(b.blocks, m.id) = 1
    BY <1>4, UpsertGood
  <2> HIDE DEF b
  <2>5. \A t \in b.txs : t.at \in DOMAIN b.blocks
    <3>1. b.blocks \in Seq(Row)
      BY <2>4 DEF GoodDb, Db
    <3>2. \A t \in b.txs : t.at \in 1..Len(s.blocks)
      BY <1>1, <2>4 DEF GoodDb
    <3> QED BY <1>1, <2>4, <3>1, <3>2
  <2>6. b.blocks # << >>
    BY <2>4 DEF Db
  <2>7. \/ \E t \in b.txs : t.uid = FirstUid /\ t.at = 1
        \/ Opening(m) /\ b.gen = NewGenerator /\ Position(b.blocks, m.id) = 1
    BY <1>4, <2>4 DEF GoodDb, Begun
  <2>8. GoodDb(InsertTxs(b, m)) /\ InsertTxs(b, m).blocks = b.blocks
    BY <2>4, <2>5, <2>6, <2>7, InsertGood
  <2> QED BY <1>4, <2>1, <2>6, <2>8
<1>5. CASE s.error = "none" /\ m.type = "rollback"
  <2> DEFINE p == Position(s.blocks, m.id)
  <2>1. Handle(m, s) = IF p = 0 THEN [s EXCEPT !.error = "unknown_block"] ELSE RolledBack(s, p)
    BY <1>5 DEF Handle, HandleRollback
  <2>2. s.blocks # << >>
    BY <1>5 DEF Opening
  <2>3. CASE p = 0
    BY <1>1, <1>5, <2>1, <2>2, <2>3 DEF GoodDb, Db, Errors, Begun
  <2>4. CASE p # 0
    <3>1. p \in 1..Len(s.blocks)
      BY <1>1, <2>4, PositionFacts
    <3> HIDE DEF p
    <3> DEFINE nb == SubSeq(s.blocks, 1, p)
               nt == {t \in s.txs : t.at <= p}
    <3>2. nb \in Seq(Row) /\ Len(nb) = p /\ \A i \in 1..p : nb[i] = s.blocks[i]
      BY <1>1, <3>1, Prefix
    <3>3. Handle(m, s) = [s EXCEPT !.blocks = nb, !.txs = nt]
      BY <2>1, <2>4 DEF RolledBack
    <3>4. nt \in SUBSET TxRow /\ \A t \in nt : t.at \in 1..p
      BY <1>1 DEF GoodDb
    <3>5. s.blocks[1].key /\ \E t \in nt : t.uid = FirstUid /\ t.at = 1
      BY <2>2, <3>1 DEF GoodDb, Begun
    <3> HIDE DEF nb, nt
    <3>6. /\ Handle(m, s) \in Db /\ Handle(m, s).blocks = nb /\ Handle(m, s).txs = nt
      BY <1>1, <3>2, <3>3, <3>4 DEF Db
    <3>7. nb # << >> /\ DOMAIN nb = 1..p /\ nb[1].key
      BY <3>1, <3>2, <3>5
    <3> QED BY <1>5, <3>4, <3>5, <3>6, <3>7 DEF GoodDb, Begun
  <2> QED BY <2>3, <2>4
<1> QED
  <2>1. m.type \in {"block", "microblock", "rollback"}
    BY DEF Msg
  <2> QED BY <1>2, <1>3, <1>4, <1>5, <2>1

\* What handle_updates starts from.
Before == [blocks |-> blocks, txs |-> txs, gen |-> gen, events |-> << >>, error |-> "none"]

\* f is the run of handle_updates over ms.
Handled(f, ms) ==
  /\ f[0] = Before
  /\ \A i \in 1..Len(ms) : f[i] = Handle(ms[i], f[i - 1])
  /\ HandleUpdates(ms) = f[Len(ms)]

LEMMA HandleUpdatesRun ==
  ASSUME NEW ms \in Seq(Msg)
  PROVE  \E f : Handled(f, ms)
<1> DEFINE n == Len(ms)
           before == [blocks |-> blocks, txs |-> txs, gen |-> gen, events |-> << >>, error |-> "none"]
           IsRun(h, k) == h = [i \in 0..k |-> IF i = 0 THEN before ELSE Handle(ms[i], h[i - 1])]
           P == {k \in 0..n : \E h : IsRun(h, k)}
<1>1. n \in Nat
  OBVIOUS
<1>2. 0 \in P
  <2> DEFINE g == [i \in 0..0 |-> before]
  <2>1. g = [i \in 0..0 |-> IF i = 0 THEN before ELSE Handle(ms[i], g[i - 1])]
    <3> HIDE DEF before
    <3> QED OBVIOUS
  <2>2. IsRun(g, 0)
    BY <2>1
  <2> HIDE DEF IsRun, g
  <2> QED BY <2>2, <1>1
<1>3. \A k \in 1..n : k - 1 \in P => k \in P
  <2> SUFFICES ASSUME NEW k \in 1..n, k - 1 \in P PROVE \E g : IsRun(g, k)
    <3> HIDE DEF IsRun
    <3> QED BY <1>1
  <2> PICK h : IsRun(h, k - 1)
    <3> HIDE DEF IsRun
    <3> QED OBVIOUS
  <2> DEFINE g == [i \in 0..k |-> IF i < k THEN h[i] ELSE Handle(ms[k], h[k - 1])]
  <2>1. \A i \in 0..k : g[i] = IF i = 0 THEN before ELSE Handle(ms[i], g[i - 1])
    <3> SUFFICES ASSUME NEW i \in 0..k
                 PROVE  g[i] = IF i = 0 THEN before ELSE Handle(ms[i], g[i - 1])
      OBVIOUS
    <3>1. CASE i = k
      BY <3>1
    <3>2. CASE i < k
      <4>1. h[i] = IF i = 0 THEN before ELSE Handle(ms[i], h[i - 1])
        BY <3>2
      <4>2. g[i] = h[i] /\ (i # 0 => g[i - 1] = h[i - 1])
        BY <3>2
      <4> QED BY <4>1, <4>2
    <3> QED BY <3>1, <3>2
  <2>2. IsRun(g, k)
    <3> HIDE DEF before
    <3>1. g = [i \in 0..k |-> g[i]]
      OBVIOUS
    <3> HIDE DEF g
    <3> QED BY <2>1, <3>1
  <2> QED BY <2>2
<1>4. n \in P
  <2> HIDE DEF P, n
  <2>1. \A i \in 0..n : i \in P
    BY <1>1, <1>2, <1>3, IntervalInduction
  <2> QED BY <1>1, <2>1
<1>5. HandleUpdates(ms) = (CHOOSE h : IsRun(h, n))[n]
  BY DEF HandleUpdates
<1>6. IsRun(CHOOSE h : IsRun(h, n), n)
  BY <1>4, <1>1
<1> DEFINE f == CHOOSE h : IsRun(h, n)
<1> HIDE DEF f
<1>7. f = [i \in 0..n |-> IF i = 0 THEN before ELSE Handle(ms[i], f[i - 1])]
  BY <1>6 DEF f
<1> QED
  <2>1. f[0] = before /\ \A i \in 1..n : f[i] = Handle(ms[i], f[i - 1])
    BY <1>1, <1>7
  <2>2. HandleUpdates(ms) = f[n]
    BY <1>5 DEF f
  <2> QED BY <2>1, <2>2 DEF Handled, Before

LEMMA FoldGood ==
  ASSUME NEW ms \in Seq(Msg), NEW f, Handled(f, ms), GoodDb(Before),
         blocks = << >> /\ ms # << >> => Opening(ms[1]) /\ gen = NewGenerator
  PROVE  \A i \in 0..Len(ms) : GoodDb(f[i]) /\ (i > 0 /\ f[i].error = "none" => f[i].blocks # << >>)
<1> DEFINE Ok(i) == GoodDb(f[i]) /\ (i > 0 /\ f[i].error = "none" => f[i].blocks # << >>)
           S == {i \in 0..Len(ms) : Ok(i)}
<1>1. 0 \in S
  BY DEF Handled
<1>2. \A i \in 1..Len(ms) : i - 1 \in S => i \in S
  <2> SUFFICES ASSUME NEW i \in 1..Len(ms), Ok(i - 1) PROVE Ok(i)
    OBVIOUS
  <2>1. f[i] = Handle(ms[i], f[i - 1]) /\ ms[i] \in Msg
    BY DEF Handled
  <2>2. f[i - 1].error = "none" /\ f[i - 1].blocks = << >> =>
          Opening(ms[i]) /\ f[i - 1].gen = NewGenerator
    <3>1. CASE i = 1
      <4>1. f[i - 1] = Before /\ ms # << >>
        BY <3>1 DEF Handled
      <4> QED BY <3>1, <4>1 DEF Before
    <3>2. CASE i # 1
      BY <3>2
    <3> QED BY <3>1, <3>2
  <2>3. GoodDb(Handle(ms[i], f[i - 1]))
        /\ (Handle(ms[i], f[i - 1]).error = "none" => Handle(ms[i], f[i - 1]).blocks # << >>)
    BY <2>1, <2>2, HandleGood
  <2> QED BY <2>1, <2>3
<1> HIDE DEF Ok
<1>3. \A i \in 0..Len(ms) : i \in S
  <2> HIDE DEF S
  <2>1. Len(ms) \in Nat
    OBVIOUS
  <2> QED BY <1>1, <1>2, <2>1, IntervalInduction
<1> QED BY <1>3 DEF Ok

\* The blocks above a database that is not empty, sent from StartHeight again:
\* the first insertion fails, and the error stays.
LEMMA FoldResent ==
  ASSUME NEW ms \in Seq(Msg), NEW f, Handled(f, ms), GoodDb(Before),
         blocks # << >>, ms # << >>, Opening(ms[1]), gen = NewGenerator
  PROVE  HandleUpdates(ms).error = "unique_violation"
<1> DEFINE S == {i \in 0..Len(ms) : i > 0 => f[i].error = "unique_violation"}
           m == ms[1]
<1>1. f[1] = Handle(m, Before) /\ m \in Msg /\ Len(ms) \in Nat \ {0}
  BY DEF Handled
<1>2. f[1].error = "unique_violation"
  <2> DEFINE a == Squash(Before)
             b == Upsert(a, m)
             g == AtHeight(b.gen, m.h)
             at == Position(b.blocks, m.id)
             R(i) == [uid |-> NextUid(g, i), tx |-> m.txs[i], at |-> at]
             new == {R(i) : i \in DOMAIN m.txs}
  <2>1. Handle(m, Before) = InsertTxs(b, m)
    BY DEF Handle, Opening, Before
  <2>2. GoodDb(a) /\ a.gen = NewGenerator /\ a.blocks # << >>
    BY SquashGood DEF Before
  <2> HIDE DEF a
  <2>3. b.gen = NewGenerator /\ b.txs = a.txs /\ b \in Db
    BY <1>1, <2>2, UpsertGood
  <2>4. PICK t \in b.txs : t.uid = FirstUid
    BY <2>2, <2>3 DEF GoodDb, Begun
  <2> HIDE DEF b
  <2>5. g = [height |-> StartHeight, id |-> 0]
    BY <2>3, ConsumerAssumption DEF Opening, AtHeight, NewGenerator
  <2>6. 1 \in DOMAIN m.txs
    BY <1>1 DEF Opening, Msg
  <2>7. NextUid(g, 1) = FirstUid
    <3>1. StartHeight * Multiplier \in Nat
      BY ConsumerAssumption
    <3> QED BY <2>5, <3>1 DEF NextUid, FirstUid
  <2>8. R(1) \in new /\ R(1).uid = FirstUid
    BY <2>6, <2>7
  <2> HIDE DEF R
  <2>9. \E r \in b.txs, u \in new : r.uid = u.uid
    BY <2>4, <2>8
  <2>10. InsertTxs(b, m).error = "unique_violation"
    <3> DEFINE ne == IF \E r \in b.txs, u \in new : r.uid = u.uid THEN "unique_violation" ELSE b.error
    <3>1. InsertTxs(b, m) = [b EXCEPT !.gen = [g EXCEPT !.id = @ + Len(m.txs)],
                                      !.txs = b.txs \cup new,
                                      !.events = b.events \o m.txs,
                                      !.error = ne]
      BY DEF InsertTxs, R
    <3>2. ne = "unique_violation"
      BY <2>9
    <3> HIDE DEF ne, new, g
    <3> QED BY <2>3, <3>1, <3>2 DEF Db
  <2> QED BY <1>1, <2>1, <2>10
<1>3. 0 \in S
  OBVIOUS
<1>4. \A i \in 1..Len(ms) : i - 1 \in S => i \in S
  <2> SUFFICES ASSUME NEW i \in 1..Len(ms), i # 1, f[i - 1].error = "unique_violation"
               PROVE  f[i].error = "unique_violation"
    BY <1>2
  <2>1. f[i] = Handle(ms[i], f[i - 1])
    BY DEF Handled
  <2> QED BY <2>1 DEF Handle
<1>5. \A i \in 0..Len(ms) : i \in S
  <2> HIDE DEF S
  <2> QED BY <1>1, <1>3, <1>4, IntervalInduction
<1>6. f[Len(ms)].error = "unique_violation"
  BY <1>1, <1>5
<1> QED BY <1>6 DEF Handled

----------------------------------------------------------------------------
(* The node's chain.                                                       *)

Join(a, b) == a \o b

\* h joins the first k of the sequences ss one after the other.
JoinRun(h, ss, k) == h = [i \in 1..k |-> IF i = 1 THEN ss[i] ELSE Join(h[i - 1], ss[i])]

LEMMA JoinRunExists ==
  ASSUME NEW ss, NEW n \in Nat
  PROVE  \E h : JoinRun(h, ss, n)
<1> DEFINE P == {k \in 0..n : \E h : JoinRun(h, ss, k)}
<1>1. 0 \in P
  <2> DEFINE g == [i \in 1..0 |-> ss]
  <2>1. g = [i \in 1..0 |-> IF i = 1 THEN ss[i] ELSE Join(g[i - 1], ss[i])]
    OBVIOUS
  <2>2. JoinRun(g, ss, 0)
    BY <2>1 DEF JoinRun
  <2> QED BY <2>2
<1>2. \A k \in 1..n : k - 1 \in P => k \in P
  <2> SUFFICES ASSUME NEW k \in 1..n, NEW h, JoinRun(h, ss, k - 1) PROVE \E g : JoinRun(g, ss, k)
    OBVIOUS
  <2> DEFINE last == IF k = 1 THEN ss[k] ELSE Join(h[k - 1], ss[k])
             g == [i \in 1..k |-> IF i < k THEN h[i] ELSE last]
  <2>1. \A i \in 1..k : g[i] = IF i = 1 THEN ss[i] ELSE Join(g[i - 1], ss[i])
    <3> SUFFICES ASSUME NEW i \in 1..k
                 PROVE  g[i] = IF i = 1 THEN ss[i] ELSE Join(g[i - 1], ss[i])
      OBVIOUS
    <3>1. CASE i = k
      <4>1. g[i] = last /\ (i # 1 => g[i - 1] = h[i - 1])
        BY <3>1
      <4> QED BY <3>1, <4>1
    <3>2. CASE i < k
      <4>1. h[i] = IF i = 1 THEN ss[i] ELSE Join(h[i - 1], ss[i])
        BY <3>2 DEF JoinRun
      <4>2. g[i] = h[i] /\ (i # 1 => g[i - 1] = h[i - 1])
        BY <3>2
      <4> QED BY <4>1, <4>2
    <3> QED BY <3>1, <3>2
  <2>2. JoinRun(g, ss, k)
    <3>1. g = [i \in 1..k |-> g[i]]
      OBVIOUS
    <3> HIDE DEF g
    <3> QED BY <2>1, <3>1 DEF JoinRun
  <2> QED BY <2>2
<1> HIDE DEF P
<1>3. n \in P
  BY <1>1, <1>2, IntervalInduction
<1> QED BY <1>3 DEF P

LEMMA JoinRunNat ==
  ASSUME NEW n \in Nat \ {0}, NEW ss, \A i \in 1..n : ss[i] \in Seq(Nat), NEW f, JoinRun(f, ss, n)
  PROVE  f[n] \in Seq(Nat)
<1> DEFINE T == {i \in 0..n : i = 0 \/ f[i] \in Seq(Nat)}
<1>1. 0 \in T
  OBVIOUS
<1>2. \A i \in 1..n : i - 1 \in T => i \in T
  <2> SUFFICES ASSUME NEW i \in 1..n, i = 1 \/ f[i - 1] \in Seq(Nat) PROVE f[i] \in Seq(Nat)
    OBVIOUS
  <2>1. f[i] = IF i = 1 THEN ss[i] ELSE Join(f[i - 1], ss[i])
    BY DEF JoinRun
  <2>2. CASE i = 1
    BY <2>1, <2>2
  <2>3. CASE i # 1
    BY <2>1, <2>3 DEF Join
  <2> QED BY <2>2, <2>3
<1> HIDE DEF T
<1>3. n \in T
  <2>1. n \in Nat
    OBVIOUS
  <2>2. \A i \in 0..n : i \in T
    BY <1>1, <1>2, <2>1, IntervalInduction
  <2> QED BY <2>1, <2>2
<1>4. n = 0 \/ f[n] \in Seq(Nat)
  BY <1>3, Zenon DEF T
<1> QED BY <1>4

LEMMA FlattenNat ==
  ASSUME NEW ss, ss \in Seq(Seq(Nat)), Len(ss) # 0
  PROVE  FlattenSeq(ss) \in Seq(Nat)
<1> DEFINE n == Len(ss)
           f == CHOOSE h : JoinRun(h, ss, n)
<1>1. n \in Nat \ {0} /\ \A i \in 1..n : ss[i] \in Seq(Nat)
  OBVIOUS
<1>2. FlattenSeq(ss) = f[n]
  BY DEF FlattenSeq, Join, JoinRun
<1> HIDE DEF n
<1>3. JoinRun(f, ss, n)
  <2>1. \E h : JoinRun(h, ss, n)
    BY <1>1, JoinRunExists
  <2>2. JoinRun(CHOOSE h : JoinRun(h, ss, n), ss, n)
    BY <2>1, Zenon
  <2> QED BY <2>2, Zenon
<1> HIDE DEF f
<1>4. f[n] \in Seq(Nat)
  BY <1>1, <1>3, JoinRunNat
<1> QED BY <1>2, <1>4

LEMMA LastKeyIs ==
  ASSUME NEW S, NEW c \in Seq(S), NEW k \in 0..Len(c), k = 0 \/ c[k].key,
         \A i \in (k + 1)..Len(c) : ~c[i].key
  PROVE  LastKey(c) = k
<1>1. LastKey(c) \in 0..Len(c) /\ Len(c) \in Nat
  BY LastKeyFacts
<1>2. LastKey(c) # 0 => c[LastKey(c)].key /\ \A i \in 1..Len(c) : c[i].key => i <= LastKey(c)
  BY LastKeyFacts
<1>3. LastKey(c) = 0 => \A i \in 1..Len(c) : ~c[i].key
  BY LastKeyFacts
<1> DEFINE l == LastKey(c)
<1> HIDE DEF l
<1>4. l \in 0..Len(c) /\ (l # 0 => c[l].key /\ \A i \in 1..Len(c) : c[i].key => i <= l)
      /\ (l = 0 => \A i \in 1..Len(c) : ~c[i].key)
  BY <1>1, <1>2, <1>3 DEF l
<1>5. l <= k
  <2> SUFFICES ASSUME l > k PROVE FALSE
    BY <1>1, <1>4
  <2>1. l \in (k + 1)..Len(c) /\ c[l].key
    BY <1>1, <1>4
  <2> QED BY <2>1
<1>6. k <= l
  <2> SUFFICES ASSUME k # 0 PROVE k <= l
    BY <1>4
  <2>1. k \in 1..Len(c) /\ c[k].key
    BY <1>1
  <2> QED BY <1>4, <2>1
<1>7. l = k
  BY <1>1, <1>4, <1>5, <1>6
<1> QED BY <1>7 DEF l

LEMMA PositionIs ==
  ASSUME NEW S, NEW c \in Seq(S), NEW id, NEW p \in 1..Len(c), c[p].id = id,
         \A i \in 1..Len(c) : c[i].id = id => i = p
  PROVE  Position(c, id) = p
<1>1. Position(c, id) \in 0..Len(c) /\ Len(c) \in Nat
  BY PositionFacts
<1>2. Position(c, id) # 0
  BY <1>1, PositionFacts
<1>3. c[Position(c, id)].id = id
  BY <1>2, PositionFacts
<1> QED BY <1>1, <1>2, <1>3

LEMMA PositionNone ==
  ASSUME NEW S, NEW c \in Seq(S), NEW id, \A i \in 1..Len(c) : c[i].id # id
  PROVE  Position(c, id) = 0
<1>1. Position(c, id) \in 0..Len(c) /\ Len(c) \in Nat
  BY PositionFacts
<1>2. Position(c, id) # 0 => c[Position(c, id)].id = id
  BY PositionFacts
<1> QED BY <1>1, <1>2

\* The row of a block, and blocks whose transactions are in the set T.
RowOf(u) == [id |-> u.id, h |-> u.h, key |-> u.key]
UnitOver(T) == [id : Nat, h : Nat, key : BOOLEAN, txs : T]

LEMMA RowOfUnit ==
  ASSUME NEW T, NEW u \in UnitOver(T)
  PROVE  RowOf(u) \in Row /\ RowOf(u).id = u.id /\ RowOf(u).h = u.h /\ RowOf(u).key = u.key
BY DEF UnitOver, Row, RowOf

LEMMA IdsFacts ==
  ASSUME NEW T, NEW c \in Seq(UnitOver(T))
  PROVE  /\ Ids(c) \in Seq(Row) /\ Len(Ids(c)) = Len(c)
         /\ \A i \in 1..Len(c) : /\ Ids(c)[i] = RowOf(c[i]) /\ Ids(c)[i].id = c[i].id
                                 /\ Ids(c)[i].h = c[i].h /\ Ids(c)[i].key = c[i].key
         /\ (c = << >>) <=> (Ids(c) = << >>)
<1>1. \A u \in UnitOver(T) : RowOf(u) \in Row /\ RowOf(u).id = u.id /\ RowOf(u).h = u.h /\ RowOf(u).key = u.key
  BY RowOfUnit
<1>2. \A i \in 1..Len(c) : c[i] \in UnitOver(T)
  OBVIOUS
<1>3. Ids(c) = [i \in 1..Len(c) |-> RowOf(c[i])]
  BY DEF Ids, RowOf
<1> HIDE DEF RowOf
<1>4. Len(c) \in Nat
  OBVIOUS
<1>5. Ids(c) \in Seq(Row) /\ Len(Ids(c)) = Len(c) /\ \A i \in 1..Len(c) : Ids(c)[i] = RowOf(c[i])
  <2> DEFINE n == Len(c)
  <2>1. \A i \in 1..n : RowOf(c[i]) \in Row
    BY <1>1, <1>2
  <2> HIDE DEF n
  <2>2. [i \in 1..n |-> RowOf(c[i])] \in [1..n -> Row]
    BY <2>1
  <2> QED BY <1>3, <1>4, <2>2 DEF n
<1>6. (c = << >>) <=> (Ids(c) = << >>)
  BY <1>5
<1> QED BY <1>1, <1>2, <1>5, <1>6

LEMMA IdsSearch ==
  ASSUME NEW T, NEW c \in Seq(UnitOver(T)), NEW id
  PROVE  LastKey(Ids(c)) = LastKey(c) /\ Position(Ids(c), id) = Position(c, id)
<1>1. /\ Ids(c) \in Seq(Row) /\ Len(Ids(c)) = Len(c)
      /\ \A i \in 1..Len(c) : Ids(c)[i].id = c[i].id /\ Ids(c)[i].key = c[i].key
  BY IdsFacts
<1>2. {i \in 1..Len(Ids(c)) : Ids(c)[i].key} = {i \in 1..Len(c) : c[i].key}
  BY <1>1
<1>3. {i \in 1..Len(Ids(c)) : Ids(c)[i].id = id} = {i \in 1..Len(c) : c[i].id = id}
  BY <1>1
<1>4. LastKey(Ids(c)) = LastKey(c)
  BY <1>2 DEF LastKey, SelectLastInSeq
<1>5. Position(Ids(c), id) = Position(c, id)
  BY <1>3 DEF Position, SelectLastInSeq
<1> QED BY <1>4, <1>5

\* The same of the node's blocks.
LEMMA NodeIds ==
  ASSUME NEW c \in Seq(Unit)
  PROVE  /\ c \in Seq(UnitOver(Seq(Nat)))
         /\ Ids(c) \in Seq(Row) /\ Len(Ids(c)) = Len(c) /\ Len(c) \in Nat
         /\ \A i \in 1..Len(c) : /\ c[i] \in Unit /\ Ids(c)[i] = RowOf(c[i]) /\ Ids(c)[i].id = c[i].id
                                 /\ Ids(c)[i].h = c[i].h /\ Ids(c)[i].key = c[i].key
         /\ (c = << >>) <=> (Ids(c) = << >>)
         /\ LastKey(Ids(c)) = LastKey(c) /\ \A id : Position(Ids(c), id) = Position(c, id)
<1>1. Unit = UnitOver(Seq(Nat))
  BY DEF Unit, UnitOver
<1>2. c \in Seq(UnitOver(Seq(Nat)))
  BY <1>1
<1>3. Len(c) \in Nat /\ \A i \in 1..Len(c) : c[i] \in Unit
  OBVIOUS
<1>4. LastKey(Ids(c)) = LastKey(c) /\ \A id : Position(Ids(c), id) = Position(c, id)
  BY <1>2, IdsSearch
<1>5. /\ Ids(c) \in Seq(Row) /\ Len(Ids(c)) = Len(c)
      /\ \A i \in 1..Len(c) : /\ Ids(c)[i] = RowOf(c[i]) /\ Ids(c)[i].id = c[i].id
                              /\ Ids(c)[i].h = c[i].h /\ Ids(c)[i].key = c[i].key
      /\ (c = << >>) <=> (Ids(c) = << >>)
  BY <1>2, IdsFacts
<1> QED BY <1>2, <1>3, <1>4, <1>5

\* Applying a message to a chain and applying it to the rows of the chain agree.
RowApplied(c, m) ==
  LET base == IF m.type = "block" THEN RowMerged(c) ELSE c
  IN  IF m.type = "rollback" THEN SubSeq(c, 1, Position(c, m.id))
      ELSE IF Position(base, m.id) # 0 THEN base
      ELSE Append(base, [id |-> m.id, h |-> m.h, key |-> m.type = "block"])

LEMMA SameRows ==
  ASSUME NEW a \in Seq(Row), NEW b \in Seq(Row), Len(a) = Len(b),
         \A i \in 1..Len(a) : a[i] = b[i]
  PROVE  a = b
OBVIOUS

LEMMA WiderUnits ==
  ASSUME NEW T, NEW V, T \subseteq V, NEW c \in Seq(UnitOver(T))
  PROVE  c \in Seq(UnitOver(V))
<1>1. UnitOver(T) \subseteq UnitOver(V)
  BY DEF UnitOver
<1> DEFINE A == UnitOver(T)
           B == UnitOver(V)
<1>2. \A i \in 1..Len(c) : c[i] \in B
  BY <1>1
<1> HIDE DEF A, B
<1>3. c \in Seq(A) => c \in Seq(B)
  BY <1>2
<1> QED BY <1>3 DEF A, B

LEMMA MergedUnit ==
  ASSUME NEW T, NEW u \in UnitOver(T), NEW id \in Nat, NEW U
  PROVE  LET r == [[u EXCEPT !.id = id] EXCEPT !.txs = U]
         IN  /\ r \in UnitOver(T \cup {U})
             /\ RowOf(r) = [id |-> id, h |-> u.h, key |-> u.key]
<1> DEFINE W == T \cup {U}
           d == [id |-> id, h |-> u.h, key |-> u.key, txs |-> U]
<1>1. [[u EXCEPT !.id = id] EXCEPT !.txs = U] = d
  <2> DEFINE v == [id |-> id, h |-> u.h, key |-> u.key, txs |-> u.txs]
  <2>1. [u EXCEPT !.id = id] = v
    BY DEF UnitOver
  <2>2. [v EXCEPT !.txs = U] = d
    OBVIOUS
  <2> HIDE DEF v, d
  <2> QED BY <2>1, <2>2, Zenon
<1>2. d \in UnitOver(W)
  <2>1. u.h \in Nat /\ u.key \in BOOLEAN /\ U \in W
    BY DEF UnitOver
  <2> HIDE DEF W
  <2> QED BY <2>1 DEF UnitOver
<1>3. RowOf(d) = [id |-> id, h |-> u.h, key |-> u.key]
  BY DEF RowOf
<1> HIDE DEF d, W
<1> QED BY <1>1, <1>2, <1>3, Zenon DEF W

LEMMA MergedFacts ==
  ASSUME NEW T, NEW c \in Seq(UnitOver(T)), c # << >>, ~Last(c).key, c[1].key
  PROVE  LET all == [i \in 1..(Len(c) - LastKey(c) + 1) |-> c[LastKey(c) + i - 1].txs]
         IN  /\ Merged(c) \in Seq(UnitOver(T \cup {FlattenSeq(all)}))
             /\ all \in Seq(T) /\ Len(all) # 0
             /\ Ids(Merged(c)) = RowMerged(Ids(c))
             /\ Len(Merged(c)) = LastKey(c) /\ \A i \in 1..(LastKey(c) - 1) : Merged(c)[i] = c[i]
<1> DEFINE k == LastKey(c)
           id == Last(c).id
           all == [i \in 1..(Len(c) - k + 1) |-> c[k + i - 1].txs]
           U == FlattenSeq(all)
           W == T \cup {U}
           q == SubSeq(c, 1, k)
           r == [[c[k] EXCEPT !.id = id] EXCEPT !.txs = U]
           b == Ids(c)
<1>1. Len(c) \in Nat \ {0} /\ Last(c) = c[Len(c)] /\ \A i \in 1..Len(c) : c[i] \in UnitOver(T)
  BY DEF Last
<1>2. /\ b \in Seq(Row) /\ Len(b) = Len(c) /\ b # << >> /\ LastKey(b) = k
      /\ \A i \in 1..Len(c) : b[i] = RowOf(c[i]) /\ b[i].h = c[i].h /\ b[i].id = c[i].id /\ b[i].key = c[i].key
  BY IdsFacts, IdsSearch
<1> HIDE DEF b
<1>3. Last(b) = b[Len(c)] /\ ~Last(b).key /\ Last(b).id = id /\ b[1].key
  BY <1>1, <1>2 DEF Last
<1>4. /\ k \in 1..(Len(c) - 1)
      /\ RowMerged(b) \in Seq(Row) /\ Len(RowMerged(b)) = k
      /\ \A i \in 1..k : RowMerged(b)[i] = IF i = k THEN [id |-> id, h |-> b[i].h, key |-> b[i].key] ELSE b[i]
  BY <1>2, <1>3, RowMergedFacts
<1> HIDE DEF k, W, U
<1>5. c[k] \in UnitOver(T) /\ id \in Nat
  <2>1. \A u \in UnitOver(T) : u.id \in Nat
    BY DEF UnitOver
  <2> QED BY <1>1, <1>4, <2>1
<1>6. r \in UnitOver(W) /\ RowOf(r) = [id |-> id, h |-> c[k].h, key |-> c[k].key]
  <2> HIDE DEF id
  <2> QED BY <1>5, MergedUnit, Zenon DEF W
<1>7. q \in Seq(UnitOver(T)) /\ Len(q) = k /\ \A i \in 1..k : q[i] = c[i]
  BY <1>1, <1>4, Prefix
<1>8. Merged(c) = [q EXCEPT ![k] = r]
  <2>1. Merged(c) = [q EXCEPT ![k].id = id, ![k].txs = U]
    BY DEF Merged, k, U
  <2>2. q[k] = c[k]
    BY <1>4, <1>7
  <2> HIDE DEF id, q
  <2> QED BY <1>4, <1>7, <2>1, <2>2
<1>9. q \in Seq(UnitOver(W))
  <2>1. T \subseteq W
    BY DEF W
  <2> HIDE DEF q
  <2> QED BY <1>7, <2>1, WiderUnits
<1> HIDE DEF q, r
<1>10. /\ Merged(c) \in Seq(UnitOver(W)) /\ Len(Merged(c)) = k
       /\ \A i \in 1..k : Merged(c)[i] = IF i = k THEN r ELSE c[i]
  <2>1. k \in 1..Len(q)
    BY <1>4, <1>7
  <2> DEFINE S == UnitOver(W)
  <2> HIDE DEF S
  <2>2. q \in Seq(S) /\ r \in S
    BY <1>6, <1>9 DEF S
  <2>3. /\ Merged(c) \in Seq(S) /\ Len(Merged(c)) = k
        /\ \A i \in 1..k : Merged(c)[i] = IF i = k THEN r ELSE q[i]
    BY <1>7, <1>8, <2>1, <2>2, Replaced
  <2> QED BY <1>7, <2>3 DEF S
<1>11. Ids(Merged(c)) = RowMerged(b)
  <2>1. /\ Ids(Merged(c)) \in Seq(Row) /\ Len(Ids(Merged(c))) = k
        /\ \A i \in 1..k : Ids(Merged(c))[i] = RowOf(Merged(c)[i])
    BY <1>10, IdsFacts
  <2>2. \A i \in 1..k : Ids(Merged(c))[i] = RowMerged(b)[i]
    <3> SUFFICES ASSUME NEW i \in 1..k PROVE Ids(Merged(c))[i] = RowMerged(b)[i]
      OBVIOUS
    <3>1. CASE i = k
      <4>1. RowMerged(b)[k] = [id |-> id, h |-> c[k].h, key |-> c[k].key]
        <5>1. k \in 1..k /\ k \in 1..Len(c)
          BY <1>1, <1>4
        <5>2. RowMerged(b)[k] = [id |-> id, h |-> b[k].h, key |-> b[k].key]
          BY <1>4, <5>1
        <5>3. b[k].h = c[k].h /\ b[k].key = c[k].key
          BY <1>2, <5>1
        <5> QED BY <5>2, <5>3
      <4>2. Ids(Merged(c))[k] = RowOf(r)
        BY <1>4, <1>10, <2>1
      <4> QED BY <1>6, <3>1, <4>1, <4>2
    <3>2. CASE i # k
      BY <1>2, <1>4, <1>10, <2>1, <3>2
    <3> QED BY <3>1, <3>2
  <2> QED BY <1>4, <2>1, <2>2, SameRows
<1>12. all \in Seq(T) /\ Len(all) # 0
  <2> DEFINE n == Len(c) - k + 1
  <2>1. n \in Nat \ {0}
    BY <1>1, <1>4
  <2>2. \A i \in 1..n : c[k + i - 1].txs \in T
    <3>1. \A u \in UnitOver(T) : u.txs \in T
      BY DEF UnitOver
    <3>2. \A i \in 1..n : k + i - 1 \in 1..Len(c)
      BY <1>1, <1>4
    <3> QED BY <1>1, <3>1, <3>2
  <2>3. all = [i \in 1..n |-> c[k + i - 1].txs]
    OBVIOUS
  <2> HIDE DEF n, all
  <2> QED BY <2>1, <2>2, <2>3
<1>13. Len(Merged(c)) = k /\ \A i \in 1..(k - 1) : Merged(c)[i] = c[i]
  <2>1. \A i \in 1..(k - 1) : i \in 1..k /\ i # k
    BY <1>4
  <2> QED BY <1>10, <2>1
<1> QED BY <1>10, <1>11, <1>12, <1>13 DEF W, U, k, b

LEMMA IdsPrefix ==
  ASSUME NEW T, NEW c \in Seq(UnitOver(T)), NEW p \in 0..Len(c)
  PROVE  SubSeq(c, 1, p) \in Seq(UnitOver(T)) /\ Ids(SubSeq(c, 1, p)) = SubSeq(Ids(c), 1, p)
<1> DEFINE S == UnitOver(T)
           q == SubSeq(c, 1, p)
           b == Ids(c)
<1>1. q \in Seq(S) /\ Len(q) = p /\ \A i \in 1..p : q[i] = c[i]
  BY Prefix
<1>2. b \in Seq(Row) /\ Len(b) = Len(c) /\ \A i \in 1..Len(c) : b[i] = RowOf(c[i])
  BY IdsFacts
<1> HIDE DEF b, q
<1>3. Ids(q) \in Seq(Row) /\ Len(Ids(q)) = p /\ \A i \in 1..p : Ids(q)[i] = RowOf(q[i])
  BY <1>1, IdsFacts
<1>4. SubSeq(b, 1, p) \in Seq(Row) /\ Len(SubSeq(b, 1, p)) = p /\ \A i \in 1..p : SubSeq(b, 1, p)[i] = b[i]
  BY <1>2, Prefix
<1> DEFINE d == SubSeq(b, 1, p)
           e == Ids(q)
<1> HIDE DEF d, e, S
<1>5. Len(c) \in Nat
  BY DEF S
<1>6. \A i \in 1..p : e[i] = d[i]
  BY <1>1, <1>2, <1>3, <1>4, <1>5 DEF d, e
<1>7. e = d
  BY <1>3, <1>4, <1>6, SameRows DEF d, e
<1> QED BY <1>1, <1>7 DEF S, b, d, e, q

LEMMA IdsAppend ==
  ASSUME NEW T, NEW c \in Seq(UnitOver(T)), NEW u \in UnitOver(T)
  PROVE  Append(c, u) \in Seq(UnitOver(T)) /\ Ids(Append(c, u)) = Append(Ids(c), RowOf(u))
<1> DEFINE S == UnitOver(T)
           q == Append(c, u)
           n == Len(c)
           b == Ids(c)
           r == RowOf(u)
<1>1. q \in Seq(S) /\ Len(q) = n + 1 /\ q[n + 1] = u /\ (\A i \in 1..n : q[i] = c[i]) /\ n \in Nat
  OBVIOUS
<1>2. b \in Seq(Row) /\ Len(b) = n /\ \A i \in 1..n : b[i] = RowOf(c[i])
  BY IdsFacts
<1>3. r \in Row
  BY RowOfUnit
<1> HIDE DEF b, q, n, r
<1>4. Ids(q) \in Seq(Row) /\ Len(Ids(q)) = n + 1 /\ \A i \in 1..(n + 1) : Ids(q)[i] = RowOf(q[i])
  BY <1>1, IdsFacts
<1> DEFINE d == Append(b, r)
           e == Ids(q)
<1>5. d \in Seq(Row) /\ Len(d) = n + 1 /\ d[n + 1] = r /\ \A i \in 1..n : d[i] = b[i]
  BY <1>2, <1>3
<1> HIDE DEF d, e, S
<1>6. \A i \in 1..(n + 1) : e[i] = d[i]
  <2> SUFFICES ASSUME NEW i \in 1..(n + 1) PROVE e[i] = d[i]
    OBVIOUS
  <2>1. CASE i = n + 1
    BY <1>1, <1>4, <1>5, <2>1 DEF r, e
  <2>2. CASE i # n + 1
    <3>1. i \in 1..n
      BY <1>1, <2>2
    <3> QED BY <1>1, <1>2, <1>4, <1>5, <3>1 DEF e
  <2> QED BY <2>1, <2>2
<1>7. e = d
  BY <1>1, <1>4, <1>5, <1>6, SameRows DEF e
<1> QED BY <1>1, <1>7 DEF S, b, d, e, q, r

LEMMA AppliedFacts ==
  ASSUME NEW T, NEW c \in Seq(UnitOver(T)), c # << >> => c[1].key, NEW m \in Msg, Seq(Nat) \subseteq T
  PROVE  \E V : /\ T \subseteq V /\ (T = Seq(Nat) => V = T)
                /\ Applied(c, m) \in Seq(UnitOver(V))
                /\ Ids(Applied(c, m)) = RowApplied(Ids(c), m)
<1> DEFINE b == Ids(c)
           u == [id |-> m.id, h |-> m.h, key |-> m.type = "block", txs |-> m.txs]
           base == IF m.type = "block" THEN Merged(c) ELSE c
           rowBase == IF m.type = "block" THEN RowMerged(b) ELSE b
           Good(V, d, e) == T \subseteq V /\ (T = Seq(Nat) => V = T) /\ d \in Seq(UnitOver(V)) /\ Ids(d) = e
<1>1. /\ b \in Seq(Row) /\ Len(b) = Len(c) /\ Position(b, m.id) = Position(c, m.id)
      /\ (b = << >> <=> c = << >>) /\ \A i \in 1..Len(c) : b[i].key = c[i].key
  BY IdsFacts, IdsSearch
<1>2. CASE m.type = "rollback"
  <2>1. Position(c, m.id) \in 0..Len(c)
    BY PositionFacts
  <2>2. Good(T, SubSeq(c, 1, Position(c, m.id)), SubSeq(b, 1, Position(c, m.id)))
    BY <2>1, IdsPrefix
  <2>3. Applied(c, m) = SubSeq(c, 1, Position(c, m.id))
    BY <1>2 DEF Applied
  <2>4. RowApplied(b, m) = SubSeq(b, 1, Position(c, m.id))
    BY <1>1, <1>2 DEF RowApplied
  <2>5. Good(T, Applied(c, m), RowApplied(b, m))
    BY <2>2, <2>3, <2>4, Zenon
  <2> QED BY <2>5
<1>3. CASE m.type # "rollback"
  <2>1. \E V : Good(V, base, rowBase)
    <3>1. CASE m.type = "block" /\ c # << >> /\ ~Last(c).key
      <4> DEFINE all == [i \in 1..(Len(c) - LastKey(c) + 1) |-> c[LastKey(c) + i - 1].txs]
                 V == T \cup {FlattenSeq(all)}
      <4>1. /\ Merged(c) \in Seq(UnitOver(V)) /\ all \in Seq(T) /\ Len(all) # 0
            /\ Ids(Merged(c)) = RowMerged(b)
        BY <3>1, MergedFacts, Zenon
      <4>2. T = Seq(Nat) => FlattenSeq(all) \in T
        <5> HIDE DEF all
        <5> QED BY <4>1, FlattenNat, Zenon
      <4> HIDE DEF all
      <4>3. T = Seq(Nat) => V = T
        BY <4>2
      <4>4. T \subseteq V
        OBVIOUS
      <4> HIDE DEF V
      <4>5. Good(V, base, rowBase)
        BY <3>1, <4>1, <4>3, <4>4, Zenon
      <4> QED BY <4>5, Zenon
    <3>2. CASE ~(m.type = "block" /\ c # << >> /\ ~Last(c).key)
      <4>1. base = c
        BY <3>2 DEF Merged
      <4>2. rowBase = b
        <5>1. c # << >> => Last(b).key = Last(c).key
          <6>1. c # << >> => Len(c) \in 1..Len(c)
            OBVIOUS
          <6> QED BY <1>1, <6>1 DEF Last
        <5> HIDE DEF b
        <5> QED BY <1>1, <3>2, <5>1 DEF RowMerged
      <4>3. Good(T, base, rowBase)
        BY <4>1, <4>2, Zenon
      <4> QED BY <4>3, Zenon
    <3> QED BY <3>1, <3>2
  <2>2. PICK V : Good(V, base, rowBase)
    BY <2>1, Zenon
  <2> HIDE DEF base, rowBase
  <2>3. Applied(c, m) = IF Position(base, m.id) # 0 THEN base ELSE Append(base, u)
    BY <1>3, Zenon DEF Applied, base
  <2>4. RowApplied(b, m) = IF Position(rowBase, m.id) # 0 THEN rowBase ELSE Append(rowBase, RowOf(u))
    <3>1. RowOf(u) = [id |-> m.id, h |-> m.h, key |-> m.type = "block"]
      BY DEF RowOf
    <3> HIDE DEF u
    <3> QED BY <1>3, <3>1, Zenon DEF RowApplied, rowBase
  <2>5. Position(base, m.id) = Position(rowBase, m.id)
    BY <2>2, IdsSearch
  <2>6. CASE Position(base, m.id) # 0
    <3>1. Good(V, Applied(c, m), RowApplied(b, m))
      <4>1. Applied(c, m) = base
        BY <2>3, <2>6
      <4>2. RowApplied(b, m) = rowBase
        BY <2>4, <2>5, <2>6
      <4> QED BY <2>2, <4>1, <4>2, Zenon
    <3> QED BY <3>1, Zenon
  <2>7. CASE Position(base, m.id) = 0
    <3>1. u \in UnitOver(V)
      <4>1. m.txs \in V /\ m.id \in Nat /\ m.h \in Nat
        <5>1. m.txs \in Seq(Nat) /\ m.id \in Nat /\ m.h \in Nat
          BY DEF Msg
        <5> QED BY <2>2, <5>1, Zenon
      <4> QED BY <4>1 DEF UnitOver
    <3> HIDE DEF u
    <3>2. Append(base, u) \in Seq(UnitOver(V)) /\ Ids(Append(base, u)) = Append(rowBase, RowOf(u))
      BY <2>2, <3>1, IdsAppend
    <3>3. Good(V, Applied(c, m), RowApplied(b, m))
      <4>1. Applied(c, m) = Append(base, u)
        BY <2>3, <2>7, Zenon
      <4>2. RowApplied(b, m) = Append(rowBase, RowOf(u))
        BY <2>4, <2>5, <2>7, Zenon
      <4> QED BY <2>2, <3>2, <4>1, <4>2, Zenon
    <3> QED BY <3>3, Zenon
  <2> QED BY <2>6, <2>7
<1> QED BY <1>2, <1>3

\* The first block stays, unless it is itself merged or rolled back.
LEMMA AppliedFirst ==
  ASSUME NEW T, NEW c \in Seq(UnitOver(T)), c # << >>, c[1].key, NEW m \in Msg,
         m.type = "rollback" => Position(c, m.id) # 0,
         Last(c).key \/ LastKey(c) > 1
  PROVE  Applied(c, m) # << >> /\ Applied(c, m)[1] = c[1]
<1> DEFINE u == [id |-> m.id, h |-> m.h, key |-> m.type = "block", txs |-> m.txs]
           base == IF m.type = "block" THEN Merged(c) ELSE c
<1>0. Len(c) \in Nat \ {0}
  OBVIOUS
<1>1. CASE m.type = "rollback"
  <2> DEFINE p == Position(c, m.id)
  <2>1. p \in 0..Len(c) /\ p # 0
    BY <1>1, PositionFacts
  <2>2. Applied(c, m) = SubSeq(c, 1, p)
    BY <1>1 DEF Applied
  <2> HIDE DEF p
  <2>3. /\ SubSeq(c, 1, p) \in Seq(UnitOver(T)) /\ Len(SubSeq(c, 1, p)) = p
        /\ \A i \in 1..p : SubSeq(c, 1, p)[i] = c[i]
    BY <2>1, Prefix
  <2>4. 1 \in 1..p
    BY <1>0, <2>1
  <2> QED BY <2>2, <2>3, <2>4
<1>2. CASE m.type # "rollback"
  <2>1. \E V : base \in Seq(V) /\ Len(base) # 0 /\ base[1] = c[1]
    <3>1. CASE m.type = "block" /\ ~Last(c).key
      <4> DEFINE all == [i \in 1..(Len(c) - LastKey(c) + 1) |-> c[LastKey(c) + i - 1].txs]
      <4>1. /\ Merged(c) \in Seq(UnitOver(T \cup {FlattenSeq(all)}))
            /\ Len(Merged(c)) = LastKey(c) /\ \A i \in 1..(LastKey(c) - 1) : Merged(c)[i] = c[i]
        BY <3>1, MergedFacts, Zenon
      <4> DEFINE V == UnitOver(T \cup {FlattenSeq(all)})
      <4> HIDE DEF V
      <4>2. LastKey(c) \in Nat /\ LastKey(c) > 1
        <5>1. LastKey(c) \in 0..Len(c)
          BY LastKeyFacts
        <5> QED BY <1>0, <3>1, <5>1
      <4>3. 1 \in 1..(LastKey(c) - 1) /\ LastKey(c) # 0
        BY <4>2
      <4>4. Merged(c) \in Seq(V)
        BY <4>1 DEF V
      <4>5. base = Merged(c)
        BY <3>1
      <4> HIDE DEF base
      <4>6. Len(base) # 0 /\ base[1] = c[1]
        BY <4>1, <4>3, <4>5
      <4> QED BY <4>4, <4>5, <4>6
    <3>2. CASE ~(m.type = "block" /\ ~Last(c).key)
      <4>1. base = c
        BY <3>2 DEF Merged
      <4> HIDE DEF base
      <4> QED BY <1>0, <4>1
    <3> QED BY <3>1, <3>2
  <2>2. Applied(c, m) = IF Position(base, m.id) # 0 THEN base ELSE Append(base, u)
    BY <1>2, Zenon DEF Applied
  <2> HIDE DEF base, u
  <2>3. PICK V : base \in Seq(V) /\ Len(base) # 0 /\ base[1] = c[1]
    BY <2>1
  <2>4. base # << >>
    BY <2>3
  <2> DEFINE W == V \cup {u}
  <2>5. base \in Seq(W) /\ u \in W
    BY <2>3
  <2> HIDE DEF W
  <2>6. Append(base, u)[1] = base[1] /\ Append(base, u) # << >>
    BY <2>3, <2>5
  <2> QED BY <2>2, <2>3, <2>4, <2>6
<1> QED BY <1>1, <1>2

----------------------------------------------------------------------------
(* The shape of a chain, and how the node moves it.                        *)

\* The first k rows are key blocks at consecutive heights from StartHeight,
\* the others microblocks at the height of the last of them.
ShapeAt(c, k) ==
  /\ c \in Seq(Row) /\ k \in 0..Len(c) /\ (k = 0 => c = << >>)
  /\ \A i \in 1..Len(c) : /\ c[i].key <=> i <= k
                          /\ c[i].h = StartHeight - 1 + (IF i <= k THEN i ELSE k)

LEMMA ShapeFacts ==
  ASSUME NEW c, NEW k, ShapeAt(c, k)
  PROVE  /\ k \in Nat /\ LastKey(c) = k
         /\ c # << >> => /\ k \in 1..Len(c) /\ c[1].key /\ Last(c) = c[Len(c)] /\ Last(c) \in Row
                         /\ Height(c) = StartHeight - 1 + k
                         /\ Last(c).key <=> k = Len(c)
         /\ \A i \in 1..Len(c) : c[i] \in Row /\ c[i].h <= StartHeight - 1 + k
                                 /\ (c[i].h < StartHeight - 1 + k => i < k)
<1> USE DEF ShapeAt
<1>0. StartHeight \in Nat \ {0}
  BY ConsumerAssumption
<1>1. LastKey(c) = k
  BY LastKeyIs
<1>2. ASSUME c # << >>
      PROVE  /\ k \in 1..Len(c) /\ c[1].key /\ Last(c) = c[Len(c)] /\ Last(c) \in Row
             /\ Height(c) = StartHeight - 1 + k /\ (Last(c).key <=> k = Len(c))
  <2>1. k \in 1..Len(c) /\ Len(c) \in 1..Len(c) /\ Last(c) = c[Len(c)]
    BY <1>2 DEF Last
  <2>2. c[1].key
    BY <2>1
  <2>3. c[Len(c)].h = StartHeight - 1 + k /\ (c[Len(c)].key <=> k = Len(c))
    BY <1>0, <2>1
  <2>4. c[Len(c)] \in Row
    BY <2>1
  <2>5. Height(c) = c[Len(c)].h
    BY <1>2, <2>1 DEF Height
  <2> QED BY <2>1, <2>2, <2>3, <2>4, <2>5
<1>3. \A i \in 1..Len(c) : c[i] \in Row /\ c[i].h <= StartHeight - 1 + k
                           /\ (c[i].h < StartHeight - 1 + k => i < k)
  BY <1>0
<1> QED BY <1>1, <1>2, <1>3

LEMMA RowFields ==
  ASSUME NEW c \in Seq(Row), NEW i \in 1..Len(c)
  PROVE  c[i] \in Row /\ c[i].id \in Nat /\ c[i].h \in Nat /\ c[i].key \in BOOLEAN
<1>1. c[i] \in Row
  OBVIOUS
<1> QED BY <1>1 DEF Row

\* The rows c of the node: lq that its last key block can still get microblocks,
\* nx the next identifier, k where the last key block is.
NodeRows(c, lq, nx, k) ==
  /\ ShapeAt(c, k) /\ c # << >> /\ lq \in BOOLEAN /\ nx \in Nat
  /\ \A i, j \in 1..Len(c) : c[i].id = c[j].id => i = j
  /\ \A i \in 1..Len(c) : c[i].id < nx
  /\ lq => k > 1
  /\ k < Len(c) => lq

LEMMA NodeRowsFacts ==
  ASSUME NEW c, NEW lq, NEW nx, NEW k, NodeRows(c, lq, nx, k)
  PROVE  /\ ShapeAt(c, k) /\ c # << >> /\ c \in Seq(Row) /\ Len(c) \in Nat /\ nx \in Nat
         /\ k \in 1..Len(c) /\ LastKey(c) = k /\ c[1].key
         /\ Height(c) = StartHeight - 1 + k /\ StartHeight \in Nat \ {0}
         /\ Last(c) = c[Len(c)] /\ (Last(c).key <=> k = Len(c))
         /\ \A i \in 1..Len(c) : /\ c[i] \in Row /\ c[i].id \in Nat /\ c[i].h \in Nat
                                 /\ c[i].h <= Height(c) /\ (c[i].h < Height(c) => i < k)
<1>1. ShapeAt(c, k) /\ c # << >> /\ nx \in Nat
  BY DEF NodeRows
<1>2. c \in Seq(Row) /\ Len(c) \in Nat
  BY <1>1 DEF ShapeAt
<1>3. /\ k \in 1..Len(c) /\ LastKey(c) = k /\ c[1].key /\ Height(c) = StartHeight - 1 + k
      /\ Last(c) = c[Len(c)] /\ (Last(c).key <=> k = Len(c))
  BY <1>1, ShapeFacts
<1>4. \A i \in 1..Len(c) : c[i].h <= StartHeight - 1 + k /\ (c[i].h < StartHeight - 1 + k => i < k)
  BY <1>1, ShapeFacts
<1>5. \A i \in 1..Len(c) : c[i] \in Row /\ c[i].id \in Nat /\ c[i].h \in Nat
  BY <1>2, RowFields
<1>6. StartHeight \in Nat \ {0}
  BY ConsumerAssumption
<1> QED BY <1>1, <1>2, <1>3, <1>4, <1>5, <1>6
\* What a move of the node does to its rows, for whoever holds older ones.
RowsMoved(c, lq, nx, d, lq2, nx2) ==
  /\ nx2 >= nx /\ nx2 \in Nat
  /\ \A j \in 1..Len(d) :
       d[j].id >= nx \/ \E i \in 1..Len(c) : c[i].id = d[j].id /\ c[i].h = d[j].h
  /\ lq2 => \/ lq /\ Height(d) = Height(c)
            \/ \A j \in 1..Len(d) : d[j].h = Height(d) => d[j].id >= nx

\* Mining drops no identifier below the height that gets microblocks.
RowsKept(c, lq, d) ==
  \A i \in 1..Len(c) : ~lq \/ c[i].h < Height(c) => \E j \in 1..Len(d) : d[j].id = c[i].id

\* A prefix of a chain has its shape.
LEMMA ShapePrefix ==
  ASSUME NEW c, NEW k, ShapeAt(c, k), NEW p \in 1..Len(c)
  PROVE  ShapeAt(SubSeq(c, 1, p), IF p <= k THEN p ELSE k)
<1> DEFINE q == SubSeq(c, 1, p)
           l == IF p <= k THEN p ELSE k
<1>1. c \in Seq(Row) /\ k \in 0..Len(c) /\ p \in 0..Len(c) /\ Len(c) \in Nat
  BY DEF ShapeAt
<1>2. q \in Seq(Row) /\ Len(q) = p /\ \A i \in 1..p : q[i] = c[i]
  BY <1>1, Prefix
<1>3. k # 0
  BY DEF ShapeAt
<1> HIDE DEF q
<1>4. l \in 0..Len(q) /\ l # 0
  BY <1>1, <1>2, <1>3
<1>5. \A i \in 1..p : q[i].key <=> i <= l
  BY <1>1, <1>2 DEF ShapeAt
<1>6. \A i \in 1..p : q[i].h = StartHeight - 1 + (IF i <= l THEN i ELSE l)
  <2> SUFFICES ASSUME NEW i \in 1..p PROVE q[i].h = StartHeight - 1 + (IF i <= l THEN i ELSE l)
    OBVIOUS
  <2>1. c[i].h = StartHeight - 1 + (IF i <= k THEN i ELSE k)
    BY <1>1 DEF ShapeAt
  <2> QED BY <1>1, <1>2, <2>1
<1> HIDE DEF l
<1>7. ShapeAt(q, l)
  BY <1>2, <1>4, <1>5, <1>6 DEF ShapeAt
<1> QED BY <1>7 DEF q, l

\* One more row on a chain that is merged: a block or a microblock.
LEMMA ShapeAppend ==
  ASSUME NEW c, NEW k, ShapeAt(c, k), NEW r \in Row, NEW l,
         \/ r.key /\ k = Len(c) /\ l = k + 1
         \/ ~r.key /\ k # 0 /\ l = k,
         r.h = StartHeight - 1 + l
  PROVE  ShapeAt(Append(c, r), l)
<1> DEFINE q == Append(c, r)
<1>1. c \in Seq(Row) /\ k \in 0..Len(c) /\ Len(c) \in Nat
  BY DEF ShapeAt
<1>2. q \in Seq(Row) /\ Len(q) = Len(c) + 1 /\ q[Len(c) + 1] = r /\ \A i \in 1..Len(c) : q[i] = c[i]
  BY <1>1
<1> HIDE DEF q
<1>3. l \in 1..Len(q)
  BY <1>1, <1>2
<1>4. ASSUME NEW i \in 1..Len(q)
      PROVE  (q[i].key <=> i <= l) /\ q[i].h = StartHeight - 1 + (IF i <= l THEN i ELSE l)
  <2>1. CASE i = Len(c) + 1
    BY <1>1, <1>2, <2>1
  <2>2. CASE i # Len(c) + 1
    <3>1. i \in 1..Len(c)
      BY <1>1, <1>2, <2>2
    <3>2. (c[i].key <=> i <= k) /\ c[i].h = StartHeight - 1 + (IF i <= k THEN i ELSE k)
      BY <3>1 DEF ShapeAt
    <3> QED BY <1>1, <1>2, <3>1, <3>2
  <2> QED BY <2>1, <2>2
<1>5. ShapeAt(q, l)
  BY <1>2, <1>3, <1>4 DEF ShapeAt
<1> QED BY <1>5 DEF q

\* The chain with its microblocks merged.
LEMMA ShapeMerged ==
  ASSUME NEW c, NEW k, ShapeAt(c, k), c # << >>
  PROVE  /\ ShapeAt(RowMerged(c), k) /\ Len(RowMerged(c)) = k
         /\ \A i \in 1..k : /\ RowMerged(c)[i].h = c[i].h
                            /\ i < k => RowMerged(c)[i] = c[i]
         /\ RowMerged(c)[k].id = c[Len(c)].id
<1>1. /\ c \in Seq(Row) /\ Len(c) \in Nat /\ k \in 1..Len(c) /\ LastKey(c) = k /\ c[1].key
      /\ Last(c) = c[Len(c)] /\ (Last(c).key <=> k = Len(c))
  BY ShapeFacts DEF ShapeAt
<1>2. CASE k = Len(c)
  BY <1>1, <1>2 DEF RowMerged
<1>3. CASE k # Len(c)
  <2> DEFINE q == RowMerged(c)
  <2>1. /\ q \in Seq(Row) /\ Len(q) = k
        /\ \A i \in 1..k : q[i] = IF i = k THEN [id |-> Last(c).id, h |-> c[i].h, key |-> c[i].key] ELSE c[i]
    BY <1>1, <1>3, RowMergedFacts
  <2> HIDE DEF q
  <2>2. \A i \in 1..k : q[i].h = c[i].h /\ q[i].key = c[i].key /\ (i < k => q[i] = c[i])
    BY <1>1, <2>1
  <2>4. q[k].id = c[Len(c)].id
    BY <1>1, <2>1
  <2>3. ShapeAt(q, k)
    BY <1>1, <2>1, <2>2 DEF ShapeAt
  <2> QED BY <2>1, <2>2, <2>3, <2>4 DEF q
<1> QED BY <1>2, <1>3

\* The message m names the last row of d.
Ends(d, m) == d # << >> /\ Last(d).id = m.id /\ Height(d) = m.h

LEMMA RowsMineBlock ==
  ASSUME NEW c, NEW lq, NEW nx, NEW k, NodeRows(c, lq, nx, k),
         NEW m \in Msg, m.type = "block", m.id = nx, m.h = Height(c) + 1,
         NEW lq2 \in BOOLEAN
  PROVE  LET d == RowApplied(c, m)
         IN  /\ NodeRows(d, lq2, nx + 1, k + 1) /\ RowsMoved(c, lq, nx, d, lq2, nx + 1)
             /\ RowsKept(c, lq, d) /\ Ends(d, m)
             /\ \A i \in 1..k : (lq => i < k) => i < Len(d) /\ d[i] = c[i]
<1> DEFINE d == RowApplied(c, m)
           q == RowMerged(c)
           r == [id |-> m.id, h |-> m.h, key |-> m.type = "block"]
<1>1. /\ ShapeAt(c, k) /\ c # << >> /\ c \in Seq(Row) /\ Len(c) \in Nat /\ nx \in Nat /\ k \in 1..Len(c)
      /\ Height(c) = StartHeight - 1 + k /\ StartHeight \in Nat \ {0}
  BY NodeRowsFacts
<1> HIDE DEF q
<1>2. /\ ShapeAt(q, k) /\ Len(q) = k
      /\ \A i \in 1..k : q[i].h = c[i].h /\ (i < k => q[i] = c[i])
      /\ q[k].id = c[Len(c)].id
  <2>1. ShapeAt(c, k) /\ c # << >>
    BY <1>1
  <2> QED BY <2>1, ShapeMerged, Zenon DEF q
<1>3. r \in Row /\ r.id = nx /\ r.h = StartHeight + k /\ r.key
  <2>1. r \in Row
    BY DEF Msg, Row
  <2>2. Height(c) + 1 = StartHeight + k
    BY <1>1
  <2> QED BY <2>1, <2>2
<1>4. q \in Seq(Row)
  BY <1>2 DEF ShapeAt
<1>5. \A i \in 1..k : q[i].id < nx
  BY <1>1, <1>2 DEF NodeRows
<1>6. d = Append(q, r)
  <2>1. Position(q, m.id) = 0
    <3>1. \A i \in 1..Len(q) : q[i].id # m.id
      BY <1>1, <1>2, <1>4, <1>5, RowFields
    <3> QED BY <1>4, <3>1, PositionNone
  <2>2. m.type # "rollback"
    OBVIOUS
  <2>3. d = IF Position(q, m.id) # 0 THEN q ELSE Append(q, r)
    BY <2>2, Zenon DEF RowApplied, q
  <2> HIDE DEF d, r
  <2> QED BY <2>1, <2>3
<1> HIDE DEF d, r
<1>7. d \in Seq(Row) /\ Len(d) = k + 1 /\ d[k + 1] = r /\ \A i \in 1..k : d[i] = q[i]
  BY <1>1, <1>2, <1>3, <1>4, <1>6
<1>8. ShapeAt(d, k + 1)
  <2>1. r.h = StartHeight - 1 + (k + 1)
    BY <1>1, <1>3
  <2> QED BY <1>2, <1>3, <1>6, <2>1, ShapeAppend
<1>9. d # << >>
  BY <1>1, <1>7
<1>10. Height(d) = StartHeight + k
  <2>1. Height(d) = StartHeight - 1 + (k + 1)
    BY <1>8, <1>9, ShapeFacts
  <2> QED BY <1>1, <2>1
<1>11. NodeRows(d, lq2, nx + 1, k + 1)
  <2>1. \A i, j \in 1..Len(d) : d[i].id = d[j].id => i = j
    <3>1. \A i, j \in 1..k : q[i].id = q[j].id => i = j
      BY <1>1, <1>2 DEF NodeRows
    <3>2. \A i \in 1..k : d[i].id # nx
      <4>1. \A i \in 1..k : q[i].id \in Nat
        BY <1>2, <1>4, RowFields
      <4> QED BY <1>1, <1>5, <1>7, <4>1
    <3>3. d[k + 1].id = nx
      BY <1>3, <1>7
    <3>4. \A i \in 1..Len(d) : i \in 1..k \/ i = k + 1
      BY <1>1, <1>7
    <3>5. \A i, j \in 1..k : d[i].id = d[j].id => i = j
      BY <1>7, <3>1
    <3> QED BY <3>2, <3>3, <3>4, <3>5
  <2>2. \A i \in 1..Len(d) : d[i].id < nx + 1
    <3>1. \A i \in 1..k : d[i].id < nx + 1
      <4>1. \A i \in 1..k : q[i].id \in Nat
        BY <1>2, <1>4, RowFields
      <4> QED BY <1>1, <1>5, <1>7, <4>1
    <3>2. d[k + 1].id = nx
      BY <1>3, <1>7
    <3> QED BY <1>1, <1>7, <3>1, <3>2
  <2>3. k + 1 > 1 /\ k + 1 = Len(d) /\ nx + 1 \in Nat
    BY <1>1, <1>7
  <2> QED BY <1>8, <1>9, <2>1, <2>2, <2>3 DEF NodeRows
<1>12. RowsMoved(c, lq, nx, d, lq2, nx + 1)
  <2>1. ASSUME NEW j \in 1..Len(d)
        PROVE  d[j].id >= nx \/ \E i \in 1..Len(c) : c[i].id = d[j].id /\ c[i].h = d[j].h
    <3>1. CASE j = k + 1
      BY <1>1, <1>3, <1>7, <3>1
    <3>2. CASE j # k + 1
      <4>1. j \in 1..k /\ d[j] = q[j] /\ d[j].h = c[j].h
        BY <1>1, <1>2, <1>7, <3>2
      <4>2. CASE j < k
        BY <1>1, <1>2, <4>1, <4>2
      <4>3. CASE j = k
        <5>1. d[j].id = c[Len(c)].id /\ Len(c) \in 1..Len(c)
          BY <1>1, <1>2, <4>1, <4>3
        <5>2. c[Len(c)].h = c[k].h
          <6>1. c[Len(c)].h = StartHeight - 1 + (IF Len(c) <= k THEN Len(c) ELSE k)
            BY <5>1, <1>1 DEF ShapeAt
          <6>2. c[k].h = StartHeight - 1 + k
            BY <1>1 DEF ShapeAt
          <6> QED BY <1>1, <6>1, <6>2
        <5> QED BY <4>1, <4>3, <5>1, <5>2
      <4> QED BY <1>1, <4>1, <4>2, <4>3
    <3> QED BY <3>1, <3>2
  <2>2. ASSUME NEW j \in 1..Len(d), d[j].h = Height(d) PROVE d[j].id >= nx
    <3>1. j = k + 1
      <4>1. \A i \in 1..k : d[i].h = StartHeight - 1 + i
        BY <1>1, <1>7, <1>8 DEF ShapeAt
      <4> QED BY <1>1, <1>7, <1>10, <2>2, <4>1
    <3> QED BY <1>1, <1>3, <1>7, <3>1
  <2> QED BY <1>1, <2>1, <2>2 DEF RowsMoved
<1>13. \A i \in 1..k : (lq => i < k) => i < Len(d) /\ d[i] = c[i]
  <2> SUFFICES ASSUME NEW i \in 1..k, lq => i < k PROVE i < Len(d) /\ d[i] = c[i]
    OBVIOUS
  <2>1. CASE i < k
    BY <1>1, <1>2, <1>7, <2>1
  <2>2. CASE i = k
    <3>1. k = Len(c)
      BY <1>1, <2>2 DEF NodeRows
    <3>2. q = c
      BY <1>1, <3>1, ShapeFacts DEF RowMerged, q
    <3> QED BY <1>1, <1>7, <3>2
  <2> QED BY <1>1, <2>1, <2>2
<1>14. RowsKept(c, lq, d)
  <2> SUFFICES ASSUME NEW i \in 1..Len(c), ~lq \/ c[i].h < Height(c)
               PROVE  \E j \in 1..Len(d) : d[j].id = c[i].id
    BY DEF RowsKept
  <2>1. i \in 1..k /\ (lq => i < k)
    <3>1. CASE lq
      BY <1>1, <3>1, ShapeFacts
    <3>2. CASE ~lq
      <4>1. k = Len(c)
        BY <1>1, <3>2 DEF NodeRows
      <4> QED BY <3>2, <4>1
    <3> QED BY <3>1, <3>2 DEF NodeRows
  <2>2. i < Len(d) /\ d[i] = c[i]
    BY <1>13, <2>1
  <2> QED BY <1>1, <1>7, <2>1, <2>2
<1>15. Ends(d, m)
  <2>1. Last(d) = r
    BY <1>7 DEF Last
  <2>2. Height(d) = m.h
    BY <1>1, <1>10
  <2> QED BY <1>3, <1>9, <2>1, <2>2 DEF Ends
<1> QED BY <1>11, <1>12, <1>13, <1>14, <1>15 DEF d

LEMMA RowsMineMicroblock ==
  ASSUME NEW c, NEW lq, NEW nx, NEW k, NodeRows(c, lq, nx, k), lq,
         NEW m \in Msg, m.type = "microblock", m.id = nx, m.h = Height(c)
  PROVE  LET d == RowApplied(c, m)
         IN  /\ NodeRows(d, lq, nx + 1, k) /\ RowsMoved(c, lq, nx, d, lq, nx + 1)
             /\ RowsKept(c, lq, d) /\ Ends(d, m)
             /\ \A i \in 1..Len(c) : i < Len(d) /\ d[i] = c[i]
<1> DEFINE d == RowApplied(c, m)
           r == [id |-> m.id, h |-> m.h, key |-> m.type = "block"]
<1>1. /\ ShapeAt(c, k) /\ c # << >> /\ c \in Seq(Row) /\ Len(c) \in Nat /\ nx \in Nat /\ k \in 1..Len(c)
      /\ Height(c) = StartHeight - 1 + k /\ StartHeight \in Nat \ {0}
  BY NodeRowsFacts
<1>3. r \in Row /\ r.id = nx /\ r.h = StartHeight - 1 + k /\ ~r.key
  BY <1>1 DEF Msg, Row
<1>4. \A i \in 1..Len(c) : c[i].id < nx /\ c[i].id \in Nat
  BY NodeRowsFacts DEF NodeRows
<1>6. d = Append(c, r)
  <2>1. Position(c, m.id) = 0
    <3>1. \A i \in 1..Len(c) : c[i].id # m.id
      BY <1>1, <1>4
    <3> QED BY <1>1, <3>1, PositionNone
  <2>2. m.type # "rollback" /\ m.type # "block"
    OBVIOUS
  <2>3. d = IF Position(c, m.id) # 0 THEN c ELSE Append(c, r)
    BY <2>2, Zenon DEF RowApplied
  <2> HIDE DEF d, r
  <2> QED BY <2>1, <2>3
<1> HIDE DEF d, r
<1>7. d \in Seq(Row) /\ Len(d) = Len(c) + 1 /\ d[Len(c) + 1] = r /\ \A i \in 1..Len(c) : d[i] = c[i]
  BY <1>1, <1>3, <1>6
<1>8. ShapeAt(d, k)
  BY <1>1, <1>3, <1>6, ShapeAppend
<1>9. d # << >>
  BY <1>1, <1>7
<1>10. Height(d) = Height(c)
  BY <1>1, <1>8, <1>9, ShapeFacts
<1>11. NodeRows(d, lq, nx + 1, k)
  <2>1. \A i, j \in 1..Len(d) : d[i].id = d[j].id => i = j
    <3>1. \A i, j \in 1..Len(c) : c[i].id = c[j].id => i = j
      BY DEF NodeRows
    <3>2. \A i \in 1..Len(c) : d[i].id # nx
      BY <1>1, <1>4, <1>7
    <3>3. d[Len(c) + 1].id = nx
      BY <1>3, <1>7
    <3> QED BY <1>1, <1>7, <3>1, <3>2, <3>3
  <2>2. \A i \in 1..Len(d) : d[i].id < nx + 1
    <3>1. \A i \in 1..Len(c) : d[i].id < nx + 1
      BY <1>1, <1>4, <1>7
    <3>2. d[Len(c) + 1].id = nx
      BY <1>3, <1>7
    <3> QED BY <1>1, <1>7, <3>1, <3>2
  <2>3. nx + 1 \in Nat
    BY <1>1
  <2> QED BY <1>8, <1>9, <2>1, <2>2, <2>3 DEF NodeRows
<1>12. RowsMoved(c, lq, nx, d, lq, nx + 1)
  <2>1. ASSUME NEW j \in 1..Len(d)
        PROVE  d[j].id >= nx \/ \E i \in 1..Len(c) : c[i].id = d[j].id /\ c[i].h = d[j].h
    <3>1. CASE j = Len(c) + 1
      BY <1>1, <1>3, <1>7, <3>1
    <3>2. CASE j # Len(c) + 1
      <4>1. j \in 1..Len(c)
        BY <1>1, <1>7, <3>2
      <4> QED BY <1>7, <4>1
    <3> QED BY <3>1, <3>2
  <2> QED BY <1>1, <1>10, <2>1 DEF RowsMoved
<1>13. \A i \in 1..Len(c) : i < Len(d) /\ d[i] = c[i]
  BY <1>1, <1>7
<1>14. RowsKept(c, lq, d)
  <2> SUFFICES ASSUME NEW i \in 1..Len(c) PROVE \E j \in 1..Len(d) : d[j].id = c[i].id
    BY DEF RowsKept
  <2> QED BY <1>1, <1>7
<1>15. Ends(d, m)
  <2>1. Last(d) = r
    BY <1>7 DEF Last
  <2> QED BY <1>3, <1>9, <1>10, <2>1 DEF Ends
<1> QED BY <1>11, <1>12, <1>13, <1>14, <1>15 DEF d

LEMMA RowsReorganise ==
  ASSUME NEW c, NEW lq, NEW nx, NEW k, NodeRows(c, lq, nx, k),
         NEW p \in 1..Len(c), NEW m \in Msg, m.type = "rollback", m.id = c[p].id, m.h = c[p].h,
         NEW lq2, lq2 = (lq /\ m.h = Height(c))
  PROVE  LET d == RowApplied(c, m)
             l == IF p <= k THEN p ELSE k
         IN  /\ d = SubSeq(c, 1, p) /\ NodeRows(d, lq2, nx, l)
             /\ RowsMoved(c, lq, nx, d, lq2, nx)
             /\ Ends(d, m) /\ Position(c, m.id) = p
             /\ Len(d) = p /\ \A i \in 1..p : d[i] = c[i]
<1> DEFINE d == SubSeq(c, 1, p)
           l == IF p <= k THEN p ELSE k
<1>1. /\ ShapeAt(c, k) /\ c # << >> /\ c \in Seq(Row) /\ Len(c) \in Nat /\ nx \in Nat /\ k \in 1..Len(c)
      /\ Height(c) = StartHeight - 1 + k /\ StartHeight \in Nat \ {0}
  BY NodeRowsFacts
<1>2. Position(c, m.id) = p
  <2>1. \A i \in 1..Len(c) : c[i].id = m.id => i = p
    BY DEF NodeRows
  <2> QED BY <1>1, <2>1, PositionIs
<1>3. RowApplied(c, m) = d
  BY <1>2 DEF RowApplied
<1>4. d \in Seq(Row) /\ Len(d) = p /\ \A i \in 1..p : d[i] = c[i]
  <2>1. p \in 0..Len(c)
    OBVIOUS
  <2> QED BY <1>1, <2>1, Prefix
<1>5. ShapeAt(d, l) /\ d # << >>
  <2>1. ShapeAt(d, l)
    BY <1>1, ShapePrefix
  <2> QED BY <1>1, <1>4, <2>1
<1> HIDE DEF d
<1>6. Height(d) = m.h
  <2>1. Height(d) = StartHeight - 1 + l
    BY <1>5, ShapeFacts
  <2>2. c[p].h = StartHeight - 1 + l
    BY <1>1 DEF ShapeAt
  <2> QED BY <2>1, <2>2
<1>7. l \in 1..k /\ (lq2 => lq /\ l = k /\ Height(d) = Height(c))
  <2>1. Height(d) = StartHeight - 1 + l
    BY <1>5, ShapeFacts
  <2>2. lq2 => lq /\ m.h = Height(c)
    OBVIOUS
  <2>3. l \in 1..k
    BY <1>1
  <2>4. m.h = Height(c) => l = k
    BY <1>1, <1>6, <2>1, <2>3
  <2> HIDE DEF l
  <2> QED BY <1>6, <2>2, <2>3, <2>4
<1>8. NodeRows(d, lq2, nx, l)
  <2>1. l < Len(d) => lq2
    <3> SUFFICES ASSUME l < Len(d) PROVE lq2
      OBVIOUS
    <3>1. l = k /\ k < Len(c)
      BY <1>1, <1>4
    <3>2. lq
      BY <3>1 DEF NodeRows
    <3>3. m.h = Height(c)
      BY <1>1, <3>1 DEF ShapeAt
    <3> QED BY <3>2, <3>3
  <2>2. lq2 => l > 1
    BY <1>7 DEF NodeRows
  <2>3. lq2 \in BOOLEAN
    OBVIOUS
  <2> HIDE DEF l
  <2>4. \A i \in 1..Len(d) : i \in 1..Len(c) /\ d[i] = c[i]
    BY <1>1, <1>4
  <2>5. /\ \A i, j \in 1..Len(d) : d[i].id = d[j].id => i = j
        /\ \A i \in 1..Len(d) : d[i].id < nx
    BY <2>4 DEF NodeRows
  <2>6. nx \in Nat
    BY DEF NodeRows
  <2> QED BY <1>5, <2>1, <2>2, <2>3, <2>5, <2>6 DEF NodeRows
<1>9. RowsMoved(c, lq, nx, d, lq2, nx)
  BY <1>1, <1>4, <1>7 DEF RowsMoved
<1>10. Ends(d, m)
  <2>1. Last(d) = c[p]
    BY <1>4 DEF Last
  <2> QED BY <1>5, <1>6, <2>1 DEF Ends
<1> QED BY <1>2, <1>3, <1>4, <1>8, <1>9, <1>10 DEF d

----------------------------------------------------------------------------
(* Chains the node had, and what of them is still on the node.             *)

\* The rows b were the node's at some time: a row whose identifier the node
\* still has is at the same height, and if that is the height that can still get
\* microblocks, then it is the last height of b.
Chain(b, c, lq, nx) ==
  /\ \E k : ShapeAt(b, k)
  /\ \A i \in 1..Len(b) : b[i].id < nx
  /\ \A i \in 1..Len(b), j \in 1..Len(c) :
       b[i].id = c[j].id => /\ b[i].h = c[j].h
                            /\ lq /\ c[j].h = Height(c) => b[i].h = Height(b)

LEMMA ChainEmpty ==
  ASSUME NEW c, NEW lq, NEW nx
  PROVE  Chain(<< >>, c, lq, nx)
<1>1. ShapeAt(<< >>, 0)
  BY DEF ShapeAt
<1> QED BY <1>1 DEF Chain

LEMMA ChainFacts ==
  ASSUME NEW b, NEW c, NEW lq, NEW nx, Chain(b, c, lq, nx)
  PROVE  /\ b \in Seq(Row) /\ Len(b) \in Nat
         /\ \A i \in 1..Len(b) : b[i].id \in Nat /\ b[i].h \in Nat /\ b[i].id < nx
<1>1. PICK k : ShapeAt(b, k)
  BY DEF Chain
<1>2. b \in Seq(Row)
  BY <1>1 DEF ShapeAt
<1>3. \A i \in 1..Len(b) : b[i].id \in Nat /\ b[i].h \in Nat
  BY <1>2, RowFields
<1> QED BY <1>2, <1>3 DEF Chain

LEMMA ChainOwn ==
  ASSUME NEW c, NEW lq, NEW nx, NEW k, NodeRows(c, lq, nx, k)
  PROVE  Chain(c, c, lq, nx)
<1>1. ShapeAt(c, k)
  BY DEF NodeRows
<1>2. \A i, j \in 1..Len(c) : c[i].id = c[j].id => i = j
  BY DEF NodeRows
<1>3. \A i \in 1..Len(c) : c[i].id < nx
  BY DEF NodeRows
<1> QED BY <1>1, <1>2, <1>3 DEF Chain

LEMMA ChainMoved ==
  ASSUME NEW b, NEW c, NEW lq, NEW nx, Chain(b, c, lq, nx), nx \in Nat, c \in Seq(Row), lq \in BOOLEAN,
         NEW d, NEW lq2, NEW nx2, RowsMoved(c, lq, nx, d, lq2, nx2)
  PROVE  Chain(b, d, lq2, nx2)
<1>1. b \in Seq(Row) /\ \A i \in 1..Len(b) : b[i].id \in Nat /\ b[i].id < nx
  BY ChainFacts
<1>2. nx2 \in Nat /\ nx2 >= nx
  BY DEF RowsMoved
<1>3. \A i \in 1..Len(b) : b[i].id < nx2
  BY <1>1, <1>2
<1>4. ASSUME NEW i \in 1..Len(b), NEW j \in 1..Len(d), b[i].id = d[j].id
      PROVE  b[i].h = d[j].h /\ (lq2 /\ d[j].h = Height(d) => b[i].h = Height(b))
  <2>1. ~(d[j].id >= nx)
    BY <1>1, <1>4
  <2>2. PICK l \in 1..Len(c) : c[l].id = d[j].id /\ c[l].h = d[j].h
    BY <2>1 DEF RowsMoved
  <2>3. b[i].h = c[l].h /\ (lq /\ c[l].h = Height(c) => b[i].h = Height(b))
    BY <1>4, <2>2 DEF Chain
  <2>4. lq2 /\ d[j].h = Height(d) => lq /\ Height(d) = Height(c)
    BY <2>1 DEF RowsMoved
  <2> QED BY <2>2, <2>3, <2>4
<1> QED BY <1>3, <1>4 DEF Chain

\* The first p rows of b are on c.
KeptIn(b, p, c) == \A i \in 1..p : \E j \in 1..Len(c) : c[j].id = b[i].id

LEMMA KeptFacts ==
  ASSUME NEW T, NEW c \in Seq(UnitOver(T)), NEW b, NEW p \in Nat
  PROVE  KeptIn(b, p, Ids(c)) <=> \A i \in 1..p : Position(c, b[i].id) # 0
<1> DEFINE d == Ids(c)
<1>1. d \in Seq(Row) /\ \A id : Position(d, id) = Position(c, id)
  BY IdsFacts, IdsSearch
<1> HIDE DEF d
<1>2. Len(d) \in Nat
  BY <1>1
<1>3. ASSUME NEW id PROVE Position(d, id) # 0 <=> \E j \in 1..Len(d) : d[j].id = id
  <2>1. Position(d, id) \in 0..Len(d)
    BY <1>1, PositionFacts
  <2>2. Position(d, id) = 0 => \A i \in 1..Len(d) : d[i].id # id
    BY <1>1, PositionFacts
  <2>3. Position(d, id) # 0 => d[Position(d, id)].id = id
    BY <1>1, PositionFacts
  <2> QED BY <1>2, <2>1, <2>2, <2>3
<1>4. KeptIn(b, p, d) <=> \A i \in 1..p : Position(c, b[i].id) # 0
  BY <1>1, <1>3 DEF KeptIn
<1> QED BY <1>4 DEF d

\* Mining keeps what is below the last height of b ...
LEMMA KeptMined ==
  ASSUME NEW c, NEW lq, NEW nx, NEW k, NodeRows(c, lq, nx, k), NEW d, RowsKept(c, lq, d),
         NEW b, Chain(b, c, lq, nx), NEW p \in 0..Len(b), \A i \in 1..p : b[i].h < Height(b),
         KeptIn(b, p, c)
  PROVE  KeptIn(b, p, d)
<1> SUFFICES ASSUME NEW i \in 1..p PROVE \E j \in 1..Len(d) : d[j].id = b[i].id
  BY DEF KeptIn
<1>1. PICK j \in 1..Len(c) : c[j].id = b[i].id
  BY DEF KeptIn
<1>2. i \in 1..Len(b) /\ b[i].h \in Nat
  <2>1. Len(b) \in Nat /\ \A l \in 1..Len(b) : b[l].h \in Nat
    BY ChainFacts
  <2> QED BY <2>1
<1>3. lq /\ c[j].h = Height(c) => b[i].h = Height(b)
  BY <1>1, <1>2 DEF Chain
<1>4. Height(b) # b[i].h
  <2>1. PICK l : ShapeAt(b, l)
    BY DEF Chain
  <2>2. b # << >>
    BY <1>2
  <2>3. Height(b) \in Int
    BY <2>1, <2>2, ShapeFacts, ConsumerAssumption
  <2> QED BY <1>2, <2>3
<1>5. c[j].h <= Height(c) /\ c[j].h \in Nat /\ Height(c) \in Int
  BY NodeRowsFacts
<1>6. ~lq \/ c[j].h < Height(c)
  BY <1>3, <1>4, <1>5
<1> QED BY <1>1, <1>6 DEF RowsKept

\* ... and what is kept below the last height is a prefix of the node's rows.
LEMMA KeptPrefix ==
  ASSUME NEW c, NEW lq, NEW nx, NEW k, NodeRows(c, lq, nx, k),
         NEW b, Chain(b, c, lq, nx), NEW p \in 1..Len(b), b[p].h < Height(b), KeptIn(b, p, c)
  PROVE  /\ p \in 1..k /\ (lq => p < k) /\ SubSeq(b, 1, p) = SubSeq(c, 1, p)
         /\ b[p].h = StartHeight - 1 + p
<1>1. PICK l : ShapeAt(b, l)
  BY DEF Chain
<1>2. /\ b \in Seq(Row) /\ Len(b) \in Nat /\ b # << >> /\ l \in 1..Len(b)
      /\ Height(b) = StartHeight - 1 + l /\ p < l
  BY <1>1, ShapeFacts, ChainFacts
<1>3. /\ c \in Seq(Row) /\ Len(c) \in Nat /\ k \in 1..Len(c) /\ StartHeight \in Nat
      /\ Height(c) = StartHeight - 1 + k /\ ShapeAt(c, k)
  BY NodeRowsFacts
<1>4. ASSUME NEW i \in 1..p PROVE i \in 1..k /\ (lq => i < k) /\ c[i] = b[i]
  <2>1. i \in 1..Len(b) /\ i < l
    BY <1>2
  <2>2. b[i].h = StartHeight - 1 + i /\ b[i].key
    BY <1>1, <1>2, <2>1 DEF ShapeAt
  <2>3. PICK j \in 1..Len(c) : c[j].id = b[i].id
    BY DEF KeptIn
  <2>4. b[i].h = c[j].h /\ (lq /\ c[j].h = Height(c) => b[i].h = Height(b))
    BY <2>1, <2>3 DEF Chain
  <2>5. c[j].h = StartHeight - 1 + (IF j <= k THEN j ELSE k) /\ (c[j].key <=> j <= k)
    BY <1>3 DEF ShapeAt
  <2>6. ~(lq /\ c[j].h = Height(c))
    BY <1>2, <1>3, <2>1, <2>2, <2>4
  <2>7. j <= k /\ (lq => j < k)
    <3>1. k < Len(c) => lq
      BY DEF NodeRows
    <3>2. CASE lq
      BY <1>3, <2>5, <2>6, <3>2
    <3>3. CASE ~lq
      BY <1>3, <3>1, <3>3
    <3> QED BY <3>2, <3>3 DEF NodeRows
  <2>8. i = j
    BY <1>3, <2>2, <2>4, <2>5, <2>7
  <2>9. c[j] = b[i]
    <3>1. c[j] \in Row /\ b[i] \in Row
      BY <1>2, <1>3, <2>1
    <3>2. c[j].key = b[i].key
      BY <2>2, <2>5, <2>7, <3>1 DEF Row
    <3> QED BY <2>3, <2>4, <3>1, <3>2 DEF Row
  <2> QED BY <1>3, <2>7, <2>8, <2>9
<1>5. p \in 1..p
  BY <1>2
<1>6. p \in 1..k /\ (lq => p < k)
  BY <1>4, <1>5
<1>7. SubSeq(b, 1, p) = SubSeq(c, 1, p)
  <2> DEFINE d == SubSeq(b, 1, p)
             e == SubSeq(c, 1, p)
  <2>1. d \in Seq(Row) /\ Len(d) = p /\ \A i \in 1..p : d[i] = b[i]
    <3>1. p \in 0..Len(b)
      BY <1>2
    <3> QED BY <1>2, <3>1, Prefix
  <2>2. e \in Seq(Row) /\ Len(e) = p /\ \A i \in 1..p : e[i] = c[i]
    <3>1. p \in 0..Len(c)
      BY <1>3, <1>6
    <3> QED BY <1>3, <3>1, Prefix
  <2> HIDE DEF d, e
  <2>3. d = e
    BY <1>4, <2>1, <2>2, SameRows
  <2> QED BY <2>3 DEF d, e
<1>8. b[p].h = StartHeight - 1 + p
  BY <1>1, <1>2 DEF ShapeAt
<1> QED BY <1>6, <1>7, <1>8

\* A prefix of the node's rows is a chain the node had, as far as that can tell.
LEMMA ChainPrefix ==
  ASSUME NEW c, NEW lq, NEW nx, NEW k, NodeRows(c, lq, nx, k), NEW p \in 0..Len(c)
  PROVE  LET e == SubSeq(c, 1, p)
         IN  /\ Chain(e, c, lq, nx) /\ Len(e) = p /\ \A i \in 1..p : e[i] = c[i]
             /\ p # 0 => ShapeAt(e, IF p <= k THEN p ELSE k) /\ Height(e) = c[p].h
<1>1. /\ c \in Seq(Row) /\ Len(c) \in Nat /\ k \in 1..Len(c) /\ ShapeAt(c, k)
      /\ Height(c) = StartHeight - 1 + k /\ StartHeight \in Nat
  BY NodeRowsFacts
<1> DEFINE e == SubSeq(c, 1, p)
           l == IF p <= k THEN p ELSE k
<1>2. e \in Seq(Row) /\ Len(e) = p /\ \A i \in 1..p : e[i] = c[i]
  BY <1>1, Prefix
<1>3. p # 0 => ShapeAt(e, l)
  BY <1>1, ShapePrefix
<1> HIDE DEF e
<1>4. \E z : ShapeAt(e, z)
  <2>1. CASE p = 0
    <3>1. e = << >>
      BY <1>2, <2>1
    <3>2. ShapeAt(<< >>, 0)
      BY DEF ShapeAt
    <3> QED BY <3>1, <3>2
  <2>2. CASE p # 0
    BY <1>3, <2>2
  <2> QED BY <2>1, <2>2
<1>5. p # 0 => Height(e) = StartHeight - 1 + l
  <2>1. p # 0 => e # << >>
    BY <1>2
  <2> QED BY <1>3, <2>1, ShapeFacts
<1>6. p # 0 => Height(e) = c[p].h
  <2>1. p # 0 => c[p].h = StartHeight - 1 + l
    BY <1>1 DEF ShapeAt
  <2> QED BY <1>5, <2>1
<1>7. ASSUME NEW i \in 1..p, NEW j \in 1..Len(c), e[i].id = c[j].id
      PROVE  e[i].h = c[j].h /\ (lq /\ c[j].h = Height(c) => e[i].h = Height(e))
  <2>1. i \in 1..Len(c)
    BY <1>1
  <2>2. i = j
    BY <1>2, <1>7, <2>1 DEF NodeRows
  <2>3. e[i].h = c[j].h
    BY <1>2, <2>2
  <2>4. c[j].h = Height(c) => k <= p
    <3>1. c[i].h = StartHeight - 1 + (IF i <= k THEN i ELSE k)
      BY <1>1, <2>1 DEF ShapeAt
    <3> QED BY <1>1, <2>1, <2>2, <3>1
  <2>5. k <= p => Height(e) = Height(c)
    BY <1>1, <1>5
  <2> QED BY <2>3, <2>4, <2>5
<1>8. \A i \in 1..p : e[i].id < nx
  BY <1>1, <1>2 DEF NodeRows
<1>9. Chain(e, c, lq, nx)
  BY <1>2, <1>4, <1>7, <1>8 DEF Chain
<1> HIDE DEF l
<1> QED BY <1>2, <1>3, <1>6, <1>9 DEF e, l

\* What a restarted consumer holds while it has not subscribed: the first p rows,
\* all key blocks, and none at the height that can still get microblocks.
Resumes(b, c, lq, k) ==
  /\ Len(b) \in 0..k /\ (lq => Len(b) < k) /\ b = SubSeq(c, 1, Len(b))

LEMMA ResumesKept ==
  ASSUME NEW c, NEW lq, NEW nx, NEW k, NodeRows(c, lq, nx, k), NEW b, Resumes(b, c, lq, k)
  PROVE  /\ KeptIn(b, Len(b), c) /\ b \in Seq(Row)
         /\ \A i \in 1..Len(b) : i \in 1..Len(c) /\ b[i] = c[i]
         /\ Chain(b, c, lq, nx)
<1>1. /\ c \in Seq(Row) /\ Len(c) \in Nat /\ k \in 1..Len(c) /\ ShapeAt(c, k)
      /\ Height(c) = StartHeight - 1 + k /\ StartHeight \in Nat
  BY NodeRowsFacts
<1>2. Len(b) \in 0..Len(c) /\ Len(b) \in Nat
  BY <1>1 DEF Resumes
<1>3. Chain(b, c, lq, nx) /\ \A i \in 1..Len(b) : b[i] = c[i]
  <2> DEFINE p == Len(b)
  <2>1. b = SubSeq(c, 1, p)
    BY DEF Resumes
  <2>2. p \in 0..Len(c)
    BY <1>2
  <2> HIDE DEF p
  <2>3. Chain(SubSeq(c, 1, p), c, lq, nx) /\ \A i \in 1..p : SubSeq(c, 1, p)[i] = c[i]
    BY <2>2, ChainPrefix
  <2> QED BY <2>1, <2>3 DEF p
<1>4. b \in Seq(Row)
  BY <1>3, ChainFacts
<1>5. \A i \in 1..Len(b) : i \in 1..Len(c) /\ b[i] = c[i]
  BY <1>1, <1>2, <1>3
<1>6. KeptIn(b, Len(b), c)
  BY <1>5 DEF KeptIn
<1> QED BY <1>3, <1>4, <1>5, <1>6

\* A move that leaves those rows where they are.
LEMMA ResumesMoved ==
  ASSUME NEW c, NEW lq, NEW nx, NEW k, NodeRows(c, lq, nx, k), NEW b, Resumes(b, c, lq, k),
         NEW d, NEW lq2, NEW nx2, NEW k2, NodeRows(d, lq2, nx2, k2),
         Len(b) <= k2, lq2 => Len(b) < k2,
         \A i \in 1..Len(b) : d[i] = c[i]
  PROVE  Resumes(b, d, lq2, k2)
<1> DEFINE p == Len(b)
           e == SubSeq(d, 1, p)
<1>1. b \in Seq(Row) /\ \A i \in 1..p : b[i] = c[i]
  BY ResumesKept
<1>2. d \in Seq(Row) /\ Len(d) \in Nat /\ k2 \in 1..Len(d)
  BY NodeRowsFacts
<1>3. p \in 0..Len(d) /\ p \in 0..k2
  BY <1>1, <1>2
<1>4. e \in Seq(Row) /\ Len(e) = p /\ \A i \in 1..p : e[i] = d[i]
  BY <1>2, <1>3, Prefix
<1> HIDE DEF e
<1>5. b = e
  BY <1>1, <1>4, SameRows
<1> QED BY <1>3, <1>5 DEF Resumes, e

----------------------------------------------------------------------------
(* Messages in flight: the chain they lead to.                             *)

\* f runs from the rows b over the messages q to the rows c of the node: each
\* rollback names a row that is there, each message the row it leads to, and every
\* chain on the way is one the node had.
Follows(f, b, q, c, lq, nx) ==
  /\ f[0] = b /\ f[Len(q)] = c
  /\ \A j \in 1..Len(q) : /\ f[j] = RowApplied(f[j - 1], q[j])
                          /\ q[j].type = "rollback" => Position(f[j - 1], q[j].id) # 0
                          /\ Ends(f[j], q[j])
  /\ \A j \in 0..Len(q) : Chain(f[j], c, lq, nx)

\* A message that moves the node from c to d.
LEMMA FollowsSent ==
  ASSUME NEW f, NEW b, NEW q \in Seq(Msg), NEW c, NEW lq, NEW nx, Follows(f, b, q, c, lq, nx),
         NEW m \in Msg, NEW d, d = RowApplied(c, m), Ends(d, m),
         m.type = "rollback" => Position(c, m.id) # 0,
         NEW lq2, NEW nx2, Chain(d, d, lq2, nx2),
         \A x : Chain(x, c, lq, nx) => Chain(x, d, lq2, nx2)
  PROVE  \E g : Follows(g, b, Append(q, m), d, lq2, nx2)
<1> DEFINE n == Len(q)
           a == Append(q, m)
           g == [j \in 0..(n + 1) |-> IF j <= n THEN f[j] ELSE d]
<1>1. a \in Seq(Msg) /\ Len(a) = n + 1 /\ a[n + 1] = m /\ (\A i \in 1..n : a[i] = q[i]) /\ n \in Nat
  OBVIOUS
<1>2. g[n + 1] = d /\ \A j \in 0..n : g[j] = f[j]
  BY <1>1
<1>3. /\ f[0] = b /\ f[n] = c /\ \A j \in 0..n : Chain(f[j], c, lq, nx)
      /\ \A j \in 1..n : /\ f[j] = RowApplied(f[j - 1], q[j])
                         /\ q[j].type = "rollback" => Position(f[j - 1], q[j].id) # 0
                         /\ Ends(f[j], q[j])
  BY DEF Follows
<1> HIDE DEF a, n, g
<1>4. ASSUME NEW j \in 1..(n + 1)
      PROVE  /\ g[j] = RowApplied(g[j - 1], a[j])
             /\ a[j].type = "rollback" => Position(g[j - 1], a[j].id) # 0
             /\ Ends(g[j], a[j])
  <2>1. CASE j = n + 1
    <3>1. g[j] = d /\ g[j - 1] = c /\ a[j] = m
      BY <1>1, <1>2, <1>3, <2>1
    <3> QED BY <3>1
  <2>2. CASE j # n + 1
    <3>1. j \in 1..n /\ g[j] = f[j] /\ g[j - 1] = f[j - 1] /\ a[j] = q[j]
      BY <1>1, <1>2, <2>2
    <3> QED BY <1>3, <3>1
  <2> QED BY <2>1, <2>2
<1>5. ASSUME NEW j \in 0..(n + 1) PROVE Chain(g[j], d, lq2, nx2)
  <2>1. CASE j = n + 1
    BY <1>2, <2>1
  <2>2. CASE j # n + 1
    <3>1. j \in 0..n
      BY <1>1, <2>2
    <3> QED BY <1>2, <1>3, <3>1
  <2> QED BY <2>1, <2>2
<1>6. g[0] = b /\ g[n + 1] = d
  BY <1>1, <1>2, <1>3
<1>7. Follows(g, b, a, d, lq2, nx2)
  BY <1>1, <1>4, <1>5, <1>6 DEF Follows
<1> QED BY <1>7 DEF a

\* A block that is sent again while it is the last.
LEMMA BlockAgain ==
  ASSUME NEW c \in Seq(Row), c # << >>, Last(c).key, NEW m \in Msg, m.type = "block", m.id = Last(c).id
  PROVE  RowApplied(c, m) = c
<1>1. RowMerged(c) = c
  BY DEF RowMerged
<1>2. Position(c, m.id) # 0
  <2>1. Len(c) \in 1..Len(c) /\ c[Len(c)].id = m.id
    BY DEF Last
  <2> QED BY <2>1, PositionFacts
<1> QED BY <1>1, <1>2 DEF RowApplied

\* The transaction takes the first messages.
LEMMA FollowsTaken ==
  ASSUME NEW f, NEW b, NEW w \in Seq(Msg), NEW q \in Seq(Msg), NEW c, NEW lq, NEW nx,
         Follows(f, b, w \o q, c, lq, nx)
  PROVE  \E g : Follows(g, f[Len(w)], q, c, lq, nx)
<1> DEFINE n == Len(q)
           k == Len(w)
           a == w \o q
           g == [j \in 0..n |-> f[j + k]]
<1>1. Len(a) = k + n /\ (\A i \in 1..n : a[k + i] = q[i]) /\ n \in Nat /\ k \in Nat
  OBVIOUS
<1>2. /\ f[k + n] = c /\ \A j \in 0..(k + n) : Chain(f[j], c, lq, nx)
      /\ \A j \in 1..(k + n) : /\ f[j] = RowApplied(f[j - 1], a[j])
                               /\ a[j].type = "rollback" => Position(f[j - 1], a[j].id) # 0
                               /\ Ends(f[j], a[j])
  BY <1>1 DEF Follows
<1> HIDE DEF a, n, k
<1>3. ASSUME NEW j \in 1..n
      PROVE  /\ g[j] = RowApplied(g[j - 1], q[j])
             /\ q[j].type = "rollback" => Position(g[j - 1], q[j].id) # 0
             /\ Ends(g[j], q[j])
  <2> DEFINE i == j + k
  <2>1. i \in 1..(k + n) /\ g[j] = f[i] /\ g[j - 1] = f[i - 1] /\ a[i] = q[j]
    <3>1. k + j = j + k /\ i \in 1..(k + n) /\ j \in 0..n /\ j - 1 \in 0..n /\ (j - 1) + k = i - 1
      BY <1>1
    <3> QED BY <1>1, <3>1
  <2> HIDE DEF i, g
  <2> QED BY <1>2, <2>1
<1>4. \A j \in 0..n : Chain(g[j], c, lq, nx)
  BY <1>1, <1>2
<1>5. g[0] = f[k] /\ g[n] = c
  BY <1>1, <1>2
<1> HIDE DEF g
<1>6. Follows(g, f[k], q, c, lq, nx)
  BY <1>3, <1>4, <1>5 DEF Follows, n
<1> QED BY <1>6 DEF k

----------------------------------------------------------------------------
(* The subscription.                                                       *)

LEMMA MsgOfUnit ==
  ASSUME NEW u \in Unit
  PROVE  /\ AppendMsg(u) \in Msg /\ AppendMsg(u).id = u.id /\ AppendMsg(u).h = u.h
         /\ AppendMsg(u).txs = u.txs
         /\ AppendMsg(u).type = IF u.key THEN "block" ELSE "microblock"
BY DEF Unit, Msg, AppendMsg

LEMMA HistoryFacts ==
  ASSUME NEW c \in Seq(Unit), NEW lq, NEW nx, NEW k, NodeRows(Ids(c), lq, nx, k),
         NEW p \in 0..k, lq => p < k
  PROVE  /\ History(c, StartHeight + p) \in Seq(Msg)
         /\ Len(History(c, StartHeight + p)) = Len(c) - p
         /\ \A i \in 1..(Len(c) - p) : History(c, StartHeight + p)[i] = AppendMsg(c[p + i])
<1> DEFINE b == Ids(c)
           I == {i \in 1..Len(c) : c[i].h >= StartHeight + p}
           n == Len(c) - p
           q == History(c, StartHeight + p)
<1>1. /\ b \in Seq(Row) /\ Len(b) = Len(c) /\ Len(c) \in Nat /\ \A i \in 1..Len(c) : b[i].h = c[i].h
  BY NodeIds
<1>2. /\ ShapeAt(b, k) /\ k \in 1..Len(c) /\ StartHeight \in Nat /\ (k < Len(c) => lq) /\ lq \in BOOLEAN
  BY <1>1, NodeRowsFacts, Zenon DEF NodeRows
<1> HIDE DEF b
<1>3. \A i \in 1..Len(c) : c[i].h = StartHeight - 1 + (IF i <= k THEN i ELSE k)
  BY <1>1, <1>2 DEF ShapeAt
<1>4. p < k \/ k = Len(c)
  BY <1>1, <1>2
<1>5. \A i \in 1..Len(c) : c[i].h >= StartHeight + p <=> i >= p + 1
  BY <1>1, <1>2, <1>3, <1>4
<1> DEFINE first == SelectInSeq(c, LAMBDA u : u.h >= StartHeight + p)
<1>6. first = IF I # {} THEN Min(I) ELSE 0
  BY DEF SelectInSeq
<1>7. IF p = Len(c) THEN first = 0 ELSE first = p + 1
  <2>1. CASE p = Len(c)
    <3>1. I = {}
      BY <1>1, <1>5, <2>1
    <3> QED BY <1>6, <2>1, <3>1
  <2>2. CASE p # Len(c)
    <3>1. p + 1 \in I
      BY <1>1, <1>2, <1>5, <2>2
    <3>2. I \in SUBSET (1..Len(c)) /\ \A i \in I : i >= p + 1
      BY <1>5
    <3> HIDE DEF I
    <3>3. Min(I) \in I /\ \A i \in I : Min(I) <= i
      BY <1>1, <3>1, <3>2, LeastIndex
    <3>4. Min(I) = p + 1
      <4>1. Min(I) \in Nat /\ Min(I) >= p + 1 /\ Min(I) <= p + 1
        <5>1. Min(I) \in 1..Len(c)
          BY <3>2, <3>3
        <5>2. Min(I) >= p + 1
          BY <3>2, <3>3
        <5>3. Min(I) <= p + 1
          BY <3>1, <3>3
        <5> QED BY <5>1, <5>2, <5>3
      <4> DEFINE x == Min(I)
      <4> HIDE DEF x
      <4>2. x \in Nat /\ x >= p + 1 /\ x <= p + 1 => x = p + 1
        BY <1>2
      <4> QED BY <4>1, <4>2 DEF x
    <3> QED BY <1>6, <2>2, <3>1, <3>4
  <2> QED BY <2>1, <2>2
<1>8. q = IF first = 0 THEN << >> ELSE [i \in 1..(Len(c) - first + 1) |-> AppendMsg(c[first + i - 1])]
  BY DEF History
<1> HIDE DEF q, first, I
<1>9. q = [i \in 1..n |-> AppendMsg(c[p + i])]
  <2>1. CASE p = Len(c)
    BY <1>1, <1>7, <1>8, <2>1
  <2>2. CASE p # Len(c)
    <3>1. first = p + 1 /\ first # 0
      BY <1>1, <1>7, <2>2
    <3>2. Len(c) - first + 1 = n /\ \A i \in 1..n : first + i - 1 = p + i
      BY <1>1, <3>1
    <3>3. q = [i \in 1..n |-> AppendMsg(c[first + i - 1])]
      BY <1>8, <3>1, <3>2
    <3> HIDE DEF n
    <3> QED BY <3>2, <3>3
  <2> QED BY <2>1, <2>2
<1>10. \A i \in 1..n : AppendMsg(c[p + i]) \in Msg
  <2>1. \A i \in 1..n : p + i \in 1..Len(c)
    BY <1>1, <1>2
  <2>2. \A i \in 1..n : c[p + i] \in Unit
    BY <2>1
  <2> QED BY <2>2, MsgOfUnit
<1>11. n \in Nat
  BY <1>1, <1>2
<1>12. q \in Seq(Msg) /\ Len(q) = n /\ \A i \in 1..n : q[i] = AppendMsg(c[p + i])
  <2> HIDE DEF n
  <2>1. q \in [1..n -> Msg]
    BY <1>9, <1>10
  <2>2. \A i \in 1..n : q[i] = AppendMsg(c[p + i])
    BY <1>9
  <2> QED BY <1>11, <2>1, <2>2
<1> QED BY <1>12 DEF q

\* What the node sends to a consumer that holds the rows b leads to its rows.
LEMMA FollowsHistory ==
  ASSUME NEW u \in Seq(Unit), NEW lq, NEW nx, NEW k, NodeRows(Ids(u), lq, nx, k),
         NEW b, Resumes(b, Ids(u), lq, k)
  PROVE  \E f : Follows(f, b, History(u, StartHeight + Len(b)), Ids(u), lq, nx)
<1> DEFINE c == Ids(u)
           p == Len(b)
           n == Len(u) - p
           q == History(u, StartHeight + p)
           f == [j \in 0..n |-> SubSeq(c, 1, p + j)]
<1>1. /\ c \in Seq(Row) /\ Len(c) = Len(u) /\ Len(u) \in Nat
      /\ \A i \in 1..Len(u) : c[i] = RowOf(u[i]) /\ u[i] \in Unit
  BY NodeIds
<1>2. NodeRows(c, lq, nx, k)
  OBVIOUS
<1>3. p \in 0..k /\ (lq => p < k) /\ b = SubSeq(c, 1, p)
  BY DEF Resumes
<1>4. q \in Seq(Msg) /\ Len(q) = n /\ \A i \in 1..n : q[i] = AppendMsg(u[p + i])
  BY <1>2, <1>3, HistoryFacts
<1> HIDE DEF c, q, p
<1>5. k \in 1..Len(c) /\ ShapeAt(c, k) /\ n \in Nat
  <2>1. k \in 1..Len(c) /\ ShapeAt(c, k)
    BY <1>2, NodeRowsFacts
  <2> QED BY <1>1, <1>3, <2>1
<1>6. ASSUME NEW j \in 1..n
      PROVE  /\ f[j] = RowApplied(f[j - 1], q[j]) /\ q[j].type # "rollback" /\ Ends(f[j], q[j])
  <2> DEFINE i == p + j
             e == SubSeq(c, 1, i - 1)
             r == c[i]
             m == q[j]
  <2>1. /\ i \in 1..Len(c) /\ i - 1 \in 0..Len(c) /\ i \in 0..Len(c) /\ i # 0 /\ j \in 0..n /\ j - 1 \in 0..n
        /\ p + (j - 1) = i - 1
    BY <1>1, <1>3, <1>5
  <2>2. f[j] = SubSeq(c, 1, i) /\ f[j - 1] = e
    BY <2>1
  <2> HIDE DEF f
  <2>3. /\ m \in Msg /\ m.id = r.id /\ m.h = r.h /\ (m.type = "block" <=> r.key) /\ m.type # "rollback"
        /\ r \in Row
    <3>1. u[i] \in Unit /\ r = RowOf(u[i]) /\ m = AppendMsg(u[i])
      BY <1>1, <1>4, <2>1
    <3>2. r.id = u[i].id /\ r.h = u[i].h /\ r.key = u[i].key /\ r \in Row
      BY <3>1, RowOfUnit DEF Unit, UnitOver
    <3>3. /\ m \in Msg /\ m.id = u[i].id /\ m.h = u[i].h
          /\ m.type = IF u[i].key THEN "block" ELSE "microblock"
      BY <3>1, MsgOfUnit
    <3> HIDE DEF m, r
    <3> QED BY <3>2, <3>3
  <2> HIDE DEF m
  <2>4. e \in Seq(Row) /\ Len(e) = i - 1 /\ \A z \in 1..(i - 1) : e[z] = c[z]
    BY <1>1, <2>1, Prefix
  <2>5. Position(e, m.id) = 0
    <3>1. \A z \in 1..(i - 1) : z \in 1..Len(c) /\ z # i
      BY <1>1, <2>1
    <3>2. \A z \in 1..(i - 1) : c[z].id # c[i].id
      BY <1>2, <2>1, <3>1 DEF NodeRows
    <3>3. \A z \in 1..Len(e) : e[z].id # m.id
      BY <2>3, <2>4, <3>2
    <3> HIDE DEF e
    <3> QED BY <2>4, <3>3, PositionNone
  <2>6. m.type = "block" => RowMerged(e) = e
    <3> SUFFICES ASSUME m.type = "block", e # << >> PROVE Last(e).key
      BY DEF RowMerged
    <3>1. i <= k /\ i - 1 \in 1..(i - 1)
      <4>1. c[i].key
        BY <2>3
      <4>2. i <= k
        BY <1>5, <2>1, <4>1 DEF ShapeAt
      <4> HIDE DEF e
      <4>3. Len(e) # 0
        BY <2>4
      <4> QED BY <2>1, <2>4, <4>2, <4>3
    <3>2. c[i - 1].key
      BY <1>5, <2>1, <3>1 DEF ShapeAt
    <3>3. Last(e) = e[i - 1]
      BY <2>4 DEF Last
    <3> HIDE DEF e, i
    <3> QED BY <2>4, <3>1, <3>2, <3>3
  <2>7. RowApplied(e, m) = Append(e, r)
    <3> DEFINE z == [id |-> m.id, h |-> m.h, key |-> m.type = "block"]
    <3>1. z = r
      <4>1. r = [id |-> r.id, h |-> r.h, key |-> r.key] /\ r.key \in BOOLEAN
        BY <2>3 DEF Row
      <4> HIDE DEF r
      <4> QED BY <2>3, <4>1
    <3> HIDE DEF e, r
    <3>2. RowApplied(e, m) = Append(e, z)
      BY <2>3, <2>5, <2>6 DEF RowApplied
    <3> QED BY <3>1, <3>2
  <2>8. Append(e, r) = SubSeq(c, 1, i)
    <3> DEFINE d == SubSeq(c, 1, i)
               a == Append(e, r)
    <3>1. d \in Seq(Row) /\ Len(d) = i /\ \A z \in 1..i : d[z] = c[z]
      BY <1>1, <2>1, Prefix
    <3> HIDE DEF e
    <3>2. a \in Seq(Row) /\ Len(a) = i /\ a[i] = r /\ \A z \in 1..(i - 1) : a[z] = e[z]
      BY <2>1, <2>3, <2>4
    <3>3. \A z \in 1..i : z = i \/ z \in 1..(i - 1)
      BY <2>1
    <3> HIDE DEF d, a, i
    <3>4. \A z \in 1..i : a[z] = d[z]
      BY <2>4, <3>1, <3>2, <3>3
    <3>5. a = d
      BY <3>1, <3>2, <3>4, SameRows
    <3> QED BY <3>5 DEF a, d
  <2>9. Height(SubSeq(c, 1, i)) = c[i].h
    BY <1>2, <2>1, ChainPrefix
  <2>10. f[j] = RowApplied(f[j - 1], m)
    BY <2>2, <2>7, <2>8, Zenon
  <2>11. Ends(f[j], m)
    <3>1. SubSeq(c, 1, i) # << >> /\ Last(SubSeq(c, 1, i)) = r
      <4> DEFINE d == SubSeq(c, 1, i)
      <4>1. Len(d) = i /\ d[i] = c[i]
        BY <1>1, <2>1, Prefix
      <4> HIDE DEF d
      <4>2. d # << >> /\ Last(d) = c[i]
        BY <2>1, <4>1 DEF Last
      <4> QED BY <4>2 DEF d
    <3> QED BY <2>2, <2>3, <2>9, <3>1 DEF Ends
  <2> QED BY <2>3, <2>10, <2>11 DEF m
<1>7. ASSUME NEW j \in 0..n PROVE Chain(f[j], c, lq, nx)
  <2>1. p + j \in 0..Len(c) /\ f[j] = SubSeq(c, 1, p + j)
    BY <1>1, <1>3, <1>5
  <2> QED BY <1>2, <2>1, ChainPrefix
<1>8. f[0] = b /\ f[n] = c
  <2>1. 0 \in 0..n /\ n \in 0..n /\ p + 0 = p /\ p + n = Len(c)
    BY <1>1, <1>3, <1>5
  <2>2. SubSeq(c, 1, Len(c)) = c
    BY <1>1
  <2> QED BY <1>3, <2>1, <2>2
<1> HIDE DEF f
<1>9. Follows(f, b, q, c, lq, nx)
  BY <1>4, <1>6, <1>7, <1>8 DEF Follows
<1> QED BY <1>9 DEF q, c, p

----------------------------------------------------------------------------
(* The transaction and the chain: handle_updates applies the messages.     *)

LEMMA SquashRows ==
  ASSUME NEW s \in Db
  PROVE  Squash(s).blocks = RowMerged(s.blocks) /\ Squash(s).error = s.error /\ DOMAIN Squash(s) = DOMAIN s
<1>1. CASE s.blocks = << >> \/ Last(s.blocks).key
  BY <1>1 DEF Squash, RowMerged
<1>2. CASE ~(s.blocks = << >> \/ Last(s.blocks).key)
  <2> DEFINE k == LastKey(s.blocks)
             nb == [SubSeq(s.blocks, 1, k) EXCEPT ![k].id = Last(s.blocks).id]
             nt == {IF t.at > k THEN [t EXCEPT !.at = k] ELSE t : t \in s.txs}
  <2>1. Squash(s) = [s EXCEPT !.blocks = nb, !.txs = nt]
    BY <1>2 DEF Squash
  <2>2. RowMerged(s.blocks) = nb
    BY <1>2 DEF RowMerged
  <2> HIDE DEF nb, nt
  <2> QED BY <2>1, <2>2 DEF Db
<1> QED BY <1>1, <1>2

LEMMA UpsertRows ==
  ASSUME NEW s, "blocks" \in DOMAIN s, "error" \in DOMAIN s, NEW m
  PROVE  /\ Upsert(s, m).blocks = IF Position(s.blocks, m.id) # 0 THEN s.blocks
                                  ELSE Append(s.blocks, [id |-> m.id, h |-> m.h, key |-> m.type = "block"])
         /\ Upsert(s, m).error = s.error /\ DOMAIN Upsert(s, m) = DOMAIN s
<1> DEFINE nb == Append(s.blocks, [id |-> m.id, h |-> m.h, key |-> m.type = "block"])
<1>1. Upsert(s, m) = IF Position(s.blocks, m.id) # 0 THEN s ELSE [s EXCEPT !.blocks = nb]
  BY DEF Upsert
<1> HIDE DEF nb
<1>2. Upsert(s, m).blocks = (IF Position(s.blocks, m.id) # 0 THEN s.blocks ELSE nb)
      /\ Upsert(s, m).error = s.error /\ DOMAIN Upsert(s, m) = DOMAIN s
  BY <1>1
<1> QED BY <1>2 DEF nb

LEMMA InsertRows ==
  ASSUME NEW s, DOMAIN s = {"blocks", "txs", "gen", "events", "error"}, s.error = "none", NEW m
  PROVE  InsertTxs(s, m).blocks = s.blocks /\ InsertTxs(s, m).error \in {"none", "unique_violation"}
<1> DEFINE g == AtHeight(s.gen, m.h)
           at == Position(s.blocks, m.id)
           new == {[uid |-> NextUid(g, i), tx |-> m.txs[i], at |-> at] : i \in DOMAIN m.txs}
           ng == [g EXCEPT !.id = @ + Len(m.txs)]
           ne == IF \E r \in s.txs, t \in new : r.uid = t.uid THEN "unique_violation" ELSE s.error
<1>1. InsertTxs(s, m) = [s EXCEPT !.gen = ng, !.txs = s.txs \cup new, !.events = s.events \o m.txs, !.error = ne]
  BY DEF InsertTxs
<1>2. ne \in {"none", "unique_violation"}
  OBVIOUS
<1> HIDE DEF ng, ne, new
<1> QED BY <1>1, <1>2

LEMMA HandleRows ==
  ASSUME NEW s \in Db, s.error = "none", NEW m \in Msg,
         m.type = "rollback" => Position(s.blocks, m.id) # 0
  PROVE  /\ Handle(m, s).blocks = RowApplied(s.blocks, m)
         /\ Handle(m, s).error \in {"none", "unique_violation"}
<1>1. DOMAIN s = {"blocks", "txs", "gen", "events", "error"}
  BY DEF Db
<1>2. CASE m.type = "block"
  <2> DEFINE a == Squash(s)
             b == Upsert(a, m)
  <2>1. Handle(m, s) = InsertTxs(b, m)
    BY <1>2 DEF Handle
  <2>2. a.blocks = RowMerged(s.blocks) /\ a.error = "none" /\ DOMAIN a = DOMAIN s
    BY SquashRows
  <2> HIDE DEF a
  <2>3. /\ b.blocks = IF Position(a.blocks, m.id) # 0 THEN a.blocks
                      ELSE Append(a.blocks, [id |-> m.id, h |-> m.h, key |-> m.type = "block"])
        /\ b.error = "none" /\ DOMAIN b = DOMAIN s
    BY <1>1, <2>2, UpsertRows
  <2> HIDE DEF b
  <2>4. InsertTxs(b, m).blocks = b.blocks /\ InsertTxs(b, m).error \in {"none", "unique_violation"}
    BY <1>1, <2>3, InsertRows
  <2>5. RowApplied(s.blocks, m) = IF Position(a.blocks, m.id) # 0 THEN a.blocks
                      ELSE Append(a.blocks, [id |-> m.id, h |-> m.h, key |-> m.type = "block"])
    <3>1. m.type # "rollback"
      BY <1>2
    <3> QED BY <1>2, <2>2, <3>1, Zenon DEF RowApplied
  <2> QED BY <2>1, <2>3, <2>4, <2>5, Zenon
<1>3. CASE m.type = "microblock"
  <2> DEFINE b == Upsert(s, m)
  <2>1. Handle(m, s) = InsertTxs(b, m)
    BY <1>3 DEF Handle
  <2>3. /\ b.blocks = IF Position(s.blocks, m.id) # 0 THEN s.blocks
                      ELSE Append(s.blocks, [id |-> m.id, h |-> m.h, key |-> m.type = "block"])
        /\ b.error = "none" /\ DOMAIN b = DOMAIN s
    BY <1>1, UpsertRows
  <2> HIDE DEF b
  <2>4. InsertTxs(b, m).blocks = b.blocks /\ InsertTxs(b, m).error \in {"none", "unique_violation"}
    BY <1>1, <2>3, InsertRows
  <2>5. RowApplied(s.blocks, m) = IF Position(s.blocks, m.id) # 0 THEN s.blocks
                      ELSE Append(s.blocks, [id |-> m.id, h |-> m.h, key |-> m.type = "block"])
    <3>1. m.type # "rollback" /\ m.type # "block"
      BY <1>3
    <3> QED BY <3>1, Zenon DEF RowApplied
  <2> QED BY <2>1, <2>3, <2>4, <2>5, Zenon
<1>4. CASE m.type = "rollback"
  <2> DEFINE p == Position(s.blocks, m.id)
             nb == SubSeq(s.blocks, 1, p)
             nt == {t \in s.txs : t.at <= p}
  <2>1. Handle(m, s) = [s EXCEPT !.blocks = nb, !.txs = nt]
    BY <1>4 DEF Handle, HandleRollback, RolledBack
  <2>2. RowApplied(s.blocks, m) = nb
    BY <1>4 DEF RowApplied
  <2> HIDE DEF nb, nt
  <2> QED BY <1>1, <2>1, <2>2
<1> QED
  <2>1. m.type \in {"block", "microblock", "rollback"}
    BY DEF Msg
  <2> QED BY <1>2, <1>3, <1>4, <2>1

\* A transaction over messages whose rollbacks name stored rows finds them, and
\* when it succeeds leaves the chain they lead to.
LEMMA FoldRows ==
  ASSUME NEW ms \in Seq(Msg), NEW f, Handled(f, ms), \A i \in 0..Len(ms) : GoodDb(f[i]),
         NEW h, h[0] = blocks,
         \A j \in 1..Len(ms) : /\ h[j] = RowApplied(h[j - 1], ms[j])
                               /\ ms[j].type = "rollback" => Position(h[j - 1], ms[j].id) # 0
  PROVE  /\ HandleUpdates(ms).error # "unknown_block"
         /\ HandleUpdates(ms).error = "none" => HandleUpdates(ms).blocks = h[Len(ms)]
<1> DEFINE S == {i \in 0..Len(ms) : \/ f[i].error = "none" /\ f[i].blocks = h[i]
                                    \/ f[i].error = "unique_violation"}
<1>1. Len(ms) \in Nat
  OBVIOUS
<1>2. 0 \in S
  <2>1. f[0].error = "none" /\ f[0].blocks = h[0]
    BY DEF Handled, Before
  <2> QED BY <1>1, <2>1
<1>3. \A i \in 1..Len(ms) : i - 1 \in S => i \in S
  <2> SUFFICES ASSUME NEW i \in 1..Len(ms), i - 1 \in S PROVE i \in S
    OBVIOUS
  <2>1. f[i] = Handle(ms[i], f[i - 1]) /\ ms[i] \in Msg /\ i - 1 \in 0..Len(ms)
    BY <1>1 DEF Handled
  <2>2. CASE f[i - 1].error = "unique_violation"
    <3>1. f[i] = f[i - 1]
      BY <2>1, <2>2 DEF Handle
    <3> QED BY <1>1, <2>2, <3>1
  <2>3. CASE f[i - 1].error = "none" /\ f[i - 1].blocks = h[i - 1]
    <3>1. f[i - 1] \in Db
      BY <2>1 DEF GoodDb
    <3>2. /\ f[i].blocks = RowApplied(f[i - 1].blocks, ms[i])
          /\ f[i].error \in {"none", "unique_violation"}
      BY <2>1, <2>3, <3>1, HandleRows
    <3>3. f[i].blocks = h[i]
      BY <2>3, <3>2
    <3> QED BY <1>1, <3>2, <3>3
  <2> QED BY <2>2, <2>3
<1>4. \A i \in 0..Len(ms) : i \in S
  <2> HIDE DEF S
  <2> QED BY <1>1, <1>2, <1>3, IntervalInduction
<1>5. Len(ms) \in S
  BY <1>1, <1>4
<1> QED BY <1>5 DEF Handled

----------------------------------------------------------------------------
(* The node.                                                               *)

\* The rows of the node, and where its last key block is.
Rows == Ids(node)
Top == LastKey(node)

NodeOk == /\ node \in Seq(Unit) /\ node # << >> /\ node[1] = FirstBlock
          /\ NodeRows(Rows, liquid, nextId, Top)

LEMMA HeightOfRows ==
  ASSUME NEW c \in Seq(Unit), c # << >>
  PROVE  Height(Ids(c)) = Height(c) /\ Last(Ids(c)).key = Last(c).key /\ Last(Ids(c)).id = Last(c).id
<1> DEFINE b == Ids(c)
<1>1. /\ Len(b) = Len(c) /\ Len(c) \in Nat \ {0} /\ b # << >>
      /\ \A i \in 1..Len(c) : b[i].h = c[i].h /\ b[i].key = c[i].key /\ b[i].id = c[i].id
  BY NodeIds
<1> HIDE DEF b
<1> QED BY <1>1 DEF Height, Last, b

\* A move of the node sends one message: the message leads from its rows to its new rows.
Moves(m) ==
  /\ m \in Msg /\ node' = Applied(node, m) /\ Send(m)
  /\ NodeOk'
  /\ Rows' = RowApplied(Rows, m) /\ Ends(Rows', m)
  /\ m.type = "rollback" => Position(Rows, m.id) # 0
  /\ RowsMoved(Rows, liquid, nextId, Rows', liquid', nextId')
  /\ m.type # "rollback" => RowsKept(Rows, liquid, Rows')
  /\ \A b : /\ Resumes(b, Rows, liquid, Top)
            /\ m.type = "rollback" => KeptIn(b, Len(b), Rows')
            => Resumes(b, Rows', liquid', Top')

LEMMA UnitsMoved ==
  ASSUME NodeOk, NEW m \in Msg, m.type = "rollback" => Position(Rows, m.id) # 0,
         node' = Applied(node, m)
  PROVE  node' \in Seq(Unit) /\ node' # << >> /\ node'[1] = FirstBlock /\ Rows' = RowApplied(Rows, m)
<1>1. /\ node \in Seq(UnitOver(Seq(Nat))) /\ Rows # << >> /\ LastKey(Rows) = Top
      /\ Position(Rows, m.id) = Position(node, m.id) /\ Rows[1].key = node[1].key /\ 1 \in 1..Len(node)
      /\ node # << >> /\ node[1] = FirstBlock
  BY NodeIds DEF NodeOk, Rows, Top
<1>2. node[1].key
  BY DEF NodeOk, FirstBlock
<1>3. Last(node).key \/ LastKey(node) > 1
  <2>1. (Last(Rows).key <=> Top = Len(Rows)) /\ (Top < Len(Rows) => liquid) /\ (liquid => Top > 1)
        /\ Top \in 1..Len(Rows)
    BY NodeRowsFacts DEF NodeOk, NodeRows
  <2>2. Last(Rows).key = Last(node).key
    BY HeightOfRows DEF NodeOk, Rows
  <2>3. Top = LastKey(node)
    BY DEF Top
  <2>4. Len(Rows) \in Nat
    BY NodeIds DEF NodeOk, Rows
  <2> QED BY <2>1, <2>2, <2>3, <2>4
<1> DEFINE T == Seq(Nat)
<1>4. \E V : /\ T \subseteq V /\ (T = Seq(Nat) => V = T)
             /\ Applied(node, m) \in Seq(UnitOver(V)) /\ Ids(Applied(node, m)) = RowApplied(Ids(node), m)
  <2>1. Seq(Nat) \subseteq T
    OBVIOUS
  <2>2. node \in Seq(UnitOver(T))
    BY <1>1
  <2> HIDE DEF T
  <2> QED BY <1>2, <2>1, <2>2, AppliedFacts
<1>5. Applied(node, m) # << >> /\ Applied(node, m)[1] = node[1]
  BY <1>1, <1>2, <1>3, AppliedFirst
<1>6. Applied(node, m) \in Seq(UnitOver(Seq(Nat))) /\ Ids(Applied(node, m)) = RowApplied(Ids(node), m)
  BY <1>4, Zenon
<1>7. UnitOver(Seq(Nat)) = Unit
  BY DEF UnitOver, Unit
<1> QED BY <1>1, <1>5, <1>6, <1>7 DEF Rows

LEMMA NodeFacts ==
  ASSUME NodeOk
  PROVE  /\ Height(node) = Height(Rows) /\ Height(node) \in Nat /\ nextId \in Nat /\ liquid \in BOOLEAN
         /\ Len(Rows) = Len(node) /\ Rows \in Seq(Row) /\ Rows # << >> /\ Len(node) \in Nat
         /\ \A i \in 1..Len(node) : /\ Rows[i].id = node[i].id /\ Rows[i].h = node[i].h
                                    /\ node[i].id \in Nat /\ node[i].h \in Nat
<1>1. /\ Height(Rows) = StartHeight - 1 + Top /\ StartHeight \in Nat \ {0} /\ Top \in 1..Len(Rows)
      /\ nextId \in Nat /\ Rows \in Seq(Row) /\ Len(Rows) \in Nat
      /\ \A i \in 1..Len(Rows) : Rows[i].id \in Nat /\ Rows[i].h \in Nat
  BY NodeRowsFacts DEF NodeOk
<1>2. Height(node) = Height(Rows) /\ Rows # << >>
  BY HeightOfRows, NodeIds DEF NodeOk, Rows
<1>3. Len(Rows) = Len(node) /\ \A i \in 1..Len(node) : Rows[i].id = node[i].id /\ Rows[i].h = node[i].h
  BY NodeIds DEF NodeOk, Rows
<1> QED BY <1>1, <1>2, <1>3 DEF NodeOk, NodeRows

LEMMA MineBlockMoves ==
  ASSUME NodeOk, MineBlock
  PROVE  \E m : Moves(m) /\ m.type = "block" /\ m.id = nextId /\ liquid'
<1> DEFINE m == [type |-> "block", id |-> nextId, h |-> Height(node) + 1, txs |-> <<nextId>>]
<1>1. node' = Applied(node, m) /\ Send(m) /\ liquid' = TRUE /\ nextId' = nextId + 1
  BY DEF MineBlock
<1>2. Height(node) = Height(Rows) /\ Height(node) \in Nat /\ nextId \in Nat
  BY NodeFacts
<1>3. /\ m \in Msg /\ m.type = "block" /\ m.type # "rollback" /\ m.id = nextId /\ m.h = Height(Rows) + 1
  BY <1>2 DEF Msg
<1> HIDE DEF m
<1>4. NodeRows(Rows, liquid, nextId, Top)
  BY DEF NodeOk
<1>5. node' \in Seq(Unit) /\ node' # << >> /\ node'[1] = FirstBlock /\ Rows' = RowApplied(Rows, m)
  BY <1>1, <1>3, UnitsMoved
<1>6. /\ NodeRows(Rows', liquid', nextId + 1, Top + 1)
      /\ RowsMoved(Rows, liquid, nextId, Rows', liquid', nextId + 1)
      /\ RowsKept(Rows, liquid, Rows') /\ Ends(Rows', m)
      /\ \A i \in 1..Top : (liquid => i < Top) => i < Len(Rows') /\ Rows'[i] = Rows[i]
  <2> DEFINE d == RowApplied(Rows, m)
  <2>1. liquid' \in BOOLEAN
    BY <1>1
  <2>2. /\ NodeRows(d, liquid', nextId + 1, Top + 1)
        /\ RowsMoved(Rows, liquid, nextId, d, liquid', nextId + 1)
        /\ RowsKept(Rows, liquid, d) /\ Ends(d, m)
        /\ \A i \in 1..Top : (liquid => i < Top) => i < Len(d) /\ d[i] = Rows[i]
    <3>1. NodeRows(d, liquid', nextId + 1, Top + 1)
      BY <1>3, <1>4, <2>1, RowsMineBlock
    <3>2. RowsMoved(Rows, liquid, nextId, d, liquid', nextId + 1)
      BY <1>3, <1>4, <2>1, RowsMineBlock
    <3>3. RowsKept(Rows, liquid, d) /\ Ends(d, m)
      BY <1>3, <1>4, <2>1, RowsMineBlock
    <3>4. \A i \in 1..Top : (liquid => i < Top) => i < Len(d) /\ d[i] = Rows[i]
      BY <1>3, <1>4, <2>1, RowsMineBlock
    <3> QED BY <3>1, <3>2, <3>3, <3>4
  <2> HIDE DEF d
  <2>3. Rows' = d
    BY <1>5 DEF d
  <2> QED BY <2>2, <2>3, Zenon
<1>7. Top' = Top + 1
  <2>1. LastKey(Rows') = Top + 1
    BY <1>6, NodeRowsFacts
  <2>2. LastKey(Rows') = Top'
    BY <1>5, NodeIds DEF Rows, Top
  <2> QED BY <2>1, <2>2
<1>8. NodeOk'
  BY <1>1, <1>5, <1>6, <1>7 DEF NodeOk
<1>9. ASSUME NEW b, Resumes(b, Rows, liquid, Top) PROVE Resumes(b, Rows', liquid', Top')
  <2>1. Top \in 1..Len(Rows) /\ Len(Rows) \in Nat
    BY <1>4, NodeRowsFacts
  <2>2. Len(b) \in 0..Top /\ (liquid => Len(b) < Top)
    BY <1>9 DEF Resumes
  <2>3. \A i \in 1..Len(b) : Rows'[i] = Rows[i]
    <3> SUFFICES ASSUME NEW i \in 1..Len(b) PROVE Rows'[i] = Rows[i]
      OBVIOUS
    <3>1. i \in 1..Top /\ (liquid => i < Top)
      BY <2>1, <2>2
    <3> QED BY <1>6, <3>1
  <2>4. Len(b) <= Top + 1 /\ Len(b) < Top + 1
    BY <2>1, <2>2
  <2>5. Resumes(b, Rows', liquid', Top + 1)
    BY <1>4, <1>6, <1>9, <2>3, <2>4, ResumesMoved
  <2> QED BY <1>1, <1>7, <2>5
<1>10. Moves(m)
  BY <1>1, <1>3, <1>5, <1>6, <1>8, <1>9 DEF Moves
<1> QED BY <1>1, <1>3, <1>10

LEMMA MineMicroblockMoves ==
  ASSUME NodeOk, MineMicroblock
  PROVE  \E m : Moves(m) /\ m.type = "microblock" /\ m.id = nextId /\ liquid /\ liquid'
<1> DEFINE m == [type |-> "microblock", id |-> nextId, h |-> Height(node), txs |-> <<nextId>>]
<1>1. node' = Applied(node, m) /\ Send(m) /\ liquid' = liquid /\ nextId' = nextId + 1 /\ liquid
  BY DEF MineMicroblock
<1>2. Height(node) = Height(Rows) /\ Height(node) \in Nat /\ nextId \in Nat
  BY NodeFacts
<1>3. /\ m \in Msg /\ m.type = "microblock" /\ m.type # "rollback" /\ m.id = nextId /\ m.h = Height(Rows)
  BY <1>2 DEF Msg
<1> HIDE DEF m
<1>4. NodeRows(Rows, liquid, nextId, Top)
  BY DEF NodeOk
<1>5. node' \in Seq(Unit) /\ node' # << >> /\ node'[1] = FirstBlock /\ Rows' = RowApplied(Rows, m)
  BY <1>1, <1>3, UnitsMoved
<1>6. /\ NodeRows(Rows', liquid, nextId + 1, Top)
      /\ RowsMoved(Rows, liquid, nextId, Rows', liquid, nextId + 1)
      /\ RowsKept(Rows, liquid, Rows') /\ Ends(Rows', m)
      /\ \A i \in 1..Len(Rows) : i < Len(Rows') /\ Rows'[i] = Rows[i]
  BY <1>1, <1>3, <1>4, <1>5, RowsMineMicroblock
<1>7. Top' = Top
  <2>1. LastKey(Rows') = Top
    BY <1>6, NodeRowsFacts
  <2>2. LastKey(Rows') = Top'
    BY <1>5, NodeIds DEF Rows, Top
  <2> QED BY <2>1, <2>2
<1>8. NodeOk'
  BY <1>1, <1>5, <1>6, <1>7 DEF NodeOk
<1>9. ASSUME NEW b, Resumes(b, Rows, liquid, Top) PROVE Resumes(b, Rows', liquid', Top')
  <2>1. Top \in 1..Len(Rows) /\ Len(Rows) \in Nat
    BY <1>4, NodeRowsFacts
  <2>2. Len(b) \in 0..Top /\ (liquid => Len(b) < Top)
    BY <1>9 DEF Resumes
  <2>3. \A i \in 1..Len(b) : Rows'[i] = Rows[i]
    BY <1>6, <2>1, <2>2
  <2>4. Len(b) <= Top
    BY <2>1, <2>2
  <2>5. Resumes(b, Rows', liquid, Top)
    BY <1>4, <1>6, <1>9, <2>2, <2>3, <2>4, ResumesMoved
  <2> QED BY <1>1, <1>7, <2>5
<1>10. Moves(m)
  BY <1>1, <1>3, <1>5, <1>6, <1>8, <1>9 DEF Moves
<1> QED BY <1>1, <1>3, <1>10

LEMMA ReorganiseMoves ==
  ASSUME NodeOk, Reorganise
  PROVE  \E m : Moves(m) /\ m.type = "rollback" /\ (liquid' => liquid /\ m.h = Height(node))
<1>1. PICK p \in 1..(Len(node) - 1) :
        LET m == [type |-> "rollback", id |-> node[p].id, h |-> node[p].h, txs |-> << >>]
        IN  /\ node' = Applied(node, m) /\ liquid' = (liquid /\ m.h = Height(node)) /\ Send(m)
  BY DEF Reorganise
<1> DEFINE m == [type |-> "rollback", id |-> node[p].id, h |-> node[p].h, txs |-> << >>]
           l == IF p <= Top THEN p ELSE Top
<1>2. /\ Height(node) = Height(Rows) /\ p \in 1..Len(Rows) /\ node[p].id \in Nat /\ node[p].h \in Nat
      /\ Rows[p].id = node[p].id /\ Rows[p].h = node[p].h /\ nextId' = nextId
  BY NodeFacts DEF Reorganise
<1>3. m \in Msg /\ m.type = "rollback" /\ m.id = Rows[p].id /\ m.h = Rows[p].h
  BY <1>2 DEF Msg
<1>4. node' = Applied(node, m) /\ liquid' = (liquid /\ m.h = Height(Rows)) /\ Send(m)
  BY <1>1, <1>2
<1> HIDE DEF m
<1>5. NodeRows(Rows, liquid, nextId, Top)
  BY DEF NodeOk
<1>6. /\ RowApplied(Rows, m) = SubSeq(Rows, 1, p)
      /\ NodeRows(RowApplied(Rows, m), liquid', nextId, l)
      /\ RowsMoved(Rows, liquid, nextId, RowApplied(Rows, m), liquid', nextId)
      /\ Ends(RowApplied(Rows, m), m) /\ Position(Rows, m.id) = p
      /\ Len(RowApplied(Rows, m)) = p /\ \A i \in 1..p : RowApplied(Rows, m)[i] = Rows[i]
  BY <1>2, <1>3, <1>4, <1>5, RowsReorganise
<1>7. node' \in Seq(Unit) /\ node' # << >> /\ node'[1] = FirstBlock /\ Rows' = RowApplied(Rows, m)
  <2>1. Position(Rows, m.id) # 0
    BY <1>2, <1>6
  <2> QED BY <1>3, <1>4, <2>1, UnitsMoved
<1>8. Top' = l
  <2>1. LastKey(Rows') = l
    BY <1>6, <1>7, NodeRowsFacts
  <2>2. LastKey(Rows') = Top'
    BY <1>7, NodeIds DEF Rows, Top
  <2> QED BY <2>1, <2>2
<1> HIDE DEF l
<1>9. NodeOk'
  BY <1>2, <1>6, <1>7, <1>8 DEF NodeOk
<1>10. ASSUME NEW b, Resumes(b, Rows, liquid, Top), KeptIn(b, Len(b), Rows')
       PROVE  Resumes(b, Rows', liquid', Top')
  <2>1. /\ Top \in 1..Len(Rows) /\ Len(Rows) \in Nat /\ StartHeight \in Nat \ {0}
        /\ ShapeAt(Rows, Top) /\ Height(Rows) = StartHeight - 1 + Top
        /\ \A i, j \in 1..Len(Rows) : Rows[i].id = Rows[j].id => i = j
    BY <1>5, NodeRowsFacts DEF NodeRows
  <2>2. Len(b) \in 0..Top /\ (liquid => Len(b) < Top)
    BY <1>10 DEF Resumes
  <2>3. \A i \in 1..Len(b) : i \in 1..Len(Rows) /\ b[i] = Rows[i]
    BY <1>5, <1>10, ResumesKept
  <2>4. Len(b) <= p
    <3>1. CASE Len(b) = 0
      BY <1>2, <3>1
    <3>2. CASE Len(b) # 0
      <4>1. Len(b) \in 1..Len(b)
        BY <2>1, <2>2, <3>2
      <4>2. PICK j \in 1..Len(Rows') : Rows'[j].id = b[Len(b)].id
        BY <1>10, <4>1 DEF KeptIn
      <4>3. j \in 1..p /\ Rows'[j] = Rows[j]
        BY <1>6, <1>7, <4>2
      <4>4. j \in 1..Len(Rows) /\ Rows[j].id = Rows[Len(b)].id
        BY <1>2, <2>1, <2>3, <4>1, <4>2, <4>3
      <4>5. j = Len(b)
        BY <2>1, <2>3, <4>1, <4>4
      <4> QED BY <4>3, <4>5
    <3> QED BY <3>1, <3>2
  <2>5. Len(b) <= l /\ (liquid' => Len(b) < l)
    <3>1. Len(b) <= l
      BY <1>2, <2>1, <2>2, <2>4 DEF l
    <3>2. ASSUME liquid' PROVE Len(b) < l
      <4>1. liquid /\ Rows[p].h = Height(Rows)
        BY <1>3, <1>4, <3>2
      <4>2. Rows[p].h = StartHeight - 1 + l
        BY <1>2, <2>1 DEF ShapeAt, l
      <4>3. l \in Nat
        BY <1>2, <2>1 DEF l
      <4>4. l = Top
        BY <2>1, <4>1, <4>2, <4>3
      <4> QED BY <2>2, <4>1, <4>4
    <3> QED BY <3>1, <3>2
  <2>6. \A i \in 1..Len(b) : Rows'[i] = Rows[i]
    BY <1>2, <1>6, <1>7, <2>1, <2>2, <2>4
  <2>7. NodeRows(Rows', liquid', nextId, l)
    BY <1>6, <1>7
  <2>8. Resumes(b, Rows', liquid', l)
    BY <1>5, <1>10, <2>5, <2>6, <2>7, ResumesMoved
  <2> QED BY <1>8, <2>8
<1>11. Moves(m)
  <2>1. Position(Rows, m.id) # 0
    BY <1>2, <1>6
  <2>2. RowsMoved(Rows, liquid, nextId, Rows', liquid', nextId')
    BY <1>2, <1>6, <1>7
  <2> QED BY <1>3, <1>4, <1>6, <1>7, <1>9, <1>10, <2>1, <2>2 DEF Moves
<1> QED BY <1>2, <1>3, <1>4, <1>11

----------------------------------------------------------------------------
(* Types, and what a process starts from.                                  *)

\* A process that is not subscribed has nothing in memory.
MemoryOk ==
  /\ ~Subscribed => /\ wire = << >> /\ batch = << >> /\ chan = << >> /\ work = << >>
                    /\ gen = NewGenerator /\ events = << >> /\ metric = 0 /\ full = FALSE
  /\ pc \in {"txn", "store"} <=> work # << >>

\* The database holds the first block, with its transaction, or no block.
DbOk == GoodDb(Before)

\* A process without blocks, or that is sent the blocks it holds again, has
\* written nothing: the block at StartHeight is still in flight.
StreamOk ==
  /\ resent => blocks # << >>
  /\ pc = "connect" /\ (resent \/ blocks = << >>) => from = StartHeight
  /\ Subscribed /\ (resent \/ blocks = << >>) =>
       pc \in {"recv", "txn"} /\ gen = NewGenerator /\ InFlight # << >> /\ Opening(InFlight[1])

Base == TypeOK /\ NodeOk /\ MemoryOk /\ DbOk /\ StreamOk

LEMMA Frames ==
  ASSUME Base
  PROVE  /\ wire \in Seq(Msg) /\ batch \in Seq(Msg) /\ chan \in Seq(Msg) /\ work \in Seq(Msg)
         /\ pc \in States /\ resent \in BOOLEAN /\ stray \in BOOLEAN
BY DEF Base, TypeOK

\* What is left of the type invariant by a step that leaves the node alone.
LEMMA MoveTypes ==
  ASSUME Base, NEW m, Moves(m),
         UNCHANGED <<memVars, pc, from, dbVars, redis, error, resent, crashes>>,
         stray' \in BOOLEAN, reorgs' \in 0..MaxReorgs, resends' = resends
  PROVE  TypeOK'
<1>1. node' \in Seq(Unit) /\ liquid' \in BOOLEAN /\ nextId' \in Nat
  BY DEF Moves, NodeOk, NodeRows
<1>2. wire' \in Seq(Msg)
  BY Frames DEF Moves, Send
<1>3. TypeOK
  BY DEF Base
<1> QED BY <1>1, <1>2, <1>3 DEF TypeOK, memVars, dbVars

LEMMA SendAgainTypes ==
  ASSUME Base, SendAgain
  PROVE  TypeOK'
<1>1. Last(node) \in Unit
  BY NodeFacts DEF Base, NodeOk, Last
<1>2. wire' \in Seq(Msg)
  BY <1>1, Frames, MsgOfUnit DEF SendAgain
<1>3. resends' \in 0..MaxResends
  <2>1. resends < MaxResends /\ resends' = resends + 1
    BY DEF SendAgain
  <2>2. resends \in 0..MaxResends
    BY DEF Base, TypeOK
  <2>3. MaxResends \in Nat
    BY ConsumerAssumption
  <2> QED BY <2>1, <2>2, <2>3
<1>4. TypeOK
  BY DEF Base
<1> QED BY <1>2, <1>3, <1>4 DEF TypeOK, SendAgain, memVars, dbVars

LEMMA FlowTypes ==
  ASSUME Base, Receive \/ SendBatch \/ TakeBatch \/ StoreMetric \/ Publish \/ EndBatch
  PROVE  TypeOK'
<1>0. TypeOK
  BY DEF Base
<1>1. ASSUME Receive PROVE TypeOK'
  <2>1. Head(wire) \in Msg /\ Tail(wire) \in Seq(Msg)
    BY <1>1, Frames DEF Receive
  <2>2. batch' \in Seq(Msg) /\ wire' \in Seq(Msg)
    BY <1>1, <2>1, Frames DEF Receive
  <2>3. full' \in BOOLEAN
    BY <1>1, Zenon DEF Receive
  <2> QED BY <1>0, <1>1, <2>2, <2>3 DEF TypeOK, Receive, nodeVars, dbVars
<1>2. ASSUME SendBatch PROVE TypeOK'
  BY <1>0, <1>2 DEF TypeOK, SendBatch, nodeVars, dbVars
<1>3. ASSUME TakeBatch PROVE TypeOK'
  BY <1>0, <1>3 DEF TypeOK, TakeBatch, nodeVars, dbVars, States
<1>4. ASSUME StoreMetric PROVE TypeOK'
  <2>1. work # << >> /\ work \in Seq(Msg)
    BY <1>4, Frames DEF Base, MemoryOk, StoreMetric
  <2>2. Last(work) \in Msg
    BY <2>1 DEF Last
  <2>3. metric' \in Nat
    BY <1>4, <2>2 DEF StoreMetric, Msg
  <2> QED BY <1>0, <1>4, <2>3 DEF TypeOK, StoreMetric, nodeVars, dbVars, States
<1>5. ASSUME Publish PROVE TypeOK'
  <2>1. events # << >> /\ events \in Seq(Nat) /\ redis \subseteq Nat
    BY <1>0, <1>5 DEF TypeOK, Publish
  <2>2. Head(events) \in Nat /\ Tail(events) \in Seq(Nat)
    BY <2>1
  <2>3. events' \in Seq(Nat) /\ redis' \subseteq Nat
    BY <1>5, <2>1, <2>2 DEF Publish
  <2> QED BY <1>0, <1>5, <2>3 DEF TypeOK, Publish, nodeVars, dbVars
<1>6. ASSUME EndBatch PROVE TypeOK'
  BY <1>0, <1>6 DEF TypeOK, EndBatch, memVars, nodeVars, dbVars, States
<1> QED BY <1>1, <1>2, <1>3, <1>4, <1>5, <1>6

\* The database before a transaction, when it holds blocks.
LEMMA DbFacts ==
  ASSUME Base
  PROVE  /\ blocks \in Seq(Row) /\ txs \in SUBSET TxRow /\ \A t \in txs : t.at \in 1..Len(blocks)
         /\ blocks # << >> => blocks[1].key /\ \E t \in txs : t.uid = FirstUid /\ t.at = 1
<1>1. GoodDb(Before)
  BY DEF Base, DbOk
<1> QED BY <1>1 DEF GoodDb, Db, Begun, Before

LEMMA GoodTypes ==
  ASSUME NEW b, NEW x, NEW g, NEW ev, NEW er,
         GoodDb([blocks |-> b, txs |-> x, gen |-> g, events |-> ev, error |-> er])
  PROVE  /\ b \in Seq(Row) /\ x \subseteq [uid : Nat, tx : Nat, at : DOMAIN b]
         /\ g \in [height : Nat, id : Nat] /\ ev \in Seq(Nat)
<1>1. b \in Seq(Row) /\ x \in SUBSET TxRow /\ g \in [height : Nat, id : Nat] /\ ev \in Seq(Nat)
      /\ \A t \in x : t.at \in DOMAIN b
  BY DEF GoodDb, Db
<1>2. x \subseteq [uid : Nat, tx : Nat, at : DOMAIN b]
  <2> SUFFICES ASSUME NEW t \in x PROVE t \in [uid : Nat, tx : Nat, at : DOMAIN b]
    OBVIOUS
  <2>1. t \in TxRow /\ t.at \in DOMAIN b
    BY <1>1
  <2> QED BY <2>1 DEF TxRow
<1> QED BY <1>1, <1>2

----------------------------------------------------------------------------
(* Start, subscription, transaction and end of a process.                  *)

LEMMA RollbackHeightsBelow ==
  ASSUME NEW cur \in Nat, NEW h \in RollbackHeights(cur)
  PROVE  h \in Nat /\ (h < cur \/ h = 0)
<1> DEFINE step == IF Step < Depth THEN Step ELSE Depth
           first == IF cur > step THEN cur - step ELSE 0
           final == IF cur > Depth THEN cur - Depth ELSE 0
<1>1. Step \in Nat \ {0} /\ Depth \in Nat \ {0}
  BY ConsumerAssumption
<1>2. step \in Nat \ {0}
  BY <1>1
<1>3. first \in Nat /\ final \in Nat /\ (first < cur \/ first = 0) /\ (final < cur \/ final = 0)
  BY <1>1, <1>2
<1>4. h = final \/ h \in (final + 1)..first
  BY DEF RollbackHeights
<1> HIDE DEF step, first, final
<1> QED BY <1>3, <1>4

\* The last row of rows that never go down is the highest.
LEMMA CurrentHeightIsLast ==
  ASSUME NEW c \in Seq(Row), \A i, j \in 1..Len(c) : i <= j => c[i].h <= c[j].h
  PROVE  CurrentHeight(c) = Height(c)
<1>1. CASE c = << >>
  BY <1>1 DEF CurrentHeight, Height
<1>2. CASE c # << >>
  <2> DEFINE H == {c[i].h : i \in DOMAIN c}
             v == c[Len(c)].h
  <2>1. DOMAIN c = 1..Len(c) /\ Len(c) \in 1..Len(c) /\ \A i \in 1..Len(c) : c[i].h \in Nat
    BY <1>2, RowFields
  <2>2. v \in H /\ \A x \in H : x \in Nat /\ v >= x
    BY <2>1
  <2> HIDE DEF H, v
  <2>3. Max(H) \in H /\ \A x \in H : Max(H) >= x
    BY <2>2 DEF Max
  <2>4. Max(H) = v
    BY <2>2, <2>3
  <2> QED BY <1>2, <2>4 DEF CurrentHeight, Height, Last, H, v
<1> QED BY <1>1, <1>2

LEMMA RollbackRowsFacts ==
  ASSUME blocks \in Seq(Row), RollbackRows # {}
  PROVE  /\ Min(RollbackRows) \in 1..Len(blocks) /\ blocks[Min(RollbackRows)].h \in Nat
         /\ blocks[Min(RollbackRows)].h \in RollbackHeights(CurrentHeight(blocks))
<1> DEFINE I == RollbackRows
<1>1. I \in SUBSET (1..Len(blocks)) /\ Len(blocks) \in Nat
  BY DEF RollbackRows
<1>2. \A i \in I : blocks[i].h \in RollbackHeights(CurrentHeight(blocks))
  BY DEF RollbackRows
<1>3. Min(I) \in I
  BY <1>1, LeastIndex
<1> HIDE DEF I
<1> QED BY <1>1, <1>2, <1>3, RowFields DEF I

\* The two ways to start.
StartEmpty ==
  /\ RollbackRows = {} /\ from' = StartHeight /\ UNCHANGED dbVars
  /\ resent' = (blocks # << >>)

StartAt(p) ==
  /\ RollbackRows # {} /\ p = Min(RollbackRows)
  /\ p \in 1..Len(blocks) /\ blocks[p].h \in Nat
  /\ blocks' = SubSeq(blocks, 1, p) /\ txs' = {t \in txs : t.at <= p}
  /\ from' = blocks[p].h + 1 /\ resent' = FALSE

LEMMA StartCases ==
  ASSUME Base, Start
  PROVE  StartEmpty \/ \E p : StartAt(p)
<1>1. blocks \in Seq(Row)
  BY DbFacts
<1>2. CASE RollbackRows = {}
  BY <1>2 DEF Start, StartEmpty
<1>3. CASE RollbackRows # {}
  <2> DEFINE p == Min(RollbackRows)
             s == RolledBack([blocks |-> blocks, txs |-> txs], p)
  <2>1. blocks' = s.blocks /\ txs' = s.txs /\ from' = blocks[p].h + 1 /\ resent' = FALSE
    BY <1>3 DEF Start
  <2>2. s.blocks = SubSeq(blocks, 1, p) /\ s.txs = {t \in txs : t.at <= p}
    BY DEF RolledBack
  <2>3. p \in 1..Len(blocks) /\ blocks[p].h \in Nat
    BY <1>1, <1>3, RollbackRowsFacts
  <2> HIDE DEF s
  <2>4. StartAt(p)
    BY <1>3, <2>1, <2>2, <2>3 DEF StartAt
  <2> QED BY <2>4
<1> QED BY <1>2, <1>3

LEMMA StartDb ==
  ASSUME Base, Start
  PROVE  DbOk' /\ TypeOK'
<1>1. blocks \in Seq(Row) /\ txs \in SUBSET TxRow /\ \A t \in txs : t.at \in 1..Len(blocks)
  BY DbFacts
<1>2. GoodDb(Before) /\ TypeOK
  BY DEF Base, DbOk
<1>3. gen' = gen /\ pc' = "connect" /\ error' = "none"
      /\ UNCHANGED <<nodeVars, wire, memVars, redis, stray, crashes>>
  BY DEF Start, memVars
<1>4. CASE StartEmpty
  <2>1. blocks' = blocks /\ txs' = txs /\ resent' \in BOOLEAN /\ from' \in Nat
    BY <1>4, ConsumerAssumption DEF StartEmpty, dbVars
  <2>2. DbOk'
    BY <1>2, <1>3, <2>1 DEF DbOk, Before
  <2> QED BY <1>2, <1>3, <2>1, <2>2 DEF TypeOK, nodeVars, memVars, States, Errors
<1>5. CASE \E p : StartAt(p)
  <2>1. PICK p : StartAt(p)
    BY <1>5
  <2> DEFINE nb == SubSeq(blocks, 1, p)
             nt == {t \in txs : t.at <= p}
  <2>2. p \in 1..Len(blocks) /\ blocks' = nb /\ txs' = nt /\ from' \in Nat /\ resent' = FALSE
    BY <2>1 DEF StartAt
  <2>3. nb \in Seq(Row) /\ Len(nb) = p /\ \A i \in 1..p : nb[i] = blocks[i]
    BY <1>1, <2>2, Prefix
  <2>4. nt \in SUBSET TxRow /\ \A t \in nt : t.at \in 1..p
    BY <1>1
  <2>5. blocks[1].key /\ \E t \in nt : t.uid = FirstUid /\ t.at = 1
    BY <1>1, <2>2, DbFacts
  <2> HIDE DEF nb, nt
  <2>6. nb # << >> /\ DOMAIN nb = 1..p /\ nb[1].key
    BY <1>1, <2>2, <2>3, <2>5
  <2> DEFINE s == [blocks |-> nb, txs |-> nt, gen |-> gen, events |-> << >>, error |-> "none"]
  <2>7. s \in Db
    <3>1. gen \in [height : Nat, id : Nat]
      BY <1>2 DEF TypeOK
    <3>2. << >> \in Seq(Nat) /\ "none" \in Errors
      BY DEF Errors
    <3> QED BY <2>3, <2>4, <3>1, <3>2 DEF Db
  <2>8. GoodDb(s)
    BY <2>4, <2>5, <2>6, <2>7 DEF GoodDb, Begun
  <2>9. Before' = s
    BY <1>3, <2>2 DEF Before
  <2>10. DbOk'
    <3> HIDE DEF s
    <3> QED BY <2>8, <2>9 DEF DbOk
  <2>11. nb \in Seq(Row) /\ nt \subseteq [uid : Nat, tx : Nat, at : DOMAIN nb]
    BY <2>8, GoodTypes
  <2>12. TypeOK'
    BY <1>2, <1>3, <2>2, <2>11 DEF TypeOK, nodeVars, memVars, States, Errors
  <2> QED BY <2>10, <2>12
<1> QED BY <1>4, <1>5, StartCases

LEMMA HistoryMsgs ==
  ASSUME NEW c \in Seq(Unit), NEW h
  PROVE  History(c, h) \in Seq(Msg)
<1> DEFINE first == SelectInSeq(c, LAMBDA u : u.h >= h)
           I == {i \in 1..Len(c) : c[i].h >= h}
           n == Len(c) - first + 1
<1>1. History(c, h) = IF first = 0 THEN << >> ELSE [i \in 1..n |-> AppendMsg(c[first + i - 1])]
  BY DEF History
<1>2. first = IF I # {} THEN Min(I) ELSE 0
  BY DEF SelectInSeq
<1>3. I # {} => Min(I) \in I
  <2>1. I \in SUBSET (1..Len(c)) /\ Len(c) \in Nat
    OBVIOUS
  <2> HIDE DEF I
  <2> QED BY <2>1, LeastIndex
<1>4. first = 0 \/ first \in 1..Len(c)
  BY <1>2, <1>3
<1> HIDE DEF first
<1>5. CASE first = 0
  BY <1>1, <1>5
<1>6. CASE first \in 1..Len(c)
  <2>1. n \in Nat /\ \A i \in 1..n : first + i - 1 \in 1..Len(c)
    BY <1>6
  <2>2. \A i \in 1..n : AppendMsg(c[first + i - 1]) \in Msg
    BY <2>1, MsgOfUnit
  <2>3. first # 0
    BY <1>6
  <2> HIDE DEF n
  <2> QED BY <1>1, <2>1, <2>2, <2>3
<1> QED BY <1>4, <1>5, <1>6

LEMMA ConnectTypes ==
  ASSUME Base, Connect
  PROVE  TypeOK'
<1>1. TypeOK
  BY DEF Base
<1>2. wire' \in Seq(Msg)
  BY HistoryMsgs DEF Base, NodeOk, Connect
<1> QED BY <1>1, <1>2 DEF TypeOK, Connect, nodeVars, memVars, dbVars, States

\* A stopped process: what is in the database stays.
LEMMA StopTypes ==
  ASSUME Base, Stop, UNCHANGED <<nodeVars, from, dbVars, redis, resent>>, error' \in Errors,
         crashes' \in 0..MaxCrashes
  PROVE  TypeOK' /\ MemoryOk' /\ DbOk' /\ StreamOk'
<1>1. TypeOK
  BY DEF Base
<1>2. gen' \in [height : Nat, id : Nat] /\ stray' \in BOOLEAN
  BY Frames DEF Stop, NewGenerator
<1>3. TypeOK'
  <2>0. pc' = "down" /\ full' = FALSE /\ wire' = << >> /\ batch' = << >> /\ chan' = << >> /\ work' = << >>
        /\ events' = << >> /\ metric' = 0
    BY DEF Stop
  <2>3. << >> \in Seq(Msg) /\ << >> \in Seq(Nat) /\ "down" \in States
    BY DEF States
  <2>1. /\ pc' \in States /\ full' \in BOOLEAN /\ {wire', batch', chan', work'} \subseteq Seq(Msg)
        /\ events' \in Seq(Nat) /\ metric' \in Nat
    BY <2>0, <2>3
  <2>2. UNCHANGED <<node, liquid, nextId, reorgs, resends, from, blocks, txs, redis, resent>>
    BY DEF nodeVars, dbVars
  <2> QED BY <1>1, <1>2, <2>1, <2>2 DEF TypeOK
<1>4. MemoryOk'
  BY DEF MemoryOk, Stop, Subscribed
<1>5. StreamOk'
  BY DEF StreamOk, Stop, Subscribed, Base, dbVars
<1>6. DbOk'
  <2>1. Before' = [Before EXCEPT !.gen = NewGenerator]
    BY DEF Before, Stop, dbVars
  <2>2. GoodDb(Before) /\ Before.gen \in [height : Nat, id : Nat]
    BY <1>1 DEF Base, DbOk, TypeOK, Before
  <2>3. NewGenerator \in [height : Nat, id : Nat]
    BY DEF NewGenerator
  <2> DEFINE s == Before'
  <2>4. /\ s.blocks = blocks /\ s.txs = txs /\ s.gen = NewGenerator /\ s.events = << >> /\ s.error = "none"
        /\ s = [blocks |-> blocks, txs |-> txs, gen |-> NewGenerator, events |-> << >>, error |-> "none"]
    BY DEF Before, Stop, dbVars
  <2>5. s \in Db
    <3>1. blocks \in Seq(Row) /\ txs \in SUBSET TxRow
      BY DbFacts
    <3>2. << >> \in Seq(Nat) /\ "none" \in Errors
      BY DEF Errors
    <3> HIDE DEF s
    <3> QED BY <2>3, <2>4, <3>1, <3>2 DEF Db
  <2> HIDE DEF s
  <2>6. GoodDb(s)
    BY <2>2, <2>4, <2>5 DEF GoodDb, Begun, Before
  <2> QED BY <2>6 DEF DbOk, s
<1> QED BY <1>3, <1>4, <1>5, <1>6

----------------------------------------------------------------------------
(* What is in flight.                                                      *)

LEMMA ConcatAppend ==
  ASSUME NEW S, NEW a \in Seq(S), NEW b \in Seq(S), NEW x \in S
  PROVE  Append(a, x) \in Seq(S) /\ a \o Append(b, x) = Append(a \o b, x)
OBVIOUS

LEMMA ConcatHead ==
  ASSUME NEW S, NEW a \in Seq(S), NEW b \in Seq(S), b # << >>
  PROVE  Append(a, Head(b)) \o Tail(b) = a \o b
<1> DEFINE l == Append(a, Head(b)) \o Tail(b)
           r == a \o b
<1>1. Head(b) \in S /\ Head(b) = b[1] /\ Tail(b) \in Seq(S) /\ Len(Tail(b)) = Len(b) - 1
      /\ \A i \in 1..(Len(b) - 1) : Tail(b)[i] = b[i + 1]
  OBVIOUS
<1>2. Append(a, Head(b)) \in Seq(S) /\ Len(Append(a, Head(b))) = Len(a) + 1
      /\ \A i \in 1..(Len(a) + 1) : Append(a, Head(b))[i] = IF i <= Len(a) THEN a[i] ELSE b[1]
  BY <1>1
<1>3. l \in Seq(S) /\ r \in Seq(S) /\ Len(l) = Len(a) + Len(b) /\ Len(r) = Len(a) + Len(b)
  BY <1>1, <1>2
<1>4. \A i \in 1..(Len(a) + Len(b)) : l[i] = r[i]
  BY <1>1, <1>2
<1> HIDE DEF l, r
<1>5. l = r
  BY <1>3, <1>4
<1> QED BY <1>5 DEF l, r

\* The parts of what is in flight, and of a transaction what follows it.
Queue == ((<< >> \o chan) \o batch) \o wire

LEMMA InFlightFacts ==
  ASSUME Base
  PROVE  /\ Queue \in Seq(Msg) /\ InFlight \in Seq(Msg)
         /\ Queue = (chan \o batch) \o wire
         /\ pc \notin {"connect", "txn"} => InFlight = Queue
         /\ pc = "connect" => InFlight = History(node, from)
         /\ pc = "txn" => InFlight = work \o Queue
         /\ pc = "down" => InFlight = << >>
<1>1. /\ wire \in Seq(Msg) /\ batch \in Seq(Msg) /\ chan \in Seq(Msg) /\ work \in Seq(Msg)
  BY Frames
<1>2. << >> \o chan = chan
  BY <1>1
<1>3. Queue = (chan \o batch) \o wire
  BY <1>2 DEF Queue
<1>4. chan \o batch \in Seq(Msg) /\ (chan \o batch) \o wire \in Seq(Msg)
  BY <1>1
<1>5. pc \notin {"connect", "txn"} => InFlight = Queue
  BY DEF InFlight, Queue
<1>6. pc = "connect" => InFlight = History(node, from)
  BY DEF InFlight
<1>7. pc = "txn" => InFlight = ((work \o chan) \o batch) \o wire
  BY DEF InFlight
<1>8. ((work \o chan) \o batch) \o wire = work \o ((chan \o batch) \o wire)
  <2>1. \A a, b, c \in Seq(Msg) : (a \o b) \o c = a \o (b \o c)
    BY ConcatAssociative
  <2>2. (work \o chan) \o batch = work \o (chan \o batch)
    BY <1>1, <2>1
  <2>3. (work \o (chan \o batch)) \o wire = work \o ((chan \o batch) \o wire)
    BY <1>1, <1>4, <2>1
  <2> QED BY <2>2, <2>3
<1>9. History(node, from) \in Seq(Msg)
  BY HistoryMsgs DEF Base, NodeOk
<1>10. work \o Queue \in Seq(Msg)
  BY <1>1, <1>3, <1>4
<1>11. ASSUME pc = "down" PROVE InFlight = << >>
  <2>1. chan = << >> /\ batch = << >> /\ wire = << >>
    BY <1>11 DEF Base, MemoryOk, Subscribed
  <2>2. InFlight = Queue
    BY <1>5, <1>11
  <2> QED BY <2>1, <2>2 DEF Queue
<1>12. Queue \in Seq(Msg)
  BY <1>3, <1>4
<1>13. pc = "txn" => InFlight = work \o Queue
  BY <1>3, <1>7, <1>8
<1>14. InFlight \in Seq(Msg)
  BY <1>5, <1>6, <1>9, <1>10, <1>12, <1>13
<1> QED BY <1>3, <1>5, <1>6, <1>11, <1>12, <1>13, <1>14

\* A message that is passed on, inside the process, stays in flight.
LEMMA FlowKeeps ==
  ASSUME Base, Receive \/ SendBatch \/ TakeBatch \/ StoreMetric \/ Publish \/ EndBatch
  PROVE  InFlight' = InFlight
<1>0. wire \in Seq(Msg) /\ batch \in Seq(Msg) /\ chan \in Seq(Msg) /\ work \in Seq(Msg)
      /\ chan \o batch \in Seq(Msg)
  BY Frames
<1>1. ASSUME Receive PROVE InFlight' = InFlight
  <2>1. /\ wire # << >> /\ batch' = Append(batch, Head(wire)) /\ wire' = Tail(wire)
        /\ chan' = chan /\ work' = work /\ pc' = pc /\ pc # "connect"
    BY <1>1 DEF Receive, Subscribed
  <2> DEFINE X == (IF pc = "txn" THEN work ELSE << >>) \o chan
  <2>2. X \in Seq(Msg) /\ Head(wire) \in Msg /\ Tail(wire) \in Seq(Msg)
    BY <1>0, <2>1
  <2>3. InFlight = (X \o batch) \o wire
    BY <2>1 DEF InFlight
  <2>4. InFlight' = (X \o Append(batch, Head(wire))) \o Tail(wire)
    BY <2>1 DEF InFlight
  <2> HIDE DEF X
  <2>5. X \o Append(batch, Head(wire)) = Append(X \o batch, Head(wire)) /\ X \o batch \in Seq(Msg)
    BY <1>0, <2>2, ConcatAppend
  <2>6. Append(X \o batch, Head(wire)) \o Tail(wire) = (X \o batch) \o wire
    BY <1>0, <2>1, <2>5, ConcatHead
  <2> QED BY <2>3, <2>4, <2>5, <2>6
<1>2. ASSUME SendBatch PROVE InFlight' = InFlight
  <2>1. /\ chan = << >> /\ chan' = batch /\ batch' = << >> /\ wire' = wire
        /\ work' = work /\ pc' = pc /\ pc # "connect"
    BY <1>2 DEF SendBatch, Subscribed
  <2> DEFINE X == IF pc = "txn" THEN work ELSE << >>
  <2>2. X \in Seq(Msg)
    BY <1>0
  <2>3. InFlight = ((X \o << >>) \o batch) \o wire
    BY <2>1 DEF InFlight
  <2>4. InFlight' = ((X \o batch) \o << >>) \o wire
    BY <2>1 DEF InFlight
  <2> HIDE DEF X
  <2>5. X \o << >> = X /\ X \o batch \in Seq(Msg)
    BY <1>0, <2>2
  <2>6. (X \o batch) \o << >> = X \o batch
    BY <2>5
  <2> QED BY <2>3, <2>4, <2>5, <2>6
<1>3. ASSUME TakeBatch PROVE InFlight' = InFlight
  <2>1. /\ pc = "recv" /\ pc' = "txn" /\ work' = chan /\ chan' = << >> /\ batch' = batch /\ wire' = wire
    BY <1>3 DEF TakeBatch
  <2>2. InFlight = ((<< >> \o chan) \o batch) \o wire
    BY <2>1 DEF InFlight
  <2>3. InFlight' = ((chan \o << >>) \o batch) \o wire
    BY <2>1 DEF InFlight
  <2>4. << >> \o chan = chan /\ chan \o << >> = chan
    BY <1>0
  <2> QED BY <2>2, <2>3, <2>4
<1>4. ASSUME StoreMetric \/ Publish \/ EndBatch PROVE InFlight' = InFlight
  <2>1. /\ pc \notin {"connect", "txn"} /\ pc' \notin {"connect", "txn"}
        /\ chan' = chan /\ batch' = batch /\ wire' = wire
    BY <1>4 DEF StoreMetric, Publish, EndBatch, memVars
  <2> QED BY <2>1 DEF InFlight
<1> QED BY <1>1, <1>2, <1>3, <1>4

\* What the node sends to a subscriber is last.
LEMMA SentLast ==
  ASSUME Base, NEW m \in Msg, Subscribed, wire' = Append(wire, m),
         UNCHANGED <<pc, work, chan, batch>>
  PROVE  InFlight' = Append(InFlight, m)
<1>0. wire \in Seq(Msg) /\ batch \in Seq(Msg) /\ chan \in Seq(Msg) /\ work \in Seq(Msg)
  BY Frames
<1> DEFINE X == ((IF pc = "txn" THEN work ELSE << >>) \o chan) \o batch
<1>1. X \in Seq(Msg)
  BY <1>0
<1>2. pc # "connect"
  BY DEF Subscribed
<1>3. InFlight = X \o wire /\ InFlight' = X \o Append(wire, m)
  BY <1>2 DEF InFlight
<1> HIDE DEF X
<1>4. X \o Append(wire, m) = Append(X \o wire, m)
  BY <1>0, <1>1, ConcatAppend
<1> QED BY <1>3, <1>4

\* A new subscription is sent what it was to be sent.
LEMMA ConnectKeeps ==
  ASSUME Base, Connect
  PROVE  InFlight' = InFlight
<1>1. /\ pc = "connect" /\ pc' = "recv" /\ wire' = History(node, from) /\ chan' = << >> /\ batch' = << >>
  BY DEF Connect, Base, MemoryOk, Subscribed, memVars
<1>2. History(node, from) \in Seq(Msg)
  BY HistoryMsgs DEF Base, NodeOk
<1>3. InFlight = History(node, from)
  BY <1>1 DEF InFlight
<1>4. InFlight' = ((<< >> \o << >>) \o << >>) \o History(node, from)
  BY <1>1 DEF InFlight
<1>5. (<< >> \o << >>) \o << >> = << >>
  OBVIOUS
<1>6. << >> \o History(node, from) = History(node, from)
  BY <1>2
<1> QED BY <1>3, <1>4, <1>5, <1>6

\* A transaction takes its messages out of what is in flight.
LEMMA CommitTakes ==
  ASSUME Base, Commit
  PROVE  InFlight = work \o InFlight' /\ InFlight' \in Seq(Msg) /\ InFlight' = Queue
<1>1. /\ pc = "txn" /\ pc' = "store" /\ chan' = chan /\ batch' = batch /\ wire' = wire
  BY DEF Commit
<1>2. InFlight' = Queue
  BY <1>1 DEF InFlight, Queue
<1> QED BY <1>1, <1>2, InFlightFacts

----------------------------------------------------------------------------
(* The first part of the invariant is inductive.                           *)

LEMMA NodeStays ==
  ASSUME NodeOk, UNCHANGED nodeVars
  PROVE  NodeOk' /\ Rows' = Rows /\ Top' = Top
<1>1. node' = node /\ liquid' = liquid /\ nextId' = nextId
  BY DEF nodeVars
<1>2. Rows' = Rows /\ Top' = Top
  BY <1>1 DEF Rows, Top, Ids
<1> QED BY <1>1, <1>2 DEF NodeOk

LEMMA AppendFirst ==
  ASSUME NEW S, NEW q \in Seq(S), NEW x \in S, q # << >>
  PROVE  Append(q, x) # << >> /\ Append(q, x)[1] = q[1]
OBVIOUS

\* A longer stream begins with the same message.
LEMMA StreamGrows ==
  ASSUME Base, NEW m \in Msg, Subscribed, wire' = Append(wire, m),
         UNCHANGED <<memVars, pc, from, dbVars, resent>>
  PROVE  StreamOk'
<1>1. UNCHANGED <<pc, work, chan, batch, gen, resent, blocks, from>>
  BY DEF memVars, dbVars
<1>2. InFlight' = Append(InFlight, m) /\ InFlight \in Seq(Msg)
  BY <1>1, SentLast, InFlightFacts
<1>3. Subscribed' /\ pc' # "connect"
  BY <1>1 DEF Subscribed
<1>4. resent' => blocks' # << >>
  BY <1>1 DEF Base, StreamOk
<1>5. ASSUME resent' \/ blocks' = << >>
      PROVE  pc' \in {"recv", "txn"} /\ gen' = NewGenerator /\ InFlight' # << >> /\ Opening(InFlight'[1])
  <2>1. pc \in {"recv", "txn"} /\ gen = NewGenerator /\ InFlight # << >> /\ Opening(InFlight[1])
    BY <1>1, <1>5 DEF Base, StreamOk
  <2>2. InFlight' # << >> /\ InFlight'[1] = InFlight[1]
    BY <1>2, <2>1, AppendFirst
  <2> QED BY <1>1, <2>1, <2>2
<1>6. (pc = "connect" /\ (resent \/ blocks = << >>) => from = StartHeight)'
  BY <1>3
<1> QED BY <1>4, <1>5, <1>6 DEF StreamOk

LEMMA MoveBase ==
  ASSUME Base, NEW m, Moves(m),
         UNCHANGED <<memVars, pc, from, dbVars, redis, error, resent, crashes>>,
         stray' \in BOOLEAN, reorgs' \in 0..MaxReorgs, resends' = resends
  PROVE  Base'
<1>1. TypeOK' /\ NodeOk'
  BY MoveTypes DEF Moves
<1>2. UNCHANGED <<pc, work, chan, batch, gen, events, metric, full, resent, blocks, txs, from>>
  BY DEF memVars, dbVars
<1>3. MemoryOk'
  BY <1>2 DEF Base, MemoryOk, Moves, Send, Subscribed
<1>4. DbOk'
  BY <1>2 DEF Base, DbOk, Before
<1>5. CASE Subscribed
  <2>1. m \in Msg /\ wire' = Append(wire, m)
    BY <1>5 DEF Moves, Send
  <2>2. StreamOk'
    BY <1>5, <2>1, StreamGrows
  <2> QED BY <1>1, <1>3, <1>4, <2>2 DEF Base
<1>6. CASE ~Subscribed
  <2>1. StreamOk'
    BY <1>2, <1>6 DEF Base, StreamOk, Subscribed
  <2> QED BY <1>1, <1>3, <1>4, <2>1 DEF Base
<1> QED BY <1>5, <1>6

LEMMA NodeActionsBase ==
  ASSUME Base, MineBlock \/ MineMicroblock \/ Reorganise \/ SendAgain
  PROVE  Base'
<1>1. ASSUME MineBlock \/ MineMicroblock PROVE Base'
  <2>1. \E m : Moves(m)
    BY <1>1, MineBlockMoves, MineMicroblockMoves DEF Base
  <2>2. UNCHANGED <<memVars, pc, from, dbVars, redis, error, resent, stray, crashes, reorgs, resends>>
    BY <1>1 DEF MineBlock, MineMicroblock
  <2>3. stray' \in BOOLEAN /\ reorgs' \in 0..MaxReorgs
    BY <2>2 DEF Base, TypeOK
  <2> QED BY <2>1, <2>2, <2>3, MoveBase
<1>2. ASSUME Reorganise PROVE Base'
  <2>1. \E m : Moves(m)
    BY <1>2, ReorganiseMoves DEF Base
  <2>2. UNCHANGED <<memVars, pc, from, dbVars, redis, error, resent, crashes, resends>>
    BY <1>2 DEF Reorganise
  <2>3. stray' \in BOOLEAN
    BY <1>2, Frames DEF Reorganise
  <2>4. reorgs' \in 0..MaxReorgs
    <3>1. reorgs < MaxReorgs /\ reorgs' = reorgs + 1
      BY <1>2 DEF Reorganise
    <3>2. reorgs \in 0..MaxReorgs
      BY DEF Base, TypeOK
    <3>3. MaxReorgs \in Nat
      BY ConsumerAssumption
    <3> QED BY <3>1, <3>2, <3>3
  <2> QED BY <2>1, <2>2, <2>3, <2>4, MoveBase
<1>3. ASSUME SendAgain PROVE Base'
  <2>1. TypeOK'
    BY <1>3, SendAgainTypes
  <2>2. node \in Seq(Unit) /\ node # << >> /\ UNCHANGED <<node, liquid, nextId>>
    BY <1>3 DEF SendAgain, Base, NodeOk
  <2>3. Last(node) \in Unit
    BY <2>2 DEF Last
  <2>4. AppendMsg(Last(node)) \in Msg
    BY <2>3, MsgOfUnit
  <2>5. Subscribed /\ wire' = Append(wire, AppendMsg(Last(node)))
        /\ UNCHANGED <<memVars, pc, from, dbVars, resent>>
    BY <1>3 DEF SendAgain
  <2>6. StreamOk'
    BY <2>4, <2>5, StreamGrows
  <2>7. NodeOk'
    BY <2>2 DEF Base, NodeOk, Rows, Top, Ids
  <2>8. MemoryOk' /\ DbOk'
    <3>1. UNCHANGED <<pc, work, chan, batch, gen, events, metric, full, blocks, txs>>
      BY <2>5 DEF memVars, dbVars
    <3>2. MemoryOk'
      BY <2>5, <3>1 DEF Base, MemoryOk, Subscribed
    <3>3. DbOk'
      BY <3>1 DEF Base, DbOk, Before
    <3> QED BY <3>2, <3>3
  <2> QED BY <2>1, <2>6, <2>7, <2>8 DEF Base
<1> QED BY <1>1, <1>2, <1>3

LEMMA FlowBase ==
  ASSUME Base, Receive \/ SendBatch \/ TakeBatch \/ StoreMetric \/ Publish \/ EndBatch
  PROVE  Base'
<1>1. TypeOK' /\ InFlight' = InFlight
  BY FlowTypes, FlowKeeps
<1>2. UNCHANGED <<node, liquid, nextId, reorgs, resends, from, blocks, txs, gen, resent>>
  BY DEF Receive, SendBatch, TakeBatch, StoreMetric, Publish, EndBatch, nodeVars, dbVars, memVars
<1>3. NodeOk'
  BY <1>2, NodeStays DEF Base, nodeVars
<1>4. DbOk'
  BY <1>2 DEF Base, DbOk, Before
<1>5. Subscribed /\ Subscribed' /\ pc' # "connect"
  BY DEF Receive, SendBatch, TakeBatch, StoreMetric, Publish, EndBatch, Subscribed
<1>6. MemoryOk'
  <2>1. (pc \in {"txn", "store"}) <=> work # << >>
    BY DEF Base, MemoryOk
  <2>2. (pc' \in {"txn", "store"}) <=> work' # << >>
    BY <2>1 DEF Receive, SendBatch, TakeBatch, StoreMetric, Publish, EndBatch, memVars
  <2> QED BY <1>5, <2>2 DEF MemoryOk
<1>7. StreamOk'
  <2>1. resent' => blocks' # << >>
    BY <1>2 DEF Base, StreamOk
  <2>2. ASSUME resent' \/ blocks' = << >>
        PROVE  pc' \in {"recv", "txn"} /\ gen' = NewGenerator /\ InFlight' # << >> /\ Opening(InFlight'[1])
    <3>1. pc \in {"recv", "txn"} /\ gen = NewGenerator /\ InFlight # << >> /\ Opening(InFlight[1])
      BY <1>2, <1>5, <2>2 DEF Base, StreamOk
    <3>2. pc' \in {"recv", "txn"}
      BY <3>1 DEF Receive, SendBatch, TakeBatch, StoreMetric, Publish, EndBatch
    <3> QED BY <1>1, <1>2, <3>1, <3>2
  <2> QED BY <1>5, <2>1, <2>2 DEF StreamOk
<1> QED BY <1>1, <1>3, <1>4, <1>6, <1>7 DEF Base

LEMMA StartBase ==
  ASSUME Base, Start
  PROVE  Base'
<1>1. TypeOK' /\ DbOk' /\ (StartEmpty \/ \E p : StartAt(p))
  BY StartDb, StartCases
<1>2. pc = "down" /\ pc' = "connect" /\ UNCHANGED nodeVars
      /\ UNCHANGED <<wire, batch, full, chan, work, gen, events, metric>>
  BY DEF Start, memVars
<1>3. NodeOk'
  BY <1>2, NodeStays DEF Base
<1>4. MemoryOk'
  BY <1>2 DEF Base, MemoryOk, Subscribed
<1>5. StreamOk'
  <2>0. ~Subscribed'
    BY <1>2 DEF Subscribed
  <2>1. CASE StartEmpty
    BY <2>0, <2>1 DEF StartEmpty, StreamOk, dbVars
  <2>2. CASE \E p : StartAt(p)
    <3>1. PICK p : StartAt(p)
      BY <2>2
    <3>2. p \in 1..Len(blocks) /\ blocks' = SubSeq(blocks, 1, p) /\ resent' = FALSE
      BY <3>1 DEF StartAt
    <3>3. blocks' # << >>
      BY <3>2, DbFacts, Prefix
    <3> QED BY <2>0, <3>2, <3>3 DEF StreamOk
  <2> QED BY <1>1, <2>1, <2>2
<1> QED BY <1>1, <1>3, <1>4, <1>5 DEF Base

LEMMA ConnectBase ==
  ASSUME Base, Connect
  PROVE  Base'
<1>1. TypeOK' /\ InFlight' = InFlight
  BY ConnectTypes, ConnectKeeps
<1>2. /\ pc = "connect" /\ pc' = "recv" /\ UNCHANGED nodeVars
      /\ UNCHANGED <<batch, full, chan, work, gen, events, metric, from, blocks, txs, resent>>
  BY DEF Connect, memVars, dbVars
<1>3. NodeOk'
  BY <1>2, NodeStays DEF Base
<1>4. MemoryOk'
  BY <1>2 DEF Base, MemoryOk, Subscribed
<1>5. DbOk'
  BY <1>2 DEF Base, DbOk, Before
<1>6. StreamOk'
  <2>1. resent' => blocks' # << >>
    BY <1>2 DEF Base, StreamOk
  <2>2. ASSUME resent' \/ blocks' = << >>
        PROVE  gen' = NewGenerator /\ InFlight' # << >> /\ Opening(InFlight'[1])
    <3>1. from = StartHeight /\ gen = NewGenerator
      BY <1>2, <2>2 DEF Base, StreamOk, MemoryOk, Subscribed
    <3>2. InFlight = History(node, StartHeight)
      BY <1>2, <3>1 DEF InFlight
    <3>3. node \in Seq(Unit) /\ node # << >> /\ node[1] = FirstBlock
          /\ NodeRows(Ids(node), liquid, nextId, LastKey(node))
      BY DEF Base, NodeOk, Rows, Top
    <3>4. 0 \in 0..LastKey(node) /\ (liquid => 0 < LastKey(node)) /\ StartHeight + 0 = StartHeight
      BY <3>3, NodeRowsFacts, ConsumerAssumption
    <3>5. /\ Len(InFlight) = Len(node)
          /\ \A i \in 1..Len(node) : InFlight[i] = AppendMsg(node[i])
      <4>1. /\ History(node, StartHeight + 0) \in Seq(Msg)
            /\ Len(History(node, StartHeight + 0)) = Len(node) - 0
            /\ \A i \in 1..(Len(node) - 0) : History(node, StartHeight + 0)[i] = AppendMsg(node[0 + i])
        BY <3>3, <3>4, HistoryFacts
      <4>2. \A i \in 1..Len(node) : 0 + i = i
        OBVIOUS
      <4> QED BY <3>2, <3>3, <3>4, <4>1, <4>2
    <3>6. InFlight # << >> /\ InFlight[1] = AppendMsg(FirstBlock)
      BY <3>3, <3>5
    <3>7. Opening(AppendMsg(FirstBlock))
      BY DEF Opening, AppendMsg, FirstBlock
    <3> QED BY <1>1, <1>2, <3>1, <3>6, <3>7
  <2> QED BY <1>2, <2>1, <2>2 DEF StreamOk
<1> QED BY <1>1, <1>3, <1>4, <1>5, <1>6 DEF Base

\* A transaction that commits: what is in flight was not sent again, and the
\* database holds blocks afterwards.
LEMMA TransactionFacts ==
  ASSUME Base, pc = "txn", NEW f, Handled(f, work)
  PROVE  /\ work \in Seq(Msg) /\ Len(work) \in Nat \ {0}
         /\ \A i \in 0..Len(work) : GoodDb(f[i])
         /\ HandleUpdates(work) = f[Len(work)]
         /\ HandleUpdates(work).error = "none" => HandleUpdates(work).blocks # << >> /\ ~resent
         /\ resent => HandleUpdates(work).error = "unique_violation"
<1>1. work \in Seq(Msg) /\ work # << >> /\ Len(work) \in Nat \ {0}
  <2>1. work \in Seq(Msg)
    BY Frames
  <2>2. work # << >>
    BY DEF Base, MemoryOk
  <2> QED BY <2>1, <2>2
<1>2. GoodDb(Before)
  BY DEF Base, DbOk
<1>3. resent \/ blocks = << >> => Opening(work[1]) /\ gen = NewGenerator
  <2> SUFFICES ASSUME resent \/ blocks = << >> PROVE Opening(work[1]) /\ gen = NewGenerator
    OBVIOUS
  <2>1. gen = NewGenerator /\ Opening(InFlight[1])
    BY DEF Base, StreamOk, Subscribed
  <2>2. InFlight = work \o Queue /\ Queue \in Seq(Msg)
    BY InFlightFacts
  <2>3. (work \o Queue)[1] = work[1]
    BY <1>1, <2>2
  <2> QED BY <2>1, <2>2, <2>3
<1>4. \A i \in 0..Len(work) : GoodDb(f[i]) /\ (i > 0 /\ f[i].error = "none" => f[i].blocks # << >>)
  BY <1>1, <1>2, <1>3, FoldGood
<1>5. HandleUpdates(work) = f[Len(work)]
  BY DEF Handled
<1>6. HandleUpdates(work).error = "none" => HandleUpdates(work).blocks # << >>
  BY <1>1, <1>4, <1>5
<1>7. resent => HandleUpdates(work).error = "unique_violation"
  <2> SUFFICES ASSUME resent PROVE HandleUpdates(work).error = "unique_violation"
    OBVIOUS
  <2>1. blocks # << >>
    BY DEF Base, StreamOk
  <2> QED BY <1>1, <1>2, <1>3, <2>1, FoldResent
<1> QED BY <1>1, <1>4, <1>5, <1>6, <1>7

LEMMA CommitBase ==
  ASSUME Base, Commit
  PROVE  Base' /\ ~resent
<1>1. /\ pc = "txn" /\ pc' = "store" /\ UNCHANGED nodeVars
      /\ UNCHANGED <<wire, batch, full, chan, work, metric, from, redis, error, resent, stray, crashes>>
  BY DEF Commit
<1> DEFINE s == HandleUpdates(work)
<1>2. s.error = "none" /\ blocks' = s.blocks /\ txs' = s.txs /\ gen' = s.gen /\ events' = s.events
  BY DEF Commit
<1>3. PICK f : Handled(f, work)
  BY Frames, HandleUpdatesRun
<1>4. GoodDb(s) /\ s.blocks # << >> /\ ~resent
  BY <1>1, <1>2, <1>3, TransactionFacts
<1> HIDE DEF s
<1>5. NodeOk'
  BY <1>1, NodeStays DEF Base
<1>6. MemoryOk'
  BY <1>1 DEF Base, MemoryOk, Subscribed
<1>7. StreamOk'
  BY <1>1, <1>2, <1>4 DEF StreamOk
<1> DEFINE d == [blocks |-> s.blocks, txs |-> s.txs, gen |-> s.gen, events |-> << >>, error |-> "none"]
<1>8. GoodDb(d)
  <2>1. d \in Db
    BY <1>4 DEF GoodDb, Db, Errors
  <2>2. d.blocks = s.blocks /\ d.txs = s.txs
    OBVIOUS
  <2> HIDE DEF d
  <2> QED BY <1>4, <2>1, <2>2 DEF GoodDb, Begun
<1>9. DbOk'
  <2>1. Before' = d
    BY <1>2 DEF Before
  <2> HIDE DEF d
  <2> QED BY <1>8, <2>1 DEF DbOk
<1>10. /\ blocks' \in Seq(Row) /\ txs' \subseteq [uid : Nat, tx : Nat, at : DOMAIN blocks']
       /\ gen' \in [height : Nat, id : Nat]
  BY <1>2, <1>8, GoodTypes
<1>11. events' \in Seq(Nat)
  BY <1>2, <1>4 DEF GoodDb, Db
<1>12. TypeOK'
  BY <1>1, <1>10, <1>11 DEF Base, TypeOK, nodeVars, States
<1> QED BY <1>4, <1>5, <1>6, <1>7, <1>9, <1>12 DEF Base

LEMMA StopBase ==
  ASSUME Base, FailTransaction \/ Crash \/ IdleTimeout
  PROVE  Base'
<1>1. UNCHANGED <<nodeVars, from, dbVars, redis, resent>> /\ Stop
  BY DEF FailTransaction, Crash, IdleTimeout
<1>2. NodeOk'
  BY <1>1, NodeStays DEF Base
<1>3. crashes \in 0..MaxCrashes /\ error \in Errors
  BY DEF Base, TypeOK
<1>4. CASE FailTransaction
  <2>1. pc = "txn" /\ error' = HandleUpdates(work).error /\ crashes' = crashes
    BY <1>4 DEF FailTransaction
  <2>2. PICK f : Handled(f, work)
    BY Frames, HandleUpdatesRun
  <2>3. GoodDb(HandleUpdates(work))
    BY <2>1, <2>2, TransactionFacts
  <2>4. error' \in Errors
    BY <2>1, <2>3 DEF GoodDb, Db
  <2>5. TypeOK' /\ MemoryOk' /\ DbOk' /\ StreamOk'
    BY <1>1, <1>3, <2>1, <2>4, StopTypes
  <2> QED BY <1>2, <2>5 DEF Base
<1>5. CASE Crash \/ IdleTimeout
  <2>1. crashes' \in 0..MaxCrashes /\ error' = error
    BY <1>3, <1>5, ConsumerAssumption DEF Crash, IdleTimeout
  <2>2. TypeOK' /\ MemoryOk' /\ DbOk' /\ StreamOk'
    BY <1>1, <1>3, <2>1, StopTypes
  <2> QED BY <1>2, <2>2 DEF Base
<1> QED BY <1>4, <1>5

LEMMA StutterBase ==
  ASSUME Base, UNCHANGED vars
  PROVE  Base'
<1>1. /\ UNCHANGED <<node, liquid, nextId, reorgs, resends, wire, batch, full, chan, work, gen, events, metric>>
      /\ UNCHANGED <<pc, from, blocks, txs, redis, error, resent, stray, crashes>>
  BY DEF vars, nodeVars, memVars, dbVars
<1>2. NodeOk'
  BY <1>1, NodeStays DEF Base, nodeVars
<1>3. TypeOK'
  BY <1>1 DEF Base, TypeOK
<1>4. MemoryOk' /\ DbOk'
  BY <1>1 DEF Base, MemoryOk, DbOk, Subscribed, Before
<1>5. StreamOk'
  <2>1. InFlight' = InFlight
    BY <1>1 DEF InFlight
  <2> QED BY <1>1, <2>1 DEF Base, StreamOk, Subscribed
<1> QED BY <1>2, <1>3, <1>4, <1>5 DEF Base

LEMMA BaseInit ==
  ASSUME Init
  PROVE  Base
<1>1. /\ node = <<FirstBlock>> /\ liquid = FALSE /\ nextId = 2 /\ pc = "down" /\ blocks = << >> /\ txs = {}
      /\ gen = NewGenerator /\ resent = FALSE /\ stray = FALSE
      /\ wire = << >> /\ batch = << >> /\ full = FALSE /\ chan = << >> /\ work = << >> /\ events = << >>
      /\ metric = 0
  BY DEF Init
<1>2. << >> \in Seq(Msg) /\ << >> \in Seq(Nat) /\ << >> \in Seq(Row)
  OBVIOUS
<1>3. StartHeight \in Nat \ {0} /\ FirstBlock \in Unit
  <2>1. StartHeight \in Nat \ {0}
    BY ConsumerAssumption
  <2>2. <<1>> \in Seq(Nat)
    OBVIOUS
  <2> QED BY <2>1, <2>2 DEF FirstBlock, Unit
<1>4. NewGenerator \in [height : Nat, id : Nat]
  BY DEF NewGenerator
<1>5. node \in Seq(Unit) /\ Len(node) = 1 /\ node[1] = FirstBlock
  BY <1>1, <1>3
<1>6. TypeOK
  <2>1. reorgs = 0 /\ resends = 0 /\ crashes = 0 /\ from = StartHeight /\ redis = {} /\ error = "none"
    BY DEF Init
  <2>2. 0 \in 0..MaxReorgs /\ 0 \in 0..MaxResends /\ 0 \in 0..MaxCrashes
    BY ConsumerAssumption
  <2> QED BY <1>1, <1>2, <1>3, <1>4, <1>5, <2>1, <2>2 DEF TypeOK, States, Errors
<1>7. NodeOk
  <2>1. /\ Rows \in Seq(Row) /\ Len(Rows) = 1 /\ LastKey(Rows) = LastKey(node)
        /\ Rows[1].id = 1 /\ Rows[1].h = StartHeight /\ Rows[1].key
    BY <1>5, NodeIds DEF Rows, FirstBlock
  <2>2. ShapeAt(Rows, 1)
    BY <1>3, <2>1 DEF ShapeAt
  <2>3. NodeRows(Rows, liquid, nextId, 1)
    <3>1. Rows # << >> /\ liquid \in BOOLEAN /\ nextId \in Nat
      <4>1. Rows # << >>
        BY <1>5, NodeIds DEF Rows
      <4>2. liquid \in BOOLEAN /\ nextId \in Nat
        BY <1>1
      <4> QED BY <4>1, <4>2
    <3>2. \A i, j \in 1..Len(Rows) : Rows[i].id = Rows[j].id => i = j
      BY <2>1
    <3>3. \A i \in 1..Len(Rows) : Rows[i].id < nextId
      BY <1>1, <2>1
    <3>4. ~liquid /\ ~ (1 < Len(Rows))
      BY <1>1, <2>1
    <3> QED BY <2>2, <3>1, <3>2, <3>3, <3>4 DEF NodeRows
  <2>4. Top = 1
    BY <2>1, <2>2, ShapeFacts DEF Top
  <2> QED BY <1>1, <1>5, <2>3, <2>4 DEF NodeOk
<1>8. MemoryOk
  BY <1>1 DEF MemoryOk, Subscribed
<1>9. DbOk
  <2>1. Before = [blocks |-> << >>, txs |-> {}, gen |-> NewGenerator, events |-> << >>, error |-> "none"]
    BY <1>1 DEF Before
  <2> DEFINE s == Before
  <2>2. s.blocks = << >> /\ s.txs = {}
    BY <2>1
  <2>3. s \in Db
    BY <1>2, <1>4, <2>1 DEF Db, Errors
  <2> HIDE DEF s
  <2>4. GoodDb(s)
    BY <2>2, <2>3 DEF GoodDb, Begun
  <2> QED BY <2>4 DEF DbOk, s
<1>10. StreamOk
  BY <1>1 DEF StreamOk, Subscribed
<1> QED BY <1>6, <1>7, <1>8, <1>9, <1>10 DEF Base

LEMMA BaseStep ==
  ASSUME Base, [Next]_vars
  PROVE  Base'
<1>1. CASE MineBlock \/ MineMicroblock \/ Reorganise \/ SendAgain
  BY <1>1, NodeActionsBase
<1>2. CASE Receive \/ SendBatch \/ TakeBatch \/ StoreMetric \/ Publish \/ EndBatch
  BY <1>2, FlowBase
<1>3. CASE Start
  BY <1>3, StartBase
<1>4. CASE Connect
  BY <1>4, ConnectBase
<1>5. CASE Commit
  BY <1>5, CommitBase
<1>6. CASE FailTransaction \/ Crash \/ IdleTimeout
  BY <1>6, StopBase
<1>7. CASE UNCHANGED vars
  BY <1>7, StutterBase
<1> QED BY <1>1, <1>2, <1>3, <1>4, <1>5, <1>6, <1>7, Zenon DEF Next, Reader, Loop

\* TypeCorrect: whatever the node sends and wherever the process ends, the
\* stream, the memory of the process, the tables, Redis and the history have
\* their types.
THEOREM TypeCorrect == Spec => []TypeOK
<1>1. Spec => []Base
  BY BaseInit, BaseStep, PTL DEF Spec
<1>2. Base => TypeOK
  BY DEF Base
<1> QED BY <1>1, <1>2, PTL

LEMMA ResentStep ==
  ASSUME Base, [Next]_vars, resent, resent'
  PROVE  UNCHANGED <<blocks, txs>>
<1>1. CASE MineBlock \/ MineMicroblock \/ Reorganise \/ SendAgain
  BY <1>1 DEF MineBlock, MineMicroblock, Reorganise, SendAgain, dbVars
<1>2. CASE Receive \/ SendBatch \/ TakeBatch \/ StoreMetric \/ Publish \/ EndBatch
  BY <1>2 DEF Receive, SendBatch, TakeBatch, StoreMetric, Publish, EndBatch, dbVars
<1>3. CASE Start
  <2>1. StartEmpty
    BY <1>3, StartCases DEF StartAt
  <2> QED BY <2>1 DEF StartEmpty, dbVars
<1>4. CASE Connect
  BY <1>4 DEF Connect, dbVars
<1>5. CASE Commit
  BY <1>5, CommitBase
<1>6. CASE FailTransaction \/ Crash \/ IdleTimeout
  BY <1>6 DEF FailTransaction, Crash, IdleTimeout, dbVars
<1>7. CASE UNCHANGED vars
  BY <1>7 DEF vars, dbVars
<1> QED BY <1>1, <1>2, <1>3, <1>4, <1>5, <1>6, <1>7, Zenon DEF Next, Reader, Loop

\* ResentWrites: while the stream has restarted at StartHeight over stored
\* blocks (Start found no row at a height of the startup rollback), no step
\* writes: handle_updates inserts a uid that is taken, and the transaction
\* fails as a whole.
THEOREM ResentWrites == Spec => ResentWritesNothing
<1>1. Spec => []Base
  BY BaseInit, BaseStep, PTL DEF Spec
<1>2. Base /\ [Next]_vars => [resent /\ resent' => UNCHANGED <<blocks, txs>>]_vars
  BY ResentStep
<1> QED BY <1>1, <1>2, PTL DEF Spec, ResentWritesNothing

----------------------------------------------------------------------------
(* What is stored and what is in flight make up the node's chain.          *)

\* How many of its rows a restarted consumer keeps.
Kept ==
  IF pc = "connect" THEN Len(blocks)
  ELSE IF RollbackRows = {} THEN 0 ELSE Min(RollbackRows)

\* Unless the node abandoned what a restarted process is to keep: the stored rows are
\* a chain the node had; a stopped process keeps rows the node still has; one
\* that has not subscribed resumes where its rows end; and the messages in flight
\* to one that has lead from its rows to those of the node.
Synced ==
  /\ Chain(blocks, Rows, liquid, nextId)
  /\ pc = "down" => KeptIn(blocks, Kept, Rows)
  /\ pc = "connect" /\ ~resent => Resumes(blocks, Rows, liquid, Top) /\ from = StartHeight + Len(blocks)
  /\ Subscribed /\ ~resent => \E f : Follows(f, blocks, InFlight, Rows, liquid, nextId)

SyncOk == /\ ~stray => Synced
          /\ error = "unknown_block" => stray

LEMMA KeptSame ==
  ASSUME blocks' = blocks
  PROVE  RollbackRows' = RollbackRows /\ (pc' = pc => Kept' = Kept)
<1>1. RollbackRows' = RollbackRows
  BY DEF RollbackRows
<1> QED BY <1>1 DEF Kept

\* What a stopped process keeps is below its last height.
LEMMA KeptBelow ==
  ASSUME Base, Chain(blocks, Rows, liquid, nextId)
  PROVE  /\ RollbackRows # {} => Min(RollbackRows) \in 1..Len(blocks)
                                 /\ blocks[Min(RollbackRows)].h < Height(blocks)
         /\ pc = "down" => /\ Kept \in 0..Len(blocks)
                           /\ \A i \in 1..Kept : blocks[i].h < Height(blocks)
<1>1. PICK k : ShapeAt(blocks, k)
  BY DEF Chain
<1>2. StartHeight \in Nat \ {0} /\ k \in Nat /\ Len(blocks) \in Nat
  BY <1>1, ConsumerAssumption, ShapeFacts DEF ShapeAt
<1>3. \A i, j \in 1..Len(blocks) : i <= j => blocks[i].h <= blocks[j].h /\ blocks[i].h \in Nat \ {0}
                                            /\ blocks[j].h \in Nat \ {0}
  BY <1>1, <1>2 DEF ShapeAt
<1>4. ASSUME RollbackRows # {}
      PROVE  /\ Min(RollbackRows) \in 1..Len(blocks)
             /\ blocks[Min(RollbackRows)].h < Height(blocks)
  <2>1. /\ Min(RollbackRows) \in 1..Len(blocks)
        /\ blocks[Min(RollbackRows)].h \in RollbackHeights(CurrentHeight(blocks))
    BY <1>4, DbFacts, RollbackRowsFacts
  <2>2. CurrentHeight(blocks) = Height(blocks) /\ Height(blocks) \in Nat
    BY <1>1, <1>2, <1>3, <2>1, DbFacts, CurrentHeightIsLast, ShapeFacts
  <2>3. blocks[Min(RollbackRows)].h < Height(blocks) \/ blocks[Min(RollbackRows)].h = 0
    BY <2>1, <2>2, RollbackHeightsBelow
  <2> QED BY <1>3, <2>1, <2>3
<1>5. ASSUME pc = "down"
      PROVE  Kept \in 0..Len(blocks) /\ \A i \in 1..Kept : blocks[i].h < Height(blocks)
  <2>1. CASE RollbackRows = {}
    <3>1. Kept = 0
      BY <1>5, <2>1 DEF Kept
    <3> QED BY <1>2, <3>1
  <2>2. CASE RollbackRows # {}
    <3>1. Kept = Min(RollbackRows)
      BY <1>5, <2>2 DEF Kept
    <3>2. Kept \in 1..Len(blocks) /\ blocks[Kept].h < Height(blocks)
      BY <1>4, <2>2, <3>1
    <3>3. Height(blocks) \in Nat
      BY <1>1, <1>2, <3>2, ShapeFacts
    <3> QED BY <1>2, <1>3, <3>2, <3>3
  <2> QED BY <2>1, <2>2
<1> QED BY <1>4, <1>5

\* A restarted consumer keeps no more than it is to keep: the startup rollback
\* goes back by Depth if that many heights are stored.
LEMMA KeepsNoMore ==
  ASSUME Base, Chain(blocks, Rows, liquid, nextId)
  PROVE  /\ RollbackRows # {} => \A i \in 1..Min(RollbackRows) : i \in KeptRows
         /\ pc = "connect" => \A i \in 1..Len(blocks) : i \in KeptRows
<1>1. PICK k : ShapeAt(blocks, k)
  BY DEF Chain
<1>2. StartHeight \in Nat \ {0} /\ Depth \in Nat \ {0} /\ k \in 0..Len(blocks) /\ Len(blocks) \in Nat
  BY <1>1, ConsumerAssumption DEF ShapeAt
<1>3. \A i \in 1..Len(blocks) : /\ i \in DOMAIN blocks
                                /\ blocks[i].h = StartHeight - 1 + (IF i <= k THEN i ELSE k)
  BY <1>1 DEF ShapeAt
<1>4. ASSUME RollbackRows # {}
      PROVE  \A i \in 1..Min(RollbackRows) : i \in KeptRows
  <2>1. Min(RollbackRows) \in 1..Len(blocks)
    BY <1>4, KeptBelow
  <2>4. CurrentHeight(blocks) = Height(blocks)
    BY <1>2, <1>3, DbFacts, CurrentHeightIsLast
  <2>2. CASE Height(blocks) >= StartHeight + Depth
    <3>1. blocks # << >> /\ Height(blocks) = StartHeight - 1 + k
      BY <1>1, <1>2, <2>1, ShapeFacts
    <3> DEFINE j == k - Depth
    <3>2. j \in 1..k /\ j \in 1..Len(blocks) /\ StartHeight - 1 + j = Height(blocks) - Depth /\ Height(blocks) > Depth
      BY <1>2, <2>2, <3>1
    <3>3. blocks[j].h = Height(blocks) - Depth
      BY <1>3, <3>2
    <3>4. Height(blocks) - Depth \in RollbackHeights(Height(blocks))
      BY <3>2 DEF RollbackHeights
    <3>5. j \in RollbackRows
      BY <1>3, <2>4, <3>2, <3>3, <3>4 DEF RollbackRows
    <3>6. RollbackRows \in SUBSET (1..Len(blocks))
      BY <1>2, DbFacts DEF RollbackRows
    <3>7. Min(RollbackRows) <= j
      BY <1>2, <1>4, <3>5, <3>6, LeastIndex
    <3> SUFFICES ASSUME NEW i \in 1..Min(RollbackRows) PROVE i \in KeptRows
      OBVIOUS
    <3>8. i \in 1..Len(blocks) /\ i <= j /\ i <= k
      BY <1>2, <2>1, <3>2, <3>7
    <3>9. blocks[i].h = StartHeight - 1 + i /\ i \in DOMAIN blocks
      BY <1>3, <3>8
    <3>10. blocks[i].h + Depth <= Height(blocks)
      BY <1>2, <3>1, <3>2, <3>8, <3>9
    <3> QED BY <2>2, <2>4, <3>9, <3>10 DEF KeptRows
  <2>3. CASE ~ (Height(blocks) >= StartHeight + Depth)
    <3> SUFFICES ASSUME NEW i \in 1..Min(RollbackRows) PROVE i \in KeptRows
      OBVIOUS
    <3>1. i \in DOMAIN blocks /\ i <= Min(RollbackRows)
      BY <1>2, <1>3, <2>1
    <3> QED BY <1>4, <2>3, <2>4, <3>1 DEF KeptRows
  <2> QED BY <2>2, <2>3
<1>5. pc = "connect" => \A i \in 1..Len(blocks) : i \in KeptRows
  BY <1>3 DEF KeptRows
<1> QED BY <1>4, <1>5

LEMMA MoveSynced ==
  ASSUME Base, Synced, NEW m, Moves(m), UNCHANGED <<memVars, pc, from, dbVars, resent>>,
         m.type = "rollback" /\ ~Subscribed => KeptBy(node')
  PROVE  Synced'
<1>1. UNCHANGED <<work, chan, batch, pc, from, blocks, resent>>
  BY DEF memVars, dbVars
<1>2. NodeRows(Rows, liquid, nextId, Top) /\ NodeRows(Rows', liquid', nextId', Top') /\ node' \in Seq(Unit)
  BY DEF Base, NodeOk, Moves
<1>3. m \in Msg /\ Rows' = RowApplied(Rows, m) /\ Ends(Rows', m)
      /\ (m.type = "rollback" => Position(Rows, m.id) # 0)
      /\ RowsMoved(Rows, liquid, nextId, Rows', liquid', nextId')
      /\ (m.type # "rollback" => RowsKept(Rows, liquid, Rows'))
  BY DEF Moves
<1>4. Rows \in Seq(Row) /\ nextId \in Nat /\ liquid \in BOOLEAN
  BY <1>2 DEF NodeRows, ShapeAt
<1>5. \A x : Chain(x, Rows, liquid, nextId) => Chain(x, Rows', liquid', nextId')
  BY <1>3, <1>4, ChainMoved
<1>6. Chain(blocks', Rows', liquid', nextId')
  BY <1>1, <1>5 DEF Synced
<1>7. Kept' = Kept
  BY <1>1, KeptSame
<1>8. \A p \in Nat : (\A i \in 1..p : Position(node', blocks[i].id) # 0) => KeptIn(blocks, p, Rows')
  <2>1. node' \in Seq(UnitOver(Seq(Nat))) /\ Rows' = Ids(node')
    BY <1>2, NodeIds DEF Rows
  <2> DEFINE T == Seq(Nat)
             d == node'
  <2>2. d \in Seq(UnitOver(T))
    BY <2>1
  <2> HIDE DEF T, d
  <2>3. \A p \in Nat : (\A i \in 1..p : Position(d, blocks[i].id) # 0) => KeptIn(blocks, p, Ids(d))
    BY <2>2, KeptFacts
  <2> QED BY <2>1, <2>3 DEF d
<1>9. pc' = "down" => KeptIn(blocks', Kept', Rows')
  <2> SUFFICES ASSUME pc = "down" PROVE KeptIn(blocks, Kept, Rows')
    BY <1>1, <1>7
  <2>1. Kept \in 0..Len(blocks) /\ \A i \in 1..Kept : blocks[i].h < Height(blocks)
    BY KeptBelow DEF Synced
  <2>2. CASE m.type = "rollback"
    <3>1. \A i \in 1..Kept : Position(node', blocks[i].id) # 0
      <4>1. ~Subscribed /\ KeptBy(node')
        BY <2>2 DEF Subscribed
      <4>2. \A i \in 1..Kept : i \in KeptRows
        BY <2>1, KeepsNoMore DEF Kept, Synced
      <4> QED BY <4>1, <4>2 DEF KeptBy
    <3>2. Kept \in Nat
      BY <2>1, DbFacts
    <3> QED BY <1>8, <3>1, <3>2
  <2>3. CASE m.type # "rollback"
    <3>1. KeptIn(blocks, Kept, Rows) /\ Chain(blocks, Rows, liquid, nextId)
      BY DEF Synced
    <3> QED BY <1>2, <1>3, <2>1, <2>3, <3>1, KeptMined
  <2> QED BY <2>2, <2>3
<1>10. ASSUME pc' = "connect", ~resent'
       PROVE  Resumes(blocks', Rows', liquid', Top') /\ from' = StartHeight + Len(blocks')
  <2>1. pc = "connect" /\ Resumes(blocks, Rows, liquid, Top) /\ from = StartHeight + Len(blocks)
    BY <1>1, <1>10 DEF Synced
  <2>2. m.type = "rollback" => KeptIn(blocks, Len(blocks), Rows')
    <3> SUFFICES ASSUME m.type = "rollback" PROVE KeptIn(blocks, Len(blocks), Rows')
      OBVIOUS
    <3>1. Kept = Len(blocks) /\ Len(blocks) \in Nat
      BY <2>1, DbFacts DEF Kept
    <3>2. \A i \in 1..Kept : Position(node', blocks[i].id) # 0
      <4>1. ~Subscribed /\ KeptBy(node')
        BY <2>1 DEF Subscribed
      <4>2. \A i \in 1..Kept : i \in KeptRows
        BY <2>1, <3>1, KeepsNoMore DEF Synced
      <4> QED BY <4>1, <4>2 DEF KeptBy
    <3> QED BY <1>8, <3>1, <3>2
  <2>3. Resumes(blocks, Rows', liquid', Top')
    BY <2>1, <2>2 DEF Moves
  <2> QED BY <1>1, <2>1, <2>3
<1>11. ASSUME Subscribed', ~resent'
       PROVE  \E f : Follows(f, blocks', InFlight', Rows', liquid', nextId')
  <2>1. Subscribed /\ ~resent
    BY <1>1, <1>11 DEF Subscribed
  <2>2. PICK f : Follows(f, blocks, InFlight, Rows, liquid, nextId)
    BY <2>1 DEF Synced
  <2>3. InFlight' = Append(InFlight, m) /\ InFlight \in Seq(Msg)
    BY <1>1, <1>3, <2>1, SentLast, InFlightFacts DEF Moves, Send
  <2>4. Chain(Rows', Rows', liquid', nextId')
    BY <1>2, ChainOwn
  <2>5. \E g : Follows(g, blocks, Append(InFlight, m), Rows', liquid', nextId')
    BY <1>3, <1>5, <2>2, <2>3, <2>4, FollowsSent
  <2> QED BY <1>1, <2>3, <2>5
<1> QED BY <1>6, <1>9, <1>10, <1>11 DEF Synced

LEMMA SendAgainSynced ==
  ASSUME Base, Synced, SendAgain
  PROVE  Synced'
<1>1. /\ Subscribed /\ Last(node).key /\ wire' = Append(wire, AppendMsg(Last(node)))
      /\ UNCHANGED <<node, liquid, nextId, pc, from, blocks, resent, work, chan, batch>>
  BY DEF SendAgain, memVars, dbVars
<1> DEFINE m == AppendMsg(Last(node))
<1>2. node \in Seq(Unit) /\ node # << >> /\ NodeRows(Rows, liquid, nextId, Top)
  BY DEF Base, NodeOk
<1>3. Last(node) \in Unit
  BY <1>2 DEF Last
<1>4. m \in Msg /\ m.type = "block" /\ m.id = Last(node).id /\ m.h = Last(node).h
  BY <1>1, <1>3, MsgOfUnit
<1>5. Rows \in Seq(Row) /\ Rows # << >> /\ Last(Rows).key /\ Last(Rows).id = Last(node).id
      /\ Height(Rows) = Last(node).h
  <2>1. Height(Rows) = Height(node) /\ Last(Rows).key = Last(node).key /\ Last(Rows).id = Last(node).id
    BY <1>2, HeightOfRows DEF Rows
  <2>2. Rows \in Seq(Row) /\ Rows # << >>
    BY <1>2, NodeRowsFacts
  <2> QED BY <1>1, <1>2, <2>1, <2>2 DEF Height
<1>6. Rows' = Rows /\ Top' = Top
  BY <1>1 DEF Rows, Top, Ids
<1>7. Subscribed' /\ pc' # "connect" /\ pc' # "down"
  BY <1>1 DEF Subscribed
<1> HIDE DEF m
<1>8. ASSUME ~resent PROVE \E f : Follows(f, blocks', InFlight', Rows', liquid', nextId')
  <2>1. PICK f : Follows(f, blocks, InFlight, Rows, liquid, nextId)
    BY <1>1, <1>8 DEF Synced
  <2>2. InFlight' = Append(InFlight, m) /\ InFlight \in Seq(Msg)
    BY <1>1, <1>4, SentLast, InFlightFacts DEF m
  <2>3. RowApplied(Rows, m) = Rows
    BY <1>4, <1>5, BlockAgain
  <2>4. Chain(Rows, Rows, liquid, nextId)
    BY <1>2, ChainOwn
  <2>5. m.type # "rollback" /\ Ends(Rows, m)
    BY <1>4, <1>5 DEF Ends
  <2>6. \E g : Follows(g, blocks, Append(InFlight, m), Rows, liquid, nextId)
    BY <1>4, <2>1, <2>2, <2>3, <2>4, <2>5, FollowsSent
  <2> QED BY <1>1, <1>6, <2>2, <2>6
<1>9. Chain(blocks', Rows', liquid', nextId')
  BY <1>1, <1>6 DEF Synced
<1> QED BY <1>1, <1>7, <1>8, <1>9 DEF Synced

\* Inside the process nothing changes.
LEMMA FlowSynced ==
  ASSUME Base, Synced, Receive \/ SendBatch \/ TakeBatch \/ StoreMetric \/ Publish \/ EndBatch
  PROVE  Synced'
<1>1. InFlight' = InFlight
  BY FlowKeeps
<1>2. UNCHANGED <<node, liquid, nextId, blocks, resent>>
  BY DEF Receive, SendBatch, TakeBatch, StoreMetric, Publish, EndBatch, nodeVars, dbVars
<1>3. Subscribed /\ Subscribed' /\ pc' # "connect" /\ pc' # "down"
  BY DEF Receive, SendBatch, TakeBatch, StoreMetric, Publish, EndBatch, Subscribed
<1>4. Rows' = Rows
  BY <1>2 DEF Rows, Ids
<1> QED BY <1>1, <1>2, <1>3, <1>4 DEF Synced

LEMMA StartSynced ==
  ASSUME Base, Synced, Start
  PROVE  Synced'
<1>1. pc = "down" /\ pc' = "connect" /\ UNCHANGED <<node, liquid, nextId>>
  BY DEF Start, nodeVars
<1>2. Rows' = Rows /\ Top' = Top /\ ~Subscribed'
  BY <1>1 DEF Rows, Top, Ids, Subscribed
<1>3. NodeRows(Rows, liquid, nextId, Top) /\ Rows \in Seq(Row) /\ Top \in 1..Len(Rows) /\ Len(Rows) \in Nat
      /\ (liquid => Top > 1)
  BY NodeRowsFacts DEF Base, NodeOk, NodeRows
<1>4. StartHeight \in Nat \ {0}
  BY ConsumerAssumption
<1>5. CASE StartEmpty
  <2>1. blocks' = blocks /\ from' = StartHeight /\ resent' = (blocks # << >>)
    BY <1>5 DEF StartEmpty, dbVars
  <2>2. Chain(blocks', Rows', liquid', nextId')
    BY <1>1, <1>2, <2>1 DEF Synced
  <2>3. ASSUME blocks = << >>
        PROVE  Resumes(blocks, Rows, liquid, Top) /\ StartHeight = StartHeight + Len(blocks)
    <3>1. Len(blocks) = 0
      BY <2>3
    <3>2. SubSeq(Rows, 1, 0) = << >>
      BY <1>3
    <3> QED BY <1>3, <1>4, <2>3, <3>1, <3>2 DEF Resumes
  <2> QED BY <1>1, <1>2, <2>1, <2>2, <2>3 DEF Synced
<1>6. CASE \E p : StartAt(p)
  <2>1. PICK p : StartAt(p)
    BY <1>6
  <2>2. RollbackRows # {} /\ p = Min(RollbackRows) /\ p \in 1..Len(blocks)
        /\ blocks' = SubSeq(blocks, 1, p) /\ from' = blocks[p].h + 1 /\ resent' = FALSE
    BY <2>1 DEF StartAt
  <2>3. Kept = p
    BY <1>1, <2>2 DEF Kept
  <2>4. Chain(blocks, Rows, liquid, nextId) /\ KeptIn(blocks, p, Rows)
    BY <1>1, <2>3 DEF Synced
  <2>5. blocks[p].h < Height(blocks)
    BY <2>2, <2>4, KeptBelow
  <2>6. p \in 1..Top /\ (liquid => p < Top) /\ SubSeq(blocks, 1, p) = SubSeq(Rows, 1, p)
        /\ blocks[p].h = StartHeight - 1 + p
    BY <1>3, <2>2, <2>4, <2>5, KeptPrefix
  <2>7. p \in 0..Len(Rows)
    BY <1>3, <2>6
  <2> DEFINE e == SubSeq(Rows, 1, p)
  <2>8. Chain(e, Rows, liquid, nextId) /\ Len(e) = p
    BY <1>3, <2>7, ChainPrefix
  <2>9. blocks' = e
    BY <2>2, <2>6
  <2> HIDE DEF e
  <2>10. from' = StartHeight + Len(e)
    BY <1>4, <2>2, <2>6, <2>8
  <2>11. Resumes(e, Rows, liquid, Top)
    BY <1>3, <2>6, <2>8 DEF Resumes, e
  <2> QED BY <1>1, <1>2, <2>8, <2>9, <2>10, <2>11 DEF Synced
<1> QED BY <1>5, <1>6, StartCases

LEMMA ConnectSynced ==
  ASSUME Base, Synced, Connect
  PROVE  Synced'
<1>1. pc = "connect" /\ pc' = "recv" /\ UNCHANGED <<node, liquid, nextId, blocks, resent>>
  BY DEF Connect, nodeVars, dbVars
<1>2. Rows' = Rows /\ Subscribed'
  BY <1>1 DEF Rows, Ids, Subscribed
<1>3. InFlight' = InFlight /\ InFlight = History(node, from)
  BY <1>1, ConnectKeeps, InFlightFacts
<1>4. ASSUME ~resent PROVE \E f : Follows(f, blocks, InFlight, Rows, liquid, nextId)
  <2>1. Resumes(blocks, Rows, liquid, Top) /\ from = StartHeight + Len(blocks)
    BY <1>1, <1>4 DEF Synced
  <2>2. node \in Seq(Unit) /\ NodeRows(Ids(node), liquid, nextId, Top) /\ Rows = Ids(node)
    BY DEF Base, NodeOk, Rows
  <2>3. \E f : Follows(f, blocks, History(node, StartHeight + Len(blocks)), Ids(node), liquid, nextId)
    BY <2>1, <2>2, FollowsHistory
  <2> QED BY <1>3, <2>1, <2>2, <2>3
<1> QED BY <1>1, <1>2, <1>3, <1>4 DEF Synced

\* A transaction finds the rows it rolls back to, and leaves the chain that its
\* messages lead to.
LEMMA TransactionSynced ==
  ASSUME Base, Synced, pc = "txn", ~resent
  PROVE  /\ HandleUpdates(work).error # "unknown_block"
         /\ HandleUpdates(work).error = "none" =>
              /\ Chain(HandleUpdates(work).blocks, Rows, liquid, nextId)
              /\ \E g : Follows(g, HandleUpdates(work).blocks, Queue, Rows, liquid, nextId)
<1>1. work \in Seq(Msg) /\ Queue \in Seq(Msg) /\ InFlight = work \o Queue
  BY Frames, InFlightFacts
<1>2. PICK f : Handled(f, work)
  BY <1>1, HandleUpdatesRun
<1>3. \A i \in 0..Len(work) : GoodDb(f[i])
  BY <1>2, TransactionFacts
<1>4. PICK h : Follows(h, blocks, work \o Queue, Rows, liquid, nextId)
  BY <1>1 DEF Synced, Subscribed
<1>5. /\ Len(work) \in Nat /\ Len(work) <= Len(work \o Queue) /\ Len(work \o Queue) \in Nat
      /\ \A j \in 1..Len(work) : j \in 1..Len(work \o Queue) /\ (work \o Queue)[j] = work[j]
  BY <1>1
<1>6. h[0] = blocks
      /\ \A j \in 1..Len(work) : /\ h[j] = RowApplied(h[j - 1], work[j])
                                 /\ work[j].type = "rollback" => Position(h[j - 1], work[j].id) # 0
  BY <1>4, <1>5 DEF Follows
<1>7. /\ HandleUpdates(work).error # "unknown_block"
      /\ HandleUpdates(work).error = "none" => HandleUpdates(work).blocks = h[Len(work)]
  BY <1>1, <1>2, <1>3, <1>6, FoldRows
<1>8. Chain(h[Len(work)], Rows, liquid, nextId)
  <2>1. Len(work) \in 0..Len(work \o Queue)
    BY <1>5
  <2> QED BY <1>4, <2>1 DEF Follows
<1>9. \E g : Follows(g, h[Len(work)], Queue, Rows, liquid, nextId)
  BY <1>1, <1>4, FollowsTaken
<1> QED BY <1>7, <1>8, <1>9

LEMMA CommitSynced ==
  ASSUME Base, Synced, Commit
  PROVE  Synced'
<1>1. pc = "txn" /\ pc' = "store" /\ UNCHANGED <<node, liquid, nextId, resent>>
      /\ HandleUpdates(work).error = "none" /\ blocks' = HandleUpdates(work).blocks
  BY DEF Commit, nodeVars
<1>2. ~resent /\ InFlight' = Queue
  BY CommitBase, CommitTakes
<1>3. /\ Chain(blocks', Rows, liquid, nextId)
      /\ \E g : Follows(g, blocks', Queue, Rows, liquid, nextId)
  BY <1>1, <1>2, TransactionSynced
<1>4. Rows' = Rows
  BY <1>1 DEF Rows, Ids
<1> QED BY <1>1, <1>2, <1>3, <1>4 DEF Synced

\* A process stops while the node has what it will keep.
LEMMA StopSynced ==
  ASSUME Base, Synced, Stop, KeptBy(node), UNCHANGED <<nodeVars, blocks>>
  PROVE  Synced'
<1>1. pc' = "down" /\ ~Subscribed' /\ UNCHANGED <<node, liquid, nextId, blocks>>
  BY DEF Stop, Subscribed, nodeVars
<1>2. Rows' = Rows
  BY <1>1 DEF Rows, Ids
<1>3. Chain(blocks, Rows, liquid, nextId)
  BY DEF Synced
<1>4. RollbackRows' = RollbackRows
  BY <1>1, KeptSame
<1> DEFINE p == IF RollbackRows = {} THEN 0 ELSE Min(RollbackRows)
<1>5. Kept' = p
  BY <1>1, <1>4 DEF Kept
<1>6. p \in 0..Len(blocks) /\ Len(blocks) \in Nat
  BY <1>3, KeptBelow, DbFacts
<1>7. \A i \in 1..p : i \in KeptRows
  BY <1>3, KeepsNoMore
<1> HIDE DEF p
<1>8. \A i \in 1..p : Position(node, blocks[i].id) # 0
  BY <1>6, <1>7 DEF KeptBy
<1>9. KeptIn(blocks, p, Rows)
  <2> DEFINE T == Seq(Nat)
  <2>1. node \in Seq(UnitOver(T)) /\ Rows = Ids(node) /\ p \in Nat
    BY <1>6, NodeIds DEF Base, NodeOk, Rows
  <2> HIDE DEF T
  <2> QED BY <1>8, <2>1, KeptFacts
<1> QED BY <1>1, <1>2, <1>3, <1>5, <1>9 DEF Synced

LEMMA SyncInit ==
  ASSUME Init
  PROVE  SyncOk
<1>1. blocks = << >> /\ pc = "down" /\ error = "none"
  BY DEF Init
<1>2. Chain(blocks, Rows, liquid, nextId)
  BY <1>1, ChainEmpty
<1>3. RollbackRows = {}
  BY <1>1 DEF RollbackRows
<1>4. Kept = 0
  BY <1>1, <1>3 DEF Kept
<1>5. KeptIn(blocks, Kept, Rows)
  BY <1>4 DEF KeptIn
<1> QED BY <1>1, <1>2, <1>5 DEF SyncOk, Synced, Subscribed

LEMMA SyncStep ==
  ASSUME Base, SyncOk, [Next]_vars
  PROVE  SyncOk'
<1>1. CASE MineBlock \/ MineMicroblock
  <2>1. PICK m : Moves(m) /\ m.type # "rollback"
    BY <1>1, MineBlockMoves, MineMicroblockMoves DEF Base
  <2>2. UNCHANGED <<memVars, pc, from, dbVars, resent>> /\ stray' = stray /\ error' = error
    BY <1>1 DEF MineBlock, MineMicroblock
  <2>3. Synced => Synced'
    BY <2>1, <2>2, MoveSynced
  <2> QED BY <2>2, <2>3 DEF SyncOk
<1>2. CASE Reorganise
  <2>1. PICK m : Moves(m)
    BY <1>2, ReorganiseMoves DEF Base
  <2>2. UNCHANGED <<memVars, pc, from, dbVars, resent>> /\ error' = error
        /\ stray' = (stray \/ (~Subscribed /\ ~KeptBy(node')))
    BY <1>2 DEF Reorganise
  <2>3. Synced /\ ~stray' => Synced'
    BY <2>1, <2>2, MoveSynced
  <2> QED BY <2>2, <2>3 DEF SyncOk
<1>3. CASE SendAgain
  <2>1. stray' = stray /\ error' = error
    BY <1>3 DEF SendAgain
  <2> QED BY <1>3, <2>1, SendAgainSynced DEF SyncOk
<1>4. CASE Receive \/ SendBatch \/ TakeBatch \/ StoreMetric \/ Publish \/ EndBatch
  <2>1. stray' = stray /\ error' = error
    BY <1>4 DEF Receive, SendBatch, TakeBatch, StoreMetric, Publish, EndBatch
  <2> QED BY <1>4, <2>1, FlowSynced DEF SyncOk
<1>5. CASE Start
  <2>1. stray' = stray /\ error' = "none"
    BY <1>5 DEF Start
  <2> QED BY <1>5, <2>1, StartSynced DEF SyncOk
<1>6. CASE Connect
  <2>1. stray' = stray /\ error' = error
    BY <1>6 DEF Connect
  <2> QED BY <1>6, <2>1, ConnectSynced DEF SyncOk
<1>7. CASE Commit
  <2>1. stray' = stray /\ error' = error
    BY <1>7 DEF Commit
  <2> QED BY <1>7, <2>1, CommitSynced DEF SyncOk
<1>8. CASE FailTransaction \/ Crash \/ IdleTimeout
  <2>1. Stop /\ UNCHANGED <<nodeVars, blocks>> /\ stray' = (stray \/ ~KeptBy(node))
    BY <1>8 DEF FailTransaction, Crash, IdleTimeout, dbVars, Stop
  <2>2. ~stray' => Synced'
    BY <2>1, StopSynced DEF SyncOk
  <2>3. error' = "unknown_block" => stray'
    <3>1. CASE Crash \/ IdleTimeout
      BY <2>1, <3>1 DEF Crash, IdleTimeout, SyncOk
    <3>2. CASE FailTransaction
      <4> SUFFICES ASSUME ~stray PROVE error' # "unknown_block"
        BY <2>1
      <4>1. pc = "txn" /\ error' = HandleUpdates(work).error
        BY <3>2 DEF FailTransaction
      <4>2. CASE ~resent
        BY <4>1, <4>2, TransactionSynced DEF SyncOk
      <4>3. CASE resent
        <5>1. HandleUpdates(work).error = "unique_violation"
          <6>1. \E f : Handled(f, work)
            BY Frames, HandleUpdatesRun
          <6> QED BY <4>1, <4>3, <6>1, TransactionFacts
        <5> QED BY <4>1, <5>1
      <4> QED BY <4>2, <4>3
    <3> QED BY <1>8, <3>1, <3>2
  <2> QED BY <2>2, <2>3 DEF SyncOk
<1>9. CASE UNCHANGED vars
  <2>1. UNCHANGED <<node, liquid, nextId, pc, from, blocks, resent, stray, error, work, chan, batch, wire>>
    BY <1>9 DEF vars, nodeVars, memVars, dbVars
  <2>2. Rows' = Rows /\ Top' = Top /\ Kept' = Kept /\ InFlight' = InFlight
    BY <2>1, KeptSame DEF Rows, Top, Ids, InFlight
  <2> QED BY <2>1, <2>2 DEF SyncOk, Synced, Subscribed
<1> QED BY <1>1, <1>2, <1>3, <1>4, <1>5, <1>6, <1>7, <1>8, <1>9, Zenon DEF Next, Reader, Loop

\* TargetStored: the block a rollback message or the startup rollback names is
\* stored under that identifier when HandleRollback looks for it, through any
\* squashes, batches, repeated blocks, reorganisations and crashes.
THEOREM TargetStored == Spec => []RollbackTargetStored
<1>1. Spec => [](Base /\ SyncOk)
  <2>1. Init => Base /\ SyncOk
    BY BaseInit, SyncInit
  <2>2. Base /\ SyncOk /\ [Next]_vars => Base' /\ SyncOk'
    BY BaseStep, SyncStep
  <2> QED BY <2>1, <2>2, PTL DEF Spec
<1>2. Base /\ SyncOk => RollbackTargetStored
  BY DEF SyncOk, RollbackTargetStored
<1> QED BY <1>1, <1>2, PTL

----------------------------------------------------------------------------
(* The delayed replica.                                                    *)

\* g is the run of Caught over what is in flight.
CatchesUpBy(g) ==
  /\ g[0] = Stored
  /\ \A i \in 1..Len(InFlight) : g[i] = Applied(g[i - 1], InFlight[i])
  /\ Caught = g[Len(InFlight)]

LEMMA CaughtRun ==
  ASSUME InFlight \in Seq(Msg)
  PROVE  \E g : CatchesUpBy(g)
<1> DEFINE n == Len(InFlight)
           IsRun(h, k) == h = [i \in 0..k |-> IF i = 0 THEN Stored ELSE Applied(h[i - 1], InFlight[i])]
           P == {k \in 0..n : \E h : IsRun(h, k)}
<1>1. n \in Nat
  OBVIOUS
<1>2. 0 \in P
  <2> DEFINE g == [i \in 0..0 |-> Stored]
  <2>1. g = [i \in 0..0 |-> IF i = 0 THEN Stored ELSE Applied(g[i - 1], InFlight[i])]
    OBVIOUS
  <2>2. IsRun(g, 0)
    BY <2>1
  <2> HIDE DEF IsRun, g
  <2> QED BY <2>2, <1>1
<1>3. \A k \in 1..n : k - 1 \in P => k \in P
  <2> SUFFICES ASSUME NEW k \in 1..n, k - 1 \in P PROVE \E g : IsRun(g, k)
    <3> HIDE DEF IsRun
    <3> QED BY <1>1
  <2> PICK h : IsRun(h, k - 1)
    <3> HIDE DEF IsRun
    <3> QED OBVIOUS
  <2> DEFINE g == [i \in 0..k |-> IF i < k THEN h[i] ELSE Applied(h[k - 1], InFlight[k])]
  <2>1. \A i \in 0..k : g[i] = IF i = 0 THEN Stored ELSE Applied(g[i - 1], InFlight[i])
    <3> SUFFICES ASSUME NEW i \in 0..k
                 PROVE  g[i] = IF i = 0 THEN Stored ELSE Applied(g[i - 1], InFlight[i])
      OBVIOUS
    <3>1. CASE i = k
      BY <3>1
    <3>2. CASE i < k
      <4>1. h[i] = IF i = 0 THEN Stored ELSE Applied(h[i - 1], InFlight[i])
        BY <3>2
      <4>2. g[i] = h[i] /\ (i # 0 => g[i - 1] = h[i - 1])
        BY <3>2
      <4> QED BY <4>1, <4>2
    <3> QED BY <3>1, <3>2
  <2>2. IsRun(g, k)
    <3>1. g = [i \in 0..k |-> g[i]]
      OBVIOUS
    <3> HIDE DEF g
    <3> QED BY <2>1, <3>1
  <2> QED BY <2>2
<1>4. n \in P
  <2> HIDE DEF P, n
  <2>1. \A i \in 0..n : i \in P
    BY <1>1, <1>2, <1>3, IntervalInduction
  <2> QED BY <1>1, <2>1
<1>5. Caught = (CHOOSE h : IsRun(h, n))[n]
  BY DEF Caught
<1>6. IsRun(CHOOSE h : IsRun(h, n), n)
  BY <1>4, <1>1
<1> DEFINE f == CHOOSE h : IsRun(h, n)
<1> HIDE DEF f
<1>7. f = [i \in 0..n |-> IF i = 0 THEN Stored ELSE Applied(f[i - 1], InFlight[i])]
  BY <1>6 DEF f
<1>8. f[0] = Stored /\ \A i \in 1..n : f[i] = Applied(f[i - 1], InFlight[i])
  BY <1>1, <1>7
<1>9. Caught = f[n]
  BY <1>5 DEF f
<1> QED BY <1>8, <1>9 DEF CatchesUpBy

LEMMA StoredFacts ==
  ASSUME blocks \in Seq(Row)
  PROVE  \E T : Seq(Nat) \subseteq T /\ Stored \in Seq(UnitOver(T)) /\ Ids(Stored) = blocks
<1> DEFINE T == Seq(Nat) \cup {TxsAt(i) : i \in 1..Len(blocks)}
           U(i) == [id |-> blocks[i].id, h |-> blocks[i].h, key |-> blocks[i].key, txs |-> TxsAt(i)]
<1>1. \A i \in 1..Len(blocks) : TxsAt(i) \in T
  OBVIOUS
<1>2. Seq(Nat) \subseteq T
  OBVIOUS
<1> HIDE DEF T
<1>3. ASSUME NEW i \in 1..Len(blocks)
      PROVE  U(i) \in UnitOver(T) /\ U(i).id = blocks[i].id /\ U(i).h = blocks[i].h /\ U(i).key = blocks[i].key
  <2>1. blocks[i].id \in Nat /\ blocks[i].h \in Nat /\ blocks[i].key \in BOOLEAN
    BY RowFields
  <2> QED BY <1>1, <2>1 DEF UnitOver
<1>4. Stored = [i \in 1..Len(blocks) |-> U(i)]
  BY DEF Stored
<1> HIDE DEF U
<1>5. Stored \in Seq(UnitOver(T)) /\ Len(Stored) = Len(blocks) /\ \A i \in 1..Len(blocks) : Stored[i] = U(i)
  <2>1. Len(blocks) \in Nat
    OBVIOUS
  <2> QED BY <1>3, <1>4, <2>1
<1>6. Ids(Stored) = blocks
  <2> DEFINE c == Ids(Stored)
  <2>1. c \in Seq(Row) /\ Len(c) = Len(blocks) /\ \A i \in 1..Len(blocks) : c[i] = RowOf(Stored[i])
    BY <1>5, IdsFacts
  <2> HIDE DEF c
  <2>2. ASSUME NEW i \in 1..Len(blocks) PROVE c[i] = blocks[i]
    <3>1. c[i] = [id |-> blocks[i].id, h |-> blocks[i].h, key |-> blocks[i].key]
      BY <1>3, <1>5, <2>1 DEF RowOf
    <3>2. blocks[i] \in Row
      OBVIOUS
    <3> QED BY <3>1, <3>2 DEF Row
  <2>3. c = blocks
    BY <2>1, <2>2, SameRows
  <2> QED BY <2>3 DEF c
<1> QED BY <1>2, <1>5, <1>6

\* What is stored runs, over what is in flight, through the chains that its rows
\* run through.
LEMMA CaughtRows ==
  ASSUME Base, NEW f, Follows(f, blocks, InFlight, Rows, liquid, nextId)
  PROVE  Ids(Caught) = Rows
<1> DEFINE q == InFlight
           n == Len(q)
<1>1. q \in Seq(Msg) /\ n \in Nat
  BY InFlightFacts
<1>2. PICK g : CatchesUpBy(g)
  BY <1>1, CaughtRun
<1>3. g[0] = Stored /\ Caught = g[n] /\ \A i \in 1..n : g[i] = Applied(g[i - 1], q[i])
  BY <1>2 DEF CatchesUpBy
<1>4. f[0] = blocks /\ f[n] = Rows /\ (\A i \in 1..n : f[i] = RowApplied(f[i - 1], q[i]))
      /\ \A i \in 0..n : Chain(f[i], Rows, liquid, nextId)
  BY DEF Follows
<1> HIDE DEF q, n
<1> DEFINE Ok(i) == \E T : Seq(Nat) \subseteq T /\ g[i] \in Seq(UnitOver(T)) /\ Ids(g[i]) = f[i]
           S == {i \in 0..n : Ok(i)}
<1>5. 0 \in S
  BY <1>1, <1>3, <1>4, StoredFacts, DbFacts
<1>6. ASSUME NEW i \in 1..n, i - 1 \in S PROVE i \in S
  <2>1. PICK T : Seq(Nat) \subseteq T /\ g[i - 1] \in Seq(UnitOver(T)) /\ Ids(g[i - 1]) = f[i - 1]
    BY <1>6
  <2> DEFINE c == g[i - 1]
             m == q[i]
  <2>2. c \in Seq(UnitOver(T)) /\ Ids(c) = f[i - 1] /\ m \in Msg /\ i - 1 \in 0..n
    BY <1>1, <2>1 DEF n
  <2>3. g[i] = Applied(c, m) /\ f[i] = RowApplied(Ids(c), m)
    BY <1>3, <1>4, <2>2
  <2> HIDE DEF c, m
  <2>4. c # << >> => c[1].key
    <3> SUFFICES ASSUME c # << >> PROVE c[1].key
      OBVIOUS
    <3>1. PICK k : ShapeAt(f[i - 1], k)
      BY <1>4, <2>2 DEF Chain
    <3>2. Ids(c) # << >> /\ 1 \in 1..Len(c) /\ Ids(c)[1].key = c[1].key
      BY <2>2, IdsFacts
    <3>3. Ids(c)[1].key
      BY <2>2, <3>1, <3>2, ShapeFacts
    <3> QED BY <3>2, <3>3
  <2>5. \E V : /\ T \subseteq V /\ (T = Seq(Nat) => V = T)
               /\ Applied(c, m) \in Seq(UnitOver(V)) /\ Ids(Applied(c, m)) = RowApplied(Ids(c), m)
    BY <2>1, <2>2, <2>4, AppliedFacts
  <2>6. Ok(i)
    BY <2>1, <2>3, <2>5
  <2> HIDE DEF Ok
  <2> QED BY <2>6
<1>7. \A i \in 0..n : i \in S
  <2> HIDE DEF S
  <2> QED BY <1>1, <1>5, <1>6, IntervalInduction
<1>8. Ok(n)
  BY <1>1, <1>7
<1> QED BY <1>3, <1>4, <1>8

\* RowsReplicated: the rows of blocks_microblocks, with the messages in flight
\* applied, are the rows of the node's chain: between stream, batch, channel,
\* transaction and restart no block is lost, repeated or out of order.
THEOREM RowsReplicated == Spec => []BlocksReplica
<1>1. Spec => [](Base /\ SyncOk)
  <2>1. Init => Base /\ SyncOk
    BY BaseInit, SyncInit
  <2>2. Base /\ SyncOk /\ [Next]_vars => Base' /\ SyncOk'
    BY BaseStep, SyncStep
  <2> QED BY <2>1, <2>2, PTL DEF Spec
<1>2. Base /\ SyncOk => BlocksReplica
  <2> SUFFICES ASSUME Base, SyncOk, pc # "down", ~resent, ~stray PROVE Ids(Caught) = Ids(node)
    BY DEF BlocksReplica
  <2>1. \E f : Follows(f, blocks, InFlight, Rows, liquid, nextId)
    <3>1. CASE pc = "connect"
      <4>1. Resumes(blocks, Rows, liquid, Top) /\ from = StartHeight + Len(blocks)
        BY <3>1 DEF SyncOk, Synced
      <4>2. node \in Seq(Unit) /\ NodeRows(Ids(node), liquid, nextId, Top) /\ Rows = Ids(node)
        BY DEF Base, NodeOk, Rows
      <4>3. \E f : Follows(f, blocks, History(node, StartHeight + Len(blocks)), Ids(node), liquid, nextId)
        BY <4>1, <4>2, FollowsHistory
      <4>4. InFlight = History(node, from)
        BY <3>1, InFlightFacts
      <4> QED BY <4>1, <4>2, <4>3, <4>4
    <3>2. CASE pc # "connect"
      BY <3>2 DEF SyncOk, Synced, Subscribed
    <3> QED BY <3>1, <3>2
  <2> QED BY <2>1, CaughtRows DEF Rows
<1> QED BY <1>1, <1>2, PTL

----------------------------------------------------------------------------
(* The transactions of a merged block, and of the key block it was.        *)

\* The merged block has the transactions of the key block and its microblocks.
LEMMA MergedTxs ==
  ASSUME NEW T, NEW c \in Seq(UnitOver(T)), c # << >>, ~Last(c).key, c[1].key
  PROVE  /\ LastKey(c) \in 1..(Len(c) - 1)
         /\ Merged(c)[LastKey(c)].txs =
              FlattenSeq([i \in 1..(Len(c) - LastKey(c) + 1) |-> c[LastKey(c) + i - 1].txs])
<1> DEFINE k == LastKey(c)
           id == Last(c).id
           U == FlattenSeq([i \in 1..(Len(c) - k + 1) |-> c[k + i - 1].txs])
           q == SubSeq(c, 1, k)
<1>1. k \in 1..(Len(c) - 1)
  <2>1. /\ Ids(c) \in Seq(Row) /\ Len(Ids(c)) = Len(c) /\ Ids(c) # << >> /\ LastKey(Ids(c)) = k
        /\ \A i \in 1..Len(c) : Ids(c)[i].key = c[i].key
    BY IdsFacts, IdsSearch
  <2>2. Len(c) \in 1..Len(c) /\ 1 \in 1..Len(c)
    OBVIOUS
  <2>3. ~Last(Ids(c)).key /\ Ids(c)[1].key
    BY <2>1, <2>2 DEF Last
  <2> QED BY <2>1, <2>3, RowMergedFacts
<1> HIDE DEF k
<1>2. q \in Seq(UnitOver(T)) /\ Len(q) = k /\ q[k] = c[k] /\ c[k] \in UnitOver(T)
  <2>1. k \in 0..Len(c) /\ k \in 1..k /\ k \in 1..Len(c)
    BY <1>1
  <2>2. q \in Seq(UnitOver(T)) /\ Len(q) = k /\ \A i \in 1..k : q[i] = c[i]
    BY <2>1, Prefix
  <2> QED BY <2>1, <2>2
<1>3. Merged(c) = [q EXCEPT ![k].id = id, ![k].txs = U]
  BY DEF Merged, k
<1> HIDE DEF q, id, U
<1> DEFINE r == [[q[k] EXCEPT !.id = id] EXCEPT !.txs = U]
<1>4. Merged(c) = [q EXCEPT ![k] = r]
  BY <1>3
<1>5. r.txs = U
  <2> DEFINE u == q[k]
             v == [id |-> id, h |-> u.h, key |-> u.key, txs |-> u.txs]
             d == [id |-> id, h |-> u.h, key |-> u.key, txs |-> U]
  <2>1. u \in UnitOver(T)
    BY <1>2
  <2> HIDE DEF u
  <2>2. [u EXCEPT !.id = id] = v
    BY <2>1 DEF UnitOver
  <2>3. [v EXCEPT !.txs = U] = d
    OBVIOUS
  <2>4. d.txs = U
    OBVIOUS
  <2> HIDE DEF v, d
  <2>5. r = d
    BY <2>2, <2>3, Zenon DEF u
  <2> QED BY <2>4, <2>5
<1> HIDE DEF r
<1>6. k \in DOMAIN q
  BY <1>1, <1>2
<1>7. Merged(c)[k].txs = U
  BY <1>4, <1>5, <1>6
<1> QED BY <1>1, <1>7 DEF k, U

LEMMA MergedUnits ==
  ASSUME NEW c \in Seq(Unit), c # << >>, c[1].key
  PROVE  Merged(c) \in Seq(Unit)
<1> DEFINE T == Seq(Nat)
<1>1. c \in Seq(UnitOver(T)) /\ Unit = UnitOver(T)
  BY DEF Unit, UnitOver
<1>2. CASE Last(c).key
  BY <1>2 DEF Merged
<1>3. CASE ~Last(c).key
  <2> DEFINE all == [i \in 1..(Len(c) - LastKey(c) + 1) |-> c[LastKey(c) + i - 1].txs]
  <2>1. Merged(c) \in Seq(UnitOver(T \cup {FlattenSeq(all)})) /\ all \in Seq(T) /\ Len(all) # 0
    <3> HIDE DEF T
    <3> QED BY <1>1, <1>3, MergedFacts
  <2> HIDE DEF all
  <2>2. FlattenSeq(all) \in T
    BY <2>1, FlattenNat
  <2>3. T \cup {FlattenSeq(all)} = T
    BY <2>2
  <2> QED BY <1>1, <2>1, <2>3
<1> QED BY <1>2, <1>3

----------------------------------------------------------------------------
(* What a message does to the transactions.                                *)

\* The rows that a message inserts at block row at, and the generator after it.
NewTxs(g, m, at) == {[uid |-> NextUid(g, i), tx |-> m.txs[i], at |-> at] : i \in DOMAIN m.txs}
Taken(g, m) == [height |-> g.height, id |-> g.id + Len(m.txs)]

Collide(x, y) == \E r \in x, t \in y : r.uid = t.uid

LEMMA InsertEffect ==
  ASSUME NEW s \in Db, NEW m \in Msg
  PROVE  LET g   == AtHeight(s.gen, m.h)
             new == NewTxs(g, m, Position(s.blocks, m.id))
         IN  /\ InsertTxs(s, m).txs = s.txs \cup new
             /\ InsertTxs(s, m).gen = Taken(g, m) /\ g \in [height : Nat, id : Nat]
             /\ InsertTxs(s, m).blocks = s.blocks
             /\ InsertTxs(s, m).error = IF Collide(s.txs, new) THEN "unique_violation" ELSE s.error
<1> DEFINE g == AtHeight(s.gen, m.h)
           new == NewTxs(g, m, Position(s.blocks, m.id))
           ng == [g EXCEPT !.id = @ + Len(m.txs)]
           ne == IF Collide(s.txs, new) THEN "unique_violation" ELSE s.error
<1>1. m.h \in Nat /\ m.txs \in Seq(Nat) /\ s.gen \in [height : Nat, id : Nat]
  BY DEF Msg, Db
<1>2. g \in [height : Nat, id : Nat]
  BY <1>1 DEF AtHeight
<1>3. ng = Taken(g, m)
  <2> HIDE DEF g
  <2> QED BY <1>2 DEF Taken
<1>4. InsertTxs(s, m) = [s EXCEPT !.gen = ng, !.txs = s.txs \cup new, !.events = s.events \o m.txs, !.error = ne]
  BY DEF InsertTxs, NewTxs, Collide
<1> HIDE DEF ng, ne, new, g
<1>5. /\ InsertTxs(s, m).txs = s.txs \cup new /\ InsertTxs(s, m).gen = ng
      /\ InsertTxs(s, m).blocks = s.blocks /\ InsertTxs(s, m).error = ne
  BY <1>4 DEF Db
<1> QED BY <1>2, <1>3, <1>5 DEF g, ne, new

\* The transactions once the microblocks are merged.
SquashedTxs(s, m) == IF m.type = "block" THEN Squash(s).txs ELSE s.txs

LEMMA HandleEffect ==
  ASSUME NEW s, GoodDb(s), s.error = "none", NEW m \in Msg, m.type # "rollback",
         s.blocks = << >> => Opening(m)
  PROVE  LET g   == AtHeight(s.gen, m.h)
             at  == Position(Handle(m, s).blocks, m.id)
             new == NewTxs(g, m, at)
         IN  /\ Handle(m, s).txs = SquashedTxs(s, m) \cup new
             /\ Handle(m, s).gen = Taken(g, m) /\ g \in [height : Nat, id : Nat]
             /\ at \in 1..Len(Handle(m, s).blocks)
             /\ Handle(m, s).error = IF Collide(SquashedTxs(s, m), new) THEN "unique_violation" ELSE "none"
<1> DEFINE a == IF m.type = "block" THEN Squash(s) ELSE s
           b == Upsert(a, m)
<1>1. Handle(m, s) = InsertTxs(b, m)
  <2>1. m.type \in {"block", "microblock"}
    BY DEF Msg
  <2> QED BY <2>1 DEF Handle
<1>2. GoodDb(a) /\ a.gen = s.gen /\ (a.blocks = << >> <=> s.blocks = << >>) /\ a.error = "none"
      /\ a.txs = SquashedTxs(s, m)
  <2>1. /\ GoodDb(Squash(s)) /\ Squash(s).gen = s.gen
        /\ (Squash(s).blocks = << >> <=> s.blocks = << >>) /\ Squash(s).error = s.error
    BY SquashGood
  <2> QED BY <2>1 DEF SquashedTxs
<1> HIDE DEF a
<1>3. /\ b \in Db /\ b.gen = a.gen /\ b.txs = a.txs /\ b.error = a.error
      /\ Position(b.blocks, m.id) \in 1..Len(b.blocks)
  BY <1>2, UpsertGood
<1> HIDE DEF b
<1> DEFINE g == AtHeight(s.gen, m.h)
           new == NewTxs(g, m, Position(b.blocks, m.id))
<1>4. /\ InsertTxs(b, m).txs = b.txs \cup new
      /\ InsertTxs(b, m).gen = Taken(g, m) /\ g \in [height : Nat, id : Nat]
      /\ InsertTxs(b, m).blocks = b.blocks
      /\ InsertTxs(b, m).error = IF Collide(b.txs, new) THEN "unique_violation" ELSE b.error
  <2>1. b.gen = s.gen
    BY <1>2, <1>3
  <2> QED BY <1>3, <2>1, InsertEffect
<1> HIDE DEF g
<1> QED BY <1>1, <1>2, <1>3, <1>4 DEF g

LEMMA RollbackEffect ==
  ASSUME NEW s, GoodDb(s), s.error = "none", NEW m \in Msg, m.type = "rollback",
         Position(s.blocks, m.id) # 0
  PROVE  /\ Handle(m, s).txs = {t \in s.txs : t.at <= Position(s.blocks, m.id)}
         /\ Handle(m, s).gen = s.gen /\ Handle(m, s).error = "none"
         /\ Handle(m, s).blocks = SubSeq(s.blocks, 1, Position(s.blocks, m.id))
<1> DEFINE p == Position(s.blocks, m.id)
           b == SubSeq(s.blocks, 1, p)
           x == {t \in s.txs : t.at <= p}
<1>1. Handle(m, s) = [s EXCEPT !.blocks = b, !.txs = x]
  BY DEF Handle, HandleRollback, RolledBack
<1> HIDE DEF b, x
<1>2. /\ Handle(m, s).txs = x /\ Handle(m, s).gen = s.gen /\ Handle(m, s).error = s.error
      /\ Handle(m, s).blocks = b
  BY <1>1 DEF GoodDb, Db
<1> QED BY <1>2 DEF b, x

----------------------------------------------------------------------------
(* The order of uids.                                                      *)

UidsBelow(x, g) == \A t \in x : t.uid < g.height * Multiplier + g.id
UidsOrdered(x) == \A t, u \in x : t.at < u.at => t.uid < u.uid

\* Merging the microblocks keeps the order.
LEMMA SquashUids ==
  ASSUME NEW s, GoodDb(s), UidsOrdered(s.txs), NEW g, UidsBelow(s.txs, g)
  PROVE  UidsOrdered(Squash(s).txs) /\ UidsBelow(Squash(s).txs, g)
<1>1. CASE s.blocks = << >> \/ Last(s.blocks).key
  BY <1>1 DEF Squash
<1>2. CASE ~ (s.blocks = << >> \/ Last(s.blocks).key)
  <2> DEFINE b == s.blocks
             k == LastKey(b)
             nb == RowMerged(b)
             F(t) == IF t.at > k THEN [t EXCEPT !.at = k] ELSE t
             nt == {F(t) : t \in s.txs}
  <2>1. b \in Seq(Row) /\ s.txs \in SUBSET TxRow
    BY <1>2 DEF GoodDb, Db
  <2>2. k \in Nat
    BY <2>1, LastKeyFacts
  <2> HIDE DEF k
  <2>3. \A t \in s.txs : /\ F(t).uid = t.uid /\ F(t).at = IF t.at > k THEN k ELSE t.at
                         /\ t.at \in Nat /\ t.uid \in Nat
    BY <2>1, <2>2 DEF TxRow
  <2> HIDE DEF F
  <2>4. UidsBelow(nt, g)
    BY <2>3 DEF UidsBelow
  <2>5. UidsOrdered(nt)
    <3> SUFFICES ASSUME NEW t \in s.txs, NEW u \in s.txs, F(t).at < F(u).at PROVE F(t).uid < F(u).uid
      BY DEF UidsOrdered
    <3>1. t.at < u.at
      BY <2>2, <2>3
    <3> QED BY <2>3, <3>1 DEF UidsOrdered
  <2>6. Squash(s) = [s EXCEPT !.blocks = nb, !.txs = nt]
    BY <1>2 DEF Squash, F, k, RowMerged
  <2> HIDE DEF nb, nt
  <2>7. Squash(s).txs = nt
    BY <2>6 DEF GoodDb, Db
  <2> QED BY <2>4, <2>5, <2>7
<1> QED BY <1>1, <1>2

\* A generator whose uids do not run into those of the next height gives uids
\* above all it gave before.
LEMMA GeneratorMoves ==
  ASSUME NEW g \in [height : Nat, id : Nat], g.id <= Multiplier, NEW h \in Nat
  PROVE  /\ g.height * Multiplier + g.id <= AtHeight(g, h).height * Multiplier + AtHeight(g, h).id
         /\ AtHeight(g, h).id <= g.id /\ AtHeight(g, h) \in [height : Nat, id : Nat]
<1>1. g.height \in Nat /\ g.id \in Nat /\ Multiplier \in Nat
  BY ConsumerAssumption
<1>2. CASE ~ (g.height < h)
  BY <1>1, <1>2 DEF AtHeight
<1>3. CASE g.height < h
  <2>1. AtHeight(g, h) = [height |-> h, id |-> 0]
    BY <1>3 DEF AtHeight
  <2>2. g.height * Multiplier + Multiplier <= h * Multiplier
    <3>1. PICK d \in Nat : h = g.height + 1 + d
      <4>1. h - g.height - 1 \in Nat /\ h = g.height + 1 + (h - g.height - 1)
        BY <1>1, <1>3
      <4> QED BY <4>1
    <3>2. h * Multiplier = g.height * Multiplier + Multiplier + d * Multiplier
      BY <1>1, <3>1
    <3>3. d * Multiplier \in Nat /\ g.height * Multiplier \in Nat
      BY <1>1
    <3> QED BY <1>1, <3>2, <3>3
  <2>3. g.height * Multiplier \in Nat /\ h * Multiplier \in Nat
    BY <1>1
  <2> QED BY <1>1, <2>1, <2>2, <2>3
<1> QED BY <1>2, <1>3

LEMMA NewUids ==
  ASSUME NEW x \in SUBSET TxRow, NEW g \in [height : Nat, id : Nat], UidsBelow(x, g),
         NEW m \in Msg, NEW at \in Nat
  PROVE  /\ ~Collide(x, NewTxs(g, m, at))
         /\ UidsBelow(x \cup NewTxs(g, m, at), Taken(g, m))
         /\ UidsOrdered(x) /\ (\A t \in x : t.at <= at) => UidsOrdered(x \cup NewTxs(g, m, at))
<1> DEFINE z == g.height * Multiplier + g.id
           n == Len(m.txs)
           new == NewTxs(g, m, at)
<1>1. z \in Nat /\ n \in Nat /\ m.txs \in Seq(Nat) /\ g.height * Multiplier \in Nat /\ g.id \in Nat
  <2>1. g.height * Multiplier \in Nat /\ g.id \in Nat
    BY ConsumerAssumption
  <2>2. m.txs \in Seq(Nat)
    BY DEF Msg
  <2> QED BY <2>1, <2>2
<1>2. \A t \in x : t.uid < z /\ t.uid \in Nat /\ t.at \in Nat
  BY DEF UidsBelow, TxRow
<1>3. ASSUME NEW t \in new PROVE t.uid \in z..(z + n - 1) /\ t.at = at
  <2>1. PICK i \in 1..n : t = [uid |-> NextUid(g, i), tx |-> m.txs[i], at |-> at]
    BY <1>1 DEF NewTxs
  <2>2. NextUid(g, i) = z + i - 1
    BY <1>1 DEF NextUid
  <2> QED BY <1>1, <2>1, <2>2
<1>4. Taken(g, m).height * Multiplier + Taken(g, m).id = z + n
  BY <1>1 DEF Taken
<1> HIDE DEF z, n, new
<1>5. ~Collide(x, new)
  BY <1>1, <1>2, <1>3 DEF Collide
<1>6. UidsBelow(x \cup new, Taken(g, m))
  BY <1>1, <1>2, <1>3, <1>4 DEF UidsBelow
<1>7. UidsOrdered(x) /\ (\A t \in x : t.at <= at) => UidsOrdered(x \cup new)
  <2> SUFFICES ASSUME UidsOrdered(x), \A t \in x : t.at <= at,
                      NEW t \in x \cup new, NEW u \in x \cup new, t.at < u.at
               PROVE  t.uid < u.uid
    BY DEF UidsOrdered
  <2>1. t \in x
    BY <1>2, <1>3
  <2>2. CASE u \in x
    BY <2>1, <2>2 DEF UidsOrdered
  <2>3. CASE u \in new
    BY <1>1, <1>2, <1>3, <2>1, <2>3
  <2> QED BY <2>2, <2>3
<1> QED BY <1>5, <1>6, <1>7 DEF new

\* Uids in order, and all below those to come.
UidsOk(s) == UidsBelow(s.txs, s.gen) /\ UidsOrdered(s.txs)

\* A message whose block ends up last keeps that, if its uids fit.
LEMMA HandleUids ==
  ASSUME NEW s, GoodDb(s), s.error = "none", UidsOk(s), NEW m \in Msg,
         s.blocks = << >> => Opening(m) /\ s.gen = NewGenerator,
         m.type = "rollback" => Position(s.blocks, m.id) # 0,
         Ends(Handle(m, s).blocks, m), s.gen.id <= Multiplier
  PROVE  /\ UidsOk(Handle(m, s)) /\ Handle(m, s).error = "none"
         /\ Handle(m, s).gen.id <= s.gen.id + Len(m.txs)
<1> DEFINE d == Handle(m, s)
<1>1. GoodDb(d) /\ d.blocks \in Seq(Row) /\ d.txs \in SUBSET TxRow /\ s.gen \in [height : Nat, id : Nat]
  BY HandleGood DEF GoodDb, Db
<1>2. m.txs \in Seq(Nat) /\ Len(m.txs) \in Nat /\ m.h \in Nat
  BY DEF Msg
<1>3. CASE m.type = "rollback"
  <2>1. d.txs \subseteq s.txs /\ d.gen = s.gen /\ d.error = "none"
    BY <1>3, RollbackEffect
  <2> HIDE DEF d
  <2>2. UidsOk(d)
    BY <2>1 DEF UidsOk, UidsBelow, UidsOrdered
  <2>3. s.gen.id <= s.gen.id + Len(m.txs)
    BY <1>1, <1>2
  <2> QED BY <2>1, <2>2, <2>3 DEF d
<1>4. CASE m.type # "rollback"
  <2> DEFINE g == AtHeight(s.gen, m.h)
             at == Position(d.blocks, m.id)
             x == SquashedTxs(s, m)
             new == NewTxs(g, m, at)
  <2>1. /\ d.txs = x \cup new /\ d.gen = Taken(g, m) /\ at \in 1..Len(d.blocks)
        /\ d.error = IF Collide(x, new) THEN "unique_violation" ELSE "none"
    BY <1>4, HandleEffect
  <2>2. s.gen.height * Multiplier + s.gen.id <= g.height * Multiplier + g.id
        /\ g.id <= s.gen.id /\ g \in [height : Nat, id : Nat]
    BY <1>1, <1>2, GeneratorMoves
  <2>3. at = Len(d.blocks) /\ Len(d.blocks) \in Nat
    <3> HIDE DEF d
    <3>1. d.blocks # << >> /\ d.blocks[Len(d.blocks)].id = m.id
      BY DEF Ends, Last, d
    <3>2. Len(d.blocks) \in 1..Len(d.blocks)
      BY <1>1, <3>1
    <3>3. Len(d.blocks) <= at
      BY <1>1, <2>1, <3>1, <3>2, PositionFacts
    <3> QED BY <1>1, <2>1, <3>3
  <2>4. x \in SUBSET TxRow /\ \A t \in x : t.at <= at
    <3>1. \A t \in d.txs : t.at \in DOMAIN d.blocks
      BY <1>1 DEF GoodDb
    <3> HIDE DEF d, x, new
    <3>2. x \subseteq d.txs /\ DOMAIN d.blocks = 1..Len(d.blocks)
      BY <1>1, <2>1
    <3> QED BY <1>1, <2>3, <3>1, <3>2
  <2>5. UidsOrdered(x) /\ UidsBelow(x, s.gen)
    BY SquashUids DEF SquashedTxs, UidsOk
  <2> HIDE DEF d, x, g
  <2>6. UidsBelow(x, g)
    <3> SUFFICES ASSUME NEW t \in x PROVE t.uid < g.height * Multiplier + g.id
      BY DEF UidsBelow
    <3>1. t.uid < s.gen.height * Multiplier + s.gen.id /\ t.uid \in Nat
      BY <2>4, <2>5 DEF UidsBelow, TxRow
    <3>2. s.gen.height * Multiplier + s.gen.id \in Nat /\ g.height * Multiplier + g.id \in Nat
      <4>1. \A f \in [height : Nat, id : Nat] : f.height * Multiplier + f.id \in Nat
        BY ConsumerAssumption
      <4> QED BY <1>1, <2>2, <4>1
    <3> QED BY <2>2, <3>1, <3>2
  <2>7. at \in Nat
    BY <2>3
  <2> HIDE DEF at
  <2>8. ~Collide(x, new) /\ UidsBelow(x \cup new, Taken(g, m)) /\ UidsOrdered(x \cup new)
    BY <2>2, <2>4, <2>5, <2>6, <2>7, NewUids
  <2>9. d.gen.id <= s.gen.id + Len(m.txs)
    <3>1. d.gen.id = g.id + Len(m.txs) /\ g.id \in Nat /\ s.gen.id \in Nat
      BY <1>1, <2>1, <2>2 DEF Taken
    <3> QED BY <1>2, <2>2, <3>1
  <2> QED BY <2>1, <2>8, <2>9 DEF d, UidsOk
<1> QED BY <1>3, <1>4

----------------------------------------------------------------------------
(* How many uids a process takes.                                          *)

\* No message finds the uids of its height used up.
UidsFit ==
  pc = "txn" => \A f : Handled(f, work) => \A i \in 0..Len(work) : f[i].gen.id <= Multiplier

----------------------------------------------------------------------------
(* The order of uids in one process.                                       *)

\* Before the first end of a process nothing disturbs it.
Calm ==
  crashes = 0 =>
    /\ ~stray /\ ~resent /\ error = "none"
    /\ ~Subscribed => blocks = << >>
    /\ UidsBelow(txs, gen) /\ UidsOrdered(txs)

LEMMA TransactionUids ==
  ASSUME Base, Synced, pc = "txn", ~resent, UidsFit, UidsBelow(txs, gen), UidsOrdered(txs)
  PROVE  HandleUpdates(work).error = "none" /\ UidsOk(HandleUpdates(work))
<1>1. work \in Seq(Msg) /\ Queue \in Seq(Msg) /\ InFlight = work \o Queue
  BY Frames, InFlightFacts
<1>2. PICK f : Handled(f, work)
  BY <1>1, HandleUpdatesRun
<1>3. \A i \in 0..Len(work) : GoodDb(f[i]) /\ f[i].gen.id <= Multiplier
  BY <1>2, TransactionFacts DEF UidsFit
<1>4. PICK h : Follows(h, blocks, work \o Queue, Rows, liquid, nextId)
  BY <1>1 DEF Synced, Subscribed
<1>5. /\ Len(work) \in Nat
      /\ \A j \in 1..Len(work) : j \in 1..Len(work \o Queue) /\ (work \o Queue)[j] = work[j]
  BY <1>1
<1>6. h[0] = blocks
      /\ \A j \in 1..Len(work) : /\ h[j] = RowApplied(h[j - 1], work[j])
                                 /\ work[j].type = "rollback" => Position(h[j - 1], work[j].id) # 0
                                 /\ Ends(h[j], work[j])
  BY <1>4, <1>5 DEF Follows
<1>7. blocks = << >> => Opening(work[1]) /\ gen = NewGenerator
  <2> SUFFICES ASSUME blocks = << >> PROVE Opening(work[1]) /\ gen = NewGenerator
    OBVIOUS
  <2>1. gen = NewGenerator /\ Opening(InFlight[1])
    BY DEF Base, StreamOk, Subscribed
  <2>2. work # << >>
    BY DEF Base, MemoryOk
  <2>3. (work \o Queue)[1] = work[1]
    BY <1>1, <2>2
  <2> QED BY <1>1, <2>1, <2>3
<1> DEFINE S == {i \in 0..Len(work) : f[i].error = "none" /\ f[i].blocks = h[i] /\ UidsOk(f[i])}
<1>8. 0 \in S
  <2>1. f[0] = Before
    BY <1>2 DEF Handled
  <2>2. Before.error = "none" /\ Before.blocks = h[0] /\ Before.txs = txs /\ Before.gen = gen
    BY <1>6 DEF Before
  <2> QED BY <1>5, <2>1, <2>2 DEF UidsOk
<1>9. \A i \in 1..Len(work) : i - 1 \in S => i \in S
  <2> SUFFICES ASSUME NEW i \in 1..Len(work), i - 1 \in S PROVE i \in S
    OBVIOUS
  <2> DEFINE s == f[i - 1]
             m == work[i]
  <2>1. i - 1 \in 0..Len(work) /\ i \in 0..Len(work)
    BY <1>5
  <2>2. f[i] = Handle(m, s) /\ m \in Msg /\ GoodDb(s) /\ s.gen.id <= Multiplier
    BY <1>1, <1>2, <1>3, <2>1 DEF Handled
  <2>3. s.error = "none" /\ s.blocks = h[i - 1] /\ UidsOk(s)
    OBVIOUS
  <2>4. s.blocks = << >> => Opening(m) /\ s.gen = NewGenerator
    <3> SUFFICES ASSUME s.blocks = << >> PROVE Opening(m) /\ s.gen = NewGenerator
      OBVIOUS
    <3>1. i = 1
      <4> SUFFICES ASSUME i # 1 PROVE FALSE
        OBVIOUS
      <4>1. i - 1 \in 1..Len(work)
        BY <1>5
      <4>2. h[i - 1] # << >>
        BY <1>6, <4>1 DEF Ends
      <4> QED BY <2>3, <4>2
    <3>2. s = Before
      BY <1>2, <3>1 DEF Handled
    <3> QED BY <1>7, <3>1, <3>2 DEF Before
  <2>5. /\ h[i] = RowApplied(s.blocks, m)
        /\ m.type = "rollback" => Position(s.blocks, m.id) # 0
        /\ Ends(h[i], m)
    BY <1>6, <2>3
  <2> HIDE DEF s, m
  <2>6. Handle(m, s).blocks = h[i]
    <3>1. s \in Db
      BY <2>2 DEF GoodDb
    <3> QED BY <2>2, <2>3, <2>5, <3>1, HandleRows
  <2>7. Ends(Handle(m, s).blocks, m)
    BY <2>5, <2>6
  <2>8. UidsOk(Handle(m, s)) /\ Handle(m, s).error = "none"
    BY <2>2, <2>3, <2>4, <2>5, <2>7, HandleUids
  <2> QED BY <2>1, <2>2, <2>6, <2>8
<1>10. \A i \in 0..Len(work) : i \in S
  <2> HIDE DEF S
  <2> QED BY <1>5, <1>8, <1>9, IntervalInduction
<1>11. Len(work) \in S
  BY <1>5, <1>10
<1> QED BY <1>2, <1>11 DEF Handled

LEMMA CalmStep ==
  ASSUME Base, SyncOk, Calm, UidsFit, [Next]_vars
  PROVE  Calm'
<1> SUFFICES ASSUME crashes' = 0
             PROVE  /\ ~stray' /\ ~resent' /\ error' = "none"
                    /\ ~Subscribed' => blocks' = << >>
                    /\ UidsBelow(txs, gen)' /\ UidsOrdered(txs)'
  BY DEF Calm
<1>1. crashes \in Nat
  <2>1. crashes \in 0..MaxCrashes
    BY DEF Base, TypeOK
  <2> QED BY <2>1
<1>2. CASE MineBlock \/ MineMicroblock \/ SendAgain
  <2>1. UNCHANGED <<memVars, dbVars, pc, stray, resent, error, crashes>>
    BY <1>2 DEF MineBlock, MineMicroblock, SendAgain
  <2>2. UNCHANGED <<txs, gen, blocks>>
    BY <2>1 DEF memVars, dbVars
  <2> QED BY <2>1, <2>2 DEF Calm, Subscribed, UidsBelow, UidsOrdered
<1>3. CASE Reorganise
  <2>1. UNCHANGED <<memVars, dbVars, pc, resent, error, crashes>>
        /\ stray' = (stray \/ (~Subscribed /\ ~KeptBy(node')))
    BY <1>3 DEF Reorganise
  <2>2. UNCHANGED <<txs, gen, blocks>>
    BY <2>1 DEF memVars, dbVars
  <2>3. ~Subscribed => KeptBy(node')
    <3>1. ~Subscribed => DOMAIN blocks = {}
      BY <2>1 DEF Calm
    <3>2. DOMAIN blocks = {} => KeptRows = {}
      BY DEF KeptRows
    <3> QED BY <3>1, <3>2 DEF KeptBy
  <2> QED BY <2>1, <2>2, <2>3 DEF Calm, Subscribed, UidsBelow, UidsOrdered
<1>4. CASE Receive \/ SendBatch \/ TakeBatch \/ StoreMetric \/ Publish \/ EndBatch
  <2>1. Subscribed /\ Subscribed' /\ UNCHANGED <<dbVars, gen, stray, resent, error, crashes>>
    BY <1>4 DEF Receive, SendBatch, TakeBatch, StoreMetric, Publish, EndBatch, Subscribed, memVars
  <2>2. UNCHANGED <<txs, blocks>>
    BY <2>1 DEF dbVars
  <2> QED BY <2>1, <2>2 DEF Calm, UidsBelow, UidsOrdered
<1>5. CASE Start
  <2>1. pc = "down" /\ UNCHANGED <<memVars, stray, crashes>> /\ error' = "none"
        /\ resent' = (RollbackRows = {} /\ blocks # << >>)
    BY <1>5 DEF Start
  <2>2. blocks = << >> /\ ~stray /\ UidsBelow(txs, gen) /\ UidsOrdered(txs)
    BY <2>1 DEF Calm, Subscribed
  <2>3. RollbackRows = {}
    BY <2>2 DEF RollbackRows
  <2>4. UNCHANGED <<txs, blocks, gen>>
    BY <1>5, <2>1, <2>3 DEF Start, dbVars, memVars
  <2> QED BY <2>1, <2>2, <2>4 DEF UidsBelow, UidsOrdered
<1>6. CASE Connect
  <2>1. UNCHANGED <<memVars, dbVars, stray, resent, error, crashes>> /\ Subscribed'
    BY <1>6 DEF Connect, Subscribed
  <2>2. UNCHANGED <<txs, gen>>
    BY <2>1 DEF memVars, dbVars
  <2> QED BY <2>1, <2>2 DEF Calm, UidsBelow, UidsOrdered
<1>7. ASSUME pc = "txn", crashes = 0
      PROVE  HandleUpdates(work).error = "none" /\ UidsOk(HandleUpdates(work))
  <2>1. Synced /\ ~resent /\ UidsBelow(txs, gen) /\ UidsOrdered(txs)
    BY <1>7 DEF Calm, SyncOk
  <2> QED BY <1>7, <2>1, TransactionUids
<1>8. CASE Commit
  <2>1. /\ pc = "txn" /\ UNCHANGED <<stray, resent, error, crashes>> /\ Subscribed'
        /\ txs' = HandleUpdates(work).txs /\ gen' = HandleUpdates(work).gen
    BY <1>8 DEF Commit, Subscribed
  <2>2. UidsBelow(txs', gen') /\ UidsOrdered(txs')
    BY <1>7, <2>1 DEF UidsOk
  <2> QED BY <2>1, <2>2 DEF Calm, UidsBelow, UidsOrdered
<1>9. CASE FailTransaction
  <2>1. pc = "txn" /\ crashes = 0 /\ HandleUpdates(work).error # "none"
    BY <1>9 DEF FailTransaction
  <2> QED BY <1>7, <2>1
<1>10. CASE Crash \/ IdleTimeout
  BY <1>1, <1>10, ConsumerAssumption DEF Crash, IdleTimeout
<1>11. CASE UNCHANGED vars
  <2>1. UNCHANGED <<memVars, dbVars, pc, stray, resent, error, crashes>>
    BY <1>11 DEF vars
  <2>2. UNCHANGED <<txs, gen, blocks>>
    BY <2>1 DEF memVars, dbVars
  <2> QED BY <2>1, <2>2 DEF Calm, Subscribed, UidsBelow, UidsOrdered
<1> QED BY <1>2, <1>3, <1>4, <1>5, <1>6, <1>8, <1>9, <1>10, <1>11, Zenon DEF Next, Reader, Loop

LEMMA CalmInit ==
  ASSUME Init
  PROVE  Calm
BY DEF Init, Calm, Subscribed, UidsBelow, UidsOrdered

\* UidsOrderedIfFit: as long as no message finds the uids of its height used up,
\* the uids one process gives out follow the rows, through blocks, microblocks,
\* key blocks that merge them, rollbacks and blocks sent again.
THEOREM UidsOrderedIfFit == Spec /\ []UidsFit => []UidsInChainOrder
<1>1. Init => Base /\ SyncOk /\ Calm
  BY BaseInit, SyncInit, CalmInit
<1>2. Base /\ SyncOk /\ Calm /\ UidsFit /\ [Next]_vars => Base' /\ SyncOk' /\ Calm'
  BY BaseStep, SyncStep, CalmStep
<1>3. Calm => UidsInChainOrder
  BY DEF Calm, UidsInChainOrder, UidsOrdered
<1> QED BY <1>1, <1>2, <1>3, PTL DEF Spec

\* DuplicatesAbsorbedIfFit: under the same condition a process that has not ended
\* never takes a uid that is stored: block_uid reads a block that is sent
\* again, and its transactions are numbered anew.
THEOREM DuplicatesAbsorbedIfFit == Spec /\ []UidsFit => []RunningAbsorbsDuplicates
<1>1. Init => Base /\ SyncOk /\ Calm
  BY BaseInit, SyncInit, CalmInit
<1>2. Base /\ SyncOk /\ Calm /\ UidsFit /\ [Next]_vars => Base' /\ SyncOk' /\ Calm'
  BY BaseStep, SyncStep, CalmStep
<1>3. Calm => RunningAbsorbsDuplicates
  BY DEF Calm, RunningAbsorbsDuplicates, DuplicatesAbsorbed
<1> QED BY <1>1, <1>2, <1>3, PTL DEF Spec

----------------------------------------------------------------------------
(* The transactions of a row, in uid order.                                *)

\* v is the rows R in uid order, w their transactions.
Listing(v, R, w) ==
  /\ v \in Seq(R) /\ w \in Seq(Nat) /\ Len(v) = Len(w)
  /\ \A j \in 1..Len(v) : v[j].tx = w[j]
  /\ \A i, j \in 1..Len(v) : i < j => v[i].uid < v[j].uid
  /\ \A t \in R : \E j \in 1..Len(v) : v[j] = t

Lists(R, w) == \E v : Listing(v, R, w)

\* An index counts the rows with smaller uids.
LEMMA ListingCount ==
  ASSUME NEW R \in SUBSET TxRow, NEW v, NEW w, Listing(v, R, w)
  PROVE  /\ Cardinality(R) = Len(w)
         /\ \A j \in 1..Len(w) : Cardinality({u \in R : u.uid < v[j].uid}) = j - 1
<1> DEFINE n == Len(w)
<1>1. n \in Nat /\ v \in [1..n -> R] /\ Len(v) = n
  BY DEF Listing
<1>2. \A i, j \in 1..n : i < j => v[i].uid < v[j].uid
  BY <1>1 DEF Listing
<1>3. \A t \in R : \E j \in 1..n : v[j] = t
  BY <1>1 DEF Listing
<1>4. \A t \in R : t.uid \in Nat
  BY DEF TxRow
<1>5. \A i \in 1..n : v[i] \in R /\ v[i].uid \in Nat
  BY <1>1, <1>4
<1> HIDE DEF n
<1>6. \A i, j \in 1..n : v[i].uid < v[j].uid => i < j
  BY <1>1, <1>2, <1>5
<1>7. \A i, j \in 1..n : v[i] = v[j] => i = j
  BY <1>1, <1>2, <1>5
<1>8. Cardinality(R) = n
  <2>1. v \in Bijection(1..n, R)
    BY <1>1, <1>3, <1>7 DEF Bijection, Injection, Surjection, IsInjective
  <2>2. IsFiniteSet(1..n) /\ Cardinality(1..n) = n
    BY <1>1, FS_Interval
  <2>3. ExistsBijection(1..n, R)
    BY <2>1 DEF ExistsBijection
  <2> QED BY <2>2, <2>3, FS_Bijection
<1>9. ASSUME NEW j \in 1..n PROVE Cardinality({u \in R : u.uid < v[j].uid}) = j - 1
  <2> DEFINE P == {u \in R : u.uid < v[j].uid}
             f == [i \in 1..(j - 1) |-> v[i]]
  <2>1. \A i \in 1..(j - 1) : i \in 1..n /\ f[i] = v[i] /\ v[i] \in P
    BY <1>1, <1>2, <1>5
  <2>2. \A t \in P : \E i \in 1..(j - 1) : f[i] = t
    <3> SUFFICES ASSUME NEW t \in P PROVE \E i \in 1..(j - 1) : f[i] = t
      OBVIOUS
    <3>1. PICK i \in 1..n : v[i] = t
      BY <1>3
    <3>2. i < j
      BY <1>6, <3>1
    <3>3. i \in 1..(j - 1)
      BY <1>1, <3>2
    <3> QED BY <3>1, <3>3
  <2> HIDE DEF P
  <2>3. f \in [1..(j - 1) -> P]
    BY <2>1
  <2>4. \A a, b \in 1..(j - 1) : f[a] = f[b] => a = b
    BY <1>7, <2>1
  <2> HIDE DEF f
  <2>5. f \in Bijection(1..(j - 1), P)
    BY <2>2, <2>3, <2>4 DEF Bijection, Injection, Surjection, IsInjective
  <2>6. IsFiniteSet(1..(j - 1)) /\ Cardinality(1..(j - 1)) = j - 1
    <3>1. 1 \in Int /\ j - 1 \in Int /\ (IF 1 > j - 1 THEN 0 ELSE j - 1 - 1 + 1) = j - 1
      BY <1>1
    <3> QED BY <3>1, FS_Interval
  <2>7. ExistsBijection(1..(j - 1), P)
    BY <2>5 DEF ExistsBijection
  <2>8. Cardinality(P) = j - 1
    BY <2>6, <2>7, FS_Bijection
  <2> QED BY <2>8 DEF P
<1> QED BY <1>8, <1>9 DEF n

\* So a reader finds them in the order they are listed.
LEMMA ListedTxs ==
  ASSUME txs \in SUBSET TxRow, NEW i, NEW w, Lists({t \in txs : t.at = i}, w)
  PROVE  TxsAt(i) = w
<1> DEFINE R == {t \in txs : t.at = i}
           nth(j) == CHOOSE t \in R : Cardinality({u \in R : u.uid < t.uid}) = j - 1
<1>1. PICK v : Listing(v, R, w)
  BY DEF Lists
<1>2. R \in SUBSET TxRow
  OBVIOUS
<1>3. TxsAt(i) = [j \in 1..Cardinality(R) |-> nth(j).tx]
  BY DEF TxsAt
<1> HIDE DEF R
<1>4. /\ Cardinality(R) = Len(w)
      /\ \A j \in 1..Len(w) : Cardinality({u \in R : u.uid < v[j].uid}) = j - 1
  BY <1>1, <1>2, ListingCount
<1>5. /\ Len(v) = Len(w) /\ w \in Seq(Nat) /\ v \in Seq(R)
      /\ \A t \in R : \E j \in 1..Len(w) : v[j] = t
      /\ \A j \in 1..Len(w) : v[j].tx = w[j]
  BY <1>1 DEF Listing
<1>6. ASSUME NEW j \in 1..Len(w) PROVE nth(j) = v[j]
  <2>0. v[j] \in R
    BY <1>5
  <2>1. v[j] \in R /\ Cardinality({u \in R : u.uid < v[j].uid}) = j - 1
    BY <1>4, <2>0
  <2>2. ASSUME NEW t \in R, Cardinality({u \in R : u.uid < t.uid}) = j - 1 PROVE t = v[j]
    <3>1. PICK a \in 1..Len(w) : v[a] = t
      BY <1>5
    <3>2. a - 1 = j - 1
      BY <1>4, <2>2, <3>1
    <3>3. a = j
      BY <1>5, <3>2
    <3> QED BY <3>1, <3>3
  <2>3. nth(j) \in R /\ Cardinality({u \in R : u.uid < nth(j).uid}) = j - 1
    BY <2>1
  <2> HIDE DEF nth
  <2> QED BY <2>2, <2>3
<1> HIDE DEF nth
<1>7. TxsAt(i) = [j \in 1..Len(w) |-> w[j]]
  BY <1>3, <1>4, <1>5, <1>6
<1>8. w = [j \in 1..Len(w) |-> w[j]]
  BY <1>5
<1> QED BY <1>7, <1>8

\* Rows whose uids are all larger follow.
LEMMA ListsTogether ==
  ASSUME NEW A \in SUBSET TxRow, NEW B \in SUBSET TxRow, NEW x, NEW y, Lists(A, x), Lists(B, y),
         \A t \in A, u \in B : t.uid < u.uid
  PROVE  Lists(A \cup B, x \o y)
<1>1. PICK v : Listing(v, A, x)
  BY DEF Lists
<1>2. PICK z : Listing(z, B, y)
  BY DEF Lists
<1> DEFINE n == Len(x)
           k == Len(y)
           R == A \cup B
           w == v \o z
           q == x \o y
<1>3. /\ v \in Seq(A) /\ x \in Seq(Nat) /\ Len(v) = n /\ n \in Nat
      /\ z \in Seq(B) /\ y \in Seq(Nat) /\ Len(z) = k /\ k \in Nat
  BY <1>1, <1>2 DEF Listing
<1>4. /\ \A j \in 1..n : v[j].tx = x[j] /\ v[j] \in A
      /\ \A j \in 1..k : z[j].tx = y[j] /\ z[j] \in B
  BY <1>1, <1>2, <1>3 DEF Listing
<1>5. /\ q \in Seq(Nat) /\ Len(q) = n + k
      /\ \A j \in 1..n : q[j] = x[j]
      /\ \A j \in (n + 1)..(n + k) : q[j] = y[j - n]
  BY <1>3
<1>6. w \in Seq(R) /\ Len(w) = n + k
  <2>1. A \subseteq R /\ B \subseteq R
    OBVIOUS
  <2> HIDE DEF R, n, k
  <2>2. v \in Seq(R)
    BY <1>3, <2>1
  <2>3. z \in Seq(R)
    BY <1>3, <2>1
  <2>4. Len(v) = n /\ Len(z) = k
    BY <1>3
  <2>5. \A a, b \in Seq(R) : a \o b \in Seq(R) /\ Len(a \o b) = Len(a) + Len(b)
    OBVIOUS
  <2> QED BY <2>2, <2>3, <2>4, <2>5
<1>7. /\ \A j \in 1..n : w[j] = v[j]
      /\ \A j \in (n + 1)..(n + k) : w[j] = z[j - n]
  BY <1>3
<1>8. \A j \in (n + 1)..(n + k) : j - n \in 1..k
  BY <1>3
<1> HIDE DEF w, q, n, k
<1>9. ASSUME NEW j \in 1..(n + k) PROVE w[j].tx = q[j]
  <2>1. CASE j \in 1..n
    BY <1>4, <1>5, <1>7, <2>1
  <2>2. CASE j \in (n + 1)..(n + k)
    BY <1>4, <1>5, <1>7, <1>8, <2>2
  <2> QED BY <1>3, <2>1, <2>2
<1>10. ASSUME NEW i \in 1..(n + k), NEW j \in 1..(n + k), i < j PROVE w[i].uid < w[j].uid
  <2>1. CASE j \in 1..n
    <3>1. i \in 1..n
      BY <1>3, <1>10, <2>1
    <3>2. v[i].uid < v[j].uid
      BY <1>1, <1>3, <1>10, <2>1, <3>1 DEF Listing
    <3> QED BY <1>7, <2>1, <3>1, <3>2
  <2>2. CASE i \in 1..n /\ j \in (n + 1)..(n + k)
    <3>1. v[i] \in A /\ z[j - n] \in B
      BY <1>4, <1>8, <2>2
    <3> QED BY <1>7, <2>2, <3>1
  <2>3. CASE i \in (n + 1)..(n + k) /\ j \in (n + 1)..(n + k)
    <3>1. i - n \in 1..k /\ j - n \in 1..k /\ i - n < j - n
      BY <1>3, <1>10, <2>3
    <3>2. z[i - n].uid < z[j - n].uid
      BY <1>2, <1>3, <3>1 DEF Listing
    <3> QED BY <1>7, <2>3, <3>2
  <2>4. (j \in 1..n) \/ (j \in (n + 1)..(n + k) /\ (i \in 1..n \/ i \in (n + 1)..(n + k)))
    BY <1>3
  <2> QED BY <2>1, <2>2, <2>3, <2>4
<1>11. ASSUME NEW t \in R PROVE \E j \in 1..(n + k) : w[j] = t
  <2>1. CASE t \in A
    <3>1. PICK j \in 1..n : v[j] = t
      BY <1>1, <1>3, <2>1 DEF Listing
    <3>2. j \in 1..(n + k)
      BY <1>3
    <3> QED BY <1>7, <3>1, <3>2
  <2>2. CASE t \in B
    <3>1. PICK i \in 1..k : z[i] = t
      BY <1>2, <1>3, <2>2 DEF Listing
    <3>2. PICK j \in (n + 1)..(n + k) : j = n + i
      BY <1>3
    <3>3. j - n = i /\ j \in 1..(n + k)
      BY <1>3, <3>2
    <3> QED BY <1>7, <3>1, <3>2, <3>3
  <2> QED BY <2>1, <2>2
<1>12. Listing(w, R, q)
  BY <1>5, <1>6, <1>9, <1>10, <1>11 DEF Listing
<1> QED BY <1>12 DEF Lists, q

\* The block row of a transaction does not matter to the order.
LEMMA ListsMoved ==
  ASSUME NEW R \in SUBSET TxRow, NEW w, Lists(R, w), NEW k
  PROVE  Lists({[t EXCEPT !.at = k] : t \in R}, w)
<1> DEFINE F(t) == [uid |-> t.uid, tx |-> t.tx, at |-> k]
           Q == {F(t) : t \in R}
<1>1. \A t \in R : [t EXCEPT !.at = k] = F(t)
  BY DEF TxRow
<1>2. {[t EXCEPT !.at = k] : t \in R} = Q
  <2> HIDE DEF F
  <2> QED BY <1>1, Zenon
<1>3. PICK v : Listing(v, R, w)
  BY DEF Lists
<1> DEFINE n == Len(w)
           z == [j \in 1..n |-> F(v[j])]
<1>4. n \in Nat /\ Len(v) = n /\ w \in Seq(Nat) /\ \A j \in 1..n : v[j] \in R
  BY <1>3 DEF Listing
<1>5. \A j \in 1..n : z[j] = F(v[j]) /\ z[j] \in Q /\ z[j].tx = v[j].tx /\ z[j].uid = v[j].uid
  BY <1>4
<1>6. z \in Seq(Q) /\ Len(z) = n
  <2> HIDE DEF Q, F
  <2> QED BY <1>4, <1>5
<1>7. ASSUME NEW t \in Q PROVE \E j \in 1..n : z[j] = t
  <2>1. PICK u \in R : t = F(u)
    OBVIOUS
  <2>2. PICK j \in 1..n : v[j] = u
    BY <1>3, <1>4 DEF Listing
  <2> HIDE DEF F
  <2> QED BY <1>5, <2>1, <2>2
<1> HIDE DEF z, Q
<1>8. /\ \A j \in 1..n : z[j].tx = w[j]
      /\ \A i, j \in 1..n : i < j => z[i].uid < z[j].uid
  BY <1>3, <1>4, <1>5 DEF Listing
<1>9. Listing(z, Q, w)
  BY <1>4, <1>6, <1>7, <1>8 DEF Listing
<1> QED BY <1>2, <1>9 DEF Lists

\* The rows a message inserts are listed in its order.
LEMMA ListsInserted ==
  ASSUME NEW g \in [height : Nat, id : Nat], NEW m \in Msg, NEW at \in Nat
  PROVE  Lists(NewTxs(g, m, at), m.txs)
<1> DEFINE n == Len(m.txs)
           F(i) == [uid |-> NextUid(g, i), tx |-> m.txs[i], at |-> at]
           z == [i \in 1..n |-> F(i)]
           Q == NewTxs(g, m, at)
<1>1. m.txs \in Seq(Nat) /\ n \in Nat /\ g.height * Multiplier \in Nat /\ g.id \in Nat
  BY ConsumerAssumption DEF Msg
<1>2. Q = {F(i) : i \in 1..n}
  <2>1. DOMAIN m.txs = 1..n
    BY <1>1
  <2> HIDE DEF n
  <2> QED BY <2>1, Zenon DEF NewTxs
<1>3. \A i \in 1..n : z[i] \in Q /\ z[i].tx = m.txs[i] /\ z[i].uid = NextUid(g, i)
  BY <1>2
<1>4. \A i, j \in 1..n : i < j => NextUid(g, i) < NextUid(g, j)
  BY <1>1 DEF NextUid
<1>5. z \in Seq(Q) /\ Len(z) = n
  <2>1. \A i \in 1..n : F(i) \in Q
    BY <1>2
  <2> HIDE DEF Q, F
  <2>2. z \in [1..n -> Q]
    BY <2>1
  <2> QED BY <1>1, <2>2
<1>6. \A t \in Q : \E j \in 1..n : z[j] = t
  BY <1>2
<1> HIDE DEF z, Q, F
<1>7. \A i, j \in 1..n : i < j => z[i].uid < z[j].uid
  BY <1>3, <1>4
<1> HIDE DEF n
<1>8. Listing(z, Q, m.txs)
  BY <1>1, <1>3, <1>5, <1>6, <1>7 DEF Listing, n
<1> QED BY <1>8 DEF Lists, Q

----------------------------------------------------------------------------
(* Chains with their transactions.                                         *)

\* The transactions of the rows that a merge folds into one.
Folded(c) == [i \in 1..(Len(c) - LastKey(c) + 1) |-> c[LastKey(c) + i - 1].txs]

LEMMA MergedChain ==
  ASSUME NEW c \in Seq(Unit), c # << >>, ~Last(c).key, c[1].key
  PROVE  /\ LastKey(c) \in 1..(Len(c) - 1)
         /\ Merged(c) \in Seq(Unit) /\ Len(Merged(c)) = LastKey(c)
         /\ \A i \in 1..(LastKey(c) - 1) : Merged(c)[i] = c[i]
         /\ Merged(c)[LastKey(c)].id = Last(c).id /\ Merged(c)[LastKey(c)].key
         /\ Merged(c)[LastKey(c)].txs = FlattenSeq(Folded(c))
<1> DEFINE k == LastKey(c)
           d == Merged(c)
           b == Ids(c)
           T == Seq(Nat)
<1>1. c \in Seq(UnitOver(T)) /\ Len(c) \in Nat /\ Len(c) # 0
  BY NodeIds
<1>2. /\ Ids(d) = RowMerged(b)
      /\ Len(d) = k /\ \A i \in 1..(k - 1) : d[i] = c[i]
  BY <1>1, MergedFacts, Zenon
<1>3. d \in Seq(Unit)
  BY MergedUnits
<1>4. k \in 1..(Len(c) - 1) /\ d[k].txs = FlattenSeq(Folded(c))
  BY <1>1, MergedTxs, Zenon DEF Folded
<1>5. /\ b \in Seq(Row) /\ b # << >> /\ ~Last(b).key /\ b[1].key /\ LastKey(b) = k
      /\ Last(b).id = Last(c).id
  <2>1. /\ b \in Seq(Row) /\ Len(b) = Len(c) /\ b # << >> /\ LastKey(b) = k
        /\ \A i \in 1..Len(c) : b[i].id = c[i].id /\ b[i].key = c[i].key
    BY NodeIds
  <2> HIDE DEF b, k
  <2>2. Len(c) \in 1..Len(c) /\ 1 \in 1..Len(c)
    BY <1>1
  <2> QED BY <2>1, <2>2 DEF Last
<1> HIDE DEF d, b, k
<1>6. RowMerged(b)[k].id = Last(b).id /\ RowMerged(b)[k].key
  <2>1. /\ k \in 1..k /\ b[k].key
        /\ \A i \in 1..k : RowMerged(b)[i] = IF i = k THEN [id |-> Last(b).id, h |-> b[i].h, key |-> b[i].key] ELSE b[i]
    BY <1>4, <1>5, RowMergedFacts
  <2>2. RowMerged(b)[k] = [id |-> Last(b).id, h |-> b[k].h, key |-> b[k].key]
    BY <2>1
  <2> QED BY <2>1, <2>2
<1>7. d[k].id = Last(c).id /\ d[k].key
  <2>1. k \in 1..Len(d)
    BY <1>2, <1>4
  <2>2. Ids(d)[k].id = d[k].id /\ Ids(d)[k].key = d[k].key
    BY <1>3, <2>1, NodeIds
  <2> QED BY <1>2, <1>5, <1>6, <2>2
<1> QED BY <1>2, <1>3, <1>4, <1>7 DEF d, k

LEMMA FoldedUnits ==
  ASSUME NEW c \in Seq(Unit), c # << >>, ~Last(c).key, c[1].key
  PROVE  Folded(c) \in Seq(Seq(Nat)) /\ Len(Folded(c)) # 0
<1>1. c \in Seq(UnitOver(Seq(Nat)))
  BY NodeIds
<1> QED BY <1>1, MergedFacts, Zenon DEF Folded

LEMMA AppliedUnits ==
  ASSUME NEW c \in Seq(Unit), c # << >> => c[1].key, NEW m \in Msg
  PROVE  Applied(c, m) \in Seq(Unit) /\ Ids(Applied(c, m)) = RowApplied(Ids(c), m)
<1>1. c \in Seq(UnitOver(Seq(Nat)))
  BY NodeIds
<1>2. PICK V : /\ Seq(Nat) \subseteq V /\ (Seq(Nat) = Seq(Nat) => V = Seq(Nat))
               /\ Applied(c, m) \in Seq(UnitOver(V)) /\ Ids(Applied(c, m)) = RowApplied(Ids(c), m)
  BY <1>1, AppliedFacts, Zenon
<1>3. Unit = UnitOver(Seq(Nat))
  BY DEF Unit, UnitOver
<1> QED BY <1>2, <1>3, Zenon

\* The chain a message is appended to, and the block it makes.
Base2(c, m) == IF m.type = "block" THEN Merged(c) ELSE c
UnitOf(m) == [id |-> m.id, h |-> m.h, key |-> m.type = "block", txs |-> m.txs]

LEMMA BaseUnits ==
  ASSUME NEW c \in Seq(Unit), c # << >> => c[1].key, NEW m
  PROVE  \/ Base2(c, m) = c /\ (m.type = "block" /\ c # << >> => Last(c).key)
         \/ m.type = "block" /\ c # << >> /\ ~Last(c).key /\ Base2(c, m) = Merged(c)
BY DEF Base2, Merged

LEMMA AppliedNew ==
  ASSUME NEW c \in Seq(Unit), c # << >> => c[1].key, NEW m \in Msg, m.type # "rollback",
         \A i \in 1..Len(c) : c[i].id # m.id
  PROVE  /\ Base2(c, m) \in Seq(Unit) /\ UnitOf(m) \in Unit
         /\ Applied(c, m) = Append(Base2(c, m), UnitOf(m))
<1>1. UnitOf(m) \in Unit
  BY DEF UnitOf, Msg, Unit
<1>2. Applied(c, m) = IF Position(Base2(c, m), m.id) # 0 THEN Base2(c, m) ELSE Append(Base2(c, m), UnitOf(m))
  BY DEF Applied, Base2, UnitOf
<1>3. CASE Base2(c, m) = c
  <2>1. Position(c, m.id) = 0
    BY PositionNone
  <2> QED BY <1>1, <1>2, <1>3, <2>1
<1>4. CASE m.type = "block" /\ c # << >> /\ ~Last(c).key /\ Base2(c, m) = Merged(c)
  <2> DEFINE d == Merged(c)
             k == LastKey(c)
  <2>1. /\ k \in 1..(Len(c) - 1) /\ d \in Seq(Unit) /\ Len(d) = k
        /\ \A i \in 1..(k - 1) : d[i] = c[i]
        /\ d[k].id = Last(c).id
    BY <1>4, MergedChain
  <2>2. Len(c) \in Nat /\ Last(c) = c[Len(c)]
    BY DEF Last
  <2> HIDE DEF d, k
  <2>3. ASSUME NEW i \in 1..Len(d) PROVE d[i].id # m.id
    <3>1. CASE i = k
      <4>1. Len(c) \in 1..Len(c)
        BY <2>1, <2>2
      <4> QED BY <2>1, <2>2, <3>1, <4>1
    <3>2. CASE i # k
      <4>1. i \in 1..(k - 1) /\ i \in 1..Len(c)
        BY <2>1, <2>2, <3>2
      <4> QED BY <2>1, <4>1
    <3> QED BY <3>1, <3>2
  <2>4. Position(d, m.id) = 0
    BY <2>1, <2>3, PositionNone
  <2> QED BY <1>1, <1>2, <1>4, <2>1, <2>4 DEF d
<1> QED BY <1>3, <1>4, BaseUnits

\* A block that both have has the same transactions, unless only the second has
\* its microblocks merged into it.
Agree(a, c) ==
  \A i \in 1..Len(a), j \in 1..Len(c) : a[i].id = c[j].id =>
    /\ a[i].key => c[j].key
    /\ (a[i].key <=> c[j].key) => a[i].txs = c[j].txs

LEMMA AgreeMerged ==
  ASSUME NEW a \in Seq(Unit), NEW c \in Seq(Unit), c # << >>, ~Last(c).key, c[1].key, Agree(a, c)
  PROVE  Agree(a, Merged(c))
<1> DEFINE d == Merged(c)
           k == LastKey(c)
<1>1. /\ k \in 1..(Len(c) - 1) /\ Len(d) = k /\ \A i \in 1..(k - 1) : d[i] = c[i]
      /\ d[k].id = Last(c).id /\ d[k].key
  BY MergedChain
<1>2. Len(c) \in Nat /\ Last(c) = c[Len(c)]
  BY DEF Last
<1> HIDE DEF d, k
<1>3. ASSUME NEW i \in 1..Len(a), NEW j \in 1..Len(d), a[i].id = d[j].id
      PROVE  (a[i].key => d[j].key) /\ ((a[i].key <=> d[j].key) => a[i].txs = d[j].txs)
  <2>1. CASE j = k
    <3>1. Len(c) \in 1..Len(c)
      BY <1>1, <1>2
    <3>2. a[i].key => c[Len(c)].key
      BY <1>1, <1>2, <1>3, <2>1, <3>1 DEF Agree
    <3> QED BY <1>1, <1>2, <2>1, <3>2
  <2>2. CASE j # k
    <3>1. j \in 1..(k - 1) /\ j \in 1..Len(c)
      BY <1>1, <1>2, <2>2
    <3>2. d[j] = c[j]
      BY <1>1, <3>1
    <3> QED BY <1>3, <3>1, <3>2 DEF Agree
  <2> QED BY <2>1, <2>2
<1> QED BY <1>3 DEF Agree, d

\* It stays so when the node moves.
LEMMA AgreeMoved ==
  ASSUME NEW a \in Seq(Unit), NEW c \in Seq(Unit), c # << >> => c[1].key, Agree(a, c),
         NEW m \in Msg,
         m.type # "rollback" => /\ \A i \in 1..Len(a) : a[i].id # m.id
                                /\ \A i \in 1..Len(c) : c[i].id # m.id
  PROVE  Agree(a, Applied(c, m))
<1>1. CASE m.type = "rollback"
  <2> DEFINE p == Position(c, m.id)
             d == SubSeq(c, 1, p)
  <2>1. p \in 0..Len(c) /\ Len(c) \in Nat
    BY PositionFacts
  <2> HIDE DEF p
  <2>2. Len(d) = p /\ \A i \in 1..p : d[i] = c[i] /\ i \in 1..Len(c)
    BY <2>1, Prefix
  <2>3. Applied(c, m) = d
    BY <1>1 DEF Applied, p
  <2> HIDE DEF d
  <2>4. Agree(a, d)
    BY <2>2 DEF Agree
  <2> QED BY <2>3, <2>4
<1>2. CASE m.type # "rollback"
  <2> DEFINE b == Base2(c, m)
             u == UnitOf(m)
             d == Append(b, u)
  <2>1. b \in Seq(Unit) /\ u \in Unit /\ Applied(c, m) = d
    BY <1>2, AppliedNew
  <2>2. Agree(a, b)
    <3>1. CASE b = c
      BY <3>1
    <3>2. CASE c # << >> /\ ~Last(c).key /\ b = Merged(c)
      BY <3>2, AgreeMerged
    <3> QED BY <3>1, <3>2, BaseUnits
  <2>3. u.id = m.id
    BY DEF UnitOf
  <2> HIDE DEF b, u
  <2>4. Len(d) = Len(b) + 1 /\ d[Len(b) + 1] = u /\ Len(b) \in Nat /\ \A i \in 1..Len(b) : d[i] = b[i]
    BY <2>1
  <2> HIDE DEF d
  <2>5. ASSUME NEW i \in 1..Len(a), NEW j \in 1..Len(d), a[i].id = d[j].id
        PROVE  (a[i].key => d[j].key) /\ ((a[i].key <=> d[j].key) => a[i].txs = d[j].txs)
    <3>1. j # Len(b) + 1
      BY <1>2, <2>3, <2>4, <2>5
    <3>2. j \in 1..Len(b)
      BY <2>4, <3>1
    <3> QED BY <2>2, <2>4, <2>5, <3>2 DEF Agree
  <2>6. Agree(a, d)
    BY <2>5 DEF Agree
  <2> QED BY <2>1, <2>6
<1> QED BY <1>1, <1>2

LEMMA AgreeOwn ==
  ASSUME NEW c \in Seq(Unit), \A i, j \in 1..Len(c) : c[i].id = c[j].id => i = j
  PROVE  Agree(c, c)
BY DEF Agree

LEMMA AgreePrefix ==
  ASSUME NEW a \in Seq(Unit), NEW c, Agree(a, c), NEW p \in 0..Len(a)
  PROVE  SubSeq(a, 1, p) \in Seq(Unit) /\ Agree(SubSeq(a, 1, p), c)
<1> DEFINE d == SubSeq(a, 1, p)
<1>1. d \in Seq(Unit) /\ Len(d) = p /\ \A i \in 1..p : d[i] = a[i] /\ i \in 1..Len(a)
  BY Prefix
<1> HIDE DEF d
<1>2. Agree(d, c)
  BY <1>1 DEF Agree
<1> QED BY <1>1, <1>2 DEF d

----------------------------------------------------------------------------
(* The tables as a chain with its transactions.                            *)

OfRow(x, i) == {t \in x : t.at = i}

\* The rows b and the transactions x are those of the chain u.
Mirrors(b, x, u) ==
  /\ u \in Seq(Unit) /\ Ids(u) = b
  /\ \A i \in 1..Len(u) : Lists(OfRow(x, i), u[i].txs)

\* From row k on, the uids follow the rows ...
OrderedFrom(x, k) == \A t, v \in x : t.at >= k /\ t.at < v.at => t.uid < v.uid

\* ... and the generator g goes on after them.
Current(b, x, g) ==
  /\ g.height >= Height(b) /\ OrderedFrom(x, LastKey(b))
  /\ \A t \in x : t.at >= LastKey(b) => t.uid < g.height * Multiplier + g.id

\* Rows in order are listed one after the other.
LEMMA JoinedLists ==
  ASSUME NEW x \in SUBSET TxRow, NEW k \in Nat, NEW n \in Nat \ {0}, OrderedFrom(x, k),
         NEW ss, \A i \in 1..n : Lists(OfRow(x, k + i - 1), ss[i]), NEW f, JoinRun(f, ss, n)
  PROVE  Lists({t \in x : t.at >= k /\ t.at <= k + n - 1}, f[n])
<1> DEFINE S(i) == {t \in x : t.at >= k /\ t.at <= k + i - 1}
           T == {i \in 0..n : i = 0 \/ Lists(S(i), f[i])}
<1>1. 0 \in T
  OBVIOUS
<1>0. \A t \in x : t.at \in Nat
  BY DEF TxRow
<1>2. ASSUME NEW i \in 1..n, i = 1 \/ Lists(S(i - 1), f[i - 1]) PROVE Lists(S(i), f[i])
  <2>1. f[i] = IF i = 1 THEN ss[i] ELSE f[i - 1] \o ss[i]
    BY DEF JoinRun, Join
  <2>2. CASE i = 1
    <3>1. \A t \in x : (t.at >= k /\ t.at <= k + i - 1) <=> t.at = k + i - 1
      BY <1>0, <2>2
    <3>2. S(i) = OfRow(x, k + i - 1)
      BY <3>1 DEF OfRow
    <3> QED BY <2>1, <2>2, <3>2
  <2>3. CASE i # 1
    <3> DEFINE A == S(i - 1)
               B == OfRow(x, k + i - 1)
    <3>1. \A t \in x : (t.at >= k /\ t.at <= k + i - 1)
                         <=> (t.at >= k /\ t.at <= k + (i - 1) - 1) \/ t.at = k + i - 1
      BY <1>0, <2>3
    <3>2. S(i) = A \cup B
      BY <3>1 DEF OfRow
    <3>3. A \in SUBSET TxRow /\ B \in SUBSET TxRow
      BY DEF OfRow
    <3>4. \A t \in A, v \in B : t.at >= k /\ t.at < v.at
      BY <1>0 DEF OfRow
    <3>5. \A t \in A, v \in B : t.uid < v.uid
      BY <3>4 DEF OrderedFrom, OfRow
    <3>6. Lists(A, f[i - 1]) /\ Lists(B, ss[i])
      BY <1>2, <2>3
    <3> HIDE DEF A, B, S
    <3>7. Lists(A \cup B, f[i - 1] \o ss[i])
      BY <3>3, <3>5, <3>6, ListsTogether
    <3> QED BY <2>1, <2>3, <3>2, <3>7
  <2> QED BY <2>2, <2>3
<1>3. \A i \in 1..n : i - 1 \in T => i \in T
  <2> HIDE DEF S
  <2> QED BY <1>2
<1> HIDE DEF T
<1>4. n \in T
  <2>1. n \in Nat
    OBVIOUS
  <2>2. \A i \in 0..n : i \in T
    BY <1>1, <1>3, <2>1, IntervalInduction
  <2> QED BY <2>1, <2>2
<1>5. n = 0 \/ Lists(S(n), f[n])
  BY <1>4, Zenon DEF T
<1> QED BY <1>5

LEMMA FlattenLists ==
  ASSUME NEW x \in SUBSET TxRow, NEW k \in Nat, OrderedFrom(x, k),
         NEW ss, ss \in Seq(Seq(Nat)), Len(ss) # 0,
         \A i \in 1..Len(ss) : Lists(OfRow(x, k + i - 1), ss[i])
  PROVE  Lists({t \in x : t.at >= k /\ t.at <= k + Len(ss) - 1}, FlattenSeq(ss))
<1> DEFINE n == Len(ss)
           f == CHOOSE h : JoinRun(h, ss, n)
<1>1. n \in Nat \ {0}
  OBVIOUS
<1>2. FlattenSeq(ss) = f[n]
  BY DEF FlattenSeq, Join, JoinRun
<1>3. \A i \in 1..n : Lists(OfRow(x, k + i - 1), ss[i])
  OBVIOUS
<1> HIDE DEF n
<1>4. JoinRun(f, ss, n)
  <2>1. \E h : JoinRun(h, ss, n)
    BY <1>1, JoinRunExists
  <2>2. JoinRun(CHOOSE h : JoinRun(h, ss, n), ss, n)
    BY <2>1, Zenon
  <2> QED BY <2>2, Zenon
<1> HIDE DEF f
<1>5. Lists({t \in x : t.at >= k /\ t.at <= k + n - 1}, f[n])
  BY <1>1, <1>3, <1>4, JoinedLists
<1> QED BY <1>2, <1>5 DEF n

\* A merge lists the transactions of the key block and of its microblocks.
LEMMA MergedLists ==
  ASSUME NEW c \in Seq(Unit), c # << >>, ~Last(c).key, c[1].key,
         NEW x \in SUBSET TxRow, \A t \in x : t.at \in 1..Len(c),
         \A i \in 1..Len(c) : Lists(OfRow(x, i), c[i].txs),
         OrderedFrom(x, LastKey(c)),
         NEW y, y = {IF t.at > LastKey(c) THEN [t EXCEPT !.at = LastKey(c)] ELSE t : t \in x}
  PROVE  \A i \in 1..Len(Merged(c)) : Lists(OfRow(y, i), Merged(c)[i].txs)
<1> DEFINE k == LastKey(c)
           d == Merged(c)
           ss == Folded(c)
           R == {t \in x : t.at >= k}
           F(t) == [t EXCEPT !.at = k]
<1>1. /\ k \in 1..(Len(c) - 1) /\ Len(d) = k /\ \A i \in 1..(k - 1) : d[i] = c[i]
      /\ d[k].txs = FlattenSeq(ss)
  BY MergedChain
<1>2. ss \in Seq(Seq(Nat)) /\ Len(ss) # 0
  BY FoldedUnits
<1>3. Len(ss) = Len(c) - k + 1 /\ Len(c) \in Nat /\ \A i \in 1..Len(ss) : ss[i] = c[k + i - 1].txs
  <2>1. Len(c) \in Nat
    OBVIOUS
  <2> HIDE DEF k
  <2>2. ss = [i \in 1..(Len(c) - k + 1) |-> c[k + i - 1].txs]
    BY DEF Folded, k
  <2>3. Len(c) - k + 1 \in Nat
    BY <1>1, <2>1
  <2> HIDE DEF ss
  <2> QED BY <2>1, <2>2, <2>3
<1>4. y = {IF t.at > k THEN F(t) ELSE t : t \in x}
  OBVIOUS
<1>5. \A t \in x : t.at \in Nat /\ t.at \in 1..Len(c) /\ t \in TxRow
  BY DEF TxRow
<1> HIDE DEF k, d, ss
<1>6. Lists(R, FlattenSeq(ss))
  <2> DEFINE n == Len(c)
             l == Len(ss)
  <2>0. l = n - k + 1 /\ n \in Nat /\ k \in 1..(n - 1)
    BY <1>1, <1>3
  <2> HIDE DEF n, l
  <2>1. \A i \in 1..l : k + i - 1 \in 1..n
    BY <2>0
  <2>2. \A i \in 1..Len(ss) : Lists(OfRow(x, k + i - 1), ss[i])
    BY <1>3, <2>1 DEF n, l
  <2>3. k \in Nat /\ OrderedFrom(x, k)
    BY <1>1 DEF k
  <2>4. Lists({t \in x : t.at >= k /\ t.at <= k + Len(ss) - 1}, FlattenSeq(ss))
    BY <1>2, <2>2, <2>3, FlattenLists
  <2>5. \A t \in x : t.at <= k + Len(ss) - 1
    <3>1. n = k + l - 1
      BY <2>0
    <3>2. \A t \in x : t.at \in 1..n
      BY <1>5 DEF n
    <3> QED BY <2>0, <3>1, <3>2 DEF l
  <2>6. {t \in x : t.at >= k /\ t.at <= k + Len(ss) - 1} = R
    BY <2>5
  <2> QED BY <2>4, <2>6
<1>7. Lists({F(t) : t \in R}, FlattenSeq(ss))
  <2>1. R \in SUBSET TxRow
    OBVIOUS
  <2> HIDE DEF R
  <2> QED BY <1>6, <2>1, ListsMoved
<1>8. \A t \in TxRow : F(t) = [uid |-> t.uid, tx |-> t.tx, at |-> k] /\ (t.at = k => F(t) = t) /\ F(t).at = k
  BY DEF TxRow
<1> HIDE DEF F
<1>9. OfRow(y, k) = {F(t) : t \in R}
  <2>1. ASSUME NEW t \in x PROVE (IF t.at > k THEN F(t) ELSE t).at = k <=> t.at >= k
    BY <1>1, <1>5, <1>8
  <2>2. ASSUME NEW t \in R PROVE (IF t.at > k THEN F(t) ELSE t) = F(t)
    BY <1>1, <1>5, <1>8
  <2> HIDE DEF F
  <2> QED BY <1>4, <2>1, <2>2 DEF OfRow
<1>10. ASSUME NEW i \in 1..(k - 1) PROVE OfRow(y, i) = OfRow(x, i)
  <2>1. ASSUME NEW t \in x PROVE (IF t.at > k THEN F(t) ELSE t).at = i <=> t.at = i
    BY <1>1, <1>5, <1>8
  <2>2. ASSUME NEW t \in x, t.at = i PROVE (IF t.at > k THEN F(t) ELSE t) = t
    BY <1>1, <1>5, <2>2
  <2>3. ASSUME NEW t \in x, (IF t.at > k THEN F(t) ELSE t).at = i PROVE (IF t.at > k THEN F(t) ELSE t) = t
    BY <2>1, <2>2, <2>3
  <2> HIDE DEF F
  <2> QED BY <1>4, <2>1, <2>2, <2>3 DEF OfRow
<1>11. ASSUME NEW i \in 1..Len(d) PROVE Lists(OfRow(y, i), d[i].txs)
  <2>1. CASE i = k
    BY <1>1, <1>7, <1>9, <2>1
  <2>2. CASE i # k
    <3>1. i \in 1..(k - 1) /\ i \in 1..Len(c)
      BY <1>1, <1>3, <2>2
    <3>2. Lists(OfRow(x, i), c[i].txs)
      BY <3>1
    <3> QED BY <1>1, <1>10, <3>1, <3>2
  <2> QED BY <2>1, <2>2
<1> QED BY <1>11 DEF d

\* The transactions of a message are those of the row it appends.
LEMMA InsertedLists ==
  ASSUME NEW x \in SUBSET TxRow, NEW u \in Seq(Unit), \A t \in x : t.at \in 1..Len(u),
         \A i \in 1..Len(u) : Lists(OfRow(x, i), u[i].txs),
         NEW g \in [height : Nat, id : Nat], NEW m \in Msg, NEW at, at = Len(u) + 1
  PROVE  \A i \in 1..Len(Append(u, UnitOf(m))) :
           Lists(OfRow(x \cup NewTxs(g, m, at), i), Append(u, UnitOf(m))[i].txs)
<1> DEFINE n == Len(u)
           w == UnitOf(m)
           d == Append(u, w)
           new == NewTxs(g, m, at)
<1>1. w \in Unit /\ w.txs = m.txs
  BY DEF UnitOf, Msg, Unit
<1> HIDE DEF w
<1>2. Len(d) = n + 1 /\ d[n + 1] = w /\ n \in Nat /\ \A i \in 1..n : d[i] = u[i]
  BY <1>1
<1>3. \A t \in new : t.at = n + 1
  BY DEF NewTxs
<1>4. Lists(new, m.txs)
  BY <1>2, ListsInserted
<1> HIDE DEF d, new
<1>5. \A t \in x : t.at \in 1..n
  OBVIOUS
<1> HIDE DEF n
<1>6. ASSUME NEW i \in 1..(n + 1) PROVE Lists(OfRow(x \cup new, i), d[i].txs)
  <2>1. CASE i = n + 1
    <3>1. OfRow(x \cup new, i) = new
      BY <1>2, <1>3, <1>5, <2>1 DEF OfRow
    <3> QED BY <1>1, <1>2, <1>4, <2>1, <3>1
  <2>2. CASE i # n + 1
    <3>1. i \in 1..n
      BY <1>2, <2>2
    <3>2. OfRow(x \cup new, i) = OfRow(x, i)
      BY <1>3, <2>2 DEF OfRow
    <3>3. Lists(OfRow(x, i), u[i].txs)
      BY <3>1 DEF n
    <3> QED BY <1>2, <3>1, <3>2, <3>3
  <2> QED BY <2>1, <2>2
<1> QED BY <1>2, <1>6 DEF d, w, new

\* What the merge leaves for a message to be appended to.
LEMMA SquashedLists ==
  ASSUME NEW s, GoodDb(s), NEW u, Mirrors(s.blocks, s.txs, u), u # << >> => u[1].key, NEW m \in Msg,
         m.type = "block" /\ u # << >> /\ ~Last(u).key => OrderedFrom(s.txs, LastKey(u))
  PROVE  /\ \A t \in SquashedTxs(s, m) : t.at \in 1..Len(Base2(u, m)) /\ t \in TxRow
         /\ \A i \in 1..Len(Base2(u, m)) : Lists(OfRow(SquashedTxs(s, m), i), Base2(u, m)[i].txs)
<1> DEFINE x == s.txs
           k == LastKey(u)
<1>1. /\ u \in Seq(Unit) /\ Ids(u) = s.blocks
      /\ \A i \in 1..Len(u) : Lists(OfRow(x, i), u[i].txs)
  BY DEF Mirrors
<1>2. /\ Len(s.blocks) = Len(u) /\ Len(u) \in Nat /\ (s.blocks = << >> <=> u = << >>)
      /\ LastKey(s.blocks) = k /\ \A i \in 1..Len(u) : s.blocks[i].key = u[i].key
  BY <1>1, NodeIds
<1>3. /\ x \in SUBSET TxRow /\ \A t \in x : t.at \in 1..Len(u)
      /\ s.blocks \in Seq(Row)
  BY <1>2 DEF GoodDb, Db
<1>4. u # << >> => Last(s.blocks).key = Last(u).key
  <2>1. u # << >> => Len(u) \in 1..Len(u)
    BY <1>2
  <2> QED BY <1>2, <2>1 DEF Last
<1>5. CASE m.type = "block" /\ u # << >> /\ ~Last(u).key
  <2> DEFINE y == {IF t.at > k THEN [t EXCEPT !.at = k] ELSE t : t \in x}
             d == Merged(u)
  <2>1. SquashedTxs(s, m) = y
    <3>1. Squash(s) = [s EXCEPT !.blocks = [SubSeq(@, 1, k) EXCEPT ![k].id = Last(s.blocks).id], !.txs = y]
      BY <1>2, <1>4, <1>5 DEF Squash
    <3> HIDE DEF y
    <3>2. "txs" \in DOMAIN s
      BY DEF GoodDb, Db
    <3>3. Squash(s).txs = y
      BY <3>1, <3>2
    <3> QED BY <1>5, <3>3 DEF SquashedTxs
  <2>2. Base2(u, m) = d
    BY <1>5 DEF Base2
  <2>3. \A i \in 1..Len(d) : Lists(OfRow(y, i), d[i].txs)
    <3> HIDE DEF d, x, k
    <3>1. OrderedFrom(x, LastKey(u))
      BY <1>5 DEF x
    <3>2. y = {IF t.at > LastKey(u) THEN [t EXCEPT !.at = LastKey(u)] ELSE t : t \in x}
      BY DEF k
    <3> HIDE DEF y
    <3> QED BY <1>1, <1>3, <1>5, <3>1, <3>2, MergedLists DEF d
  <2>4. k \in 1..(Len(u) - 1) /\ Len(d) = k
    BY <1>1, <1>5, MergedChain
  <2> HIDE DEF k, d, x
  <2>5. \A t \in y : t.at \in 1..Len(d) /\ t \in TxRow
    <3>1. ASSUME NEW t \in x
          PROVE  LET v == IF t.at > k THEN [t EXCEPT !.at = k] ELSE t IN v.at \in 1..k /\ v \in TxRow
      <4>1. t \in TxRow /\ t.at \in 1..Len(u)
        BY <1>3
      <4>2. [t EXCEPT !.at = k] = [uid |-> t.uid, tx |-> t.tx, at |-> k]
        BY <4>1 DEF TxRow
      <4>3. CASE t.at > k
        BY <2>4, <4>1, <4>2, <4>3 DEF TxRow
      <4>4. CASE ~(t.at > k)
        BY <2>4, <4>1, <4>4 DEF TxRow
      <4> QED BY <4>3, <4>4
    <3> QED BY <2>4, <3>1
  <2> HIDE DEF y
  <2> QED BY <2>1, <2>2, <2>3, <2>5
<1>6. CASE ~(m.type = "block" /\ u # << >> /\ ~Last(u).key)
  <2>1. Base2(u, m) = u
    BY <1>6 DEF Base2, Merged
  <2>2. SquashedTxs(s, m) = x
    BY <1>2, <1>4, <1>6 DEF SquashedTxs, Squash
  <2> QED BY <1>1, <1>3, <2>1, <2>2
<1> QED BY <1>5, <1>6

\* What a block or a microblock does to the tables: it follows the merge.
LEMMA HandleInserts ==
  ASSUME NEW s, GoodDb(s), s.error = "none", NEW u, Mirrors(s.blocks, s.txs, u), NEW m \in Msg,
         s.blocks = << >> => Opening(m), m.type # "rollback",
         \A i \in 1..Len(u) : u[i].id # m.id,
         m.type = "block" /\ u # << >> /\ ~Last(u).key => OrderedFrom(s.txs, LastKey(u))
  PROVE  /\ Base2(u, m) \in Seq(Unit) /\ UnitOf(m) \in Unit
         /\ Applied(u, m) = Append(Base2(u, m), UnitOf(m))
         /\ SquashedTxs(s, m) \in SUBSET TxRow
         /\ \A t \in SquashedTxs(s, m) : t.at \in 1..Len(Base2(u, m))
         /\ AtHeight(s.gen, m.h) \in [height : Nat, id : Nat]
         /\ Handle(m, s).txs = SquashedTxs(s, m) \cup NewTxs(AtHeight(s.gen, m.h), m, Len(Base2(u, m)) + 1)
         /\ Handle(m, s).gen = Taken(AtHeight(s.gen, m.h), m)
         /\ Handle(m, s).blocks = Ids(Applied(u, m))
<1> DEFINE d == Applied(u, m)
           b == Handle(m, s).blocks
           y == Handle(m, s).txs
           a == Base2(u, m)
           w == UnitOf(m)
           x == SquashedTxs(s, m)
           g == AtHeight(s.gen, m.h)
           at == Position(b, m.id)
           new == NewTxs(g, m, at)
<1>1. u \in Seq(Unit) /\ Ids(u) = s.blocks
  BY DEF Mirrors
<1>2. /\ Len(s.blocks) = Len(u) /\ Len(u) \in Nat /\ (s.blocks = << >> <=> u = << >>)
      /\ \A i \in 1..Len(u) : s.blocks[i].key = u[i].key
  BY <1>1, NodeIds
<1>3. u # << >> => u[1].key
  <2>1. u # << >> => 1 \in 1..Len(u)
    BY <1>2
  <2> QED BY <1>2, <2>1 DEF GoodDb, Begun
<1>4. d \in Seq(Unit) /\ Ids(d) = RowApplied(s.blocks, m)
  BY <1>1, <1>3, AppliedUnits
<1>5. b = Ids(d)
  <2>1. s \in Db
    BY DEF GoodDb
  <2>2. b = RowApplied(s.blocks, m)
    BY <2>1, HandleRows
  <2> QED BY <1>4, <2>2
<1>6. y = x \cup new /\ g \in [height : Nat, id : Nat] /\ at \in 1..Len(b) /\ Handle(m, s).gen = Taken(g, m)
  BY HandleEffect
<1>7. a \in Seq(Unit) /\ w \in Unit /\ d = Append(a, w)
  BY <1>1, <1>3, AppliedNew
<1>8. \A t \in x : t.at \in 1..Len(a) /\ t \in TxRow
  BY <1>3, SquashedLists
<1>9. at = Len(a) + 1
  <2>1. w.id = m.id
    BY DEF UnitOf
  <2> HIDE DEF a, w, d
  <2>2. Len(d) = Len(a) + 1 /\ Len(a) \in Nat /\ d[Len(a) + 1].id = m.id
    BY <1>7, <2>1
  <2>3. at = Position(d, m.id)
    BY <1>4, <1>5, NodeIds
  <2>4. Position(d, m.id) \in 0..Len(d) /\ Len(a) + 1 \in 1..Len(d)
    BY <1>4, <2>2, PositionFacts
  <2>5. Position(d, m.id) # 0 /\ Len(a) + 1 <= Position(d, m.id)
    BY <1>4, <2>2, <2>4, PositionFacts
  <2> QED BY <2>2, <2>3, <2>4, <2>5
<1> HIDE DEF x, g, at, a, y, d, w, b
<1>10. x \in SUBSET TxRow
  BY <1>8
<1>11. y = x \cup NewTxs(g, m, Len(a) + 1)
  BY <1>6, <1>9
<1> QED BY <1>5, <1>6, <1>7, <1>8, <1>10, <1>11 DEF x, g, a, y, d, w, b

\* Handling a message does to the tables what applying it does to a chain.
LEMMA HandleMirrors ==
  ASSUME NEW s, GoodDb(s), s.error = "none", NEW u, Mirrors(s.blocks, s.txs, u), NEW m \in Msg,
         s.blocks = << >> => Opening(m),
         m.type = "rollback" => Position(s.blocks, m.id) # 0,
         m.type # "rollback" => \A i \in 1..Len(u) : u[i].id # m.id,
         m.type = "block" /\ u # << >> /\ ~Last(u).key => OrderedFrom(s.txs, LastKey(u))
  PROVE  Mirrors(Handle(m, s).blocks, Handle(m, s).txs, Applied(u, m))
<1> DEFINE d == Applied(u, m)
           b == Handle(m, s).blocks
           y == Handle(m, s).txs
<1>1. /\ u \in Seq(Unit) /\ Ids(u) = s.blocks
      /\ \A i \in 1..Len(u) : Lists(OfRow(s.txs, i), u[i].txs)
  BY DEF Mirrors
<1>2. /\ Len(s.blocks) = Len(u) /\ Len(u) \in Nat /\ (s.blocks = << >> <=> u = << >>)
      /\ \A i \in 1..Len(u) : s.blocks[i].key = u[i].key
      /\ Position(s.blocks, m.id) = Position(u, m.id)
  BY <1>1, NodeIds
<1>3. u # << >> => u[1].key
  <2>1. u # << >> => 1 \in 1..Len(u)
    BY <1>2
  <2> QED BY <1>2, <2>1 DEF GoodDb, Begun
<1>4. d \in Seq(Unit) /\ Ids(d) = RowApplied(s.blocks, m)
  BY <1>1, <1>3, AppliedUnits
<1>5. b = Ids(d)
  <2>1. s \in Db
    BY DEF GoodDb
  <2>2. b = RowApplied(s.blocks, m)
    BY <2>1, HandleRows
  <2> QED BY <1>4, <2>2
<1>6. \A i \in 1..Len(d) : Lists(OfRow(y, i), d[i].txs)
  <2>1. CASE m.type = "rollback"
    <3> DEFINE p == Position(u, m.id)
    <3>1. y = {t \in s.txs : t.at <= p}
      BY <1>2, <2>1, RollbackEffect
    <3>2. p \in 0..Len(u) /\ d = SubSeq(u, 1, p)
      BY <1>1, <2>1, PositionFacts DEF Applied
    <3> HIDE DEF p, y
    <3>3. Len(d) = p /\ \A i \in 1..p : d[i] = u[i]
      BY <1>1, <3>2, Prefix
    <3> HIDE DEF d
    <3>4. ASSUME NEW i \in 1..p PROVE OfRow(y, i) = OfRow(s.txs, i) /\ i \in 1..Len(u)
      BY <1>2, <3>1, <3>2 DEF OfRow
    <3> QED BY <1>1, <3>3, <3>4
  <2>2. CASE m.type # "rollback"
    <3> DEFINE a == Base2(u, m)
               w == UnitOf(m)
               x == SquashedTxs(s, m)
               g == AtHeight(s.gen, m.h)
               new == NewTxs(g, m, Len(a) + 1)
    <3>1. /\ a \in Seq(Unit) /\ d = Append(a, w)
          /\ x \in SUBSET TxRow /\ \A t \in x : t.at \in 1..Len(a)
          /\ g \in [height : Nat, id : Nat] /\ y = x \cup new
      <4>1. \A i \in 1..Len(u) : u[i].id # m.id
        BY <2>2
      <4> HIDE DEF a, x, g, y, d, w
      <4>2. /\ a \in Seq(Unit) /\ d = Append(a, w)
            /\ x \in SUBSET TxRow /\ \A t \in x : t.at \in 1..Len(a)
        BY <2>2, <4>1, HandleInserts DEF a, x, d, w
      <4>3. g \in [height : Nat, id : Nat] /\ y = x \cup new
        BY <2>2, <4>1, HandleInserts DEF a, x, g, y
      <4> QED BY <4>2, <4>3
    <3>2. \A i \in 1..Len(a) : Lists(OfRow(x, i), a[i].txs)
      BY <1>3, SquashedLists
    <3> HIDE DEF x, g, a, y, w, d
    <3>3. \A i \in 1..Len(Append(a, UnitOf(m))) :
            Lists(OfRow(x \cup NewTxs(g, m, Len(a) + 1), i), Append(a, UnitOf(m))[i].txs)
      BY <3>1, <3>2, InsertedLists
    <3> QED BY <3>1, <3>3 DEF w
  <2> QED BY <2>1, <2>2
<1> QED BY <1>4, <1>5, <1>6 DEF Mirrors

\* The rows an insertion adds keep the uids in order.
LEMMA InsertCurrent ==
  ASSUME NEW x \in SUBSET TxRow, NEW k \in Nat, OrderedFrom(x, k),
         NEW g \in [height : Nat, id : Nat],
         \A t \in x : t.at >= k => t.uid < g.height * Multiplier + g.id,
         NEW m \in Msg, NEW at \in Nat, \A t \in x : t.at <= at
  PROVE  LET y == x \cup NewTxs(g, m, at)
         IN  /\ OrderedFrom(y, k)
             /\ \A t \in y : t.at >= k => t.uid < Taken(g, m).height * Multiplier + Taken(g, m).id
<1> DEFINE z == {t \in x : t.at >= k}
           new == NewTxs(g, m, at)
<1>1. z \in SUBSET TxRow /\ UidsBelow(z, g)
  BY DEF UidsBelow
<1>2. UidsOrdered(z) /\ \A t \in z : t.at <= at
  BY DEF OrderedFrom, UidsOrdered
<1>3. UidsBelow(z \cup new, Taken(g, m)) /\ UidsOrdered(z \cup new)
  BY <1>1, <1>2, NewUids
<1>4. \A t \in x \cup new : t.at >= k => t \in z \cup new
  OBVIOUS
<1>5. \A t \in x \cup new : t.at \in Nat
  <2>1. \A t \in new : t.at = at
    BY DEF NewTxs
  <2>2. \A t \in x : t.at \in Nat
    BY DEF TxRow
  <2> QED BY <2>1, <2>2
<1> HIDE DEF z, new
<1>6. ASSUME NEW t \in x \cup new, NEW v \in x \cup new, t.at >= k, t.at < v.at PROVE t.uid < v.uid
  <2>1. v.at >= k
    BY <1>5, <1>6
  <2>2. t \in z \cup new /\ v \in z \cup new
    BY <1>4, <1>6, <2>1
  <2> QED BY <1>3, <1>6, <2>2 DEF UidsOrdered
<1>7. OrderedFrom(x \cup new, k)
  BY <1>6 DEF OrderedFrom
<1>8. \A t \in x \cup new : t.at >= k => t.uid < Taken(g, m).height * Multiplier + Taken(g, m).id
  BY <1>3, <1>4 DEF UidsBelow
<1> QED BY <1>7, <1>8 DEF new

\* The generator goes on after what is stored at the last height.
LEMMA BlockCurrent ==
  ASSUME NEW s, GoodDb(s), s.error = "none", NEW u, Mirrors(s.blocks, s.txs, u), NEW m \in Msg,
         s.blocks = << >> => Opening(m), m.type = "block",
         \A i \in 1..Len(u) : u[i].id # m.id,
         u # << >> /\ ~Last(u).key => OrderedFrom(s.txs, LastKey(u)),
         NEW l, ShapeAt(Handle(m, s).blocks, l), Ends(Handle(m, s).blocks, m)
  PROVE  Current(Handle(m, s).blocks, Handle(m, s).txs, Handle(m, s).gen)
<1> DEFINE d == Applied(u, m)
           b == Handle(m, s).blocks
           y == Handle(m, s).txs
           a == Base2(u, m)
           n == Len(a)
           w == UnitOf(m)
           x == SquashedTxs(s, m)
           g == AtHeight(s.gen, m.h)
           new == NewTxs(g, m, n + 1)
<1>1. a \in Seq(Unit) /\ w \in Unit /\ d = Append(a, w) /\ b = Ids(d)
  BY HandleInserts
<1>2. x \in SUBSET TxRow /\ \A t \in x : t.at \in 1..n
  BY HandleInserts
<1>3. g \in [height : Nat, id : Nat] /\ y = x \cup new /\ Handle(m, s).gen = Taken(g, m)
  BY HandleInserts
<1>4. w.key
  BY DEF UnitOf
<1>5. s.gen \in [height : Nat, id : Nat] /\ m.h \in Nat
  BY DEF GoodDb, Db, Msg
<1>6. g.height >= m.h
  BY <1>5 DEF AtHeight
<1> HIDE DEF a, w, x, g, y, d, b
<1>7. d \in Seq(Unit) /\ Len(d) = n + 1 /\ n \in Nat /\ d[n + 1].key
  BY <1>1, <1>4
<1>8. b \in Seq(Row) /\ Len(b) = n + 1 /\ b[n + 1].key
  <2>1. n + 1 \in 1..Len(d)
    BY <1>7
  <2> QED BY <1>1, <1>7, <2>1, NodeIds
<1>9. LastKey(b) = n + 1
  <2>1. n + 1 \in 0..Len(b) /\ \A i \in (n + 2)..Len(b) : ~b[i].key
    BY <1>7, <1>8
  <2>2. (n + 1) + 1 = n + 2
    BY <1>7
  <2> QED BY <1>8, <2>1, <2>2, LastKeyIs
<1>10. Height(b) = m.h
  BY DEF Ends, b
<1>11. OrderedFrom(x, n + 1) /\ \A t \in x : ~(t.at >= n + 1) /\ t.at <= n + 1
  BY <1>2, <1>7 DEF OrderedFrom
<1> HIDE DEF n
<1>12. /\ OrderedFrom(y, n + 1)
       /\ \A t \in y : t.at >= n + 1 => t.uid < Taken(g, m).height * Multiplier + Taken(g, m).id
  <2>1. n + 1 \in Nat
    BY <1>7
  <2> DEFINE N == n + 1
  <2>2. N \in Nat /\ OrderedFrom(x, N) /\ (\A t \in x : t.at <= N)
        /\ \A t \in x : t.at >= N => t.uid < g.height * Multiplier + g.id
    BY <1>11, <2>1
  <2> HIDE DEF N
  <2>3. y = x \cup NewTxs(g, m, N)
    BY <1>3 DEF N
  <2>4. /\ OrderedFrom(y, N)
        /\ \A t \in y : t.at >= N => t.uid < Taken(g, m).height * Multiplier + Taken(g, m).id
    BY <1>2, <1>3, <2>2, <2>3, InsertCurrent
  <2> QED BY <2>4 DEF N
<1>13. Taken(g, m).height = g.height
  BY DEF Taken
<1>14. Current(b, y, Taken(g, m))
  BY <1>6, <1>9, <1>10, <1>12, <1>13 DEF Current
<1> QED BY <1>3, <1>14 DEF b, y

LEMMA MicroblockCurrent ==
  ASSUME NEW s, GoodDb(s), s.error = "none", NEW u, Mirrors(s.blocks, s.txs, u), NEW m \in Msg,
         s.blocks # << >>, m.type = "microblock",
         \A i \in 1..Len(u) : u[i].id # m.id,
         NEW k, ShapeAt(s.blocks, k),
         NEW l, ShapeAt(Handle(m, s).blocks, l), Ends(Handle(m, s).blocks, m),
         Current(s.blocks, s.txs, s.gen)
  PROVE  Current(Handle(m, s).blocks, Handle(m, s).txs, Handle(m, s).gen)
<1> DEFINE d == Applied(u, m)
           c == s.blocks
           b == Handle(m, s).blocks
           y == Handle(m, s).txs
           n == Len(u)
           w == UnitOf(m)
           x == s.txs
           g == s.gen
<1>0. m.type # "rollback" /\ m.type # "block"
  OBVIOUS
<1>1. u \in Seq(Unit) /\ Ids(u) = c
  BY DEF Mirrors
<1>2. Base2(u, m) = u /\ SquashedTxs(s, m) = x
  BY DEF Base2, SquashedTxs
<1>3. w \in Unit /\ d = Append(u, w) /\ b = Ids(d)
  BY <1>0, <1>2, HandleInserts
<1>4. x \in SUBSET TxRow /\ \A t \in x : t.at \in 1..n
  BY <1>0, <1>2, HandleInserts
<1>5. /\ AtHeight(g, m.h) \in [height : Nat, id : Nat]
      /\ y = x \cup NewTxs(AtHeight(g, m.h), m, n + 1)
      /\ Handle(m, s).gen = Taken(AtHeight(g, m.h), m)
  BY <1>0, <1>2, HandleInserts
<1>6. ~w.key
  BY DEF UnitOf
<1>7. g \in [height : Nat, id : Nat] /\ m.h \in Nat
  BY DEF GoodDb, Db, Msg
<1>8. g.height >= Height(c) /\ OrderedFrom(x, LastKey(c))
      /\ \A t \in x : t.at >= LastKey(c) => t.uid < g.height * Multiplier + g.id
  BY DEF Current
<1>9. /\ k \in 1..n /\ LastKey(c) = k /\ Height(c) = StartHeight - 1 + k
      /\ c \in Seq(Row) /\ Len(c) = n /\ n \in Nat
      /\ c[k].key /\ \A i \in 1..n : c[i].key <=> i <= k
  <2>1. Len(c) = n /\ n \in Nat /\ c \in Seq(Row)
    BY <1>1, NodeIds
  <2>2. k \in 1..Len(c) /\ LastKey(c) = k /\ Height(c) = StartHeight - 1 + k
    BY ShapeFacts
  <2>3. \A i \in 1..Len(c) : c[i].key <=> i <= k
    BY DEF ShapeAt
  <2> QED BY <2>1, <2>2, <2>3
<1>10. \A i \in 1..n : u[i].key <=> c[i].key
  BY <1>1, NodeIds
<1>11. b # << >> /\ Height(b) = m.h /\ LastKey(b) = l /\ Height(b) = StartHeight - 1 + l /\ l \in Nat
  BY ShapeFacts DEF Ends
<1> HIDE DEF w, x, g, y, d, b, c, n
<1>12. /\ d \in Seq(Unit) /\ Len(d) = n + 1 /\ ~d[n + 1].key
       /\ \A i \in 1..n : d[i] = u[i]
  BY <1>1, <1>3, <1>6, <1>9 DEF n
<1>13. /\ b \in Seq(Row) /\ Len(b) = n + 1
       /\ \A i \in 1..(n + 1) : b[i].key <=> d[i].key
  BY <1>3, <1>12, NodeIds
<1>14. LastKey(b) = k
  <2>1. k \in 0..Len(b) /\ b[k].key
    BY <1>9, <1>10, <1>12, <1>13
  <2>2. ASSUME NEW i \in (k + 1)..Len(b) PROVE ~b[i].key
    <3>1. CASE i = n + 1
      BY <1>9, <1>12, <1>13, <3>1
    <3>2. CASE i # n + 1
      <4>1. i \in 1..n /\ i \in 1..(n + 1) /\ ~(i <= k)
        BY <1>9, <1>13, <3>2
      <4>2. b[i].key <=> u[i].key
        BY <1>12, <1>13, <4>1
      <4>3. ~c[i].key
        BY <1>9, <4>1
      <4> QED BY <1>10, <4>1, <4>2, <4>3
    <3> QED BY <3>1, <3>2
  <2> QED BY <1>13, <2>1, <2>2, LastKeyIs
<1>15. Height(b) = Height(c) /\ g.height >= m.h
  BY <1>8, <1>9, <1>11, <1>14
<1>16. AtHeight(g, m.h) = g
  BY <1>7, <1>15 DEF AtHeight
<1>17. /\ OrderedFrom(y, k)
       /\ \A t \in y : t.at >= k => t.uid < Taken(g, m).height * Multiplier + Taken(g, m).id
  <2> DEFINE N == n + 1
  <2>1. N \in Nat /\ (\A t \in x : t.at <= N) /\ k \in Nat
    BY <1>4, <1>9
  <2>2. y = x \cup NewTxs(g, m, N)
    BY <1>5, <1>16
  <2>3. OrderedFrom(x, k) /\ \A t \in x : t.at >= k => t.uid < g.height * Multiplier + g.id
    BY <1>8, <1>9
  <2> HIDE DEF N
  <2> QED BY <1>4, <1>7, <2>1, <2>2, <2>3, InsertCurrent
<1>18. Taken(g, m).height = g.height
  BY DEF Taken
<1>19. Current(b, y, Taken(g, m))
  BY <1>8, <1>14, <1>15, <1>17, <1>18 DEF Current
<1> QED BY <1>5, <1>16, <1>19 DEF b, y

LEMMA RollbackCurrent ==
  ASSUME NEW s, GoodDb(s), s.error = "none", NEW m \in Msg, m.type = "rollback",
         Position(s.blocks, m.id) # 0,
         s.blocks # << >>, NEW k, ShapeAt(s.blocks, k),
         NEW l, ShapeAt(Handle(m, s).blocks, l), Ends(Handle(m, s).blocks, m),
         m.h = Height(s.blocks), Current(s.blocks, s.txs, s.gen)
  PROVE  Current(Handle(m, s).blocks, Handle(m, s).txs, Handle(m, s).gen)
<1> DEFINE c == s.blocks
           b == Handle(m, s).blocks
           y == Handle(m, s).txs
           g == s.gen
           x == s.txs
<1>1. y = {t \in x : t.at <= Position(c, m.id)} /\ Handle(m, s).gen = g
  BY RollbackEffect
<1>2. LastKey(c) = k /\ Height(c) = StartHeight - 1 + k /\ k \in Nat
  BY ShapeFacts
<1>3. b # << >> /\ Height(b) = m.h /\ LastKey(b) = l /\ Height(b) = StartHeight - 1 + l /\ l \in Nat
  BY ShapeFacts DEF Ends
<1>4. g.height >= Height(c) /\ OrderedFrom(x, LastKey(c))
      /\ \A t \in x : t.at >= LastKey(c) => t.uid < g.height * Multiplier + g.id
  BY DEF Current
<1>5. m.h = Height(c)
  OBVIOUS
<1> HIDE DEF c, b, y, g, x
<1>6. StartHeight \in Nat
  BY ConsumerAssumption
<1>7. LastKey(b) = LastKey(c) /\ Height(b) = Height(c)
  BY <1>2, <1>3, <1>5, <1>6
<1>8. \A t \in y : t \in x
  BY <1>1
<1>9. Current(b, y, g)
  BY <1>4, <1>7, <1>8 DEF Current, OrderedFrom
<1> QED BY <1>1, <1>9 DEF b, y

LEMMA HandleStored ==
  ASSUME NEW s, GoodDb(s), s.error = "none", NEW m \in Msg, m.type = "rollback", Handle(m, s).error = "none"
  PROVE  Position(s.blocks, m.id) # 0 /\ s.blocks # << >>
<1>1. Handle(m, s) = HandleRollback(s, m)
  BY DEF Handle
<1>2. s.blocks \in Seq(Row) /\ DOMAIN s = {"blocks", "txs", "gen", "events", "error"}
  BY DEF GoodDb, Db
<1>3. Position(s.blocks, m.id) # 0
  <2> SUFFICES ASSUME Position(s.blocks, m.id) = 0 PROVE FALSE
    OBVIOUS
  <2>1. Handle(m, s) = [s EXCEPT !.error = "unknown_block"]
    BY <1>1 DEF HandleRollback
  <2>2. [s EXCEPT !.error = "unknown_block"].error = "unknown_block"
    BY <1>2
  <2> QED BY <2>1, <2>2
<1>4. Position(s.blocks, m.id) \in 0..Len(s.blocks)
  BY <1>2, PositionFacts
<1>5. s.blocks # << >>
  BY <1>3, <1>4
<1> QED BY <1>3, <1>5

\* One message of a transaction that succeeds.
LEMMA LeadStep ==
  ASSUME NEW s, GoodDb(s), s.error = "none", NEW m \in Msg, s.blocks = << >> => Opening(m),
         Handle(m, s).error = "none",
         NEW u, Mirrors(s.blocks, s.txs, u), NEW d, d = Applied(u, m), Ends(Ids(d), m),
         NEW k, ShapeAt(Ids(u), k), NEW l, ShapeAt(Ids(d), l),
         m.type # "rollback" => \A i \in 1..Len(u) : u[i].id # m.id,
         NEW lo, NEW hi, lo => Current(s.blocks, s.txs, s.gen),
         u # << >> /\ ~Last(u).key => lo, m.type = "microblock" => lo,
         m.type = "rollback" /\ hi => lo /\ m.h = Height(u)
  PROVE  /\ Mirrors(Handle(m, s).blocks, Handle(m, s).txs, d)
         /\ hi => Current(Handle(m, s).blocks, Handle(m, s).txs, Handle(m, s).gen)
<1>1. u \in Seq(Unit) /\ Ids(u) = s.blocks
  BY DEF Mirrors
<1>2. LastKey(s.blocks) = LastKey(u) /\ (u = << >> <=> s.blocks = << >>)
  BY <1>1, NodeIds
<1>3. u # << >> /\ ~Last(u).key => OrderedFrom(s.txs, LastKey(u))
  BY <1>2 DEF Current
<1>4. m.type = "rollback" => Position(s.blocks, m.id) # 0 /\ s.blocks # << >>
  BY HandleStored
<1>5. Mirrors(Handle(m, s).blocks, Handle(m, s).txs, Applied(u, m))
  BY <1>3, <1>4, HandleMirrors
<1>6. Handle(m, s).blocks = Ids(d)
  BY <1>5 DEF Mirrors
<1>7. ASSUME hi PROVE Current(Handle(m, s).blocks, Handle(m, s).txs, Handle(m, s).gen)
  <2>1. ShapeAt(s.blocks, k) /\ ShapeAt(Handle(m, s).blocks, l) /\ Ends(Handle(m, s).blocks, m)
    BY <1>1, <1>6
  <2>2. CASE m.type = "block"
    BY <1>3, <2>1, <2>2, BlockCurrent
  <2>3. CASE m.type = "microblock"
    <3>1. s.blocks # << >>
      BY <2>3 DEF Opening
    <3>2. Current(s.blocks, s.txs, s.gen) /\ \A i \in 1..Len(u) : u[i].id # m.id
      BY <2>3
    <3> QED BY <2>1, <2>3, <3>1, <3>2, MicroblockCurrent
  <2>4. CASE m.type = "rollback"
    <3>1. Current(s.blocks, s.txs, s.gen) /\ m.h = Height(u)
      BY <1>7, <2>4
    <3>2. Height(s.blocks) = Height(u)
      BY <1>1, <1>2, <1>4, <2>4, HeightOfRows
    <3>3. m.h = Height(s.blocks)
      BY <3>1, <3>2
    <3> QED BY <1>4, <2>1, <2>4, <3>1, <3>3, RollbackCurrent
  <2>5. m.type \in {"block", "microblock", "rollback"}
    BY DEF Msg
  <2> QED BY <2>2, <2>3, <2>4, <2>5
<1> QED BY <1>5, <1>7

----------------------------------------------------------------------------
(* The chain that the messages in flight make of what is stored.           *)

\* F leads from the chain F[0] over the messages q to the chain c of the node;
\* K holds the places where the last block can get microblocks.
Leads(F, K, q, c, lq, nx) ==
  /\ F[Len(q)] = c /\ K \in SUBSET (0..Len(q)) /\ (lq => Len(q) \in K)
  /\ \A j \in 0..Len(q) : /\ F[j] \in Seq(Unit) /\ Agree(F[j], c) /\ Chain(Ids(F[j]), Ids(c), lq, nx)
                          /\ F[j] # << >> /\ ~Last(F[j]).key => j \in K
  /\ \A j \in 1..Len(q) :
       /\ F[j] = Applied(F[j - 1], q[j]) /\ Ends(Ids(F[j]), q[j])
       /\ q[j].type # "rollback" => \A i \in 1..Len(F[j - 1]) : F[j - 1][i].id # q[j].id
       /\ q[j].type = "microblock" => j - 1 \in K
       /\ q[j].type = "rollback" /\ j \in K => j - 1 \in K /\ q[j].h = Height(F[j - 1])

LEMMA LeadsTaken ==
  ASSUME NEW F, NEW K, NEW w \in Seq(Msg), NEW q \in Seq(Msg), NEW c, NEW lq, NEW nx,
         Leads(F, K, w \o q, c, lq, nx)
  PROVE  \E G, L : G[0] = F[Len(w)] /\ (0 \in L => Len(w) \in K) /\ Leads(G, L, q, c, lq, nx)
<1> DEFINE n == Len(w)
           r == Len(q)
           t == w \o q
           G == [j \in 0..r |-> F[n + j]]
           L == {j \in 0..r : n + j \in K}
<1>1. n \in Nat /\ r \in Nat /\ Len(t) = n + r /\ \A j \in 1..r : t[n + j] = q[j] /\ q[j] \in Msg
  OBVIOUS
<1>2. /\ F[Len(t)] = c /\ (lq => Len(t) \in K)
      /\ \A j \in 0..Len(t) : /\ F[j] \in Seq(Unit) /\ Agree(F[j], c) /\ Chain(Ids(F[j]), Ids(c), lq, nx)
                              /\ F[j] # << >> /\ ~Last(F[j]).key => j \in K
  BY DEF Leads
<1>3. \A j \in 1..Len(t) :
        /\ F[j] = Applied(F[j - 1], t[j]) /\ Ends(Ids(F[j]), t[j])
        /\ t[j].type # "rollback" => \A i \in 1..Len(F[j - 1]) : F[j - 1][i].id # t[j].id
        /\ t[j].type = "microblock" => j - 1 \in K
        /\ t[j].type = "rollback" /\ j \in K => j - 1 \in K /\ t[j].h = Height(F[j - 1])
  BY DEF Leads
<1> HIDE DEF t, n, r
<1>4. \A j \in 0..r : G[j] = F[n + j] /\ (j \in L <=> n + j \in K) /\ n + j \in 0..Len(t)
  BY <1>1
<1>5. L \in SUBSET (0..r)
  OBVIOUS
<1> HIDE DEF G, L
<1>6. G[r] = c /\ (lq => r \in L)
  BY <1>1, <1>2, <1>4
<1>7. \A j \in 0..r : /\ G[j] \in Seq(Unit) /\ Agree(G[j], c) /\ Chain(Ids(G[j]), Ids(c), lq, nx)
                      /\ G[j] # << >> /\ ~Last(G[j]).key => j \in L
  BY <1>2, <1>4
<1>8. ASSUME NEW j \in 1..r
      PROVE  /\ G[j] = Applied(G[j - 1], q[j]) /\ Ends(Ids(G[j]), q[j])
             /\ q[j].type # "rollback" => \A i \in 1..Len(G[j - 1]) : G[j - 1][i].id # q[j].id
             /\ q[j].type = "microblock" => j - 1 \in L
             /\ q[j].type = "rollback" /\ j \in L => j - 1 \in L /\ q[j].h = Height(G[j - 1])
  <2>1. n + j \in 1..Len(t) /\ (n + j) - 1 = n + (j - 1) /\ j - 1 \in 0..r /\ j \in 0..r /\ t[n + j] = q[j]
    BY <1>1
  <2>2. G[j] = F[n + j] /\ G[j - 1] = F[(n + j) - 1] /\ (j \in L <=> n + j \in K)
        /\ (j - 1 \in L <=> (n + j) - 1 \in K)
    BY <1>4, <2>1
  <2> QED BY <1>3, <2>1, <2>2
<1>9. Leads(G, L, q, c, lq, nx)
  BY <1>5, <1>6, <1>7, <1>8 DEF Leads, r
<1>10. G[0] = F[n] /\ (0 \in L => n \in K)
  BY <1>1, <1>4
<1> QED BY <1>9, <1>10 DEF n

\* The node moves from the chain c to d by the message m.
MovesBy(m, c, lq, nx, d, lq2, nx2) ==
  /\ m \in Msg /\ c \in Seq(Unit) /\ c # << >> /\ c[1].key
  /\ d \in Seq(Unit) /\ d = Applied(c, m) /\ Ends(Ids(d), m)
  /\ Chain(Ids(d), Ids(d), lq2, nx2) /\ Agree(d, d) /\ (~Last(d).key => lq2)
  /\ \A x : Chain(x, Ids(c), lq, nx) => Chain(x, Ids(d), lq2, nx2)
  /\ m.type # "rollback" => m.id = nx
  /\ m.type = "microblock" => lq
  /\ m.type = "rollback" /\ lq2 => lq /\ m.h = Height(c)

LEMMA LeadsSent ==
  ASSUME NEW F, NEW K, NEW q \in Seq(Msg), NEW c, NEW lq, NEW nx, Leads(F, K, q, c, lq, nx),
         NEW m, NEW d, NEW lq2, NEW nx2, MovesBy(m, c, lq, nx, d, lq2, nx2)
  PROVE  \E G, L : G[0] = F[0] /\ (0 \in L => 0 \in K) /\ Leads(G, L, Append(q, m), d, lq2, nx2)
<1> DEFINE n == Len(q)
           a == Append(q, m)
           G == [j \in 0..(n + 1) |-> IF j <= n THEN F[j] ELSE d]
           L == {j \in 0..(n + 1) : IF j <= n THEN j \in K ELSE lq2}
<1>0. /\ m \in Msg /\ c \in Seq(Unit) /\ c # << >> /\ c[1].key
      /\ d \in Seq(Unit) /\ d = Applied(c, m) /\ Ends(Ids(d), m)
      /\ Chain(Ids(d), Ids(d), lq2, nx2) /\ Agree(d, d) /\ (~Last(d).key => lq2)
      /\ \A x : Chain(x, Ids(c), lq, nx) => Chain(x, Ids(d), lq2, nx2)
      /\ m.type # "rollback" => m.id = nx
      /\ m.type = "microblock" => lq
      /\ m.type = "rollback" /\ lq2 => lq /\ m.h = Height(c)
  BY DEF MovesBy
<1>1. Len(a) = n + 1 /\ a[n + 1] = m /\ (\A i \in 1..n : a[i] = q[i]) /\ n \in Nat
  BY <1>0
<1>2. /\ F[n] = c /\ (lq => n \in K)
      /\ \A j \in 0..n : /\ F[j] \in Seq(Unit) /\ Agree(F[j], c) /\ Chain(Ids(F[j]), Ids(c), lq, nx)
                         /\ F[j] # << >> /\ ~Last(F[j]).key => j \in K
  BY DEF Leads
<1>3. \A j \in 1..n :
        /\ F[j] = Applied(F[j - 1], q[j]) /\ Ends(Ids(F[j]), q[j])
        /\ q[j].type # "rollback" => \A i \in 1..Len(F[j - 1]) : F[j - 1][i].id # q[j].id
        /\ q[j].type = "microblock" => j - 1 \in K
        /\ q[j].type = "rollback" /\ j \in K => j - 1 \in K /\ q[j].h = Height(F[j - 1])
  BY DEF Leads
<1> HIDE DEF a, n
<1>4. G[n + 1] = d /\ (n + 1 \in L <=> lq2) /\ \A j \in 0..n : G[j] = F[j] /\ (j \in L <=> j \in K)
  BY <1>1
<1>5. L \in SUBSET (0..(n + 1))
  OBVIOUS
<1> HIDE DEF G, L
<1>6. ASSUME NEW j \in 0..n, m.type # "rollback" PROVE \A i \in 1..Len(F[j]) : F[j][i].id # m.id
  <2>1. m.id = nx /\ m.id \in Nat
    BY <1>0, <1>6 DEF Msg
  <2>2. Chain(Ids(F[j]), Ids(c), lq, nx) /\ F[j] \in Seq(Unit)
    BY <1>2
  <2>3. \A i \in 1..Len(Ids(F[j])) : Ids(F[j])[i].id \in Nat /\ Ids(F[j])[i].id < nx
    BY <2>2, ChainFacts
  <2>4. Len(Ids(F[j])) = Len(F[j]) /\ \A i \in 1..Len(F[j]) : Ids(F[j])[i].id = F[j][i].id
    BY <2>2, NodeIds
  <2> QED BY <2>1, <2>3, <2>4
<1>7. ASSUME NEW j \in 0..(n + 1)
      PROVE  /\ G[j] \in Seq(Unit) /\ Agree(G[j], d) /\ Chain(Ids(G[j]), Ids(d), lq2, nx2)
             /\ G[j] # << >> /\ ~Last(G[j]).key => j \in L
  <2>1. CASE j = n + 1
    BY <1>0, <1>4, <2>1
  <2>2. CASE j # n + 1
    <3>1. j \in 0..n /\ G[j] = F[j] /\ (j \in L <=> j \in K)
      BY <1>1, <1>4, <2>2
    <3>2. F[j] \in Seq(Unit) /\ Agree(F[j], c) /\ Chain(Ids(F[j]), Ids(c), lq, nx)
          /\ (F[j] # << >> /\ ~Last(F[j]).key => j \in K)
      BY <1>2, <3>1
    <3>3. Agree(F[j], d)
      <4>1. m.type # "rollback" => (\A i \in 1..Len(F[j]) : F[j][i].id # m.id)
                                   /\ (\A i \in 1..Len(c) : c[i].id # m.id)
        BY <1>1, <1>2, <1>6, <3>1
      <4>2. Agree(F[j], Applied(c, m))
        BY <1>0, <3>2, <4>1, AgreeMoved
      <4> QED BY <1>0, <4>2
    <3> QED BY <1>0, <3>1, <3>2, <3>3
  <2> QED BY <2>1, <2>2
<1>8. ASSUME NEW j \in 1..(n + 1)
      PROVE  /\ G[j] = Applied(G[j - 1], a[j]) /\ Ends(Ids(G[j]), a[j])
             /\ a[j].type # "rollback" => \A i \in 1..Len(G[j - 1]) : G[j - 1][i].id # a[j].id
             /\ a[j].type = "microblock" => j - 1 \in L
             /\ a[j].type = "rollback" /\ j \in L => j - 1 \in L /\ a[j].h = Height(G[j - 1])
  <2>1. CASE j = n + 1
    <3>1. /\ G[j] = d /\ G[j - 1] = c /\ a[j] = m /\ (j \in L <=> lq2) /\ (j - 1 \in L <=> n \in K)
          /\ n \in 0..n
      BY <1>1, <1>2, <1>4, <2>1
    <3>2. m.type # "rollback" => \A i \in 1..Len(c) : c[i].id # m.id
      BY <1>2, <1>6, <3>1
    <3> QED BY <1>0, <1>2, <3>1, <3>2
  <2>2. CASE j # n + 1
    <3>1. j \in 1..n /\ G[j] = F[j] /\ G[j - 1] = F[j - 1] /\ a[j] = q[j]
          /\ (j \in L <=> j \in K) /\ (j - 1 \in L <=> j - 1 \in K)
      <4>1. j \in 1..n /\ j \in 0..n /\ j - 1 \in 0..n
        BY <1>1, <2>2
      <4> QED BY <1>1, <1>4, <4>1
    <3> QED BY <1>3, <3>1
  <2> QED BY <2>1, <2>2
<1>9. Leads(G, L, a, d, lq2, nx2)
  BY <1>1, <1>4, <1>5, <1>7, <1>8 DEF Leads
<1>10. G[0] = F[0] /\ (0 \in L => 0 \in K)
  BY <1>1, <1>4
<1> QED BY <1>9, <1>10 DEF a

\* So a transaction that succeeds leads the tables as far as its batch goes.
LEMMA FoldMirrors ==
  ASSUME NEW ms \in Seq(Msg), NEW f, Handled(f, ms),
         \A i \in 0..Len(ms) : GoodDb(f[i]) /\ (i > 0 /\ f[i].error = "none" => f[i].blocks # << >>),
         blocks = << >> /\ ms # << >> => Opening(ms[1]), HandleUpdates(ms).error = "none",
         NEW F, NEW K, NEW q \in Seq(Msg), NEW c, NEW lq, NEW nx, Leads(F, K, ms \o q, c, lq, nx),
         Mirrors(blocks, txs, F[0]), 0 \in K => Current(blocks, txs, gen)
  PROVE  LET s == HandleUpdates(ms)
         IN  /\ Mirrors(s.blocks, s.txs, F[Len(ms)])
             /\ Len(ms) \in K => Current(s.blocks, s.txs, s.gen)
<1> DEFINE n == Len(ms)
           t == ms \o q
           Ok(i) == /\ Mirrors(f[i].blocks, f[i].txs, F[i])
                    /\ i \in K => Current(f[i].blocks, f[i].txs, f[i].gen)
           S == {i \in 0..n : f[i].error = "none" => Ok(i)}
<1>1. n \in Nat /\ Len(t) \in Nat /\ n <= Len(t) /\ \A j \in 1..n : t[j] = ms[j] /\ ms[j] \in Msg
  OBVIOUS
<1>2. f[0] = Before /\ (\A i \in 1..n : f[i] = Handle(ms[i], f[i - 1])) /\ HandleUpdates(ms) = f[n]
  BY DEF Handled
<1>3. \A j \in 0..Len(t) : /\ F[j] \in Seq(Unit) /\ Chain(Ids(F[j]), Ids(c), lq, nx)
                           /\ F[j] # << >> /\ ~Last(F[j]).key => j \in K
  BY DEF Leads
<1>4. \A j \in 1..Len(t) :
        /\ F[j] = Applied(F[j - 1], t[j]) /\ Ends(Ids(F[j]), t[j])
        /\ t[j].type # "rollback" => \A i \in 1..Len(F[j - 1]) : F[j - 1][i].id # t[j].id
        /\ t[j].type = "microblock" => j - 1 \in K
        /\ t[j].type = "rollback" /\ j \in K => j - 1 \in K /\ t[j].h = Height(F[j - 1])
  BY DEF Leads
<1>5. \A i \in 0..n : GoodDb(f[i]) /\ (i > 0 /\ f[i].error = "none" => f[i].blocks # << >>)
  OBVIOUS
<1>6. blocks = << >> /\ n # 0 => Opening(ms[1])
  OBVIOUS
<1> HIDE DEF n, t
<1>7. 0 \in S
  BY <1>1, <1>2 DEF Before
<1>8. ASSUME NEW i \in 1..n, i - 1 \in S PROVE i \in S
  <2> SUFFICES ASSUME f[i].error = "none" PROVE Ok(i)
    BY <1>1
  <2> DEFINE s == f[i - 1]
             m == ms[i]
             u == F[i - 1]
             d == F[i]
  <2>1. i - 1 \in 0..n /\ i \in 1..Len(t) /\ i - 1 \in 0..Len(t) /\ i \in 0..Len(t)
    BY <1>1
  <2>2. f[i] = Handle(m, s) /\ m \in Msg /\ t[i] = m
    BY <1>1, <1>2
  <2>3. GoodDb(s)
    BY <1>5, <2>1
  <2>4. d = Applied(u, m) /\ Ends(Ids(d), m)
        /\ (m.type # "rollback" => \A z \in 1..Len(u) : u[z].id # m.id)
        /\ (m.type = "microblock" => i - 1 \in K)
        /\ (m.type = "rollback" /\ i \in K => i - 1 \in K /\ m.h = Height(u))
    BY <1>4, <2>1, <2>2
  <2>5. u # << >> /\ ~Last(u).key => i - 1 \in K
    BY <1>3, <2>1
  <2>6. PICK k : ShapeAt(Ids(u), k)
    BY <1>3, <2>1 DEF Chain
  <2>7. PICK l : ShapeAt(Ids(d), l)
    BY <1>3, <2>1 DEF Chain
  <2>8. s.error = "none"
    BY <2>2 DEF Handle
  <2>9. Ok(i - 1)
    BY <1>8, <2>8
  <2>10. s.blocks = << >> => Opening(m)
    <3>1. CASE i = 1
      BY <1>1, <1>2, <1>6, <3>1 DEF Before
    <3>2. CASE i # 1
      <4>1. i - 1 > 0
        BY <1>1, <3>2
      <4> QED BY <1>5, <2>1, <2>8, <4>1
    <3> QED BY <3>1, <3>2
  <2> DEFINE lo == i - 1 \in K
             hi == i \in K
  <2>11. Mirrors(s.blocks, s.txs, u) /\ (lo => Current(s.blocks, s.txs, s.gen))
    BY <2>9
  <2> HIDE DEF Ok, S
  <2>12. Handle(m, s).error = "none"
    BY <2>2
  <2> HIDE DEF s, m, u, d, lo, hi
  <2>13. (u # << >> /\ ~Last(u).key => lo) /\ (m.type = "microblock" => lo)
         /\ (m.type = "rollback" /\ hi => lo /\ m.h = Height(u))
    BY <2>4, <2>5 DEF lo, hi
  <2>14. Mirrors(Handle(m, s).blocks, Handle(m, s).txs, d)
    BY <2>2, <2>3, <2>4, <2>6, <2>7, <2>8, <2>10, <2>11, <2>12, <2>13, LeadStep
  <2>15. hi => Current(Handle(m, s).blocks, Handle(m, s).txs, Handle(m, s).gen)
    BY <2>2, <2>3, <2>4, <2>6, <2>7, <2>8, <2>10, <2>11, <2>12, <2>13, LeadStep
  <2> QED BY <2>2, <2>14, <2>15 DEF Ok, s, m, d, hi
<1>9. \A i \in 0..n : i \in S
  <2> HIDE DEF S
  <2> QED BY <1>1, <1>7, <1>8, IntervalInduction
<1>10. n \in S
  BY <1>1, <1>9
<1>11. Ok(n)
  BY <1>2, <1>10
<1> QED BY <1>2, <1>11 DEF n

LEMMA SameUnits ==
  ASSUME NEW a \in Seq(Unit), NEW b \in Seq(Unit), Len(a) = Len(b), \A i \in 1..Len(a) : a[i] = b[i]
  PROVE  a = b
OBVIOUS

\* The message a block was sent in makes that block again.
LEMMA UnitSent ==
  ASSUME NEW u \in Unit
  PROVE  UnitOf(AppendMsg(u)) = u
<1>1. /\ AppendMsg(u).id = u.id /\ AppendMsg(u).h = u.h /\ AppendMsg(u).txs = u.txs
      /\ AppendMsg(u).type = IF u.key THEN "block" ELSE "microblock"
  BY MsgOfUnit
<1>2. u = [id |-> u.id, h |-> u.h, key |-> u.key, txs |-> u.txs] /\ u.key \in BOOLEAN
  BY DEF Unit
<1>3. (AppendMsg(u).type = "block") = u.key
  BY <1>1, <1>2
<1> QED BY <1>1, <1>2, <1>3 DEF UnitOf

\* Replayed over a prefix of the node's chain, its history leads to it.
LEMMA LeadsHistory ==
  ASSUME NEW u \in Seq(Unit), NEW lq, NEW nx, NEW k, NodeRows(Ids(u), lq, nx, k),
         NEW p \in 0..k, lq => p < k
  PROVE  \E F, K : /\ F[0] = SubSeq(u, 1, p) /\ 0 \notin K
                   /\ Leads(F, K, History(u, StartHeight + p), u, lq, nx)
<1> DEFINE c == Ids(u)
           n == Len(u) - p
           q == History(u, StartHeight + p)
           F == [j \in 0..n |-> SubSeq(u, 1, p + j)]
           K == 1..n
<1>1. /\ c \in Seq(Row) /\ Len(c) = Len(u) /\ Len(u) \in Nat
      /\ \A i \in 1..Len(u) : u[i] \in Unit /\ c[i].id = u[i].id /\ c[i].h = u[i].h /\ c[i].key = u[i].key
  BY NodeIds
<1>2. NodeRows(c, lq, nx, k)
  OBVIOUS
<1>3. q \in Seq(Msg) /\ Len(q) = n /\ \A i \in 1..n : q[i] = AppendMsg(u[p + i])
  BY <1>2, HistoryFacts
<1> HIDE DEF c, q
<1>4. k \in 1..Len(u) /\ ShapeAt(c, k) /\ n \in Nat /\ p \in Nat
  <2>1. k \in 1..Len(c) /\ ShapeAt(c, k)
    BY <1>2, NodeRowsFacts
  <2> QED BY <1>1, <2>1
<1>5. /\ \A i \in 1..Len(u) : u[i].key <=> i <= k
      /\ \A i, j \in 1..Len(u) : u[i].id = u[j].id => i = j
  <2>1. \A i \in 1..Len(c) : c[i].key <=> i <= k
    BY <1>4 DEF ShapeAt
  <2>2. \A i, j \in 1..Len(c) : c[i].id = c[j].id => i = j
    BY <1>2 DEF NodeRows
  <2> QED BY <1>1, <2>1, <2>2
<1>6. k < Len(u) => p < k
  <2>1. k < Len(c) => lq
    BY <1>2 DEF NodeRows
  <2> QED BY <1>1, <2>1
<1>7. \A i \in 0..Len(u) :
        /\ SubSeq(u, 1, i) \in Seq(Unit) /\ Len(SubSeq(u, 1, i)) = i
        /\ \A z \in 1..i : SubSeq(u, 1, i)[z] = u[z]
  BY Prefix
<1>8. ASSUME NEW i \in 1..Len(u)
      PROVE  SubSeq(u, 1, i) = Applied(SubSeq(u, 1, i - 1), AppendMsg(u[i]))
  <2> DEFINE e == SubSeq(u, 1, i - 1)
             d == SubSeq(u, 1, i)
             m == AppendMsg(u[i])
             r == u[i]
             a == Append(e, r)
  <2>1. i - 1 \in 0..Len(u) /\ i \in 0..Len(u) /\ i - 1 <= Len(u)
    BY <1>1
  <2>2. e \in Seq(Unit) /\ Len(e) = i - 1 /\ \A z \in 1..(i - 1) : e[z] = u[z]
    BY <1>7, <2>1
  <2>3. d \in Seq(Unit) /\ Len(d) = i /\ \A z \in 1..i : d[z] = u[z]
    BY <1>7, <2>1
  <2>4. r \in Unit /\ m \in Msg /\ m.id = r.id /\ m.type # "rollback" /\ (m.type = "block" => r.key)
        /\ UnitOf(m) = r
    <3>1. r \in Unit
      BY <1>1
    <3>2. m \in Msg /\ m.id = r.id /\ m.type = IF r.key THEN "block" ELSE "microblock"
      BY <3>1, MsgOfUnit
    <3>3. UnitOf(m) = r
      BY <3>1, UnitSent
    <3> HIDE DEF m, r
    <3> QED BY <3>1, <3>2, <3>3
  <2> HIDE DEF e, d, m
  <2>5. \A z \in 1..Len(e) : e[z].id # m.id
    <3>1. \A z \in 1..(i - 1) : z \in 1..Len(u) /\ z # i
      BY <1>1
    <3>2. \A z \in 1..(i - 1) : u[z].id # u[i].id
      BY <1>5, <3>1
    <3> QED BY <2>2, <2>4, <3>2
  <2>6. e # << >> => e[1].key
    <3> SUFFICES ASSUME e # << >> PROVE e[1].key
      OBVIOUS
    <3>1. Len(e) # 0
      BY <2>2
    <3>2. 1 \in 1..(i - 1) /\ 1 \in 1..Len(u) /\ 1 <= k
      BY <1>1, <1>4, <2>2, <3>1
    <3> QED BY <1>5, <2>2, <3>2
  <2>7. Base2(e, m) = e
    <3> SUFFICES ASSUME m.type = "block", e # << >> PROVE Last(e).key
      BY DEF Base2, Merged
    <3>1. Len(e) # 0 /\ Last(e) = e[i - 1]
      BY <2>2 DEF Last
    <3>2. i <= k
      BY <1>5, <2>4
    <3>3. i - 1 \in 1..(i - 1) /\ i - 1 \in 1..Len(u) /\ i - 1 <= k
      BY <1>1, <1>4, <2>2, <3>1, <3>2
    <3> QED BY <1>5, <2>2, <3>1, <3>3
  <2>8. Applied(e, m) = Append(e, r)
    <3>1. Applied(e, m) = Append(Base2(e, m), UnitOf(m))
      BY <2>2, <2>4, <2>5, <2>6, AppliedNew
    <3> HIDE DEF r
    <3> QED BY <2>4, <2>7, <3>1
  <2>9. a \in Seq(Unit) /\ Len(a) = i /\ a[i] = r /\ \A z \in 1..(i - 1) : a[z] = e[z]
    BY <2>2, <2>4
  <2>10. \A z \in 1..i : z = i \/ z \in 1..(i - 1)
    OBVIOUS
  <2>11. a[i] = u[i]
    BY <2>9
  <2> HIDE DEF a
  <2>12. \A z \in 1..i : a[z] = d[z]
    BY <2>2, <2>3, <2>9, <2>10, <2>11
  <2>13. a = d
    BY <2>3, <2>9, <2>12, SameUnits
  <2> QED BY <2>8, <2>13 DEF a, e, d, m
<1>9. \A j \in 0..n : p + j \in 0..Len(u) /\ F[j] = SubSeq(u, 1, p + j)
  BY <1>1, <1>4
<1>10. F[n] = u
  <2>1. n \in 0..n /\ p + n = Len(u)
    BY <1>1, <1>4
  <2>2. SubSeq(u, 1, Len(u)) = u
    BY <1>1
  <2> QED BY <1>9, <2>1, <2>2
<1>11. F[0] = SubSeq(u, 1, p)
  <2>1. 0 \in 0..n /\ p + 0 = p
    BY <1>4
  <2> QED BY <1>9, <2>1
<1> HIDE DEF F
<1>12. lq => n \in K
  BY <1>1, <1>4
<1>13. Agree(u, u)
  BY <1>5, AgreeOwn
<1>14. ASSUME NEW j \in 0..n
       PROVE  /\ F[j] \in Seq(Unit) /\ Agree(F[j], u) /\ Chain(Ids(F[j]), Ids(u), lq, nx)
              /\ F[j] # << >> /\ ~Last(F[j]).key => j \in K
  <2>1. p + j \in 0..Len(u) /\ F[j] = SubSeq(u, 1, p + j)
    BY <1>9
  <2>2. F[j] \in Seq(Unit) /\ Agree(F[j], u)
    BY <1>13, <2>1, AgreePrefix
  <2>3. Chain(Ids(F[j]), Ids(u), lq, nx)
    <3>1. Chain(SubSeq(c, 1, p + j), c, lq, nx)
      BY <1>1, <1>2, <2>1, ChainPrefix
    <3> DEFINE T == Seq(Nat)
    <3>2. u \in Seq(UnitOver(T))
      BY NodeIds
    <3> HIDE DEF T
    <3>3. Ids(F[j]) = SubSeq(Ids(u), 1, p + j)
      BY <2>1, <3>2, IdsPrefix
    <3> QED BY <3>1, <3>3 DEF c
  <2>4. ASSUME F[j] # << >>, ~Last(F[j]).key PROVE j \in K
    <3>1. Len(F[j]) = p + j /\ \A z \in 1..(p + j) : F[j][z] = u[z]
      BY <1>7, <2>1
    <3>2. p + j # 0 /\ Last(F[j]) = F[j][p + j]
      BY <2>2, <2>4, <3>1 DEF Last
    <3>3. p + j \in 1..(p + j) /\ p + j \in 1..Len(u)
      BY <1>1, <1>4, <2>1, <3>2
    <3>4. ~(p + j <= k)
      BY <1>5, <2>4, <3>1, <3>2, <3>3
    <3>5. j # 0
      BY <1>4, <3>4
    <3> QED BY <1>4, <3>5
  <2> QED BY <2>2, <2>3, <2>4
<1>15. ASSUME NEW j \in 1..n
       PROVE  /\ F[j] = Applied(F[j - 1], q[j]) /\ Ends(Ids(F[j]), q[j])
              /\ q[j].type # "rollback" /\ \A i \in 1..Len(F[j - 1]) : F[j - 1][i].id # q[j].id
              /\ q[j].type = "microblock" => j - 1 \in K
  <2> DEFINE i == p + j
  <2>1. i \in 1..Len(u) /\ i - 1 = p + (j - 1) /\ j \in 0..n /\ j - 1 \in 0..n /\ i - 1 \in 0..Len(u) /\ i \in 0..Len(u)
    <3> DEFINE N == Len(u)
    <3>1. N \in Nat /\ n = N - p /\ p \in Nat /\ j \in 1..n
      BY <1>1, <1>4
    <3> HIDE DEF N, n
    <3>2. i \in 1..N /\ i - 1 = p + (j - 1) /\ i - 1 \in 0..N /\ i \in 0..N
      BY <3>1
    <3>3. j \in 0..n /\ j - 1 \in 0..n
      BY <1>4, <3>1
    <3> QED BY <3>2, <3>3 DEF N
  <2>2. F[j] = SubSeq(u, 1, i) /\ F[j - 1] = SubSeq(u, 1, i - 1) /\ q[j] = AppendMsg(u[i])
    BY <1>3, <1>9, <2>1
  <2>3. F[j] = Applied(F[j - 1], q[j])
    BY <1>8, <2>1, <2>2
  <2>4. u[i] \in Unit
    BY <1>1, <2>1
  <2>5. q[j].id = u[i].id /\ q[j].h = u[i].h /\ q[j].type = IF u[i].key THEN "block" ELSE "microblock"
    BY <2>2, <2>4, MsgOfUnit
  <2> HIDE DEF i
  <2>6. q[j].type # "rollback" /\ (q[j].type = "microblock" => ~u[i].key)
    BY <2>5
  <2>7. \A z \in 1..Len(F[j - 1]) : F[j - 1][z].id # q[j].id
    <3>1. Len(F[j - 1]) = i - 1 /\ \A z \in 1..(i - 1) : F[j - 1][z] = u[z]
      BY <1>7, <2>1, <2>2
    <3>2. \A z \in 1..(i - 1) : z \in 1..Len(u) /\ z # i
      BY <1>1, <2>1
    <3> QED BY <1>5, <2>1, <2>5, <3>1, <3>2
  <2>8. Ends(Ids(F[j]), q[j])
    <3>1. F[j] \in Seq(Unit) /\ Len(F[j]) = i /\ F[j][i] = u[i]
      BY <1>7, <2>1, <2>2
    <3> DEFINE e == F[j]
               b == Ids(e)
    <3>2. e \in Seq(Unit) /\ i \in 1..Len(e) /\ e[i].id = u[i].id /\ e[i].h = u[i].h /\ Len(e) = i
      BY <2>1, <3>1
    <3> HIDE DEF e
    <3>3. b \in Seq(Row) /\ Len(b) = i /\ b[i].id = q[j].id /\ b[i].h = q[j].h
      BY <2>5, <3>2, NodeIds
    <3> HIDE DEF b
    <3>4. b # << >> /\ Last(b) = b[i]
      BY <2>1, <3>3 DEF Last
    <3>5. Ends(b, q[j])
      BY <3>3, <3>4 DEF Ends, Height
    <3> QED BY <3>5 DEF b, e
  <2>9. q[j].type = "microblock" => j - 1 \in K
    <3> SUFFICES ASSUME q[j].type = "microblock" PROVE j - 1 \in K
      OBVIOUS
    <3>1. ~(i <= k)
      BY <1>5, <2>1, <2>6
    <3>2. k < Len(u)
      BY <1>1, <1>4, <2>1, <3>1
    <3> QED BY <1>1, <1>4, <1>6, <3>1, <3>2 DEF i
  <2> QED BY <2>3, <2>6, <2>7, <2>8, <2>9
<1>16. K \in SUBSET (0..n) /\ 0 \notin K
  BY <1>4
<1> HIDE DEF K, n
<1>17. Leads(F, K, q, u, lq, nx)
  BY <1>3, <1>10, <1>12, <1>14, <1>15, <1>16 DEF Leads
<1> QED BY <1>11, <1>16, <1>17 DEF q

\* The tables are those of a chain u that the messages in flight make into the
\* chain of the node.
Copied ==
  \E u : /\ Mirrors(blocks, txs, u) /\ Agree(u, node)
         /\ Subscribed /\ ~resent =>
              \E F, K : /\ F[0] = u /\ (0 \in K => Current(blocks, txs, gen))
                        /\ Leads(F, K, InFlight, node, liquid, nextId)

CopyOk == ~stray /\ resends = 0 => Copied

LEMMA NodeChain ==
  ASSUME NodeOk
  PROVE  /\ node \in Seq(Unit) /\ node # << >> /\ node[1].key /\ Len(node) \in Nat
         /\ Rows = Ids(node) /\ NodeRows(Rows, liquid, nextId, Top)
         /\ Chain(Rows, Rows, liquid, nextId) /\ Agree(node, node)
         /\ \A i, j \in 1..Len(node) : node[i].id = node[j].id => i = j
         /\ \A i \in 1..Len(node) : node[i].id < nextId /\ node[i].id \in Nat
         /\ ~Last(node).key => liquid
<1>1. node \in Seq(Unit) /\ node # << >> /\ node[1].key /\ Rows = Ids(node) /\ NodeRows(Rows, liquid, nextId, Top)
  BY DEF NodeOk, FirstBlock, Rows
<1>2. /\ Len(Rows) = Len(node) /\ Len(node) \in Nat
      /\ \A i \in 1..Len(node) : Rows[i].id = node[i].id /\ node[i].id \in Nat
  BY NodeFacts
<1>3. (\A i, j \in 1..Len(Rows) : Rows[i].id = Rows[j].id => i = j) /\ \A i \in 1..Len(Rows) : Rows[i].id < nextId
  BY <1>1 DEF NodeRows
<1>4. (\A i, j \in 1..Len(node) : node[i].id = node[j].id => i = j)
      /\ \A i \in 1..Len(node) : node[i].id < nextId /\ node[i].id \in Nat
  BY <1>2, <1>3
<1>5. Agree(node, node)
  BY <1>1, <1>4, AgreeOwn
<1>6. Chain(Rows, Rows, liquid, nextId)
  BY <1>1, ChainOwn
<1>7. ~Last(node).key => liquid
  <2>1. Last(Rows).key = Last(node).key
    BY <1>1, HeightOfRows
  <2>2. (Last(Rows).key <=> Top = Len(Rows)) /\ Top \in 1..Len(Rows) /\ Len(Rows) \in Nat
    BY <1>1, NodeRowsFacts
  <2>3. Top < Len(Rows) => liquid
    BY <1>1 DEF NodeRows
  <2>4. Top # Len(Rows) => Top < Len(Rows)
    BY <2>2
  <2> QED BY <2>1, <2>2, <2>3, <2>4
<1> QED BY <1>1, <1>2, <1>4, <1>5, <1>6, <1>7

LEMMA MoveCopied ==
  ASSUME Base, Synced, Copied, NEW m, Moves(m), UNCHANGED <<memVars, pc, from, dbVars, resent>>,
         m.type # "rollback" => m.id = nextId, m.type = "microblock" => liquid,
         m.type = "rollback" /\ liquid' => liquid /\ m.h = Height(node)
  PROVE  Copied'
<1>1. UNCHANGED <<work, chan, batch, gen, pc, from, blocks, txs, resent>>
  BY DEF memVars, dbVars
<1>2. m \in Msg /\ node' = Applied(node, m) /\ Rows' = RowApplied(Rows, m) /\ Ends(Rows', m)
      /\ RowsMoved(Rows, liquid, nextId, Rows', liquid', nextId') /\ NodeOk' /\ Send(m)
  BY DEF Moves
<1>3. /\ node \in Seq(Unit) /\ node # << >> /\ node[1].key /\ Rows = Ids(node)
      /\ \A i \in 1..Len(node) : node[i].id < nextId /\ node[i].id \in Nat
  BY NodeChain DEF Base
<1>4. Rows \in Seq(Row) /\ nextId \in Nat /\ liquid \in BOOLEAN
  BY NodeFacts DEF Base
<1>5. /\ node' \in Seq(Unit) /\ Rows' = Ids(node') /\ NodeRows(Rows', liquid', nextId', Top')
      /\ node' # << >>
  BY <1>2 DEF NodeOk, Rows
<1> DEFINE d == node'
           lq == liquid'
           nx == nextId'
<1>6. d \in Seq(Unit) /\ Rows' = Ids(d) /\ NodeRows(Ids(d), lq, nx, Top') /\ d # << >>
  BY <1>5
<1> HIDE DEF d, lq, nx
<1>7. Agree(d, d) /\ Chain(Ids(d), Ids(d), lq, nx) /\ (~Last(d).key => lq)
  <2>1. /\ Len(Ids(d)) = Len(d) /\ Len(d) \in Nat /\ LastKey(Ids(d)) = LastKey(d)
        /\ \A i \in 1..Len(d) : Ids(d)[i].id = d[i].id
    BY <1>6, NodeIds
  <2>2. \A i, j \in 1..Len(Ids(d)) : Ids(d)[i].id = Ids(d)[j].id => i = j
    BY <1>6 DEF NodeRows
  <2>3. Agree(d, d)
    BY <1>6, <2>1, <2>2, AgreeOwn
  <2>4. Chain(Ids(d), Ids(d), lq, nx)
    BY <1>6, ChainOwn
  <2>5. Last(Ids(d)).key = Last(d).key
    BY <1>6, HeightOfRows
  <2>6. (Last(Ids(d)).key <=> Top' = Len(Ids(d))) /\ Top' \in 1..Len(Ids(d)) /\ Len(Ids(d)) \in Nat
    BY <1>6, NodeRowsFacts
  <2>7. Top' < Len(Ids(d)) => lq
    BY <1>6 DEF NodeRows
  <2>8. Top' # Len(Ids(d)) => Top' < Len(Ids(d))
    BY <2>6
  <2> QED BY <2>3, <2>4, <2>5, <2>6, <2>7, <2>8
<1>8. d = Applied(node, m) /\ Ends(Ids(d), m)
  BY <1>2, <1>6 DEF d
<1>9. \A x : Chain(x, Ids(node), liquid, nextId) => Chain(x, Ids(d), lq, nx)
  <2>1. RowsMoved(Rows, liquid, nextId, Ids(d), lq, nx)
    BY <1>2, <1>6 DEF lq, nx
  <2> QED BY <1>3, <1>4, <2>1, ChainMoved
<1>10. PICK u : /\ Mirrors(blocks, txs, u) /\ Agree(u, node)
                /\ Subscribed /\ ~resent =>
                     \E F, K : /\ F[0] = u /\ (0 \in K => Current(blocks, txs, gen))
                               /\ Leads(F, K, InFlight, node, liquid, nextId)
  BY DEF Copied
<1>11. Agree(u, d)
  <2>1. u \in Seq(Unit) /\ Ids(u) = blocks
    BY <1>10 DEF Mirrors
  <2>2. Len(blocks) = Len(u) /\ \A i \in 1..Len(u) : blocks[i].id = u[i].id
    BY <2>1, NodeIds
  <2>3. \A i \in 1..Len(blocks) : blocks[i].id \in Nat /\ blocks[i].id < nextId
    BY ChainFacts DEF Synced
  <2>4. m.type # "rollback" => (\A i \in 1..Len(u) : u[i].id # m.id) /\ (\A i \in 1..Len(node) : node[i].id # m.id)
    <3> SUFFICES ASSUME m.type # "rollback"
                 PROVE  (\A i \in 1..Len(u) : u[i].id # m.id) /\ (\A i \in 1..Len(node) : node[i].id # m.id)
      OBVIOUS
    <3>1. m.id = nextId
      OBVIOUS
    <3>2. \A i \in 1..Len(u) : u[i].id \in Nat /\ u[i].id < nextId
      BY <2>2, <2>3
    <3> QED BY <1>3, <1>4, <3>1, <3>2
  <2>5. Agree(u, Applied(node, m))
    BY <1>2, <1>3, <1>10, <2>1, <2>4, AgreeMoved
  <2> QED BY <1>8, <2>5
<1>12. MovesBy(m, node, liquid, nextId, d, lq, nx)
  <2>1. m \in Msg /\ node \in Seq(Unit) /\ node # << >> /\ node[1].key /\ d \in Seq(Unit)
        /\ d = Applied(node, m) /\ Ends(Ids(d), m)
    BY <1>2, <1>3, <1>6, <1>8
  <2>2. Chain(Ids(d), Ids(d), lq, nx) /\ Agree(d, d) /\ (~Last(d).key => lq)
        /\ \A x : Chain(x, Ids(node), liquid, nextId) => Chain(x, Ids(d), lq, nx)
    BY <1>7, <1>9
  <2>3. (m.type # "rollback" => m.id = nextId) /\ (m.type = "microblock" => liquid)
        /\ (m.type = "rollback" /\ lq => liquid /\ m.h = Height(node))
    BY DEF lq
  <2> QED BY <2>1, <2>2, <2>3 DEF MovesBy
<1>13. ASSUME Subscribed', ~resent'
       PROVE  \E F, K : /\ F[0] = u /\ (0 \in K => Current(blocks, txs, gen))
                        /\ Leads(F, K, InFlight', d, lq, nx)
  <2>1. Subscribed /\ ~resent
    BY <1>1, <1>13 DEF Subscribed
  <2>2. PICK F, K : /\ F[0] = u /\ (0 \in K => Current(blocks, txs, gen))
                    /\ Leads(F, K, InFlight, node, liquid, nextId)
    BY <1>10, <2>1
  <2>3. InFlight' = Append(InFlight, m) /\ InFlight \in Seq(Msg)
    BY <1>1, <1>2, <2>1, SentLast, InFlightFacts DEF Send
  <2> DEFINE q == InFlight
             c == node
  <2>4. q \in Seq(Msg) /\ Leads(F, K, q, c, liquid, nextId)
    BY <2>2, <2>3
  <2>5. MovesBy(m, c, liquid, nextId, d, lq, nx)
    BY <1>12
  <2> HIDE DEF q, c
  <2>7. \E G, L : G[0] = F[0] /\ (0 \in L => 0 \in K) /\ Leads(G, L, Append(q, m), d, lq, nx)
    BY <2>4, <2>5, LeadsSent
  <2>8. PICK G, L : G[0] = F[0] /\ (0 \in L => 0 \in K) /\ Leads(G, L, Append(q, m), d, lq, nx)
    BY <2>7
  <2>9. G[0] = u /\ (0 \in L => Current(blocks, txs, gen)) /\ Leads(G, L, InFlight', d, lq, nx)
    BY <2>2, <2>3, <2>8 DEF q
  <2> QED BY <2>9
<1>14. Mirrors(blocks', txs', u) /\ Agree(u, node')
  BY <1>1, <1>10, <1>11 DEF d
<1>15. ASSUME Subscribed', ~resent'
       PROVE  \E F, K : /\ F[0] = u /\ (0 \in K => Current(blocks', txs', gen'))
                        /\ Leads(F, K, InFlight', node', liquid', nextId')
  BY <1>1, <1>13, <1>15 DEF d, lq, nx
<1> QED BY <1>14, <1>15 DEF Copied

LEMMA FlowCopied ==
  ASSUME Base, Copied, Receive \/ SendBatch \/ TakeBatch \/ StoreMetric \/ Publish \/ EndBatch
  PROVE  Copied'
<1>1. UNCHANGED <<nodeVars, dbVars, gen, resent>> /\ Subscribed /\ Subscribed'
  BY DEF Receive, SendBatch, TakeBatch, StoreMetric, Publish, EndBatch, Subscribed, memVars
<1>2. UNCHANGED <<node, liquid, nextId, blocks, txs, gen, resent>>
  BY <1>1 DEF nodeVars, dbVars
<1>3. InFlight' = InFlight
  BY FlowKeeps
<1> QED BY <1>1, <1>2, <1>3 DEF Copied

LEMMA MirrorsPrefix ==
  ASSUME NEW b, NEW x, NEW u, Mirrors(b, x, u), NEW p \in 0..Len(u)
  PROVE  Mirrors(SubSeq(b, 1, p), {t \in x : t.at <= p}, SubSeq(u, 1, p))
<1> DEFINE y == {t \in x : t.at <= p}
           d == SubSeq(u, 1, p)
           T == Seq(Nat)
<1>1. u \in Seq(Unit) /\ Ids(u) = b /\ \A i \in 1..Len(u) : Lists(OfRow(x, i), u[i].txs)
  BY DEF Mirrors
<1>2. d \in Seq(Unit) /\ Len(d) = p /\ \A i \in 1..p : d[i] = u[i]
  BY <1>1, Prefix
<1>3. u \in Seq(UnitOver(T)) /\ Len(u) \in Nat
  BY <1>1, NodeIds
<1> HIDE DEF T
<1>4. Ids(d) = SubSeq(b, 1, p)
  BY <1>1, <1>3, IdsPrefix
<1> HIDE DEF d
<1>5. ASSUME NEW i \in 1..p PROVE OfRow(y, i) = OfRow(x, i) /\ i \in 1..Len(u)
  <2>1. i \in 1..Len(u) /\ i <= p
    BY <1>3
  <2>2. \A t \in x : t.at = i => t.at <= p
    BY <2>1
  <2> QED BY <2>1, <2>2 DEF OfRow
<1> HIDE DEF y
<1>6. \A i \in 1..Len(d) : Lists(OfRow(y, i), d[i].txs)
  BY <1>1, <1>2, <1>5
<1>7. Mirrors(SubSeq(b, 1, p), y, d)
  BY <1>2, <1>4, <1>6 DEF Mirrors
<1> QED BY <1>7 DEF y, d

LEMMA StartCopied ==
  ASSUME Base, Copied, Start
  PROVE  Copied'
<1>1. pc' = "connect" /\ node' = node /\ ~Subscribed'
  BY DEF Start, nodeVars, Subscribed
<1>2. PICK u : Mirrors(blocks, txs, u) /\ Agree(u, node)
  BY DEF Copied
<1>3. CASE StartEmpty
  <2>1. blocks' = blocks /\ txs' = txs
    BY <1>3 DEF StartEmpty, dbVars
  <2>2. Mirrors(blocks', txs', u) /\ Agree(u, node')
    BY <1>1, <1>2, <2>1
  <2> QED BY <1>1, <2>2 DEF Copied
<1>4. CASE \E p : StartAt(p)
  <2>1. PICK p : StartAt(p)
    BY <1>4
  <2>2. p \in 1..Len(blocks) /\ blocks' = SubSeq(blocks, 1, p) /\ txs' = {t \in txs : t.at <= p}
    BY <2>1 DEF StartAt
  <2>3. u \in Seq(Unit) /\ Len(blocks) = Len(u) /\ Len(u) \in Nat
    BY <1>2, NodeIds DEF Mirrors
  <2>4. p \in 0..Len(u)
    BY <2>2, <2>3
  <2>5. Mirrors(blocks', txs', SubSeq(u, 1, p))
    BY <1>2, <2>2, <2>4, MirrorsPrefix
  <2>6. Agree(SubSeq(u, 1, p), node')
    BY <1>1, <1>2, <2>3, <2>4, AgreePrefix
  <2> QED BY <1>1, <2>5, <2>6 DEF Copied
<1> QED BY <1>3, <1>4, StartCases

\* What the database has in common with the chain it has whole.
LEMMA AgreedPrefix ==
  ASSUME NEW u \in Seq(Unit), NEW c \in Seq(Unit), Agree(u, c), NEW p, p = Len(u), p <= Len(c),
         Ids(u) = SubSeq(Ids(c), 1, p)
  PROVE  u = SubSeq(c, 1, p)
<1> DEFINE b == Ids(u)
           d == Ids(c)
           e == SubSeq(c, 1, p)
<1>1. /\ Len(u) \in Nat /\ Len(c) \in Nat /\ d \in Seq(Row) /\ Len(d) = Len(c)
      /\ \A i \in 1..Len(u) : u[i] \in Unit /\ b[i].id = u[i].id /\ b[i].h = u[i].h /\ b[i].key = u[i].key
      /\ \A i \in 1..Len(c) : c[i] \in Unit /\ d[i].id = c[i].id /\ d[i].h = c[i].h /\ d[i].key = c[i].key
  BY NodeIds
<1>2. p \in 0..Len(c) /\ p \in 0..Len(d) /\ b = SubSeq(d, 1, p)
  BY <1>1
<1> HIDE DEF b, d
<1>3. \A i \in 1..p : b[i] = d[i]
  BY <1>1, <1>2, Prefix
<1>4. e \in Seq(Unit) /\ Len(e) = p /\ \A i \in 1..p : e[i] = c[i]
  BY <1>2, Prefix
<1> HIDE DEF e
<1>5. ASSUME NEW i \in 1..Len(u) PROVE u[i] = e[i]
  <2>1. i \in 1..p /\ i \in 1..Len(c)
    BY <1>1, <1>2
  <2> DEFINE x == u[i]
             y == c[i]
  <2>2. x \in Unit /\ y \in Unit /\ x.id = y.id /\ x.h = y.h /\ x.key = y.key
    BY <1>1, <1>3, <2>1
  <2>3. x.txs = y.txs
    BY <2>1, <2>2 DEF Agree
  <2> HIDE DEF x, y
  <2>4. x = y
    <3>1. \A r \in Unit : r = [id |-> r.id, h |-> r.h, key |-> r.key, txs |-> r.txs]
      BY DEF Unit
    <3> QED BY <2>2, <2>3, <3>1
  <2> QED BY <1>4, <2>1, <2>4 DEF x, y
<1>6. u = e
  BY <1>4, <1>5, SameUnits
<1> QED BY <1>6 DEF e

LEMMA ConnectLeads ==
  ASSUME Base, Synced, Copied, pc = "connect", ~resent
  PROVE  \E u : /\ Mirrors(blocks, txs, u) /\ Agree(u, node)
                /\ \E F, K : F[0] = u /\ 0 \notin K /\ Leads(F, K, InFlight, node, liquid, nextId)
<1>1. InFlight = History(node, from) /\ from = StartHeight + Len(blocks) /\ Resumes(blocks, Rows, liquid, Top)
  BY InFlightFacts DEF Synced
<1>2. node \in Seq(Unit) /\ Rows = Ids(node) /\ NodeRows(Ids(node), liquid, nextId, Top)
  BY NodeChain DEF Base
<1>3. PICK u : Mirrors(blocks, txs, u) /\ Agree(u, node)
  BY DEF Copied
<1> DEFINE p == Len(blocks)
<1>4. u \in Seq(Unit) /\ Ids(u) = blocks /\ p = Len(u)
  BY <1>3, NodeIds DEF Mirrors
<1>5. p \in 0..Top /\ (liquid => p < Top) /\ blocks = SubSeq(Ids(node), 1, p)
  BY <1>1, <1>2 DEF Resumes
<1>6. p <= Len(node)
  <2>1. Top \in 1..Len(Ids(node)) /\ Len(Ids(node)) \in Nat
    BY <1>2, NodeRowsFacts
  <2>2. Len(Ids(node)) = Len(node)
    BY <1>2, NodeIds
  <2> QED BY <1>5, <2>1, <2>2
<1>7. InFlight = History(node, StartHeight + p)
  BY <1>1
<1> HIDE DEF p
<1>8. u = SubSeq(node, 1, p)
  BY <1>2, <1>3, <1>4, <1>5, <1>6, AgreedPrefix
<1>9. \E F, K : /\ F[0] = SubSeq(node, 1, p) /\ 0 \notin K
                /\ Leads(F, K, History(node, StartHeight + p), node, liquid, nextId)
  BY <1>2, <1>5, LeadsHistory
<1> QED BY <1>3, <1>7, <1>8, <1>9

LEMMA ConnectCopied ==
  ASSUME Base, Synced, Copied, Connect
  PROVE  Copied'
<1>1. pc = "connect" /\ UNCHANGED <<node, liquid, nextId, blocks, txs, resent>>
  BY DEF Connect, nodeVars, dbVars
<1>2. InFlight' = InFlight
  BY ConnectKeeps
<1>3. CASE resent
  BY <1>1, <1>3 DEF Copied
<1>4. CASE ~resent
  <2>1. PICK u : /\ Mirrors(blocks, txs, u) /\ Agree(u, node)
                 /\ \E F, K : F[0] = u /\ 0 \notin K /\ Leads(F, K, InFlight, node, liquid, nextId)
    BY <1>1, <1>4, ConnectLeads
  <2> QED BY <1>1, <1>2, <2>1 DEF Copied
<1> QED BY <1>3, <1>4

LEMMA CommitCopied ==
  ASSUME Base, Copied, Commit
  PROVE  Copied'
<1>1. pc = "txn" /\ Subscribed /\ UNCHANGED <<node, liquid, nextId, resent>>
  BY DEF Commit, Subscribed, nodeVars
<1> DEFINE s == HandleUpdates(work)
           n == Len(work)
<1>2. s.error = "none" /\ blocks' = s.blocks /\ txs' = s.txs /\ gen' = s.gen
  BY DEF Commit
<1> HIDE DEF s
<1>3. ~resent /\ InFlight' = Queue /\ InFlight = work \o Queue /\ Queue \in Seq(Msg)
  BY CommitBase, CommitTakes, InFlightFacts
<1>4. work \in Seq(Msg) /\ n \in Nat \ {0}
  <2>1. work \in Seq(Msg) /\ \E f : Handled(f, work)
    BY Frames, HandleUpdatesRun
  <2> QED BY <1>1, <2>1, TransactionFacts
<1>5. PICK f : Handled(f, work)
  BY <1>4, HandleUpdatesRun
<1>6. blocks = << >> => Opening(work[1]) /\ gen = NewGenerator
  <2> SUFFICES ASSUME blocks = << >> PROVE Opening(work[1]) /\ gen = NewGenerator
    OBVIOUS
  <2>1. gen = NewGenerator /\ Opening(InFlight[1])
    BY <1>1 DEF Base, StreamOk
  <2>2. (work \o Queue)[1] = work[1]
    BY <1>3, <1>4
  <2> QED BY <1>3, <2>1, <2>2
<1>7. \A i \in 0..n : GoodDb(f[i]) /\ (i > 0 /\ f[i].error = "none" => f[i].blocks # << >>)
  <2>1. GoodDb(Before)
    BY DEF Base, DbOk
  <2> QED BY <1>4, <1>5, <1>6, <2>1, FoldGood
<1>8. PICK F, K : /\ Mirrors(blocks, txs, F[0]) /\ (0 \in K => Current(blocks, txs, gen))
                  /\ Leads(F, K, work \o Queue, node, liquid, nextId)
  BY <1>1, <1>3 DEF Copied
<1>9. Mirrors(s.blocks, s.txs, F[n]) /\ (n \in K => Current(s.blocks, s.txs, s.gen))
  <2>1. HandleUpdates(work).error = "none"
    BY <1>2 DEF s
  <2>2. blocks = << >> /\ work # << >> => Opening(work[1])
    BY <1>6
  <2>3. Mirrors(s.blocks, s.txs, F[n])
    BY <1>3, <1>4, <1>5, <1>7, <1>8, <2>1, <2>2, FoldMirrors DEF s
  <2>4. n \in K => Current(s.blocks, s.txs, s.gen)
    BY <1>3, <1>4, <1>5, <1>7, <1>8, <2>1, <2>2, FoldMirrors DEF s
  <2> QED BY <2>3, <2>4
<1>10. \E G, L : G[0] = F[n] /\ (0 \in L => n \in K) /\ Leads(G, L, Queue, node, liquid, nextId)
  BY <1>3, <1>4, <1>8, LeadsTaken
<1>11. Agree(F[n], node)
  <2> DEFINE t == work \o Queue
  <2>1. n \in 0..Len(t)
    BY <1>3, <1>4
  <2> HIDE DEF t, n
  <2>2. Leads(F, K, t, node, liquid, nextId)
    BY <1>8 DEF t
  <2> QED BY <2>1, <2>2 DEF Leads
<1>12. PICK G, L : G[0] = F[n] /\ (0 \in L => n \in K) /\ Leads(G, L, Queue, node, liquid, nextId)
  BY <1>10
<1>13. Mirrors(blocks', txs', F[n]) /\ Agree(F[n], node')
  BY <1>1, <1>2, <1>9, <1>11
<1>14. /\ G[0] = F[n] /\ (0 \in L => Current(blocks', txs', gen'))
       /\ Leads(G, L, InFlight', node', liquid', nextId')
  BY <1>1, <1>2, <1>3, <1>9, <1>12
<1> QED BY <1>13, <1>14 DEF Copied

LEMMA StopCopied ==
  ASSUME Copied, Stop, UNCHANGED <<nodeVars, dbVars>>
  PROVE  Copied'
<1>1. ~Subscribed' /\ UNCHANGED <<node, blocks, txs>>
  BY DEF Stop, Subscribed, nodeVars, dbVars
<1> QED BY <1>1 DEF Copied

LEMMA StoredUnits ==
  ASSUME Base, NEW u, Mirrors(blocks, txs, u)
  PROVE  Stored = u
<1> DEFINE R(i) == [id |-> blocks[i].id, h |-> blocks[i].h, key |-> blocks[i].key, txs |-> TxsAt(i)]
<1>1. u \in Seq(Unit) /\ Ids(u) = blocks /\ \A i \in 1..Len(u) : Lists(OfRow(txs, i), u[i].txs)
  BY DEF Mirrors
<1>2. /\ blocks \in Seq(Row) /\ Len(blocks) = Len(u) /\ Len(u) \in Nat
      /\ \A i \in 1..Len(u) : u[i] \in Unit /\ blocks[i].id = u[i].id /\ blocks[i].h = u[i].h
                              /\ blocks[i].key = u[i].key
  BY <1>1, NodeIds
<1>3. txs \in SUBSET TxRow
  BY DbFacts
<1>4. \A i \in 1..Len(u) : TxsAt(i) = u[i].txs
  <2> SUFFICES ASSUME NEW i \in 1..Len(u) PROVE TxsAt(i) = u[i].txs
    OBVIOUS
  <2>1. Lists({t \in txs : t.at = i}, u[i].txs)
    BY <1>1 DEF OfRow
  <2> QED BY <1>3, <2>1, ListedTxs
<1>5. \A r \in Unit : r = [id |-> r.id, h |-> r.h, key |-> r.key, txs |-> r.txs]
  BY DEF Unit
<1>6. \A i \in 1..Len(u) : R(i) = u[i]
  BY <1>2, <1>4, <1>5
<1>7. Stored = [i \in DOMAIN blocks |-> R(i)]
  BY DEF Stored
<1>8. DOMAIN blocks = 1..Len(u)
  BY <1>2
<1> HIDE DEF R
<1>9. Stored = [i \in 1..Len(u) |-> u[i]]
  BY <1>6, <1>7, <1>8
<1>10. u = [i \in 1..Len(u) |-> u[i]]
  BY <1>1
<1> QED BY <1>9, <1>10

LEMMA CaughtUnits ==
  ASSUME Base, NEW u, Mirrors(blocks, txs, u), NEW F, NEW K, F[0] = u,
         Leads(F, K, InFlight, node, liquid, nextId)
  PROVE  Caught = node
<1> DEFINE q == InFlight
           n == Len(q)
<1>1. q \in Seq(Msg) /\ n \in Nat
  BY InFlightFacts
<1>2. PICK g : CatchesUpBy(g)
  BY <1>1, CaughtRun
<1>3. g[0] = Stored /\ Caught = g[n] /\ \A i \in 1..n : g[i] = Applied(g[i - 1], q[i])
  BY <1>2 DEF CatchesUpBy
<1>4. F[n] = node /\ \A i \in 1..n : F[i] = Applied(F[i - 1], q[i])
  BY DEF Leads
<1>5. Stored = u
  BY StoredUnits
<1> HIDE DEF q, n
<1> DEFINE S == {i \in 0..n : g[i] = F[i]}
<1>6. 0 \in S
  BY <1>1, <1>3, <1>5
<1>7. \A i \in 1..n : i - 1 \in S => i \in S
  BY <1>1, <1>3, <1>4
<1>8. \A i \in 0..n : i \in S
  <2> HIDE DEF S
  <2> QED BY <1>1, <1>6, <1>7, IntervalInduction
<1>9. g[n] = F[n]
  BY <1>1, <1>8
<1> QED BY <1>3, <1>4, <1>9

LEMMA CopiedReplica ==
  ASSUME Base, SyncOk, CopyOk
  PROVE  Replica
<1> SUFFICES ASSUME pc # "down", ~resent, ~stray, resends = 0
             PROVE  Caught = node
  BY DEF Replica
<1>1. Synced /\ Copied
  BY DEF SyncOk, CopyOk
<1>2. CASE pc = "connect"
  <2>1. \E u : /\ Mirrors(blocks, txs, u)
               /\ \E F, K : F[0] = u /\ Leads(F, K, InFlight, node, liquid, nextId)
    BY <1>1, <1>2, ConnectLeads
  <2> QED BY <2>1, CaughtUnits
<1>3. CASE pc # "connect"
  <2>1. Subscribed
    BY <1>3 DEF Subscribed
  <2>2. \E u : /\ Mirrors(blocks, txs, u)
               /\ \E F, K : F[0] = u /\ Leads(F, K, InFlight, node, liquid, nextId)
    BY <1>1, <2>1 DEF Copied
  <2> QED BY <2>2, CaughtUnits
<1> QED BY <1>2, <1>3

LEMMA CopyInit ==
  ASSUME Init
  PROVE  CopyOk
<1>1. blocks = << >> /\ txs = {} /\ ~Subscribed
  BY DEF Init, Subscribed
<1> DEFINE u == << >>
<1>2. u \in Seq(Unit) /\ Len(u) = 0
  OBVIOUS
<1>3. Ids(u) = << >>
  BY NodeIds, <1>2
<1> HIDE DEF u
<1>4. Mirrors(blocks, txs, u)
  BY <1>1, <1>2, <1>3 DEF Mirrors
<1>5. Agree(u, node)
  BY <1>2 DEF Agree
<1> QED BY <1>1, <1>4, <1>5 DEF CopyOk, Copied

LEMMA CopyStep ==
  ASSUME Base, SyncOk, CopyOk, [Next]_vars
  PROVE  CopyOk'
<1> SUFFICES ASSUME ~stray', resends' = 0 PROVE Copied'
  BY DEF CopyOk
<1>0. resends \in Nat
  BY DEF Base, TypeOK
<1>1. ASSUME ~stray, resends = 0 PROVE Synced /\ Copied
  BY <1>1 DEF SyncOk, CopyOk
<1>2. CASE MineBlock
  <2>1. UNCHANGED <<memVars, pc, from, dbVars, resent>> /\ stray' = stray /\ resends' = resends
    BY <1>2 DEF MineBlock
  <2>2. PICK m : Moves(m) /\ m.type = "block" /\ m.id = nextId
    BY <1>2, MineBlockMoves DEF Base
  <2>3. m.type # "rollback" /\ m.type # "microblock"
    BY <2>2
  <2>4. Synced /\ Copied
    BY <1>1, <2>1
  <2> QED BY <2>1, <2>2, <2>3, <2>4, MoveCopied
<1>3. CASE MineMicroblock
  <2>1. UNCHANGED <<memVars, pc, from, dbVars, resent>> /\ stray' = stray /\ resends' = resends
    BY <1>3 DEF MineMicroblock
  <2>2. PICK m : Moves(m) /\ m.type = "microblock" /\ m.id = nextId /\ liquid
    BY <1>3, MineMicroblockMoves DEF Base
  <2>3. m.type # "rollback"
    BY <2>2
  <2>4. Synced /\ Copied
    BY <1>1, <2>1
  <2> QED BY <2>1, <2>2, <2>3, <2>4, MoveCopied
<1>4. CASE Reorganise
  <2>1. UNCHANGED <<memVars, pc, from, dbVars, resent>> /\ resends' = resends /\ ~stray
    BY <1>4 DEF Reorganise
  <2>2. PICK m : Moves(m) /\ m.type = "rollback" /\ (liquid' => liquid /\ m.h = Height(node))
    BY <1>4, ReorganiseMoves DEF Base
  <2>3. m.type # "microblock"
    BY <2>2
  <2>4. Synced /\ Copied
    BY <1>1, <2>1
  <2> QED BY <2>1, <2>2, <2>3, <2>4, MoveCopied
<1>5. CASE SendAgain
  <2>1. resends' = resends + 1
    BY <1>5 DEF SendAgain
  <2> QED BY <1>0, <2>1
<1>6. CASE Receive \/ SendBatch \/ TakeBatch \/ StoreMetric \/ Publish \/ EndBatch
  <2>1. stray' = stray /\ UNCHANGED nodeVars
    BY <1>6 DEF Receive, SendBatch, TakeBatch, StoreMetric, Publish, EndBatch
  <2>2. resends' = resends
    BY <2>1 DEF nodeVars
  <2> QED BY <1>1, <1>6, <2>1, <2>2, FlowCopied
<1>7. CASE Start
  <2>1. stray' = stray /\ resends' = resends
    BY <1>7 DEF Start, nodeVars
  <2> QED BY <1>1, <1>7, <2>1, StartCopied
<1>8. CASE Connect
  <2>1. stray' = stray /\ resends' = resends
    BY <1>8 DEF Connect, nodeVars
  <2> QED BY <1>1, <1>8, <2>1, ConnectCopied
<1>9. CASE Commit
  <2>1. stray' = stray /\ resends' = resends
    BY <1>9 DEF Commit, nodeVars
  <2> QED BY <1>1, <1>9, <2>1, CommitCopied
<1>10. CASE FailTransaction \/ Crash \/ IdleTimeout
  <2>1. Stop /\ UNCHANGED <<nodeVars, dbVars>> /\ ~stray
    BY <1>10 DEF FailTransaction, Crash, IdleTimeout, Stop
  <2>2. resends' = resends
    BY <2>1 DEF nodeVars
  <2> QED BY <1>1, <2>1, <2>2, StopCopied
<1>11. CASE UNCHANGED vars
  <2>1. UNCHANGED <<nodeVars, memVars, dbVars, wire, pc, from, resent, stray>>
    BY <1>11 DEF vars
  <2>2. UNCHANGED <<node, liquid, nextId, resends, blocks, txs, gen, work, chan, batch>>
    BY <2>1 DEF nodeVars, memVars, dbVars
  <2>3. InFlight' = InFlight
    BY <2>1, <2>2 DEF InFlight
  <2>4. Copied
    BY <1>1, <2>1, <2>2
  <2> QED BY <2>1, <2>2, <2>3, <2>4 DEF Copied, Subscribed
<1> QED BY <1>2, <1>3, <1>4, <1>5, <1>6, <1>7, <1>8, <1>9, <1>10, <1>11, Zenon DEF Next, Reader, Loop

\* The tables with the messages of the stream and of the batch applied are the
\* chain of the node, transactions included and in uid order, and what is caught
\* up is that chain: nothing is lost, stored twice or moved to another block by
\* the rows of a running block, their folding, reorganisations and restarts
\* (handle_updates, insert_blocks, squash_microblocks, rollback), while no block
\* is sent again.
THEOREM Replicated == Spec => []Replica
<1>1. Init => Base /\ SyncOk /\ CopyOk
  BY BaseInit, SyncInit, CopyInit
<1>2. Base /\ SyncOk /\ CopyOk /\ [Next]_vars => (Base /\ SyncOk /\ CopyOk)'
  BY BaseStep, SyncStep, CopyStep
<1>3. Base /\ SyncOk /\ CopyOk => Replica
  BY CopiedReplica
<1> QED BY <1>1, <1>2, <1>3, PTL DEF Spec
============================================================================
