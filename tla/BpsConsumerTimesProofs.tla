---------------------- MODULE BpsConsumerTimesProofs ----------------------
(***************************************************************************)
(* When the transactions of BpsConsumer were made: none is stored twice,   *)
(* and the metric never runs ahead of the rows, also after the node        *)
(* abandoned what a restarted process keeps.                               *)
(*                                                                         *)
(* TimedOk asks less of the chains than SyncOk and CopyOk and holds        *)
(* whatever the node abandons: there is a height at which each transaction *)
(* was made.  A row is not below the transactions it holds, the messages   *)
(* in flight climb by new blocks only, and a process subscribes from above *)
(* all it has stored, so what it is sent is not stored yet, and no batch   *)
(* ends above its rows.                                                    *)
(***************************************************************************)
EXTENDS BpsConsumerProofs

----------------------------------------------------------------------------
(* When a transaction was made.                                            *)

\* The transactions of a block and its identifier, which is one of them, were
\* made at its height (h), before nx.
Born(h, nx, m) ==
  /\ m.h >= StartHeight /\ m.id < nx /\ h[m.id] = m.h
  /\ \A a \in 1..Len(m.txs) : m.txs[a] < nx /\ h[m.txs[a]] = m.h

Own(m) == \E a \in 1..Len(m.txs) : m.txs[a] = m.id

\* In the order they were made, within a list and from one to the next.
Rising(w) == \A a, b \in 1..Len(w) : a < b => w[a] < w[b]
Precedes(v, w) == \A a \in 1..Len(v), b \in 1..Len(w) : v[a] < w[b]

Grown(h, nx, c) ==
  /\ \A i \in 1..Len(c) : Born(h, nx, c[i]) /\ Own(c[i]) /\ Rising(c[i].txs)
  /\ \A i, j \in 1..Len(c) : i < j => Precedes(c[i].txs, c[j].txs)

\* Every element of w is in one of the first n lists.
Drawn(w, ss, n) == \A a \in 1..Len(w) : \E j \in 1..n : \E b \in 1..Len(ss[j]) : w[a] = ss[j][b]

Includes(v, w) == \A b \in 1..Len(w) : \E a \in 1..Len(v) : v[a] = w[b]

LEMMA JoinedRising ==
  ASSUME NEW v \in Seq(Nat), NEW w \in Seq(Nat), Rising(v), Rising(w), Precedes(v, w)
  PROVE  Rising(v \o w)
<1> DEFINE u == v \o w
           n == Len(v)
           k == Len(w)
<1>1. /\ u \in Seq(Nat) /\ Len(u) = n + k /\ n \in Nat /\ k \in Nat
      /\ \A a \in 1..n : u[a] = v[a]
      /\ \A a \in (n + 1)..(n + k) : u[a] = w[a - n]
  OBVIOUS
<1> HIDE DEF u
<1>2. ASSUME NEW a \in 1..Len(u), NEW b \in 1..Len(u), a < b PROVE u[a] < u[b]
  <2>1. CASE b <= n
    <3>1. a \in 1..n /\ b \in 1..n
      BY <1>1, <1>2, <2>1
    <3> QED BY <1>1, <1>2, <3>1 DEF Rising
  <2>2. CASE a <= n /\ ~(b <= n)
    <3>1. a \in 1..n /\ b \in (n + 1)..(n + k) /\ b - n \in 1..k
      BY <1>1, <1>2, <2>2
    <3> QED BY <1>1, <3>1 DEF Precedes
  <2>3. CASE ~(a <= n)
    <3>1. a \in (n + 1)..(n + k) /\ b \in (n + 1)..(n + k) /\ a - n \in 1..k /\ b - n \in 1..k /\ a - n < b - n
      BY <1>1, <1>2, <2>3
    <3> QED BY <1>1, <3>1 DEF Rising
  <2> QED BY <2>1, <2>2, <2>3
<1> QED BY <1>2 DEF Rising, u

LEMMA JoinRising ==
  ASSUME NEW n \in Nat \ {0}, NEW ss, \A i \in 1..n : ss[i] \in Seq(Nat) /\ Rising(ss[i]),
         \A i, j \in 1..n : i < j => Precedes(ss[i], ss[j]), NEW f, JoinRun(f, ss, n)
  PROVE  /\ f[n] \in Seq(Nat) /\ Rising(f[n]) /\ Drawn(f[n], ss, n)
         /\ Includes(f[n], ss[n])
<1>0. \A i \in 1..n : f[i] = IF i = 1 THEN ss[i] ELSE f[i - 1] \o ss[i]
  <2>1. f = [i \in 1..n |-> IF i = 1 THEN ss[i] ELSE f[i - 1] \o ss[i]]
    BY Zenon DEF JoinRun, Join
  <2> DEFINE g == [i \in 1..n |-> IF i = 1 THEN ss[i] ELSE f[i - 1] \o ss[i]]
  <2>2. \A i \in 1..n : g[i] = IF i = 1 THEN ss[i] ELSE f[i - 1] \o ss[i]
    OBVIOUS
  <2> HIDE DEF g
  <2>3. f = g
    BY <2>1, Zenon DEF g
  <2> QED BY <2>2, <2>3, Zenon
<1> DEFINE G(i) == /\ f[i] \in Seq(Nat) /\ Rising(f[i]) /\ Drawn(f[i], ss, i)
                   /\ Includes(f[i], ss[i])
           T == {i \in 0..n : i = 0 \/ G(i)}
<1> HIDE DEF G
<1>1. 0 \in T
  OBVIOUS
<1>2. \A i \in 1..n : i - 1 \in T => i \in T
  <2> SUFFICES ASSUME NEW i \in 1..n, i = 1 \/ G(i - 1) PROVE G(i)
    OBVIOUS
  <2>1. f[i] = IF i = 1 THEN ss[i] ELSE f[i - 1] \o ss[i]
    BY <1>0
  <2>2. ss[i] \in Seq(Nat) /\ Rising(ss[i])
    OBVIOUS
  <2>3. CASE i = 1
    <3>1. f[i] = ss[i]
      BY <2>1, <2>3
    <3>2. Drawn(ss[i], ss, i) /\ Includes(ss[i], ss[i])
      BY <2>3 DEF Drawn, Includes
    <3> QED BY <2>2, <3>1, <3>2 DEF G
  <2>4. CASE i # 1
    <3> DEFINE v == f[i - 1]
               w == ss[i]
               u == v \o w
    <3>1. v \in Seq(Nat) /\ Rising(v) /\ Drawn(v, ss, i - 1) /\ i - 1 \in 1..n /\ f[i] = u
      <4>1. i - 1 \in 1..n /\ G(i - 1)
        BY <2>4
      <4> QED BY <2>1, <2>4, <4>1 DEF G
    <3>2. w \in Seq(Nat) /\ Rising(w)
      BY <2>2
    <3>3. \A j \in 1..(i - 1) : Precedes(ss[j], w)
      OBVIOUS
    <3> HIDE DEF v, w
    <3>4. Precedes(v, w)
      <4> SUFFICES ASSUME NEW a \in 1..Len(v), NEW b \in 1..Len(w) PROVE v[a] < w[b]
        BY DEF Precedes
      <4>1. PICK j \in 1..(i - 1) : \E e \in 1..Len(ss[j]) : v[a] = ss[j][e]
        BY <3>1 DEF Drawn
      <4> QED BY <3>3, <4>1 DEF Precedes
    <3>5. Rising(u)
      BY <3>1, <3>2, <3>4, JoinedRising
    <3>6. /\ u \in Seq(Nat) /\ Len(u) = Len(v) + Len(w) /\ Len(v) \in Nat /\ Len(w) \in Nat
          /\ \A a \in 1..Len(v) : u[a] = v[a]
          /\ \A a \in (Len(v) + 1)..(Len(v) + Len(w)) : u[a] = w[a - Len(v)]
      BY <3>1, <3>2
    <3> HIDE DEF u
    <3>7. Drawn(u, ss, i)
      <4> SUFFICES ASSUME NEW a \in 1..Len(u)
                   PROVE  \E j \in 1..i : \E b \in 1..Len(ss[j]) : u[a] = ss[j][b]
        BY DEF Drawn
      <4>1. CASE a <= Len(v)
        <5>1. a \in 1..Len(v)
          BY <3>6, <4>1
        <5>2. PICK j \in 1..(i - 1) : \E e \in 1..Len(ss[j]) : v[a] = ss[j][e]
          BY <3>1, <5>1 DEF Drawn
        <5>3. j \in 1..i
          BY <5>2
        <5> QED BY <3>6, <5>1, <5>2, <5>3
      <4>2. CASE ~(a <= Len(v))
        <5>1. a \in (Len(v) + 1)..(Len(v) + Len(w)) /\ a - Len(v) \in 1..Len(w) /\ i \in 1..i
          BY <3>6, <4>2
        <5> QED BY <3>6, <5>1 DEF w
      <4> QED BY <4>1, <4>2
    <3>8. ASSUME NEW b \in 1..Len(w) PROVE \E a \in 1..Len(u) : u[a] = w[b]
      <4>1. Len(v) + b \in (Len(v) + 1)..(Len(v) + Len(w)) /\ (Len(v) + b) - Len(v) = b
        BY <3>6
      <4>2. Len(v) + b \in 1..Len(u)
        BY <3>6, <4>1
      <4> QED BY <3>6, <4>1, <4>2
    <3>9. Includes(u, w)
      BY <3>8 DEF Includes
    <3> QED BY <3>1, <3>5, <3>6, <3>7, <3>9 DEF w, G
  <2> QED BY <2>3, <2>4
<1> HIDE DEF T
<1>3. n \in T
  <2>1. n \in Nat
    OBVIOUS
  <2>2. \A i \in 0..n : i \in T
    BY <1>1, <1>2, <2>1, IntervalInduction
  <2> QED BY <2>1, <2>2
<1>4. n = 0 \/ G(n)
  BY <1>3, Zenon DEF T
<1> QED BY <1>4 DEF G

LEMMA FlattenRising ==
  ASSUME NEW ss, ss \in Seq(Seq(Nat)), Len(ss) # 0, \A i \in 1..Len(ss) : Rising(ss[i]),
         \A i, j \in 1..Len(ss) : i < j => Precedes(ss[i], ss[j])
  PROVE  /\ FlattenSeq(ss) \in Seq(Nat) /\ Rising(FlattenSeq(ss)) /\ Drawn(FlattenSeq(ss), ss, Len(ss))
         /\ Includes(FlattenSeq(ss), ss[Len(ss)])
<1> DEFINE n == Len(ss)
           f == CHOOSE h : JoinRun(h, ss, n)
<1>1. n \in Nat \ {0} /\ \A i \in 1..n : ss[i] \in Seq(Nat) /\ Rising(ss[i])
  OBVIOUS
<1>2. FlattenSeq(ss) = f[n]
  BY DEF FlattenSeq, Join, JoinRun
<1>3. \A i, j \in 1..n : i < j => Precedes(ss[i], ss[j])
  OBVIOUS
<1> HIDE DEF n
<1>4. JoinRun(f, ss, n)
  <2>1. \E h : JoinRun(h, ss, n)
    BY <1>1, JoinRunExists
  <2>2. JoinRun(CHOOSE h : JoinRun(h, ss, n), ss, n)
    BY <2>1, Zenon
  <2> QED BY <2>2, Zenon
<1> HIDE DEF f
<1> DEFINE v == FlattenSeq(ss)
<1>5. f[n] \in Seq(Nat) /\ Rising(f[n])
  BY <1>1, <1>3, <1>4, JoinRising
<1>6. Drawn(f[n], ss, n)
  BY <1>1, <1>3, <1>4, JoinRising
<1>7. Includes(f[n], ss[n])
  BY <1>1, <1>3, <1>4, JoinRising
<1>8. v = f[n]
  BY <1>2
<1> HIDE DEF v
<1>9. v \in Seq(Nat) /\ Rising(v) /\ Drawn(v, ss, n) /\ Includes(v, ss[n])
  BY <1>5, <1>6, <1>7, <1>8, Zenon
<1> QED BY <1>9, Zenon DEF n, v

LEMMA GrownPrefix ==
  ASSUME NEW h, NEW nx, NEW c \in Seq(Unit), Grown(h, nx, c), NEW p \in 0..Len(c)
  PROVE  Grown(h, nx, SubSeq(c, 1, p))
<1> DEFINE d == SubSeq(c, 1, p)
<1>1. Len(d) = p /\ \A i \in 1..p : d[i] = c[i] /\ i \in 1..Len(c)
  BY Prefix
<1> HIDE DEF d
<1>2. \A i \in 1..p : Born(h, nx, d[i]) /\ Own(d[i]) /\ Rising(d[i].txs)
  BY <1>1 DEF Grown
<1>3. \A i, j \in 1..p : i < j => Precedes(d[i].txs, d[j].txs)
  BY <1>1 DEF Grown
<1>4. Grown(h, nx, d)
  BY <1>1, <1>2, <1>3 DEF Grown
<1> QED BY <1>4 DEF d

LEMMA GrownMerged ==
  ASSUME NEW h, NEW nx, NEW c \in Seq(Unit), c # << >>, ~Last(c).key, c[1].key, Grown(h, nx, c),
         \A i \in 1..Len(c) : i >= LastKey(c) => c[i].h = c[LastKey(c)].h
  PROVE  Grown(h, nx, Merged(c))
<1> DEFINE k == LastKey(c)
           n == Len(c)
           d == Merged(c)
           ss == Folded(c)
           w == FlattenSeq(ss)
           r == d[k]
<1>1. /\ n \in Nat \ {0} /\ k \in 1..(n - 1) /\ Last(c) = c[n]
      /\ d \in Seq(Unit) /\ Len(d) = k /\ \A i \in 1..(k - 1) : d[i] = c[i]
      /\ r.id = c[n].id /\ r.txs = w
  <2>1. n \in Nat \ {0} /\ Last(c) = c[n]
    BY DEF Last
  <2> QED BY <2>1, MergedChain
<1>2. r.h = c[k].h
  <2> DEFINE b == Ids(c)
  <2>1. c \in Seq(UnitOver(Seq(Nat)))
    BY NodeIds
  <2>2. Ids(d) = RowMerged(b)
    BY <2>1, MergedFacts, Zenon
  <2>3. /\ b \in Seq(Row) /\ Len(b) = n /\ LastKey(b) = k
        /\ \A i \in 1..n : b[i].key = c[i].key /\ b[i].h = c[i].h
    BY NodeIds
  <2>4. Ids(d)[k].h = r.h
    <3>1. k \in 1..Len(d)
      BY <1>1
    <3> QED BY <1>1, <3>1, NodeIds
  <2> HIDE DEF b, k, d
  <2>5. b # << >> /\ ~Last(b).key /\ b[1].key
    BY <1>1, <2>3 DEF Last
  <2>6. /\ k \in 1..k
        /\ \A i \in 1..k : RowMerged(b)[i] = IF i = k THEN [id |-> Last(b).id, h |-> b[i].h, key |-> b[i].key] ELSE b[i]
    BY <2>3, <2>5, <1>1, RowMergedFacts
  <2>7. RowMerged(b)[k].h = b[k].h
    <3>1. RowMerged(b)[k] = [id |-> Last(b).id, h |-> b[k].h, key |-> b[k].key]
      BY <2>6
    <3> QED BY <3>1
  <2>8. k \in 1..n
    BY <1>1
  <2> QED BY <2>2, <2>3, <2>4, <2>7, <2>8
<1>3. /\ ss \in Seq(Seq(Nat)) /\ Len(ss) = n - k + 1
      /\ \A i \in 1..(n - k + 1) : ss[i] = c[k + i - 1].txs /\ k + i - 1 \in 1..n /\ k + i - 1 >= k
  <2>1. ss \in Seq(Seq(Nat))
    BY FoldedUnits
  <2> QED BY <1>1, <2>1 DEF Folded
<1> HIDE DEF k, n, d, ss, w, r
<1>4. Len(ss) # 0 /\ n - k + 1 \in 1..(n - k + 1) /\ ss[n - k + 1] = c[n].txs
  <2>1. n - k + 1 \in 1..(n - k + 1) /\ k + (n - k + 1) - 1 = n
    BY <1>1
  <2> QED BY <1>1, <1>3, <2>1
<1>5. /\ \A i \in 1..Len(ss) : Rising(ss[i])
      /\ \A i, j \in 1..Len(ss) : i < j => Precedes(ss[i], ss[j])
  <2>1. ASSUME NEW i \in 1..Len(ss), NEW j \in 1..Len(ss), i < j PROVE Precedes(ss[i], ss[j])
    <3>1. k + i - 1 < k + j - 1
      BY <1>1, <1>3, <2>1
    <3> QED BY <1>3, <3>1 DEF Grown, n
  <2> QED BY <1>3, <2>1 DEF Grown, n
<1>6. w \in Seq(Nat) /\ Rising(w)
  BY <1>3, <1>4, <1>5, FlattenRising DEF w
<1>7. Drawn(w, ss, Len(ss))
  BY <1>3, <1>4, <1>5, FlattenRising DEF w
<1>8. Includes(w, ss[Len(ss)])
  BY <1>3, <1>4, <1>5, FlattenRising DEF w
<1>9. \A i \in 1..n : Born(h, nx, c[i]) /\ Own(c[i])
  BY DEF Grown, n
<1>10. \A i \in 1..n : i >= k => c[i].h = c[k].h
  BY DEF n, k
<1>11. ASSUME NEW a \in 1..Len(w)
       PROVE  \E i \in 1..n : i >= k /\ \E b \in 1..Len(c[i].txs) : w[a] = c[i].txs[b]
  <2>1. PICK j \in 1..Len(ss) : \E b \in 1..Len(ss[j]) : w[a] = ss[j][b]
    BY <1>7 DEF Drawn
  <2>2. k + j - 1 \in 1..n /\ k + j - 1 >= k /\ ss[j] = c[k + j - 1].txs
    BY <1>3
  <2> QED BY <2>1, <2>2
<1>12. Born(h, nx, r)
  <2>1. k \in 1..n /\ n \in 1..n /\ n >= k
    BY <1>1
  <2>2. c[n].h = c[k].h
    BY <1>10, <2>1
  <2>3. r.h >= StartHeight /\ r.id < nx /\ h[r.id] = r.h
    BY <1>1, <1>2, <1>9, <2>1, <2>2 DEF Born
  <2>4. ASSUME NEW a \in 1..Len(w) PROVE w[a] < nx /\ h[w[a]] = r.h
    <3>1. PICK i \in 1..n : i >= k /\ \E b \in 1..Len(c[i].txs) : w[a] = c[i].txs[b]
      BY <1>11
    <3>2. w[a] < nx /\ h[w[a]] = c[i].h
      BY <1>9, <3>1 DEF Born
    <3> QED BY <1>2, <1>10, <3>1, <3>2
  <2> QED BY <1>1, <2>3, <2>4 DEF Born
<1>13. Own(r)
  <2>1. n \in 1..n /\ Len(ss) = n - k + 1
    BY <1>1, <1>3
  <2>2. PICK b \in 1..Len(c[n].txs) : c[n].txs[b] = c[n].id
    BY <1>9, <2>1 DEF Own
  <2>3. \E a \in 1..Len(w) : w[a] = c[n].txs[b]
    BY <1>4, <1>8, <2>1 DEF Includes
  <2> QED BY <1>1, <2>2, <2>3 DEF Own
<1>14. \A i \in 1..(k - 1) : d[i] = c[i] /\ i \in 1..n /\ i < k
  BY <1>1
<1>15. ASSUME NEW i \in 1..(k - 1) PROVE Precedes(d[i].txs, r.txs)
  <2> SUFFICES ASSUME NEW e \in 1..Len(c[i].txs), NEW a \in 1..Len(w) PROVE c[i].txs[e] < w[a]
    BY <1>1, <1>14 DEF Precedes
  <2>1. PICK j \in 1..n : j >= k /\ \E b \in 1..Len(c[j].txs) : w[a] = c[j].txs[b]
    BY <1>11
  <2>2. i < j /\ i \in 1..n
    BY <1>1, <1>14, <2>1
  <2>3. Precedes(c[i].txs, c[j].txs)
    BY <2>2 DEF Grown, n
  <2> QED BY <2>1, <2>3 DEF Precedes
<1>16. \A i \in 1..k : Born(h, nx, d[i]) /\ Own(d[i]) /\ Rising(d[i].txs)
  <2> SUFFICES ASSUME NEW i \in 1..k PROVE Born(h, nx, d[i]) /\ Own(d[i]) /\ Rising(d[i].txs)
    OBVIOUS
  <2>1. CASE i = k
    BY <1>1, <1>6, <1>12, <1>13, <2>1 DEF r
  <2>2. CASE i # k
    <3>1. i \in 1..(k - 1)
      BY <1>1, <2>2
    <3>2. i \in 1..n /\ d[i] = c[i]
      BY <1>14, <3>1
    <3> QED BY <3>2 DEF Grown, n
  <2> QED BY <2>1, <2>2
<1>17. ASSUME NEW i \in 1..k, NEW j \in 1..k, i < j PROVE Precedes(d[i].txs, d[j].txs)
  <2>1. i \in 1..(k - 1)
    BY <1>1, <1>17
  <2>2. CASE j = k
    BY <1>15, <2>1, <2>2 DEF r
  <2>3. CASE j # k
    <3>1. j \in 1..(k - 1)
      BY <1>1, <2>3
    <3>2. i \in 1..n /\ j \in 1..n /\ d[i] = c[i] /\ d[j] = c[j]
      BY <1>14, <2>1, <3>1
    <3> QED BY <1>17, <3>2 DEF Grown, n
  <2> QED BY <2>2, <2>3
<1>18. Len(d) = k
  BY <1>1
<1>19. Grown(h, nx, d)
  BY <1>16, <1>17, <1>18 DEF Grown
<1> QED BY <1>19 DEF d

\* A height that is noted for a new identifier changes none of the others.
Noted(h, nx, x) == [h EXCEPT ![nx] = x]

LEMMA NotedFacts ==
  ASSUME NEW h \in [Nat -> Nat], NEW nx \in Nat, NEW x \in Nat
  PROVE  /\ Noted(h, nx, x) \in [Nat -> Nat] /\ Noted(h, nx, x)[nx] = x
         /\ \A i \in Nat : i < nx => Noted(h, nx, x)[i] = h[i]
BY DEF Noted

LEMMA NotedBelow ==
  ASSUME NEW h \in [Nat -> Nat], NEW nx \in Nat, NEW x \in Nat
  PROVE  \A i \in Nat : i < nx => Noted(h, nx, x)[i] = h[i]
BY DEF Noted

LEMMA NotAboveItself ==
  ASSUME NEW x \in Nat
  PROVE  x <= x
OBVIOUS

LEMMA LessNot ==
  ASSUME NEW x \in Nat, NEW y \in Nat, x < y
  PROVE  x # y /\ ~(x >= y)
OBVIOUS

LEMMA OneBefore ==
  ASSUME NEW n \in Nat, NEW i \in 1..n
  PROVE  i - 1 \in 0..n
OBVIOUS

LEMMA ListedNat ==
  ASSUME NEW w \in Seq(Nat)
  PROVE  Len(w) \in Nat /\ \A a \in 1..Len(w) : w[a] \in Nat
OBVIOUS

LEMMA BornNoted ==
  ASSUME NEW h \in [Nat -> Nat], NEW nx \in Nat, NEW x \in Nat, NEW m,
         m.id \in Nat, m.txs \in Seq(Nat), Born(h, nx, m)
  PROVE  Born(Noted(h, nx, x), nx + 1, m)
<1> DEFINE g == Noted(h, nx, x)
<1>1. \A i \in Nat : i < nx => g[i] = h[i] /\ i < nx + 1
  <2>1. \A i \in Nat : i < nx => g[i] = h[i]
    BY NotedBelow, Zenon
  <2> QED BY <2>1
<1>2. \A a \in 1..Len(m.txs) : m.txs[a] \in Nat
  BY ListedNat
<1> HIDE DEF g
<1>3. Born(g, nx + 1, m)
  BY <1>1, <1>2 DEF Born
<1> QED BY <1>3 DEF g

LEMMA BornNew ==
  ASSUME NEW h \in [Nat -> Nat], NEW nx \in Nat, NEW x \in Nat, NEW m,
         m.id = nx, m.txs = <<nx>>, m.h = x, x >= StartHeight
  PROVE  Born(Noted(h, nx, x), nx + 1, m) /\ Own(m) /\ Rising(m.txs)
<1> DEFINE g == Noted(h, nx, x)
<1>1. g[nx] = x
  BY NotedFacts
<1>2. Len(m.txs) = 1 /\ m.txs[1] = nx
  OBVIOUS
<1> HIDE DEF g
<1>3. Born(g, nx + 1, m)
  BY <1>1, <1>2 DEF Born
<1>4. Own(m) /\ Rising(m.txs)
  BY <1>2 DEF Own, Rising
<1> QED BY <1>3, <1>4 DEF g

LEMMA Appended ==
  ASSUME NEW S, NEW c \in Seq(S), NEW u \in S
  PROVE  /\ Append(c, u) \in Seq(S) /\ Len(c) \in Nat /\ Len(Append(c, u)) = Len(c) + 1
         /\ Append(c, u)[Len(c) + 1] = u /\ \A i \in 1..Len(c) : Append(c, u)[i] = c[i] /\ c[i] \in S
OBVIOUS

LEMMA GrownAppended ==
  ASSUME NEW h \in [Nat -> Nat], NEW nx \in Nat, NEW c \in Seq(Unit), Grown(h, nx, c),
         NEW u \in Unit, u.id = nx, u.txs = <<nx>>, u.h >= StartHeight
  PROVE  Grown(Noted(h, nx, u.h), nx + 1, Append(c, u))
<1> DEFINE d == Append(c, u)
           n == Len(c)
           g == Noted(h, nx, u.h)
<1>1. n \in Nat /\ Len(d) = n + 1 /\ d[n + 1] = u /\ \A i \in 1..n : d[i] = c[i] /\ c[i] \in Unit
  BY Appended
<1>2. u.h \in Nat
  BY DEF Unit
<1>3. Born(g, nx + 1, u) /\ Own(u) /\ Rising(u.txs)
  BY <1>2, BornNew
<1>4. \A i \in 1..n : Born(g, nx + 1, c[i]) /\ Own(c[i]) /\ Rising(c[i].txs)
  <2> SUFFICES ASSUME NEW i \in 1..n PROVE Born(g, nx + 1, c[i]) /\ Own(c[i]) /\ Rising(c[i].txs)
    OBVIOUS
  <2>1. c[i].id \in Nat /\ c[i].txs \in Seq(Nat)
    BY <1>1 DEF Unit
  <2>2. Born(h, nx, c[i]) /\ Own(c[i]) /\ Rising(c[i].txs)
    BY DEF Grown
  <2> QED BY <1>2, <2>1, <2>2, BornNoted
<1> HIDE DEF d, g, n
<1>5. \A i \in 1..(n + 1) : Born(g, nx + 1, d[i]) /\ Own(d[i]) /\ Rising(d[i].txs)
  <2> SUFFICES ASSUME NEW i \in 1..(n + 1) PROVE Born(g, nx + 1, d[i]) /\ Own(d[i]) /\ Rising(d[i].txs)
    OBVIOUS
  <2>1. i = n + 1 \/ i \in 1..n
    BY <1>1
  <2> QED BY <1>1, <1>3, <1>4, <2>1
<1>6. ASSUME NEW i \in 1..(n + 1), NEW j \in 1..(n + 1), i < j PROVE Precedes(d[i].txs, d[j].txs)
  <2>1. i \in 1..n
    BY <1>1, <1>6
  <2>2. CASE j = n + 1
    <3>1. Len(d[j].txs) = 1 /\ d[j].txs[1] = nx /\ d[i] = c[i]
      <4>1. Len(<<nx>>) = 1 /\ <<nx>>[1] = nx
        OBVIOUS
      <4> QED BY <1>1, <2>1, <2>2, <4>1
    <3>2. \A a \in 1..Len(c[i].txs) : c[i].txs[a] < nx
      BY <2>1 DEF Grown, Born, n
    <3>3. \A b \in 1..Len(d[j].txs) : b = 1
      BY <3>1
    <3> QED BY <3>1, <3>2, <3>3 DEF Precedes
  <2>3. CASE j # n + 1
    <3>1. j \in 1..n
      BY <1>1, <2>3
    <3> QED BY <1>1, <1>6, <2>1, <3>1 DEF Grown, n
  <2> QED BY <2>2, <2>3
<1>7. Len(d) = n + 1
  BY <1>1
<1>8. Grown(g, nx + 1, d)
  BY <1>5, <1>6, <1>7 DEF Grown
<1> QED BY <1>8 DEF d, g

\* What the node makes is new, and the merge keeps the order.
LEMMA GrownMined ==
  ASSUME NEW h \in [Nat -> Nat], NEW nx \in Nat, NEW c \in Seq(Unit), NEW lq, NEW k,
         NodeRows(Ids(c), lq, nx, k), Grown(h, nx, c),
         NEW m \in Msg, m.type # "rollback", m.id = nx, m.txs = <<nx>>, m.h >= StartHeight
  PROVE  Grown(Noted(h, nx, m.h), nx + 1, Applied(c, m))
<1> DEFINE u == UnitOf(m)
           b == Base2(c, m)
<1>1. /\ c # << >> /\ c[1].key /\ LastKey(c) = k /\ k \in 1..Len(c) /\ Len(c) \in Nat
      /\ \A i \in 1..Len(c) : c[i].id # m.id /\ (i >= k => c[i].h = c[k].h)
  <2> DEFINE r == Ids(c)
  <2>1. /\ Len(r) = Len(c) /\ Len(c) \in Nat /\ LastKey(r) = LastKey(c) /\ (c = << >> <=> r = << >>)
        /\ \A i \in 1..Len(c) : r[i].id = c[i].id /\ r[i].key = c[i].key /\ r[i].h = c[i].h
    BY NodeIds
  <2>2. r # << >> /\ r[1].key /\ LastKey(r) = k /\ k \in 1..Len(r) /\ ShapeAt(r, k)
    BY NodeRowsFacts
  <2>3. \A i \in 1..Len(r) : r[i].id < nx /\ r[i].id \in Nat
    BY NodeRowsFacts DEF NodeRows
  <2> HIDE DEF r
  <2>4. 1 \in 1..Len(c)
    BY <2>1, <2>2
  <2>5. ASSUME NEW i \in 1..Len(c) PROVE c[i].id # m.id
    <3>1. r[i].id < nx /\ r[i].id = c[i].id /\ r[i].id \in Nat
      BY <2>1, <2>3
    <3>2. r[i].id # nx
      BY <3>1, LessNot, Zenon
    <3> QED BY <3>1, <3>2, Zenon
  <2>6. ASSUME NEW i \in 1..Len(c), i >= k PROVE c[i].h = c[k].h
    <3>1. k \in 1..Len(c) /\ i \in Nat /\ k \in Nat /\ i \in 1..Len(r) /\ k \in 1..Len(r)
      BY <2>1, <2>2
    <3>2. /\ r[i].h = StartHeight - 1 + (IF i <= k THEN i ELSE k)
          /\ r[k].h = StartHeight - 1 + (IF k <= k THEN k ELSE k)
      BY <2>2, <3>1 DEF ShapeAt
    <3>3. r[i].h = c[i].h /\ r[k].h = c[k].h
      BY <2>1, <3>1
    <3>4. (IF i <= k THEN i ELSE k) = k /\ (IF k <= k THEN k ELSE k) = k
      BY <2>6, <3>1
    <3> QED BY <3>2, <3>3, <3>4
  <2> QED BY <2>1, <2>2, <2>4, <2>5, <2>6
<1>2. u \in Unit /\ b \in Seq(Unit) /\ Applied(c, m) = Append(b, u)
  BY <1>1, AppliedNew
<1>3. u.id = nx /\ u.txs = <<nx>> /\ u.h = m.h
  BY DEF UnitOf
<1>4. Grown(h, nx, b)
  <2>1. b = c \/ (c # << >> /\ ~Last(c).key /\ b = Merged(c))
    BY <1>1, BaseUnits
  <2> QED BY <1>1, <2>1, GrownMerged
<1> HIDE DEF u, b
<1>5. Grown(Noted(h, nx, u.h), nx + 1, Append(b, u))
  BY <1>2, <1>3, <1>4, GrownAppended
<1> QED BY <1>2, <1>3, <1>5

----------------------------------------------------------------------------
(* What the tables say about when their transactions were made.            *)

\* The first k rows are the key blocks; no microblock is higher than the last.
Keyed(b, k) ==
  /\ k \in 0..Len(b) /\ (k = 0 => b = << >>)
  /\ \A i \in 1..Len(b) : (b[i].key <=> i <= k) /\ (i > k => b[i].h <= b[k].h)

\* No row is more than one higher than all rows before it.
Stepped(b) ==
  \A i \in 1..Len(b) :
    /\ b[i].h >= StartHeight
    /\ IF i = 1 THEN b[1].h = StartHeight ELSE \E j \in 1..(i - 1) : b[i].h <= b[j].h + 1

\* A row is named by one of its transactions.
Named(b, x) == \A i \in 1..Len(b) : \E t \in x : t.at = i /\ t.tx = b[i].id

\* No transaction was made above its row.
Low(h, b, x, nx) == \A t \in x : t.at \in 1..Len(b) /\ t.tx < nx /\ h[t.tx] <= b[t.at].h

Tall(h, b, x, nx, k) ==
  b \in Seq(Row) /\ x \in SUBSET TxRow /\ Keyed(b, k) /\ Stepped(b) /\ Named(b, x) /\ Low(h, b, x, nx)

\* The row of a transaction after the squash.
Down(t, k) == [uid |-> t.uid, tx |-> t.tx, at |-> IF t.at > k THEN k ELSE t.at]

Folds(s, k) ==
  LET b == s.blocks
      d == Squash(s).blocks
  IN  /\ k \in 1..(Len(b) - 1) /\ d \in Seq(Row) /\ Len(d) = k
      /\ \A i \in 1..k : d[i].h = b[i].h /\ d[i].key = b[i].key /\ d[i].id = (IF i = k THEN b[Len(b)].id ELSE b[i].id)
      /\ Squash(s).txs = {Down(t, k) : t \in s.txs}

LEMMA DownFacts ==
  ASSUME NEW t \in TxRow, NEW k \in Nat
  PROVE  /\ Down(t, k) \in TxRow /\ Down(t, k).tx = t.tx
         /\ Down(t, k).at = IF t.at > k THEN k ELSE t.at
         /\ (IF t.at > k THEN [t EXCEPT !.at = k] ELSE t) = Down(t, k)
<1>1. t = [uid |-> t.uid, tx |-> t.tx, at |-> t.at] /\ t.at \in Nat /\ t.uid \in Nat /\ t.tx \in Nat
  BY DEF TxRow
<1>2. [t EXCEPT !.at = k] = [uid |-> t.uid, tx |-> t.tx, at |-> k]
  BY DEF TxRow
<1>3. Down(t, k) \in TxRow /\ Down(t, k).tx = t.tx /\ Down(t, k).at = IF t.at > k THEN k ELSE t.at
  BY <1>1 DEF Down, TxRow
<1>4. CASE t.at > k
  BY <1>2, <1>3, <1>4 DEF Down
<1>5. CASE ~(t.at > k)
  BY <1>1, <1>3, <1>5 DEF Down
<1> QED BY <1>3, <1>4, <1>5

LEMMA KeyedLast ==
  ASSUME NEW b \in Seq(Row), NEW k, Keyed(b, k)
  PROVE  /\ LastKey(b) = k /\ k \in Nat
         /\ b # << >> => k \in 1..Len(b) /\ b[1].key /\ Last(b) = b[Len(b)] /\ (Last(b).key <=> k = Len(b))
         /\ b = << >> => k = Len(b)
<1>1. k \in 0..Len(b) /\ Len(b) \in Nat /\ (k = 0 => b = << >>) /\ \A i \in 1..Len(b) : b[i].key <=> i <= k
  BY DEF Keyed
<1>2. LastKey(b) = k
  BY <1>1, LastKeyIs
<1>3. ASSUME b # << >> PROVE k \in 1..Len(b) /\ b[1].key /\ Last(b) = b[Len(b)] /\ (Last(b).key <=> k = Len(b))
  <2>1. Len(b) \in 1..Len(b) /\ 1 \in 1..Len(b) /\ k \in 1..Len(b)
    BY <1>1, <1>3
  <2>2. Last(b) = b[Len(b)]
    BY DEF Last
  <2> QED BY <1>1, <2>1, <2>2
<1>4. b = << >> => k = Len(b)
  BY <1>1
<1> QED BY <1>1, <1>2, <1>3, <1>4

LEMMA SquashCases ==
  ASSUME NEW s, GoodDb(s), NEW k, Keyed(s.blocks, k)
  PROVE  (Squash(s) = s /\ Len(s.blocks) = k) \/ Folds(s, k)
<1> DEFINE b == s.blocks
<1>1. b \in Seq(Row) /\ s.txs \in SUBSET TxRow
  BY DEF GoodDb, Db
<1>2. /\ LastKey(b) = k /\ k \in Nat
      /\ b # << >> => k \in 1..Len(b) /\ b[1].key /\ Last(b) = b[Len(b)] /\ (Last(b).key <=> k = Len(b))
      /\ b = << >> => k = Len(b)
  BY <1>1, KeyedLast
<1>3. CASE b = << >> \/ Last(b).key
  BY <1>2, <1>3 DEF Squash
<1>4. CASE ~(b = << >> \/ Last(b).key)
  <2> DEFINE y == {IF t.at > k THEN [t EXCEPT !.at = k] ELSE t : t \in s.txs}
             d == RowMerged(b)
  <2>1. Squash(s) = [s EXCEPT !.blocks = d, !.txs = y]
    BY <1>2, <1>4 DEF Squash, RowMerged
  <2> HIDE DEF y, d, b
  <2>2. Squash(s).blocks = d /\ Squash(s).txs = y
    BY <2>1 DEF GoodDb, Db
  <2>3. /\ k \in 1..(Len(b) - 1) /\ d \in Seq(Row) /\ Len(d) = k
        /\ \A i \in 1..k : d[i] = IF i = k THEN [id |-> Last(b).id, h |-> b[i].h, key |-> b[i].key] ELSE b[i]
    BY <1>1, <1>2, <1>4, RowMergedFacts DEF d
  <2>4. \A i \in 1..k : d[i].h = b[i].h /\ d[i].key = b[i].key /\ d[i].id = (IF i = k THEN b[Len(b)].id ELSE b[i].id)
    <3> SUFFICES ASSUME NEW i \in 1..k
                 PROVE  d[i].h = b[i].h /\ d[i].key = b[i].key /\ d[i].id = (IF i = k THEN b[Len(b)].id ELSE b[i].id)
      OBVIOUS
    <3>1. CASE i = k
      <4>1. d[i] = [id |-> Last(b).id, h |-> b[i].h, key |-> b[i].key]
        BY <2>3, <3>1
      <4> QED BY <1>2, <1>4, <3>1, <4>1
    <3>2. CASE i # k
      BY <2>3, <3>2
    <3> QED BY <3>1, <3>2
  <2>5. y = {Down(t, k) : t \in s.txs}
    <3>1. \A t \in s.txs : (IF t.at > k THEN [t EXCEPT !.at = k] ELSE t) = Down(t, k)
      BY <1>1, <1>2, DownFacts
    <3> QED BY <3>1, Zenon DEF y
  <2>6. Folds(s, k)
    BY <2>2, <2>3, <2>4, <2>5 DEF Folds, b
  <2> QED BY <2>6
<1> QED BY <1>3, <1>4

LEMMA TallSquashed ==
  ASSUME NEW h \in [Nat -> Nat], NEW nx, NEW s, GoodDb(s), NEW k, Tall(h, s.blocks, s.txs, nx, k)
  PROVE  /\ Tall(h, Squash(s).blocks, Squash(s).txs, nx, k) /\ Len(Squash(s).blocks) = k
         /\ \A i \in 1..k : Squash(s).blocks[i].h = s.blocks[i].h
         /\ \A t \in Squash(s).txs : \E v \in s.txs : t.tx = v.tx
<1> DEFINE b == s.blocks
           d == Squash(s).blocks
           x == s.txs
           y == Squash(s).txs
           n == Len(b)
<1>1. b \in Seq(Row) /\ x \in SUBSET TxRow /\ Keyed(b, k) /\ Stepped(b) /\ Named(b, x) /\ Low(h, b, x, nx)
  BY DEF Tall
<1>2. CASE Squash(s) = s /\ Len(s.blocks) = k
  BY <1>2
<1>3. CASE Folds(s, k)
  <2>1. /\ k \in 1..(n - 1) /\ d \in Seq(Row) /\ Len(d) = k
        /\ \A i \in 1..k : d[i].h = b[i].h /\ d[i].key = b[i].key /\ d[i].id = (IF i = k THEN b[n].id ELSE b[i].id)
        /\ y = {Down(t, k) : t \in x}
    BY <1>3 DEF Folds
  <2>2. n \in Nat /\ k \in Nat
    BY <1>1, <2>1
  <2> HIDE DEF b, d, x, y, n
  <2>3. ASSUME NEW t \in x
        PROVE  /\ Down(t, k) \in TxRow /\ Down(t, k) \in y /\ Down(t, k).tx = t.tx
               /\ Down(t, k).at = (IF t.at > k THEN k ELSE t.at)
               /\ t \in TxRow /\ t.tx \in Nat /\ t.at \in 1..n /\ t.tx < nx /\ h[t.tx] <= b[t.at].h
    <3>1. t \in TxRow
      BY <1>1
    <3>2. t.at \in 1..n /\ t.tx < nx /\ h[t.tx] <= b[t.at].h
      BY <1>1 DEF Low, n
    <3>3. Down(t, k) \in y
      BY <2>1
    <3> QED BY <2>2, <3>1, <3>2, <3>3, DownFacts DEF TxRow
  <2>4. \A i \in 1..k : i \in 1..n
    BY <2>1, <2>2
  <2>5. \A i \in 1..n : b[i].h \in Nat /\ (b[i].key <=> i <= k) /\ (i > k => b[i].h <= b[k].h)
    <3>1. \A i \in 1..n : b[i].h \in Nat
      BY <1>1, RowFields DEF n
    <3> QED BY <1>1, <3>1 DEF Keyed, n
  <2>6. Keyed(d, k)
    <3>1. ASSUME NEW i \in 1..k PROVE d[i].key /\ i <= k /\ ~(i > k)
      <4>1. i \in 1..n /\ i <= k /\ ~(i > k)
        BY <2>2, <2>4
      <4>2. d[i].key = b[i].key
        BY <2>1
      <4> QED BY <2>5, <4>1, <4>2
    <3> QED BY <2>1, <2>2, <3>1 DEF Keyed
  <2>7. Stepped(d)
    <3> SUFFICES ASSUME NEW i \in 1..k
                 PROVE  /\ d[i].h >= StartHeight
                        /\ IF i = 1 THEN d[1].h = StartHeight ELSE \E j \in 1..(i - 1) : d[i].h <= d[j].h + 1
      BY <2>1 DEF Stepped
    <3>1. i \in 1..n /\ 1 \in 1..k /\ d[i].h = b[i].h /\ d[1].h = b[1].h
      <4>1. i \in 1..n /\ 1 \in 1..k
        BY <2>1, <2>2, <2>4
      <4> QED BY <2>1, <4>1
    <3>2. /\ b[i].h >= StartHeight
          /\ IF i = 1 THEN b[1].h = StartHeight ELSE \E j \in 1..(i - 1) : b[i].h <= b[j].h + 1
      BY <1>1, <3>1 DEF Stepped, n
    <3>3. CASE i = 1
      BY <3>1, <3>2, <3>3
    <3>4. CASE i # 1
      <4>1. PICK j \in 1..(i - 1) : b[i].h <= b[j].h + 1
        BY <3>2, <3>4
      <4>2. j \in 1..k
        BY <2>2
      <4> QED BY <2>1, <3>1, <3>2, <3>4, <4>1, <4>2
    <3> QED BY <3>3, <3>4
  <2>8. Named(d, y)
    <3> SUFFICES ASSUME NEW i \in 1..k PROVE \E t \in y : t.at = i /\ t.tx = d[i].id
      BY <2>1 DEF Named
    <3>1. CASE i = k
      <4>1. PICK t \in x : t.at = n /\ t.tx = b[n].id
        <5>1. n \in 1..n
          BY <2>1, <2>2
        <5> QED BY <1>1, <5>1 DEF Named, n
      <4>2. Down(t, k).at = k
        <5>1. n > k
          BY <2>1, <2>2
        <5> QED BY <2>3, <4>1, <5>1
      <4>3. Down(t, k) \in y /\ Down(t, k).tx = b[n].id
        BY <2>3, <4>1
      <4>4. d[i].id = b[n].id
        BY <2>1, <3>1
      <4> QED BY <3>1, <4>2, <4>3, <4>4
    <3>2. CASE i # k
      <4>1. PICK t \in x : t.at = i /\ t.tx = b[i].id
        BY <1>1, <2>4 DEF Named, n
      <4>2. Down(t, k).at = i
        BY <2>2, <2>3, <4>1
      <4> QED BY <2>1, <2>3, <3>2, <4>1, <4>2
    <3> QED BY <3>1, <3>2
  <2>9. Low(h, d, y, nx)
    <3> SUFFICES ASSUME NEW v \in y PROVE v.at \in 1..k /\ v.tx < nx /\ h[v.tx] <= d[v.at].h
      BY <2>1 DEF Low
    <3>1. PICK t \in x : v = Down(t, k)
      BY <2>1
    <3>2. /\ v.tx = t.tx /\ v.at = (IF t.at > k THEN k ELSE t.at)
          /\ t.tx \in Nat /\ t.at \in 1..n /\ t.tx < nx /\ h[t.tx] <= b[t.at].h
      BY <2>3, <3>1
    <3>3. h[t.tx] \in Nat
      BY <3>2
    <3>4. CASE t.at > k
      <4>1. b[t.at].h <= b[k].h /\ b[t.at].h \in Nat /\ b[k].h \in Nat /\ k \in 1..k /\ v.at = k
        <5>1. k \in 1..k /\ k \in 1..n
          BY <2>1, <2>2
        <5> QED BY <2>5, <3>2, <3>4, <5>1
      <4>2. d[k].h = b[k].h
        BY <2>1, <4>1
      <4> QED BY <3>2, <3>3, <4>1, <4>2
    <3>5. CASE ~(t.at > k)
      <4>1. v.at = t.at /\ t.at \in 1..k
        BY <2>2, <3>2, <3>5
      <4>2. d[t.at].h = b[t.at].h
        BY <2>1, <4>1
      <4> QED BY <3>2, <4>1, <4>2
    <3> QED BY <3>4, <3>5
  <2>10. y \in SUBSET TxRow
    BY <2>1, <2>3
  <2>11. \A t \in y : \E v \in x : t.tx = v.tx
    BY <2>1, <2>3
  <2> QED BY <2>1, <2>6, <2>7, <2>8, <2>9, <2>10, <2>11 DEF Tall, d, y, b, x
<1> QED BY <1>2, <1>3, SquashCases, <1>1

\* The rows z are those of the transactions of m, at row p.
RowsOf(z, m, p) ==
  /\ \A t \in z : t \in TxRow /\ t.at = p /\ \E a \in 1..Len(m.txs) : t.tx = m.txs[a]
  /\ \A a \in 1..Len(m.txs) : \E t \in z : t.at = p /\ t.tx = m.txs[a]

LEMMA UidNat ==
  ASSUME NEW x \in Nat, NEW y \in Nat, NEW i \in Nat \ {0}
  PROVE  x + y + i - 1 \in Nat
OBVIOUS

LEMMA NewTxsFacts ==
  ASSUME NEW g \in [height : Nat, id : Nat], NEW m \in Msg, NEW at \in Nat
  PROVE  RowsOf(NewTxs(g, m, at), m, at)
<1> DEFINE n == Len(m.txs)
           F(i) == [uid |-> NextUid(g, i), tx |-> m.txs[i], at |-> at]
           Q == NewTxs(g, m, at)
<1>1. m.txs \in Seq(Nat) /\ n \in Nat /\ g.height * Multiplier \in Nat /\ g.id \in Nat
  BY ConsumerAssumption DEF Msg
<1>2. DOMAIN m.txs = 1..n
  BY <1>1
<1>3. \A i \in 1..n : NextUid(g, i) \in Nat /\ m.txs[i] \in Nat
  <2> SUFFICES ASSUME NEW i \in 1..n PROVE NextUid(g, i) \in Nat /\ m.txs[i] \in Nat
    OBVIOUS
  <2>1. m.txs[i] \in Nat
    BY <1>1
  <2>2. NextUid(g, i) \in Nat
    <3> HIDE DEF n
    <3>1. i \in Nat \ {0}
      BY <1>1
    <3> QED BY <1>1, <3>1, UidNat, Zenon DEF NextUid
  <2> QED BY <2>1, <2>2
<1> HIDE DEF n
<1>4. Q = {F(i) : i \in 1..n}
  BY <1>2, Zenon DEF NewTxs
<1>5. \A i \in 1..n : F(i) \in TxRow /\ F(i).at = at /\ F(i).tx = m.txs[i]
  BY <1>3 DEF TxRow
<1> HIDE DEF F, Q
<1>6. Q = {F(i) : i \in 1..n} /\ \A i \in 1..n : F(i) \in TxRow /\ F(i).at = at /\ F(i).tx = m.txs[i]
  BY <1>4, <1>5
<1> HIDE DEF F, Q
<1> QED BY <1>6 DEF n, Q, RowsOf

LEMMA TallAppended ==
  ASSUME NEW h \in [Nat -> Nat], NEW nx \in Nat, NEW b, NEW x, NEW k, Tall(h, b, x, nx, k),
         NEW g \in [height : Nat, id : Nat], NEW m \in Msg, Born(h, nx, m), Own(m), NEW l,
         \/ m.type = "block" /\ k = Len(b) /\ l = k + 1
            /\ (b = << >> => m.h = StartHeight) /\ (b # << >> => m.h <= b[k].h + 1)
         \/ m.type = "microblock" /\ b # << >> /\ m.h <= b[k].h /\ l = k
  PROVE  Tall(h, Append(b, [id |-> m.id, h |-> m.h, key |-> m.type = "block"]),
              x \cup NewTxs(g, m, Len(b) + 1), nx, l)
<1> DEFINE n == Len(b)
           r == [id |-> m.id, h |-> m.h, key |-> m.type = "block"]
           d == Append(b, r)
           z == NewTxs(g, m, n + 1)
           y == x \cup z
<1>1. b \in Seq(Row) /\ x \in SUBSET TxRow /\ Keyed(b, k) /\ Stepped(b) /\ Named(b, x) /\ Low(h, b, x, nx)
  BY DEF Tall
<1>2. /\ r \in Row /\ r.id = m.id /\ r.h = m.h /\ (r.key <=> m.type = "block")
      /\ m.h \in Nat /\ m.id \in Nat /\ m.txs \in Seq(Nat)
  BY DEF Msg, Row
<1> HIDE DEF r
<1>3. /\ d \in Seq(Row) /\ n \in Nat /\ Len(d) = n + 1 /\ d[n + 1] = r
      /\ \A i \in 1..n : d[i] = b[i]
  BY <1>1, <1>2, Appended
<1>4. n \in Nat /\ n + 1 \in Nat
  BY <1>3
<1>a. d[n + 1] = r
  BY <1>3
<1>b. \A i \in 1..n : d[i] = b[i]
  BY <1>3
<1>c. d \in Seq(Row) /\ Len(d) = n + 1
  BY <1>3
<1>5. /\ \A t \in z : t \in TxRow /\ t.at = n + 1 /\ \E a \in 1..Len(m.txs) : t.tx = m.txs[a]
      /\ \A a \in 1..Len(m.txs) : \E t \in z : t.at = n + 1 /\ t.tx = m.txs[a]
  <2> DEFINE at == n + 1
  <2>1. at \in Nat
    BY <1>4
  <2> HIDE DEF at, z
  <2>2. RowsOf(NewTxs(g, m, at), m, at)
    BY <2>1, NewTxsFacts
  <2>3. RowsOf(z, m, n + 1)
    BY <2>2 DEF at, z
  <2> QED BY <2>3 DEF RowsOf
<1>6. /\ k \in 0..n /\ (k = 0 => b = << >>) /\ (b = << >> => n = 0)
      /\ \A i \in 1..n : (b[i].key <=> i <= k) /\ (i > k => b[i].h <= b[k].h)
  BY <1>1 DEF Keyed
<1>7. \A i \in 1..n : b[i].h \in Nat
  BY <1>1, RowFields
<1>8. StartHeight \in Nat
  BY ConsumerAssumption
<1> HIDE DEF n, d, z
<1>9. \A i \in 1..(n + 1) : i \in 1..n \/ i = n + 1
  BY <1>3
<1>10. Keyed(d, l)
  <2>1. CASE m.type = "block" /\ k = n /\ l = k + 1
    <3>1. l \in 0..(n + 1) /\ l # 0
      BY <1>3, <2>1
    <3>2. \A i \in 1..(n + 1) : (d[i].key <=> i <= l) /\ ~(i > l)
      <4> SUFFICES ASSUME NEW i \in 1..(n + 1) PROVE (d[i].key <=> i <= l) /\ ~(i > l)
        OBVIOUS
      <4>1. i <= l /\ ~(i > l)
        BY <1>3, <2>1
      <4>2. CASE i = n + 1
        BY <1>2, <1>3, <2>1, <4>1, <4>2
      <4>3. CASE i # n + 1
        <5>1. i \in 1..n /\ i <= k
          BY <1>9, <2>1, <4>3
        <5> QED BY <1>3, <1>6, <4>1, <5>1
      <4> QED BY <4>2, <4>3
    <3> QED BY <1>3, <3>1, <3>2 DEF Keyed
  <2>2. CASE m.type = "microblock" /\ b # << >> /\ m.h <= b[k].h /\ l = k
    <3>1. l \in 0..(n + 1) /\ l # 0 /\ k \in 1..n
      BY <1>3, <1>6, <2>2
    <3>2. \A i \in 1..(n + 1) : (d[i].key <=> i <= l) /\ (i > l => d[i].h <= d[l].h)
      <4> SUFFICES ASSUME NEW i \in 1..(n + 1) PROVE (d[i].key <=> i <= l) /\ (i > l => d[i].h <= d[l].h)
        OBVIOUS
      <4>0. d[l].h = b[k].h
        BY <1>3, <2>2, <3>1
      <4>1. CASE i = n + 1
        <5>1. ~(i <= l)
          <6>1. l \in 1..n
            BY <2>2, <3>1
          <6> QED BY <1>4, <4>1, <6>1
        <5>2. d[i] = r /\ ~r.key
          BY <1>2, <1>a, <2>2, <4>1
        <5>3. ~d[i].key /\ d[i].h = m.h
          BY <1>2, <5>2
        <5> QED BY <2>2, <4>0, <5>1, <5>3
      <4>2. CASE i # n + 1
        <5>1. i \in 1..n
          BY <1>9, <4>2
        <5>2. d[i] = b[i]
          BY <1>3, <5>1
        <5> QED BY <1>6, <2>2, <4>0, <5>1, <5>2
      <4> QED BY <4>1, <4>2
    <3>3. d # << >>
      BY <1>3
    <3> QED BY <1>3, <3>1, <3>2 DEF Keyed
  <2> QED BY <2>1, <2>2 DEF n
<1>11. m.h >= StartHeight /\ (n = 0 => m.h = StartHeight) /\ (n # 0 => k \in 1..n /\ m.h <= b[k].h + 1)
  <2>1. m.h >= StartHeight
    BY DEF Born
  <2>2. n = 0 <=> b = << >>
    BY <1>1 DEF n
  <2>3. n # 0 => k \in 1..n /\ b[k].h \in Nat
    BY <1>3, <1>6, <1>7, <2>2
  <2>4. n # 0 => m.h <= b[k].h + 1
    <3> SUFFICES ASSUME n # 0 PROVE m.h <= b[k].h + 1
      OBVIOUS
    <3>1. b # << >> /\ b[k].h \in Nat /\ m.h \in Nat
      BY <1>2, <2>2, <2>3
    <3>2. m.h <= b[k].h \/ m.h <= b[k].h + 1
      BY <3>1
    <3> DEFINE x1 == b[k].h
               x2 == m.h
    <3>3. x1 \in Nat /\ x2 \in Nat /\ (x2 <= x1 \/ x2 <= x1 + 1)
      BY <3>1, <3>2
    <3> HIDE DEF x1, x2
    <3>4. x2 <= x1 + 1
      BY <3>3
    <3> QED BY <3>4 DEF x1, x2
  <2>5. n = 0 => m.h = StartHeight
    BY <2>2
  <2> QED BY <2>1, <2>3, <2>4, <2>5
<1>12. Stepped(d)
  <2> SUFFICES ASSUME NEW i \in 1..(n + 1)
               PROVE  /\ d[i].h >= StartHeight
                      /\ IF i = 1 THEN d[1].h = StartHeight ELSE \E j \in 1..(i - 1) : d[i].h <= d[j].h + 1
    BY <1>3 DEF Stepped
  <2>1. CASE i = n + 1
    <3>1. d[i].h = m.h
      BY <1>2, <1>3, <2>1
    <3>2. CASE n = 0
      <4>1. i = 1 /\ m.h = StartHeight
        BY <1>11, <2>1, <3>2
      <4>2. d[i].h >= StartHeight
        BY <1>11, <3>1
      <4>3. d[1].h = StartHeight
        BY <3>1, <4>1
      <4> QED BY <4>1, <4>2, <4>3
    <3>3. CASE n # 0
      <4>1. k \in 1..n
        BY <1>11, <3>3
      <4>2. i # 1 /\ k \in 1..(i - 1)
        BY <1>4, <2>1, <3>3, <4>1
      <4>3. d[k] = b[k]
        BY <1>b, <4>1
      <4>4. d[i].h >= StartHeight /\ d[i].h <= d[k].h + 1
        BY <1>11, <3>1, <3>3, <4>3
      <4> QED BY <4>2, <4>4
    <3> QED BY <3>2, <3>3
  <2>2. CASE i # n + 1
    <3>1. i \in 1..n /\ 1 \in 1..n
      BY <1>3, <1>9, <2>2
    <3>2. /\ b[i].h >= StartHeight
          /\ IF i = 1 THEN b[1].h = StartHeight ELSE \E j \in 1..(i - 1) : b[i].h <= b[j].h + 1
      BY <1>1, <3>1 DEF Stepped, n
    <3>3. \A j \in 1..(i - 1) : j \in 1..n
      BY <1>4, <3>1
    <3>4. d[i] = b[i] /\ d[1] = b[1] /\ \A j \in 1..(i - 1) : d[j] = b[j]
      BY <1>b, <3>1, <3>3
    <3> QED BY <3>2, <3>4
  <2> QED BY <2>1, <2>2
<1>13. Named(d, y)
  <2> SUFFICES ASSUME NEW i \in 1..(n + 1) PROVE \E t \in y : t.at = i /\ t.tx = d[i].id
    BY <1>3 DEF Named
  <2>1. CASE i = n + 1
    <3>1. PICK a \in 1..Len(m.txs) : m.txs[a] = m.id
      BY DEF Own
    <3>2. PICK t \in z : t.at = n + 1 /\ t.tx = m.txs[a]
      BY <1>5
    <3> QED BY <1>2, <1>3, <2>1, <3>1, <3>2
  <2>2. CASE i # n + 1
    <3>1. i \in 1..n
      BY <1>9, <2>2
    <3>2. PICK t \in x : t.at = i /\ t.tx = b[i].id
      BY <1>1, <3>1 DEF Named, n
    <3> QED BY <1>3, <3>1, <3>2
  <2> QED BY <2>1, <2>2
<1>14. Low(h, d, y, nx)
  <2> SUFFICES ASSUME NEW t \in y PROVE t.at \in 1..(n + 1) /\ t.tx < nx /\ h[t.tx] <= d[t.at].h
    BY <1>3 DEF Low
  <2>1. CASE t \in z
    <3>0. n + 1 \in 1..(n + 1)
      BY <1>4
    <3>1. t.at = n + 1 /\ \E a \in 1..Len(m.txs) : t.tx = m.txs[a]
      BY <1>5, <2>1
    <3>2. t.tx < nx /\ h[t.tx] = m.h
      BY <3>1 DEF Born
    <3>3. m.h <= m.h
      BY <1>2, NotAboveItself, Zenon
    <3>4. d[t.at].h = m.h /\ t.at \in 1..(n + 1)
      BY <1>2, <1>a, <3>0, <3>1, Zenon
    <3>5. h[t.tx] <= d[t.at].h
      BY <3>2, <3>3, <3>4, Zenon
    <3> QED BY <3>2, <3>4, <3>5, Zenon
  <2>2. CASE t \in x
    <3>1. t.at \in 1..n /\ t.tx < nx /\ h[t.tx] <= b[t.at].h
      BY <1>1, <2>2 DEF Low, n
    <3>2. d[t.at] = b[t.at]
      BY <1>b, <3>1, Zenon
    <3>3. \A i \in 1..n : i \in 1..(n + 1)
      BY <1>4
    <3>4. t.at \in 1..(n + 1)
      BY <3>1, <3>3, Zenon
    <3> QED BY <3>1, <3>2, <3>4, Zenon
  <2> QED BY <2>1, <2>2
<1>15. y \in SUBSET TxRow
  BY <1>1, <1>5
<1> QED BY <1>3, <1>10, <1>12, <1>13, <1>14, <1>15 DEF Tall, d, z, n, r

LEMMA TallAbsorbed ==
  ASSUME NEW h \in [Nat -> Nat], NEW nx \in Nat, NEW b, NEW x, NEW k, Tall(h, b, x, nx, k),
         NEW g \in [height : Nat, id : Nat], NEW m \in Msg, Born(h, nx, m),
         NEW p \in 1..Len(b), b[p].id = m.id
  PROVE  Tall(h, b, x \cup NewTxs(g, m, p), nx, k)
<1> DEFINE z == NewTxs(g, m, p)
           y == x \cup z
<1>1. b \in Seq(Row) /\ x \in SUBSET TxRow /\ Keyed(b, k) /\ Stepped(b) /\ Named(b, x) /\ Low(h, b, x, nx)
  BY DEF Tall
<1>2. p \in Nat
  OBVIOUS
<1>3. \A t \in z : t \in TxRow /\ t.at = p /\ \E a \in 1..Len(m.txs) : t.tx = m.txs[a]
  BY <1>2, NewTxsFacts DEF RowsOf
<1>4. m.h <= b[p].h
  <2>1. PICK v \in x : v.at = p /\ v.tx = b[p].id
    BY <1>1 DEF Named
  <2>2. h[v.tx] <= b[v.at].h
    BY <1>1 DEF Low
  <2>3. h[m.id] = m.h
    BY DEF Born
  <2> QED BY <2>1, <2>2, <2>3
<1> HIDE DEF z
<1>5. Named(b, y)
  BY <1>1 DEF Named
<1>6. Low(h, b, y, nx)
  <2> SUFFICES ASSUME NEW t \in y PROVE t.at \in 1..Len(b) /\ t.tx < nx /\ h[t.tx] <= b[t.at].h
    BY DEF Low
  <2>1. CASE t \in z
    <3>1. t.at = p /\ \E a \in 1..Len(m.txs) : t.tx = m.txs[a]
      BY <1>3, <2>1
    <3>2. t.tx < nx /\ h[t.tx] = m.h
      BY <3>1 DEF Born
    <3> QED BY <1>4, <3>1, <3>2
  <2>2. CASE t \in x
    BY <1>1, <2>2 DEF Low
  <2> QED BY <2>1, <2>2
<1>7. y \in SUBSET TxRow
  BY <1>1, <1>3
<1> QED BY <1>1, <1>5, <1>6, <1>7 DEF Tall, z

Until(x, p) == {t \in x : t.at <= p}

LEMMA TallCut ==
  ASSUME NEW h, NEW nx, NEW b, NEW x, NEW k, Tall(h, b, x, nx, k), NEW p \in 1..Len(b),
         NEW l, l = IF p <= k THEN p ELSE k
  PROVE  /\ Tall(h, SubSeq(b, 1, p), Until(x, p), nx, l)
         /\ l \in 1..p /\ b[p].h <= b[l].h
<1> DEFINE d == SubSeq(b, 1, p)
           y == {t \in x : t.at <= p}
           n == Len(b)
<1>1. b \in Seq(Row) /\ x \in SUBSET TxRow /\ Keyed(b, k) /\ Stepped(b) /\ Named(b, x) /\ Low(h, b, x, nx)
  BY DEF Tall
<1>2. /\ k \in 0..n /\ (k = 0 => b = << >>) /\ n \in Nat
      /\ \A i \in 1..n : (b[i].key <=> i <= k) /\ (i > k => b[i].h <= b[k].h)
  BY <1>1 DEF Keyed
<1>3. b # << >> /\ k \in 1..n /\ p \in Nat
  BY <1>1, <1>2
<1>4. d \in Seq(Row) /\ Len(d) = p /\ \A i \in 1..p : d[i] = b[i]
  <2>1. p \in 0..Len(b)
    BY <1>2
  <2> QED BY <1>1, <2>1, Prefix
<1>5. \A i \in 1..n : b[i].h \in Nat
  BY <1>1, RowFields
<1>6. l \in 1..p /\ b[p].h <= b[l].h
  <2>1. CASE p <= k
    <3>1. l = p /\ p \in 1..p
      BY <1>3, <2>1
    <3>2. b[p].h \in Nat
      BY <1>5
    <3> QED BY <3>1, <3>2
  <2>2. CASE ~(p <= k)
    BY <1>2, <1>3, <2>2
  <2> QED BY <2>1, <2>2
<1> HIDE DEF d
<1>7. \A i \in 1..p : i \in 1..n /\ i \in Nat
  BY <1>2
<1> HIDE DEF n
<1>8. Keyed(d, l)
  <2>1. ASSUME NEW i \in 1..p PROVE (d[i].key <=> i <= l) /\ (i > l => d[i].h <= d[l].h)
    <3>1. (b[i].key <=> i <= k) /\ (i > k => b[i].h <= b[k].h) /\ d[i] = b[i] /\ d[l] = b[l]
      BY <1>2, <1>4, <1>6, <1>7
    <3>2. CASE p <= k
      <4>1. i <= l /\ i <= k /\ ~(i > l)
        BY <1>3, <3>2
      <4> QED BY <3>1, <4>1
    <3>3. CASE ~(p <= k)
      BY <3>1, <3>3
    <3> QED BY <3>2, <3>3
  <2>2. l \in 0..p /\ l # 0
    BY <1>3, <1>6
  <2> QED BY <1>4, <2>1, <2>2 DEF Keyed
<1>9. Stepped(d)
  <2> SUFFICES ASSUME NEW i \in 1..p
               PROVE  /\ d[i].h >= StartHeight
                      /\ IF i = 1 THEN d[1].h = StartHeight ELSE \E j \in 1..(i - 1) : d[i].h <= d[j].h + 1
    BY <1>4 DEF Stepped
  <2>1. /\ b[i].h >= StartHeight
        /\ IF i = 1 THEN b[1].h = StartHeight ELSE \E j \in 1..(i - 1) : b[i].h <= b[j].h + 1
    BY <1>1, <1>7 DEF Stepped, n
  <2>2. 1 \in 1..p /\ \A j \in 1..(i - 1) : j \in 1..p
    BY <1>3
  <2>3. d[i] = b[i] /\ d[1] = b[1] /\ \A j \in 1..(i - 1) : d[j] = b[j]
    BY <1>4, <2>2
  <2> QED BY <2>1, <2>3
<1>10. Named(d, y)
  <2> SUFFICES ASSUME NEW i \in 1..p PROVE \E t \in y : t.at = i /\ t.tx = d[i].id
    BY <1>4 DEF Named
  <2>1. PICK t \in x : t.at = i /\ t.tx = b[i].id
    BY <1>1, <1>7 DEF Named, n
  <2>2. t.at <= p
    BY <1>3, <2>1
  <2> QED BY <1>4, <2>1, <2>2
<1>11. Low(h, d, y, nx)
  <2> SUFFICES ASSUME NEW t \in y PROVE t.at \in 1..p /\ t.tx < nx /\ h[t.tx] <= d[t.at].h
    BY <1>4 DEF Low
  <2>1. t \in x /\ t.at <= p /\ t.at \in 1..n /\ t.tx < nx /\ h[t.tx] <= b[t.at].h
    BY <1>1 DEF Low, n
  <2>2. t.at \in 1..p
    BY <1>3, <2>1
  <2> QED BY <1>4, <2>1, <2>2
<1>12. y \in SUBSET TxRow
  BY <1>1
<1> QED BY <1>4, <1>6, <1>8, <1>9, <1>10, <1>11, <1>12 DEF Tall, d, Until

----------------------------------------------------------------------------
(* How high the next message may be.                                       *)

\* Both the last key block and the last row are at l or higher.
Reached(b, k, l) == IF b = << >> THEN l = StartHeight - 1 ELSE l <= b[k].h /\ l <= b[Len(b)].h

\* No higher than l, or a new block at the next height.
Climbs(m, x, l) ==
  \/ m.h <= l
  \/ m.type = "block" /\ m.h = l + 1 /\ \A t \in x : t.tx # m.id

Stands(h, nx, b, x, l) == l \in Nat /\ \E k : Tall(h, b, x, nx, k) /\ Reached(b, k, l)

Brings(h, nx, m) == m \in Msg /\ Born(h, nx, m) /\ (m.type # "rollback" => Own(m))

LEMMA NotAbove ==
  ASSUME NEW x \in Nat, NEW y \in Nat, NEW z \in Nat, x <= y, y <= z
  PROVE  x <= z
OBVIOUS

LEMMA PositionFound ==
  ASSUME NEW S, NEW c \in Seq(S), NEW id, Position(c, id) # 0
  PROVE  Position(c, id) \in 1..Len(c) /\ c[Position(c, id)].id = id
<1> DEFINE p == Position(c, id)
<1>1. p \in 0..Len(c) /\ c[p].id = id
  BY PositionFacts
<1> HIDE DEF p
<1>2. p # 0
  BY DEF p
<1>3. p \in 1..Len(c)
  BY <1>1, <1>2
<1> QED BY <1>1, <1>3 DEF p

LEMMA AppendedPosition ==
  ASSUME NEW b \in Seq(Row), NEW r \in Row
  PROVE  Position(Append(b, r), r.id) = Len(b) + 1
<1> DEFINE d == Append(b, r)
           n == Len(b)
           p == Position(d, r.id)
<1>1. /\ d \in Seq(Row) /\ n \in Nat /\ Len(d) = n + 1 /\ d[n + 1] = r
  BY Appended
<1>2. /\ p \in 0..Len(d)
      /\ p = 0 => \A i \in 1..Len(d) : d[i].id # r.id
      /\ p # 0 => \A i \in 1..Len(d) : d[i].id = r.id => i <= p
  BY <1>1, PositionFacts
<1> HIDE DEF d, n, p
<1>3. n + 1 \in 1..Len(d) /\ d[n + 1].id = r.id
  BY <1>1
<1>4. p # 0 /\ n + 1 <= p
  BY <1>2, <1>3
<1>5. p = n + 1
  BY <1>1, <1>2, <1>4
<1> QED BY <1>5 DEF d, n, p

LEMMA StandsFacts ==
  ASSUME NEW h, NEW nx, NEW b, NEW x, NEW k, Tall(h, b, x, nx, k)
  PROVE  /\ b \in Seq(Row) /\ Len(b) \in Nat /\ k \in 0..Len(b)
         /\ b # << >> => k \in 1..Len(b) /\ Len(b) \in 1..Len(b) /\ b[k].h \in Nat /\ b[Len(b)].h \in Nat
         /\ \A i \in 1..Len(b) : \E t \in x : t.tx = b[i].id /\ h[t.tx] <= b[i].h
<1> DEFINE n == Len(b)
<1>1. b \in Seq(Row) /\ Keyed(b, k) /\ Named(b, x) /\ Low(h, b, x, nx)
  BY DEF Tall
<1>2. n \in Nat /\ k \in 0..n /\ (k = 0 => b = << >>) /\ (b # << >> => n # 0)
  BY <1>1 DEF Keyed
<1>3. \A i \in 1..n : b[i].h \in Nat
  BY <1>1, RowFields
<1>4. \A i \in 1..n : \E t \in x : t.tx = b[i].id /\ h[t.tx] <= b[i].h
  <2> TAKE i \in 1..n
  <2>1. PICK t \in x : t.at = i /\ t.tx = b[i].id
    BY <1>1 DEF Named
  <2>2. h[t.tx] <= b[t.at].h
    BY <1>1 DEF Low
  <2> QED BY <2>1, <2>2
<1> HIDE DEF n
<1>5. b # << >> => k \in 1..n /\ n \in 1..n
  BY <1>2
<1>6. b # << >> => b[k].h \in Nat /\ b[n].h \in Nat
  BY <1>3, <1>5
<1> QED BY <1>1, <1>2, <1>4, <1>5, <1>6 DEF n

\* A row under the identifier of m is not lower than m.
LEMMA RowOfBrought ==
  ASSUME NEW h \in [Nat -> Nat], NEW nx, NEW b, NEW x, NEW k, Tall(h, b, x, nx, k),
         NEW m, Brings(h, nx, m), NEW p \in 1..Len(b), b[p].id = m.id
  PROVE  m.h <= b[p].h /\ (\E t \in x : t.tx = m.id)
<1>1. PICK t \in x : t.tx = b[p].id /\ h[t.tx] <= b[p].h
  BY StandsFacts
<1>2. h[m.id] = m.h
  BY DEF Brings, Born
<1> QED BY <1>1, <1>2

LEMMA StepRollback ==
  ASSUME NEW h \in [Nat -> Nat], NEW nx, NEW s, GoodDb(s), s.error = "none",
         NEW m, Brings(h, nx, m), m.type = "rollback", NEW l, Stands(h, nx, s.blocks, s.txs, l),
         Handle(m, s).error = "none"
  PROVE  Stands(h, nx, Handle(m, s).blocks, Handle(m, s).txs, m.h)
<1> DEFINE b == s.blocks
           p == Position(b, m.id)
           r == Handle(m, s)
           d == SubSeq(b, 1, p)
           y == {t \in s.txs : t.at <= p}
<1>0. m \in Msg /\ m.h \in Nat /\ s \in Db
  BY DEF Brings, Msg, GoodDb
<1>1. PICK k : Tall(h, b, s.txs, nx, k)
  BY DEF Stands
<1>2. p # 0
  <2> SUFFICES ASSUME p = 0 PROVE FALSE
    OBVIOUS
  <2>1. Handle(m, s) = [s EXCEPT !.error = "unknown_block"]
    BY DEF Handle, HandleRollback
  <2>2. [s EXCEPT !.error = "unknown_block"].error = "unknown_block"
    BY <1>0 DEF Db
  <2> QED BY <2>1, <2>2
<1>3. r.txs = y /\ r.blocks = d
  BY <1>0, <1>2, RollbackEffect
<1>4. b \in Seq(Row)
  BY <1>1 DEF Tall
<1>5. p \in 1..Len(b) /\ b[p].id = m.id
  BY <1>2, <1>4, PositionFound
<1>6. m.h <= b[p].h
  BY <1>1, <1>5, RowOfBrought
<1> DEFINE z == IF p <= k THEN p ELSE k
<1> HIDE DEF p
<1>7. Tall(h, d, y, nx, z) /\ z \in 1..p /\ b[p].h <= b[z].h
  <2>1. z = IF p <= k THEN p ELSE k
    OBVIOUS
  <2> HIDE DEF z
  <2>2. Tall(h, SubSeq(b, 1, p), Until(s.txs, p), nx, z)
    BY <1>1, <1>5, <2>1, TallCut
  <2>3. z \in 1..p
    BY <1>1, <1>5, <2>1, TallCut
  <2>4. b[p].h <= b[z].h
    BY <1>1, <1>5, <2>1, TallCut
  <2> QED BY <2>2, <2>3, <2>4 DEF Until
<1>8. Len(d) = p /\ d # << >> /\ d[p] = b[p] /\ d[z] = b[z] /\ b[p].h \in Nat /\ b[z].h \in Nat
  <2>1. p \in 0..Len(b) /\ p \in Nat
    BY <1>4, <1>5
  <2>2. Len(d) = p /\ \A i \in 1..p : d[i] = b[i]
    BY <1>4, <2>1, Prefix
  <2>3. p \in 1..p /\ p # 0
    BY <1>5
  <2>4. z \in 1..Len(b)
    <3>1. Len(b) \in Nat
      BY <1>4
    <3>2. z \in 1..p
      BY <1>7
    <3> QED BY <1>5, <3>1, <3>2
  <2>5. b[p].h \in Nat /\ b[z].h \in Nat
    BY <1>4, <1>5, <2>4, RowFields
  <2>6. d # << >>
    BY <2>2, <2>3
  <2> QED BY <1>7, <2>2, <2>3, <2>5, <2>6
<1> HIDE DEF d, y, z
<1>9. m.h <= d[z].h /\ m.h <= d[Len(d)].h
  <2>1. m.h <= b[z].h
    BY <1>0, <1>6, <1>7, <1>8, NotAbove
  <2> QED BY <1>6, <1>8, <2>1
<1>10. Reached(d, z, m.h)
  BY <1>8, <1>9 DEF Reached
<1> QED BY <1>0, <1>3, <1>7, <1>10 DEF Stands

LEMMA StepMicroblock ==
  ASSUME NEW h \in [Nat -> Nat], NEW nx \in Nat, NEW s, GoodDb(s), s.error = "none",
         NEW m, Brings(h, nx, m), m.type = "microblock", NEW l, Stands(h, nx, s.blocks, s.txs, l),
         Climbs(m, s.txs, l), s.blocks # << >>
  PROVE  Stands(h, nx, Handle(m, s).blocks, Handle(m, s).txs, m.h)
<1> DEFINE b == s.blocks
           x == s.txs
           p == Position(b, m.id)
           r == Handle(m, s)
           u == [id |-> m.id, h |-> m.h, key |-> m.type = "block"]
           d == Append(b, u)
           at == Position(r.blocks, m.id)
           g == AtHeight(s.gen, m.h)
           z == NewTxs(g, m, at)
<1>0. m \in Msg /\ m.h \in Nat /\ s \in Db /\ Born(h, nx, m) /\ Own(m) /\ u \in Row /\ u.id = m.id /\ u.h = m.h
  BY DEF Brings, Msg, GoodDb, Row
<1>1. PICK k : Tall(h, b, x, nx, k) /\ Reached(b, k, l)
  BY DEF Stands
<1>2. /\ b \in Seq(Row) /\ Len(b) \in Nat /\ k \in 1..Len(b) /\ Len(b) \in 1..Len(b)
      /\ b[k].h \in Nat /\ b[Len(b)].h \in Nat
  BY <1>1, StandsFacts
<1>3. m.h <= b[k].h /\ m.h <= b[Len(b)].h
  <2>1. l \in Nat /\ l <= b[k].h /\ l <= b[Len(b)].h
    BY <1>1 DEF Stands, Reached
  <2>2. m.h <= l
    BY DEF Climbs
  <2>3. m.h <= b[k].h
    BY <1>0, <1>2, <2>1, <2>2, NotAbove
  <2>4. m.h <= b[Len(b)].h
    BY <1>0, <1>2, <2>1, <2>2, NotAbove
  <2> QED BY <2>3, <2>4
<1>4. r.blocks = RowApplied(b, m)
  BY <1>0, HandleRows
<1>5. r.txs = x \cup z /\ g \in [height : Nat, id : Nat] /\ at \in 1..Len(r.blocks)
  BY <1>0, HandleEffect DEF SquashedTxs
<1> HIDE DEF g
<1>6. CASE p # 0
  <2>1. r.blocks = b /\ at = p
    BY <1>4, <1>6 DEF RowApplied
  <2>2. p \in 1..Len(b) /\ b[p].id = m.id
    BY <1>2, <1>6, PositionFound
  <2>3. Tall(h, b, x \cup NewTxs(g, m, p), nx, k)
    BY <1>0, <1>1, <1>5, <2>2, TallAbsorbed
  <2>4. Reached(b, k, m.h)
    BY <1>3 DEF Reached
  <2> QED BY <1>0, <1>5, <2>1, <2>3, <2>4 DEF Stands
<1>7. CASE p = 0
  <2>1. r.blocks = d
    BY <1>4, <1>7 DEF RowApplied
  <2>2. at = Len(b) + 1
    BY <1>0, <1>2, <2>1, AppendedPosition
  <2>3. Tall(h, d, x \cup NewTxs(g, m, Len(b) + 1), nx, k)
    BY <1>0, <1>1, <1>3, <1>5, TallAppended
  <2>4. Len(d) = Len(b) + 1 /\ d[Len(d)] = u /\ d[k] = b[k]
    BY <1>0, <1>2, Appended
  <2>5. d # << >> /\ m.h <= d[k].h /\ m.h <= d[Len(d)].h
    <3>1. d # << >>
      <4> DEFINE e == d
      <4>1. Len(e) = Len(b) + 1 /\ Len(b) \in Nat
        BY <1>2, <2>4
      <4> HIDE DEF e
      <4>2. e # << >>
        BY <4>1
      <4> QED BY <4>2 DEF e
    <3>2. d[k].h = b[k].h /\ d[Len(d)].h = m.h
      BY <1>0, <2>4, Zenon
    <3>3. m.h <= m.h
      BY <1>0
    <3> QED BY <1>3, <3>1, <3>2, <3>3
  <2>6. Reached(d, k, m.h)
    BY <2>5 DEF Reached
  <2> QED BY <1>0, <1>5, <2>1, <2>2, <2>3, <2>6 DEF Stands
<1> QED BY <1>6, <1>7

LEMMA OneMore ==
  ASSUME NEW x \in Nat, NEW y \in Nat, NEW z \in Nat, x <= y \/ x = y + 1, y <= z
  PROVE  x <= z + 1
OBVIOUS

LEMMA StepBlock ==
  ASSUME NEW h \in [Nat -> Nat], NEW nx \in Nat, NEW s, GoodDb(s), s.error = "none",
         NEW m, Brings(h, nx, m), m.type = "block", NEW l, Stands(h, nx, s.blocks, s.txs, l),
         Climbs(m, s.txs, l), s.blocks = << >> => Opening(m)
  PROVE  Stands(h, nx, Handle(m, s).blocks, Handle(m, s).txs, m.h)
<1> DEFINE b == s.blocks
           e == Squash(s).blocks
           x == Squash(s).txs
           p == Position(e, m.id)
           r == Handle(m, s)
           u == [id |-> m.id, h |-> m.h, key |-> m.type = "block"]
           d == Append(e, u)
           at == Position(r.blocks, m.id)
           g == AtHeight(s.gen, m.h)
           z == NewTxs(g, m, at)
<1>0. m \in Msg /\ m.h \in Nat /\ s \in Db /\ Born(h, nx, m) /\ Own(m) /\ u \in Row /\ u.id = m.id /\ u.h = m.h
  BY DEF Brings, Msg, GoodDb, Row
<1>1. PICK k : Tall(h, b, s.txs, nx, k) /\ Reached(b, k, l)
  BY DEF Stands
<1>2. /\ b \in Seq(Row) /\ Len(b) \in Nat /\ k \in 0..Len(b)
      /\ b # << >> => k \in 1..Len(b) /\ b[k].h \in Nat
  BY <1>1, StandsFacts
<1>c. /\ Tall(h, Squash(s).blocks, Squash(s).txs, nx, k) /\ Len(Squash(s).blocks) = k
      /\ \A i \in 1..k : Squash(s).blocks[i].h = s.blocks[i].h
      /\ \A t \in Squash(s).txs : \E v \in s.txs : t.tx = v.tx
  <2> HIDE DEF b, e, x, p, r, u, d, at, g, z
  <2>1. Tall(h, s.blocks, s.txs, nx, k)
    BY <1>1 DEF b
  <2> QED BY <2>1, TallSquashed, Zenon
<1>3. Tall(h, e, x, nx, k)
  BY <1>c
<1>a. \A i \in 1..k : e[i].h = b[i].h
  BY <1>c
<1>b. Len(e) = k
  BY <1>c
<1>4. Len(e) = k /\ (\A i \in 1..k : e[i].h = b[i].h)
  BY <1>a, <1>b
<1>5. \A t \in x : \E v \in s.txs : t.tx = v.tx
  BY <1>c
<1>6. e \in Seq(Row) /\ k \in Nat
  BY <1>2, <1>3 DEF Tall
<1>7. r.blocks = RowApplied(b, m) /\ RowMerged(b) = e
  BY <1>0, HandleRows, SquashRows
<1>8. r.txs = x \cup z /\ g \in [height : Nat, id : Nat] /\ at \in 1..Len(r.blocks)
  BY <1>0, HandleEffect DEF SquashedTxs
<1>9. r.blocks = IF p # 0 THEN e ELSE d
  BY <1>7 DEF RowApplied
<1> HIDE DEF g, e, x
<1>10. e # << >> => b # << >> /\ e[k].h = b[k].h /\ k \in 1..k /\ l <= e[k].h /\ e[k].h \in Nat
  <2> SUFFICES ASSUME e # << >>
               PROVE  b # << >> /\ e[k].h = b[k].h /\ k \in 1..k /\ l <= e[k].h /\ e[k].h \in Nat
    OBVIOUS
  <2>1. k # 0
    BY <1>4, <1>6
  <2>2. b # << >> /\ k \in 1..k
    BY <1>2, <1>6, <2>1
  <2>3. e[k].h = b[k].h
    BY <1>4, <2>2
  <2>4. l <= b[k].h
    BY <1>1, <2>2 DEF Reached
  <2> QED BY <1>2, <2>2, <2>3, <2>4
<1>11. l \in Nat /\ (m.h <= l \/ m.h = l + 1)
  BY DEF Stands, Climbs
<1>12. CASE p # 0
  <2>1. p \in 1..Len(e) /\ e[p].id = m.id
    BY <1>6, <1>12, PositionFound
  <2>2. r.blocks = e /\ at = p
    BY <1>9, <1>12
  <2>3. Tall(h, e, x \cup NewTxs(g, m, p), nx, k)
    BY <1>0, <1>3, <1>8, <2>1, TallAbsorbed
  <2>4. \E t \in x : t.tx = m.id
    <3>1. \A i \in 1..Len(e) : \E t \in x : t.tx = e[i].id /\ h[t.tx] <= e[i].h
      BY <1>3, StandsFacts
    <3>2. PICK t \in x : t.tx = e[p].id
      BY <2>1, <3>1
    <3> QED BY <2>1, <3>2
  <2>5. \E v \in s.txs : v.tx = m.id
    BY <1>5, <2>4
  <2>6. m.h <= l
    BY <2>5 DEF Climbs
  <2>7. e # << >>
    BY <1>6, <2>1
  <2>8. m.h <= e[k].h
    BY <1>0, <1>10, <1>11, <2>6, <2>7, NotAbove
  <2>9. Reached(e, k, m.h)
    BY <1>4, <2>7, <2>8 DEF Reached
  <2>10. r.txs = x \cup NewTxs(g, m, p)
    BY <1>8, <2>2
  <2>11. Stands(h, nx, e, x \cup NewTxs(g, m, p), m.h)
    BY <1>0, <2>3, <2>9 DEF Stands
  <2> QED BY <2>2, <2>10, <2>11, Zenon
<1>13. CASE p = 0
  <2>1. r.blocks = d
    BY <1>9, <1>13
  <2>2. at = Len(e) + 1
    BY <1>0, <1>6, <2>1, AppendedPosition
  <2>3. e = << >> => m.h = StartHeight
    <3> SUFFICES ASSUME e = << >> PROVE m.h = StartHeight
      OBVIOUS
    <3>1. k = 0
      BY <1>4
    <3>2. b = << >>
      BY <1>2, <3>1
    <3> QED BY <3>2 DEF Opening
  <2>4. e # << >> => m.h <= e[k].h + 1
    BY <1>0, <1>10, <1>11, OneMore
  <2>5. Tall(h, d, x \cup NewTxs(g, m, Len(e) + 1), nx, k + 1)
    <3> DEFINE j == k + 1
    <3>1. j = k + 1
      OBVIOUS
    <3> HIDE DEF j
    <3>2. \/ m.type = "block" /\ k = Len(e) /\ j = k + 1
             /\ (e = << >> => m.h = StartHeight) /\ (e # << >> => m.h <= e[k].h + 1)
          \/ m.type = "microblock" /\ e # << >> /\ m.h <= e[k].h /\ j = k
      BY <1>4, <2>3, <2>4, <3>1
    <3>3. g \in [height : Nat, id : Nat] /\ m \in Msg /\ Born(h, nx, m) /\ Own(m)
      BY <1>0, <1>8
    <3>4. Tall(h, d, x \cup NewTxs(g, m, Len(e) + 1), nx, j)
      BY <1>3, <3>2, <3>3, TallAppended, Zenon
    <3> QED BY <3>4 DEF j
  <2>6. Len(d) = k + 1 /\ d[k + 1] = u
    <3>1. Len(d) = Len(e) + 1 /\ d[Len(e) + 1] = u
      BY <1>0, <1>6, Appended
    <3> QED BY <1>4, <3>1
  <2>7. Reached(d, k + 1, m.h)
    <3>1. d # << >>
      <4> DEFINE c == d
      <4>1. Len(c) = k + 1
        BY <2>6
      <4> HIDE DEF c
      <4>2. c # << >>
        BY <1>6, <4>1
      <4> QED BY <4>2 DEF c
    <3>2. d[k + 1].h = m.h /\ d[Len(d)].h = m.h
      BY <1>0, <2>6, Zenon
    <3>3. m.h <= m.h
      BY <1>0
    <3> QED BY <3>1, <3>2, <3>3 DEF Reached
  <2>8. r.txs = x \cup NewTxs(g, m, Len(e) + 1)
    BY <1>8, <2>2
  <2>9. Stands(h, nx, d, x \cup NewTxs(g, m, Len(e) + 1), m.h)
    <3> HIDE DEF d
    <3> QED BY <1>0, <2>5, <2>7 DEF Stands
  <2> QED BY <2>1, <2>8, <2>9, Zenon
<1> QED BY <1>12, <1>13

LEMMA RollbackFound ==
  ASSUME NEW s, GoodDb(s), s.error = "none", NEW m \in Msg, m.type = "rollback", Handle(m, s).error = "none"
  PROVE  /\ Position(s.blocks, m.id) # 0
         /\ \A t \in Handle(m, s).txs : t \in s.txs
<1>1. Position(s.blocks, m.id) # 0
  <2> SUFFICES ASSUME Position(s.blocks, m.id) = 0 PROVE FALSE
    OBVIOUS
  <2>1. Handle(m, s) = [s EXCEPT !.error = "unknown_block"]
    BY DEF Handle, HandleRollback
  <2>2. [s EXCEPT !.error = "unknown_block"].error = "unknown_block"
    BY DEF GoodDb, Db
  <2> QED BY <2>1, <2>2
<1>2. Handle(m, s).txs = {t \in s.txs : t.at <= Position(s.blocks, m.id)}
  BY <1>1, RollbackEffect
<1> QED BY <1>1, <1>2

\* The transactions y come from x and message m.
Passed(x, y, m) == \A t \in y : (\E v \in x : t.tx = v.tx) \/ (\E a \in 1..Len(m.txs) : t.tx = m.txs[a])

\* What is left after a message are its transactions and some that were stored.
LEMMA HandledTxs ==
  ASSUME NEW h \in [Nat -> Nat], NEW nx, NEW s, GoodDb(s), s.error = "none", NEW k, Tall(h, s.blocks, s.txs, nx, k),
         NEW m \in Msg, s.blocks = << >> => Opening(m), Handle(m, s).error = "none"
  PROVE  Passed(s.txs, Handle(m, s).txs, m)
<1>1. CASE m.type = "rollback"
  BY <1>1, RollbackFound DEF Passed
<1>2. CASE m.type # "rollback"
  <2> DEFINE g == AtHeight(s.gen, m.h)
             at == Position(Handle(m, s).blocks, m.id)
             z == NewTxs(g, m, at)
             n == Len(Handle(m, s).blocks)
  <2>1. Handle(m, s).txs = SquashedTxs(s, m) \cup z
    BY <1>2, HandleEffect
  <2>2. g \in [height : Nat, id : Nat]
    BY <1>2, HandleEffect
  <2>3. at \in 1..n
    BY <1>2, HandleEffect
  <2>4. at \in Nat
    <3> HIDE DEF at, n
    <3> QED BY <2>3
  <2> HIDE DEF g, at
  <2>5. \A t \in z : \E a \in 1..Len(m.txs) : t.tx = m.txs[a]
    BY <2>2, <2>4, NewTxsFacts DEF RowsOf
  <2>6. \A t \in SquashedTxs(s, m) : \E v \in s.txs : t.tx = v.tx
    <3>1. \A t \in Squash(s).txs : \E v \in s.txs : t.tx = v.tx
      BY TallSquashed
    <3> QED BY <3>1 DEF SquashedTxs
  <2> HIDE DEF z
  <2> QED BY <2>1, <2>5, <2>6 DEF Passed
<1> QED BY <1>1, <1>2

----------------------------------------------------------------------------
(* No transaction twice.                                                   *)

Once(x) == \A t, u \in x : t.tx = u.tx => t = u

LEMMA SquashedOnce ==
  ASSUME NEW s, GoodDb(s), NEW k, Keyed(s.blocks, k), Once(s.txs)
  PROVE  Once(Squash(s).txs)
<1>1. CASE Squash(s) = s
  BY <1>1
<1>2. CASE Folds(s, k)
  <2> DEFINE x == s.txs
             y == Squash(s).txs
  <2>1. y = {Down(t, k) : t \in x} /\ k \in Nat
    BY <1>2 DEF Folds
  <2>2. x \in SUBSET TxRow
    BY DEF GoodDb, Db
  <2>3. Once(x)
    OBVIOUS
  <2> HIDE DEF x, y
  <2>4. Once(y)
    <3> SUFFICES ASSUME NEW t \in y, NEW u \in y, t.tx = u.tx PROVE t = u
      BY DEF Once
    <3>1. PICK v \in x : t = Down(v, k)
      BY <2>1
    <3>2. PICK w \in x : u = Down(w, k)
      BY <2>1
    <3>3. t.tx = v.tx /\ u.tx = w.tx
      BY <2>1, <2>2, <3>1, <3>2, DownFacts
    <3>4. v = w
      BY <2>3, <3>3 DEF Once
    <3> QED BY <3>1, <3>2, <3>4
  <2> QED BY <2>4 DEF y
<1> QED BY <1>1, <1>2, SquashCases

LEMMA NewOnce ==
  ASSUME NEW g \in [height : Nat, id : Nat], NEW m \in Msg, NEW at \in Nat, Rising(m.txs)
  PROVE  Once(NewTxs(g, m, at))
<1> DEFINE n == Len(m.txs)
           F(i) == [uid |-> NextUid(g, i), tx |-> m.txs[i], at |-> at]
           Q == NewTxs(g, m, at)
<1>1. m.txs \in Seq(Nat)
  BY DEF Msg
<1>2. DOMAIN m.txs = 1..n /\ n \in Nat /\ \A i \in 1..n : m.txs[i] \in Nat
  BY <1>1
<1>3. \A i, j \in 1..n : i < j => m.txs[i] < m.txs[j]
  BY DEF Rising
<1> HIDE DEF n
<1>4. Q = {F(i) : i \in 1..n}
  BY <1>2, Zenon DEF NewTxs
<1> HIDE DEF Q
<1> SUFFICES ASSUME NEW t \in Q, NEW u \in Q, t.tx = u.tx PROVE t = u
  BY DEF Once, Q
<1>5. PICK i \in 1..n : t = F(i)
  BY <1>4
<1>6. PICK j \in 1..n : u = F(j)
  BY <1>4
<1>7. m.txs[i] = m.txs[j]
  BY <1>5, <1>6
<1>8. i = j
  <2>1. ~(i < j) /\ ~(j < i)
    <3>1. m.txs[i] \in Nat /\ m.txs[j] \in Nat
      BY <1>2
    <3>2. (i < j => m.txs[i] < m.txs[j]) /\ (j < i => m.txs[j] < m.txs[i])
      BY <1>3
    <3> QED BY <1>7, <3>1, <3>2
  <2> QED BY <1>2, <2>1
<1> QED BY <1>5, <1>6, <1>8

LEMMA HandledOnce ==
  ASSUME NEW s, GoodDb(s), s.error = "none", NEW k, Keyed(s.blocks, k), Once(s.txs),
         NEW m \in Msg, Rising(m.txs), \A t \in s.txs : \A a \in 1..Len(m.txs) : t.tx # m.txs[a],
         s.blocks = << >> => Opening(m), Handle(m, s).error = "none"
  PROVE  Once(Handle(m, s).txs)
<1>1. CASE m.type = "rollback"
  BY <1>1, RollbackFound DEF Once
<1>2. CASE m.type # "rollback"
  <2> DEFINE g == AtHeight(s.gen, m.h)
             at == Position(Handle(m, s).blocks, m.id)
             z == NewTxs(g, m, at)
             n == Len(Handle(m, s).blocks)
             x == SquashedTxs(s, m)
  <2>1. Handle(m, s).txs = x \cup z
    BY <1>2, HandleEffect
  <2>2. g \in [height : Nat, id : Nat]
    BY <1>2, HandleEffect
  <2>3. at \in 1..n
    BY <1>2, HandleEffect
  <2>4. at \in Nat
    <3> HIDE DEF at, n
    <3> QED BY <2>3
  <2> HIDE DEF g, at
  <2>5. \A t \in z : \E a \in 1..Len(m.txs) : t.tx = m.txs[a]
    BY <2>2, <2>4, NewTxsFacts DEF RowsOf
  <2>6. Once(z)
    BY <2>2, <2>4, NewOnce
  <2>7. Once(x)
    BY SquashedOnce DEF SquashedTxs
  <2>8. \A t \in x : \E v \in s.txs : t.tx = v.tx
    <3>1. \A t \in Squash(s).txs : \E v \in s.txs : t.tx = v.tx
      <4>1. CASE Squash(s) = s
        BY <4>1
      <4>2. CASE Folds(s, k)
        <5>1. Squash(s).txs = {Down(t, k) : t \in s.txs} /\ k \in Nat
          BY <4>2 DEF Folds
        <5>2. s.txs \in SUBSET TxRow
          BY DEF GoodDb, Db
        <5> QED BY <5>1, <5>2, DownFacts
      <4> QED BY <4>1, <4>2, SquashCases
    <3> QED BY <3>1 DEF SquashedTxs
  <2>9. \A t \in x, u \in z : t.tx # u.tx
    BY <2>5, <2>8
  <2> HIDE DEF z, x
  <2>10. Once(x \cup z)
    BY <2>6, <2>7, <2>9 DEF Once
  <2> QED BY <2>1, <2>10
<1> QED BY <1>1, <1>2

\* One message more is written.
LEMMA HandledStands ==
  ASSUME NEW h \in [Nat -> Nat], NEW nx \in Nat, NEW s, GoodDb(s), s.error = "none",
         NEW m, Brings(h, nx, m), NEW l, Stands(h, nx, s.blocks, s.txs, l),
         Climbs(m, s.txs, l), s.blocks = << >> => Opening(m), Handle(m, s).error = "none"
  PROVE  Stands(h, nx, Handle(m, s).blocks, Handle(m, s).txs, m.h)
<1>1. m.type \in {"block", "microblock", "rollback"}
  BY DEF Brings, Msg
<1>2. CASE m.type = "block"
  BY <1>2, StepBlock
<1>3. CASE m.type = "microblock"
  <2>1. s.blocks # << >>
    BY <1>3 DEF Opening
  <2> QED BY <1>3, <2>1, StepMicroblock
<1>4. CASE m.type = "rollback"
  BY <1>4, StepRollback
<1> QED BY <1>1, <1>2, <1>3, <1>4

----------------------------------------------------------------------------
(* What is still to be written.                                            *)

\* The height of the last message that is written: lo when there was none.
Level(q, lo, i) == IF i = 0 THEN lo ELSE q[i].h

\* Message i of q, of which n are written, is no higher than the one before it,
\* or is a new block at the next height.
Rises(h, nx, x, q, n, lo, i) ==
  /\ Brings(h, nx, q[i])
  /\ \/ q[i].h <= Level(q, lo, i - 1)
     \/ /\ q[i].type = "block" /\ q[i].h = Level(q, lo, i - 1) + 1
        /\ \A t \in x : t.tx # q[i].id
        /\ \A j \in 1..Len(q) : n < j /\ j < i => \A a \in 1..Len(q[j].txs) : q[j].txs[a] # q[i].id

Ahead(h, nx, x, q, n, lo) == \A i \in 1..Len(q) : n < i => Rises(h, nx, x, q, n, lo, i)

\* Its transactions are not stored, and made after those before it.
Unstored(x, q, n, i) ==
  /\ Rising(q[i].txs)
  /\ \A t \in x : \A a \in 1..Len(q[i].txs) : t.tx # q[i].txs[a]
  /\ \A j \in 1..Len(q) : n < j /\ j < i => Precedes(q[j].txs, q[i].txs)

OnceAhead(x, q, n) == Once(x) /\ \A i \in 1..Len(q) : n < i => Unstored(x, q, n, i)

Sound(h, nx, b, x, q, n, lo, o) ==
  /\ Stands(h, nx, b, x, Level(q, lo, n))
  /\ Ahead(h, nx, x, q, n, lo)
  /\ o = 0 => OnceAhead(x, q, n)

LEMMA ListedMsg ==
  ASSUME NEW q \in Seq(Msg), NEW i \in 1..Len(q)
  PROVE  q[i] \in Msg /\ q[i].txs \in Seq(Nat) /\ q[i].h \in Nat /\ q[i].id \in Nat
<1>1. q[i] \in Msg
  OBVIOUS
<1> QED BY <1>1 DEF Msg

LEMMA SoundNext ==
  ASSUME NEW h, NEW nx, NEW b, NEW x, NEW q \in Seq(Msg), NEW n \in 1..Len(q), NEW lo,
         Ahead(h, nx, x, q, n - 1, lo)
  PROVE  Brings(h, nx, q[n]) /\ Climbs(q[n], x, Level(q, lo, n - 1))
<1>1. n - 1 < n
  OBVIOUS
<1>2. Rises(h, nx, x, q, n - 1, lo, n)
  BY <1>1 DEF Ahead
<1> QED BY <1>2 DEF Rises, Climbs

LEMMA AheadNext ==
  ASSUME NEW h, NEW nx, NEW x, NEW q \in Seq(Msg), NEW n \in 1..Len(q), NEW lo,
         Ahead(h, nx, x, q, n - 1, lo), NEW y, Passed(x, y, q[n])
  PROVE  Ahead(h, nx, y, q, n, lo)
<1> SUFFICES ASSUME NEW i \in 1..Len(q), n < i PROVE Rises(h, nx, y, q, n, lo, i)
  BY DEF Ahead
<1>1. n - 1 < i /\ n - 1 < n /\ n \in 1..Len(q)
  OBVIOUS
<1>2. Rises(h, nx, x, q, n - 1, lo, i)
  BY <1>1 DEF Ahead
<1>3. CASE q[i].h <= Level(q, lo, i - 1)
  BY <1>2, <1>3 DEF Rises
<1>4. CASE ~(q[i].h <= Level(q, lo, i - 1))
  <2>1. /\ Brings(h, nx, q[i]) /\ q[i].type = "block" /\ q[i].h = Level(q, lo, i - 1) + 1
        /\ \A t \in x : t.tx # q[i].id
        /\ \A j \in 1..Len(q) : n - 1 < j /\ j < i => \A a \in 1..Len(q[j].txs) : q[j].txs[a] # q[i].id
    BY <1>2, <1>4 DEF Rises
  <2>2. \A a \in 1..Len(q[n].txs) : q[n].txs[a] # q[i].id
    BY <1>1, <2>1
  <2>3. \A t \in y : t.tx # q[i].id
    BY <2>1, <2>2 DEF Passed
  <2>4. \A j \in 1..Len(q) : n < j /\ j < i => \A a \in 1..Len(q[j].txs) : q[j].txs[a] # q[i].id
    <3> SUFFICES ASSUME NEW j \in 1..Len(q), n < j, j < i
                 PROVE  \A a \in 1..Len(q[j].txs) : q[j].txs[a] # q[i].id
      OBVIOUS
    <3>1. n - 1 < j
      OBVIOUS
    <3> QED BY <2>1, <3>1
  <2> QED BY <2>1, <2>3, <2>4 DEF Rises
<1> QED BY <1>3, <1>4

LEMMA OnceNext ==
  ASSUME NEW x, NEW q \in Seq(Msg), NEW n \in 1..Len(q), OnceAhead(x, q, n - 1),
         NEW y, Passed(x, y, q[n]), Once(y)
  PROVE  OnceAhead(y, q, n)
<1> SUFFICES ASSUME NEW i \in 1..Len(q), n < i PROVE Unstored(y, q, n, i)
  BY DEF OnceAhead
<1>1. n - 1 < i /\ n - 1 < n /\ n \in 1..Len(q) /\ i \in Nat /\ n \in Nat
  OBVIOUS
<1>2. Unstored(x, q, n - 1, i)
  BY <1>1 DEF OnceAhead
<1>3. Precedes(q[n].txs, q[i].txs)
  BY <1>1, <1>2 DEF Unstored
<1>4. q[n].txs \in Seq(Nat) /\ q[i].txs \in Seq(Nat)
  BY ListedMsg
<1>5. \A c \in 1..Len(q[n].txs), a \in 1..Len(q[i].txs) : q[n].txs[c] # q[i].txs[a]
  <2> SUFFICES ASSUME NEW c \in 1..Len(q[n].txs), NEW a \in 1..Len(q[i].txs)
               PROVE  q[n].txs[c] # q[i].txs[a]
    OBVIOUS
  <2>1. q[n].txs[c] < q[i].txs[a]
    BY <1>3 DEF Precedes
  <2>2. q[n].txs[c] \in Nat
    BY <1>4, ListedNat
  <2>3. q[i].txs[a] \in Nat
    BY <1>4, ListedNat
  <2> QED BY <2>1, <2>2, <2>3
<1>6. \A t \in y : \A a \in 1..Len(q[i].txs) : t.tx # q[i].txs[a]
  <2> SUFFICES ASSUME NEW t \in y, NEW a \in 1..Len(q[i].txs) PROVE t.tx # q[i].txs[a]
    OBVIOUS
  <2>1. CASE \E v \in x : t.tx = v.tx
    BY <1>2, <2>1 DEF Unstored
  <2>2. CASE \E c \in 1..Len(q[n].txs) : t.tx = q[n].txs[c]
    BY <1>5, <2>2
  <2> QED BY <2>1, <2>2 DEF Passed
<1>7. \A j \in 1..Len(q) : n < j /\ j < i => Precedes(q[j].txs, q[i].txs)
  <2> SUFFICES ASSUME NEW j \in 1..Len(q), n < j, j < i PROVE Precedes(q[j].txs, q[i].txs)
    OBVIOUS
  <2>1. n - 1 < j
    OBVIOUS
  <2> QED BY <1>2, <2>1 DEF Unstored
<1> QED BY <1>2, <1>6, <1>7 DEF Unstored

\* Message n is written, to the rows of s.
LEMMA SoundHandled ==
  ASSUME NEW h \in [Nat -> Nat], NEW nx \in Nat, NEW s, GoodDb(s), s.error = "none",
         NEW q \in Seq(Msg), NEW n \in 1..Len(q), NEW lo, NEW o,
         Sound(h, nx, s.blocks, s.txs, q, n - 1, lo, o),
         s.blocks = << >> => Opening(q[n]), Handle(q[n], s).error = "none"
  PROVE  Sound(h, nx, Handle(q[n], s).blocks, Handle(q[n], s).txs, q, n, lo, o)
<1> DEFINE m == q[n]
           l == Level(q, lo, n - 1)
           r == Handle(m, s)
<1>a. m \in Msg
  BY ListedMsg
<1>b. n # 0
  OBVIOUS
<1>1. m \in Msg /\ n # 0
  BY <1>a, <1>b
<1>2. Stands(h, nx, s.blocks, s.txs, l) /\ Ahead(h, nx, s.txs, q, n - 1, lo) /\ (o = 0 => OnceAhead(s.txs, q, n - 1))
  BY DEF Sound
<1>3. Brings(h, nx, m) /\ Climbs(m, s.txs, l)
  BY <1>2, SoundNext
<1>4. Level(q, lo, n) = m.h
  BY <1>1 DEF Level
<1> HIDE DEF l
<1>5. Stands(h, nx, r.blocks, r.txs, m.h)
  BY <1>2, <1>3, HandledStands
<1>6. PICK k : Tall(h, s.blocks, s.txs, nx, k)
  BY <1>2 DEF Stands
<1>7. Passed(s.txs, r.txs, m)
  BY <1>1, <1>6, HandledTxs
<1>8. Ahead(h, nx, r.txs, q, n, lo)
  BY <1>2, <1>7, AheadNext
<1>9. ASSUME o = 0 PROVE OnceAhead(r.txs, q, n)
  <2>1. OnceAhead(s.txs, q, n - 1) /\ n - 1 < n
    BY <1>2, <1>9
  <2>2. Once(s.txs) /\ Unstored(s.txs, q, n - 1, n)
    BY <2>1 DEF OnceAhead
  <2>3. Rising(m.txs) /\ \A t \in s.txs : \A a \in 1..Len(m.txs) : t.tx # m.txs[a]
    BY <2>2 DEF Unstored
  <2>4. Keyed(s.blocks, k)
    BY <1>6 DEF Tall
  <2>5. Once(r.txs)
    BY <1>1, <2>2, <2>3, <2>4, HandledOnce
  <2> QED BY <1>7, <2>1, <2>5, OnceNext
<1> QED BY <1>4, <1>5, <1>8, <1>9 DEF Sound

\* The states s of a transaction over the batch w, which q begins with.
Written(s, w, q) ==
  /\ s[0].error = "none"
  /\ \A i \in 0..Len(w) : GoodDb(s[i])
  /\ \A i \in 1..Len(w) : /\ i \in 1..Len(q) /\ s[i] = Handle(q[i], s[i - 1])
                          /\ s[i - 1].error = "none" /\ s[i - 1].blocks = << >> => Opening(q[i])

LEMMA FoldSound ==
  ASSUME NEW h \in [Nat -> Nat], NEW nx \in Nat, NEW w \in Seq(Msg), NEW q \in Seq(Msg), NEW s, Written(s, w, q),
         NEW lo, NEW o, Sound(h, nx, s[0].blocks, s[0].txs, q, 0, lo, o)
  PROVE  s[Len(w)].error = "none" => Sound(h, nx, s[Len(w)].blocks, s[Len(w)].txs, q, Len(w), lo, o)
<1> DEFINE Ok(i) == s[i].error = "none" => Sound(h, nx, s[i].blocks, s[i].txs, q, i, lo, o)
           n == Len(w)
           S == {i \in 0..n : Ok(i)}
<1>1. n \in Nat
  OBVIOUS
<1>2. 0 \in S
  BY <1>1
<1>3. \A i \in 1..n : i - 1 \in S => i \in S
  <2> SUFFICES ASSUME NEW i \in 1..n, Ok(i - 1), s[i].error = "none"
               PROVE  Sound(h, nx, s[i].blocks, s[i].txs, q, i, lo, o)
    BY <1>1
  <2> DEFINE a == s[i - 1]
  <2>1. i \in 1..Len(q) /\ s[i] = Handle(q[i], a) /\ (a.error = "none" /\ a.blocks = << >> => Opening(q[i]))
    BY DEF Written
  <2>2. i - 1 \in 0..n
    BY <1>1, OneBefore, Zenon
  <2>3. GoodDb(a)
    BY <2>2 DEF Written
  <2>4. a.error = "none"
    BY <2>1, Zenon DEF Handle
  <2>5. Sound(h, nx, a.blocks, a.txs, q, i - 1, lo, o)
    BY <2>4
  <2> HIDE DEF a, Ok
  <2>6. Handle(q[i], a).error = "none"
    BY <2>1
  <2>7. Sound(h, nx, Handle(q[i], a).blocks, Handle(q[i], a).txs, q, i, lo, o)
    BY <2>1, <2>3, <2>4, <2>5, <2>6, SoundHandled
  <2> QED BY <2>1, <2>7
<1> HIDE DEF Ok, S
<1>4. \A i \in 0..n : i \in S
  BY <1>1, <1>2, <1>3, IntervalInduction
<1>5. n \in 0..n
  BY <1>1
<1>6. Ok(n)
  BY <1>4, <1>5 DEF S
<1> QED BY <1>6 DEF Ok

LEMMA LevelFacts ==
  ASSUME NEW q \in Seq(Msg), NEW lo \in Nat
  PROVE  /\ \A i \in 0..Len(q) : Level(q, lo, i) \in Nat
         /\ Level(q, lo, 0) = lo /\ \A i \in 1..Len(q) : Level(q, lo, i) = q[i].h
<1>1. \A i \in 1..Len(q) : q[i].h \in Nat
  BY ListedMsg
<1>2. \A i \in 1..Len(q) : i # 0
  OBVIOUS
<1>3. \A i \in 0..Len(q) : i = 0 \/ i \in 1..Len(q)
  OBVIOUS
<1> QED BY <1>1, <1>2, <1>3 DEF Level

\* The order within the messages after the batch w.
LEMMA JoinedQueue ==
  ASSUME NEW w \in Seq(Msg), NEW r \in Seq(Msg), NEW lo
  PROVE  /\ Len(w) \in Nat /\ Len(r) \in Nat /\ w \o r \in Seq(Msg) /\ Len(w \o r) = Len(w) + Len(r)
         /\ \A i \in 1..Len(w) : (w \o r)[i] = w[i]
         /\ \A i \in 1..Len(r) : (w \o r)[Len(w) + i] = r[i]
         /\ \A i \in 0..Len(r) : Level(r, Level(w \o r, lo, Len(w)), i) = Level(w \o r, lo, Len(w) + i)
<1> DEFINE q == w \o r
           k == Len(w)
           n == Len(r)
<1>1. k \in Nat /\ n \in Nat
  OBVIOUS
<1>2. q \in Seq(Msg) /\ Len(q) = k + n
  OBVIOUS
<1>3. \A i \in 1..k : q[i] = w[i]
  OBVIOUS
<1>4. \A i \in 1..n : q[k + i] = r[i]
  OBVIOUS
<1> HIDE DEF q, k, n
<1>5. \A i \in 0..n : Level(r, Level(q, lo, k), i) = Level(q, lo, k + i)
  <2> SUFFICES ASSUME NEW i \in 0..n PROVE Level(r, Level(q, lo, k), i) = Level(q, lo, k + i)
    OBVIOUS
  <2>1. CASE i = 0
    <3>1. k + i = k
      BY <1>1, <2>1
    <3> QED BY <2>1, <3>1 DEF Level
  <2>2. CASE i # 0
    <3>1. i \in 1..n /\ k + i # 0
      BY <1>1, <2>2
    <3>2. q[k + i] = r[i]
      BY <1>4, <3>1
    <3> QED BY <2>2, <3>1, <3>2 DEF Level
  <2> QED BY <2>1, <2>2
<1> QED BY <1>1, <1>2, <1>3, <1>4, <1>5 DEF q, k, n

LEMMA SoundShift ==
  ASSUME NEW h, NEW nx, NEW b, NEW x, NEW w \in Seq(Msg), NEW r \in Seq(Msg), NEW lo, NEW o,
         Sound(h, nx, b, x, w \o r, Len(w), lo, o)
  PROVE  Sound(h, nx, b, x, r, 0, Level(w \o r, lo, Len(w)), o)
<1> DEFINE q == w \o r
           k == Len(w)
           n == Len(r)
           l == Level(q, lo, k)
<1>1. k \in Nat /\ n \in Nat /\ Len(q) = k + n
  BY JoinedQueue
<1>2. \A i \in 1..n : q[k + i] = r[i]
  BY JoinedQueue
<1>3. \A i \in 0..n : Level(r, l, i) = Level(q, lo, k + i)
  BY JoinedQueue
<1>4. Stands(h, nx, b, x, l) /\ Ahead(h, nx, x, q, k, lo) /\ (o = 0 => OnceAhead(x, q, k))
  BY DEF Sound
<1>5. Level(r, l, 0) = l
  BY DEF Level
<1> HIDE DEF q, k, n, l
<1>6. ASSUME NEW i \in 1..n
      PROVE  /\ k + i \in 1..Len(q) /\ k < k + i /\ q[k + i] = r[i] /\ Level(r, l, i - 1) = Level(q, lo, (k + i) - 1)
             /\ \A j \in 1..n : 0 < j /\ j < i => k + j \in 1..Len(q) /\ k < k + j /\ k + j < k + i /\ q[k + j] = r[j]
  <2>1. i - 1 \in 0..n /\ k + (i - 1) = (k + i) - 1 /\ k + i \in 1..Len(q) /\ k < k + i
    BY <1>1
  <2>2. Level(r, l, i - 1) = Level(q, lo, (k + i) - 1)
    BY <1>3, <2>1
  <2>3. ASSUME NEW j \in 1..n, 0 < j, j < i
        PROVE  k + j \in 1..Len(q) /\ k < k + j /\ k + j < k + i
    BY <1>1, <2>3
  <2> QED BY <1>2, <2>1, <2>2, <2>3
<1>7. Ahead(h, nx, x, r, 0, l)
  <2> SUFFICES ASSUME NEW i \in 1..n, 0 < i PROVE Rises(h, nx, x, r, 0, l, i)
    BY DEF Ahead, n
  <2>1. Rises(h, nx, x, q, k, lo, k + i)
    BY <1>4, <1>6 DEF Ahead
  <2>2. Brings(h, nx, r[i])
    BY <1>6, <2>1 DEF Rises
  <2>3. CASE r[i].h <= Level(r, l, i - 1)
    BY <2>2, <2>3 DEF Rises
  <2>4. CASE ~(r[i].h <= Level(r, l, i - 1))
    <3>1. /\ r[i].type = "block" /\ r[i].h = Level(r, l, i - 1) + 1
          /\ \A t \in x : t.tx # r[i].id
          /\ \A j \in 1..Len(q) : k < j /\ j < k + i => \A a \in 1..Len(q[j].txs) : q[j].txs[a] # r[i].id
      <4> DEFINE p == k + i
      <4>a. q[k + i] = r[i]
        BY <1>6
      <4>b. Level(r, l, i - 1) = Level(q, lo, (k + i) - 1)
        BY <1>6
      <4>1. q[p] = r[i] /\ Level(r, l, i - 1) = Level(q, lo, p - 1) /\ Rises(h, nx, x, q, k, lo, p)
        BY <2>1, <4>a, <4>b
      <4> HIDE DEF p
      <4>2. /\ q[p].type = "block" /\ q[p].h = Level(q, lo, p - 1) + 1
            /\ \A t \in x : t.tx # q[p].id
            /\ \A j \in 1..Len(q) : k < j /\ j < p => \A a \in 1..Len(q[j].txs) : q[j].txs[a] # q[p].id
        BY <2>4, <4>1 DEF Rises
      <4>3. /\ r[i].type = "block" /\ r[i].h = Level(r, l, i - 1) + 1
            /\ \A t \in x : t.tx # r[i].id
            /\ \A j \in 1..Len(q) : k < j /\ j < p => \A a \in 1..Len(q[j].txs) : q[j].txs[a] # r[i].id
        BY <4>1, <4>2
      <4> QED BY <4>3 DEF p
    <3>2. \A j \in 1..n : 0 < j /\ j < i => \A a \in 1..Len(r[j].txs) : r[j].txs[a] # r[i].id
      <4> SUFFICES ASSUME NEW j \in 1..n, 0 < j, j < i
                   PROVE  \A a \in 1..Len(r[j].txs) : r[j].txs[a] # r[i].id
        OBVIOUS
      <4>1. k + j \in 1..Len(q) /\ k < k + j /\ k + j < k + i /\ q[k + j] = r[j]
        BY <1>6
      <4>2. \A a \in 1..Len(q[k + j].txs) : q[k + j].txs[a] # r[i].id
        BY <3>1, <4>1
      <4> QED BY <4>1, <4>2
    <3> QED BY <2>2, <3>1, <3>2 DEF Rises, n
  <2> QED BY <2>3, <2>4
<1>8. ASSUME o = 0 PROVE OnceAhead(x, r, 0)
  <2>1. OnceAhead(x, q, k)
    BY <1>4, <1>8
  <2> SUFFICES ASSUME NEW i \in 1..n, 0 < i PROVE Unstored(x, r, 0, i)
    BY <2>1 DEF OnceAhead, n
  <2>2. Unstored(x, q, k, k + i)
    BY <1>6, <2>1 DEF OnceAhead
  <2>3. q[k + i] = r[i]
    BY <1>6
  <2>4. Rising(r[i].txs) /\ \A t \in x : \A a \in 1..Len(r[i].txs) : t.tx # r[i].txs[a]
    BY <2>2, <2>3 DEF Unstored
  <2>5. \A j \in 1..n : 0 < j /\ j < i => Precedes(r[j].txs, r[i].txs)
    <3> SUFFICES ASSUME NEW j \in 1..n, 0 < j, j < i PROVE Precedes(r[j].txs, r[i].txs)
      OBVIOUS
    <3>1. k + j \in 1..Len(q) /\ k < k + j /\ k + j < k + i /\ q[k + j] = r[j]
      BY <1>6
    <3>2. Precedes(q[k + j].txs, q[k + i].txs)
      BY <2>2, <3>1 DEF Unstored
    <3> QED BY <2>3, <3>1, <3>2
  <2> QED BY <2>4, <2>5 DEF Unstored, n
<1>9. Sound(h, nx, b, x, r, 0, l, o)
  BY <1>4, <1>5, <1>7, <1>8 DEF Sound
<1> QED BY <1>9 DEF l, q, k

----------------------------------------------------------------------------
(* One message more is sent.                                               *)

NewHere(x, q, id) ==
  /\ \A t \in x : t.tx # id
  /\ \A j \in 1..Len(q) : \A a \in 1..Len(q[j].txs) : q[j].txs[a] # id

Later(x, q, m) ==
  /\ Rising(m.txs) /\ \A t \in x : \A a \in 1..Len(m.txs) : t.tx # m.txs[a]
  /\ \A j \in 1..Len(q) : Precedes(q[j].txs, m.txs)

\* A message of a node whose last block is at height top.
Sendable(h, nx, x, q, m, top) ==
  /\ Brings(h, nx, m)
  /\ m.h <= top \/ (m.type = "block" /\ m.h = top + 1 /\ NewHere(x, q, m.id))

LEMMA LevelSent ==
  ASSUME NEW q \in Seq(Msg), NEW m \in Msg, NEW lo
  PROVE  /\ Append(q, m) \in Seq(Msg) /\ Len(q) \in Nat /\ Len(Append(q, m)) = Len(q) + 1
         /\ \A i \in 1..Len(q) : Append(q, m)[i] = q[i]
         /\ Append(q, m)[Len(q) + 1] = m
         /\ \A i \in 0..Len(q) : Level(Append(q, m), lo, i) = Level(q, lo, i)
         /\ Level(Append(q, m), lo, Len(q) + 1) = m.h
<1> DEFINE n == Len(q)
           g == Append(q, m)
<1>1. g \in Seq(Msg) /\ n \in Nat /\ Len(g) = n + 1
  BY Appended
<1>2. \A i \in 1..n : g[i] = q[i]
  BY Appended
<1>3. g[n + 1] = m
  BY Appended
<1> HIDE DEF n, g
<1>4. \A i \in 0..n : Level(g, lo, i) = Level(q, lo, i)
  <2>1. \A i \in 0..n : i = 0 \/ i \in 1..n
    BY <1>1
  <2> QED BY <1>2, <2>1 DEF Level
<1>5. Level(g, lo, n + 1) = m.h
  <2>1. n + 1 # 0
    BY <1>1
  <2> QED BY <1>3, <2>1 DEF Level
<1> QED BY <1>1, <1>2, <1>3, <1>4, <1>5 DEF n, g

LEMMA AheadSent ==
  ASSUME NEW h, NEW nx, NEW x, NEW q \in Seq(Msg), NEW lo \in Nat, Ahead(h, nx, x, q, 0, lo),
         NEW m, NEW top \in Nat, top <= Level(q, lo, Len(q)), Sendable(h, nx, x, q, m, top)
  PROVE  Ahead(h, nx, x, Append(q, m), 0, lo)
<1> DEFINE n == Len(q)
           g == Append(q, m)
<1>0. m \in Msg /\ Brings(h, nx, m) /\ m.h \in Nat
  BY DEF Sendable, Brings, Msg
<1>1. g \in Seq(Msg) /\ n \in Nat /\ Len(g) = n + 1
  BY <1>0, LevelSent
<1>2. \A i \in 1..n : g[i] = q[i]
  BY <1>0, LevelSent
<1>3. g[n + 1] = m
  BY <1>0, LevelSent
<1>4. \A i \in 0..n : Level(g, lo, i) = Level(q, lo, i)
  <2>1. \A i \in 0..n : i = 0 \/ i \in 1..n
    <3> HIDE DEF n
    <3> QED BY <1>1
  <2> QED BY <1>2, <2>1 DEF Level
<1>5. Level(q, lo, n) \in Nat
  <2>1. n \in 0..n
    BY <1>1
  <2> QED BY <2>1, LevelFacts
<1>6. top <= Level(q, lo, n)
  OBVIOUS
<1> HIDE DEF n, g
<1> SUFFICES ASSUME NEW i \in 1..(n + 1), 0 < i PROVE Rises(h, nx, x, g, 0, lo, i)
  BY <1>1 DEF Ahead, g
<1>7. CASE i # n + 1
  <2>1. i \in 1..n /\ i - 1 \in 0..n
    BY <1>1, <1>7
  <2>2. Rises(h, nx, x, q, 0, lo, i)
    BY <2>1 DEF Ahead, n
  <2>3. g[i] = q[i] /\ Level(g, lo, i - 1) = Level(q, lo, i - 1)
    BY <1>2, <1>4, <2>1
  <2>4. Brings(h, nx, g[i])
    BY <2>2, <2>3 DEF Rises
  <2>5. CASE g[i].h <= Level(g, lo, i - 1)
    BY <2>4, <2>5 DEF Rises
  <2>6. CASE ~(g[i].h <= Level(g, lo, i - 1))
    <3>1. /\ q[i].type = "block" /\ q[i].h = Level(q, lo, i - 1) + 1
          /\ \A t \in x : t.tx # q[i].id
          /\ \A j \in 1..n : 0 < j /\ j < i => \A a \in 1..Len(q[j].txs) : q[j].txs[a] # q[i].id
      BY <2>2, <2>3, <2>6 DEF Rises, n
    <3>2. \A j \in 1..(n + 1) : 0 < j /\ j < i => \A a \in 1..Len(g[j].txs) : g[j].txs[a] # q[i].id
      <4> SUFFICES ASSUME NEW j \in 1..(n + 1), 0 < j, j < i
                   PROVE  \A a \in 1..Len(g[j].txs) : g[j].txs[a] # q[i].id
        OBVIOUS
      <4>1. j \in 1..n
        BY <1>1, <2>1
      <4>2. g[j] = q[j]
        BY <1>2, <4>1
      <4>3. \A a \in 1..Len(q[j].txs) : q[j].txs[a] # q[i].id
        BY <3>1, <4>1
      <4> QED BY <4>2, <4>3
    <3> QED BY <1>1, <2>3, <2>4, <3>1, <3>2 DEF Rises
  <2> QED BY <2>5, <2>6
<1>8. CASE i = n + 1
  <2> DEFINE l == Level(g, lo, i - 1)
  <2>1. i - 1 = n /\ n \in 0..n
    BY <1>1, <1>8
  <2>2. l = Level(q, lo, n)
    BY <1>4, <2>1
  <2>3. g[i] = m
    BY <1>3, <1>8
  <2>4. top <= l /\ l \in Nat
    BY <1>5, <1>6, <2>2
  <2> HIDE DEF l
  <2>5. CASE m.h <= l
    BY <1>0, <2>3, <2>5 DEF Rises, l
  <2>6. CASE ~(m.h <= l)
    <3>1. ~(m.h <= top)
      BY <1>0, <2>4, <2>6, NotAbove
    <3>2. m.type = "block" /\ m.h = top + 1 /\ NewHere(x, q, m.id)
      BY <3>1 DEF Sendable
    <3>3. m.h = l + 1
      BY <1>0, <2>4, <2>6, <3>2
    <3>4. \A j \in 1..(n + 1) : 0 < j /\ j < i => \A a \in 1..Len(g[j].txs) : g[j].txs[a] # m.id
      <4> SUFFICES ASSUME NEW j \in 1..(n + 1), 0 < j, j < i
                   PROVE  \A a \in 1..Len(g[j].txs) : g[j].txs[a] # m.id
        OBVIOUS
      <4>1. j \in 1..n
        BY <1>1, <1>8
      <4>2. g[j] = q[j]
        BY <1>2, <4>1
      <4>3. \A a \in 1..Len(q[j].txs) : q[j].txs[a] # m.id
        BY <3>2, <4>1 DEF NewHere, n
      <4> QED BY <4>2, <4>3
    <3> QED BY <1>0, <1>1, <2>3, <3>2, <3>3, <3>4 DEF Rises, NewHere, l
  <2> QED BY <2>5, <2>6
<1> QED BY <1>7, <1>8

LEMMA OnceSent ==
  ASSUME NEW x, NEW q \in Seq(Msg), OnceAhead(x, q, 0), NEW m \in Msg, Later(x, q, m)
  PROVE  OnceAhead(x, Append(q, m), 0)
<1> DEFINE n == Len(q)
           g == Append(q, m)
<1>1. g \in Seq(Msg) /\ n \in Nat /\ Len(g) = n + 1
  BY LevelSent
<1>2. \A i \in 1..n : g[i] = q[i]
  BY LevelSent
<1>3. g[n + 1] = m
  BY LevelSent
<1>4. Once(x) /\ \A i \in 1..n : 0 < i => Unstored(x, q, 0, i)
  BY DEF OnceAhead
<1>5. \A j \in 1..n : Precedes(q[j].txs, m.txs)
  BY DEF Later
<1> HIDE DEF n, g
<1>6. ASSUME NEW i \in 1..(n + 1), NEW j \in 1..(n + 1), 0 < j, j < i
      PROVE  j \in 1..n /\ g[j] = q[j]
  <2>1. j \in 1..n
    BY <1>1, <1>6
  <2> QED BY <1>2, <2>1
<1> SUFFICES ASSUME NEW i \in 1..(n + 1), 0 < i PROVE Unstored(x, g, 0, i)
  BY <1>1, <1>4 DEF OnceAhead, g
<1>7. CASE i # n + 1
  <2>1. i \in 1..n
    BY <1>1, <1>7
  <2>2. Unstored(x, q, 0, i) /\ g[i] = q[i]
    BY <1>2, <1>4, <2>1
  <2>3. \A j \in 1..(n + 1) : 0 < j /\ j < i => Precedes(g[j].txs, g[i].txs)
    <3> SUFFICES ASSUME NEW j \in 1..(n + 1), 0 < j, j < i PROVE Precedes(g[j].txs, g[i].txs)
      OBVIOUS
    <3>1. j \in 1..n /\ g[j] = q[j]
      BY <1>6
    <3> QED BY <2>2, <3>1 DEF Unstored, n
  <2> QED BY <1>1, <2>2, <2>3 DEF Unstored
<1>8. CASE i = n + 1
  <2>1. g[i] = m
    BY <1>3, <1>8
  <2>2. \A j \in 1..(n + 1) : 0 < j /\ j < i => Precedes(g[j].txs, g[i].txs)
    <3> SUFFICES ASSUME NEW j \in 1..(n + 1), 0 < j, j < i PROVE Precedes(g[j].txs, g[i].txs)
      OBVIOUS
    <3>1. j \in 1..n /\ g[j] = q[j]
      BY <1>6
    <3> QED BY <1>5, <2>1, <3>1
  <2> QED BY <1>1, <2>1, <2>2 DEF Unstored, Later
<1> QED BY <1>7, <1>8

LEMMA TallNoted ==
  ASSUME NEW h \in [Nat -> Nat], NEW nx \in Nat, NEW v \in Nat, NEW b, NEW x, NEW k, Tall(h, b, x, nx, k)
  PROVE  Tall(Noted(h, nx, v), b, x, nx + 1, k)
<1> DEFINE g == Noted(h, nx, v)
<1>1. x \in SUBSET TxRow /\ Low(h, b, x, nx)
  BY DEF Tall
<1>2. \A i \in Nat : i < nx => g[i] = h[i]
  BY NotedBelow, Zenon
<1> HIDE DEF g
<1>3. Low(g, b, x, nx + 1)
  <2> SUFFICES ASSUME NEW t \in x PROVE t.at \in 1..Len(b) /\ t.tx < nx + 1 /\ g[t.tx] <= b[t.at].h
    BY DEF Low
  <2>1. t.at \in 1..Len(b) /\ t.tx < nx /\ h[t.tx] <= b[t.at].h
    BY <1>1 DEF Low
  <2>2. t.tx \in Nat
    BY <1>1 DEF TxRow
  <2>3. g[t.tx] = h[t.tx]
    BY <1>2, <2>1, <2>2
  <2>4. t.tx < nx + 1
    BY <2>1, <2>2
  <2> QED BY <2>1, <2>3, <2>4
<1> QED BY <1>3 DEF Tall, g

LEMMA BringsNoted ==
  ASSUME NEW h \in [Nat -> Nat], NEW nx \in Nat, NEW v \in Nat, NEW m, Brings(h, nx, m)
  PROVE  Brings(Noted(h, nx, v), nx + 1, m)
<1>1. m.id \in Nat /\ m.txs \in Seq(Nat) /\ Born(h, nx, m)
  BY DEF Brings, Msg
<1>2. Born(Noted(h, nx, v), nx + 1, m)
  BY <1>1, BornNoted
<1> QED BY <1>2 DEF Brings

LEMMA SoundNoted ==
  ASSUME NEW h \in [Nat -> Nat], NEW nx \in Nat, NEW v \in Nat, NEW b, NEW x, NEW q, NEW n, NEW lo, NEW o,
         Sound(h, nx, b, x, q, n, lo, o)
  PROVE  Sound(Noted(h, nx, v), nx + 1, b, x, q, n, lo, o)
<1> DEFINE g == Noted(h, nx, v)
           l == Level(q, lo, n)
<1>1. Stands(h, nx, b, x, l) /\ Ahead(h, nx, x, q, n, lo)
  BY DEF Sound
<1>2. Stands(g, nx + 1, b, x, l)
  <2>1. PICK k : Tall(h, b, x, nx, k) /\ Reached(b, k, l) /\ l \in Nat
    BY <1>1 DEF Stands
  <2>2. Tall(g, b, x, nx + 1, k)
    BY <2>1, TallNoted
  <2> HIDE DEF l, g
  <2> QED BY <2>1, <2>2 DEF Stands
<1>3. Ahead(g, nx + 1, x, q, n, lo)
  <2> SUFFICES ASSUME NEW i \in 1..Len(q), n < i PROVE Rises(g, nx + 1, x, q, n, lo, i)
    BY DEF Ahead
  <2>1. Rises(h, nx, x, q, n, lo, i)
    BY <1>1 DEF Ahead
  <2>2. Brings(h, nx, q[i])
    BY <2>1 DEF Rises
  <2>3. Brings(g, nx + 1, q[i])
    BY <2>2, BringsNoted
  <2> HIDE DEF g
  <2> QED BY <2>1, <2>3 DEF Rises
<1> QED BY <1>2, <1>3 DEF Sound

\* What the node makes next is new to the tables and to the messages.
LEMMA MinedNew ==
  ASSUME NEW h, NEW nx \in Nat, NEW b, NEW x, NEW q \in Seq(Msg), NEW lo, NEW o,
         Sound(h, nx, b, x, q, 0, lo, o), NEW m, m.txs = <<nx>>
  PROVE  NewHere(x, q, nx) /\ Later(x, q, m)
<1>1. PICK k : Tall(h, b, x, nx, k)
  BY DEF Sound, Stands
<1>2. \A t \in x : t.tx < nx /\ t.tx \in Nat
  BY <1>1 DEF Tall, Low, TxRow
<1>3. ASSUME NEW j \in 1..Len(q), NEW a \in 1..Len(q[j].txs)
      PROVE  q[j].txs[a] < nx /\ q[j].txs[a] \in Nat
  <2>1. 0 < j
    OBVIOUS
  <2>2. Rises(h, nx, x, q, 0, lo, j)
    BY <2>1 DEF Sound, Ahead
  <2>3. Born(h, nx, q[j])
    BY <2>2 DEF Rises, Brings
  <2>4. q[j].txs \in Seq(Nat)
    BY ListedMsg
  <2>5. q[j].txs[a] \in Nat
    BY <2>4, ListedNat
  <2> QED BY <2>3, <2>5 DEF Born
<1>4. Len(m.txs) = 1 /\ m.txs[1] = nx
  OBVIOUS
<1>5. NewHere(x, q, nx)
  <2>1. \A t \in x : t.tx # nx
    BY <1>2
  <2>2. \A j \in 1..Len(q) : \A a \in 1..Len(q[j].txs) : q[j].txs[a] # nx
    <3> SUFFICES ASSUME NEW j \in 1..Len(q), NEW a \in 1..Len(q[j].txs) PROVE q[j].txs[a] # nx
      OBVIOUS
    <3>1. q[j].txs[a] < nx /\ q[j].txs[a] \in Nat
      BY <1>3
    <3> QED BY <3>1
  <2> QED BY <2>1, <2>2 DEF NewHere
<1>6. \A a \in 1..Len(m.txs) : m.txs[a] = nx /\ a = 1
  BY <1>4
<1>7. Rising(m.txs)
  BY <1>6 DEF Rising
<1>8. \A t \in x : \A a \in 1..Len(m.txs) : t.tx # m.txs[a]
  BY <1>2, <1>6
<1>9. \A j \in 1..Len(q) : Precedes(q[j].txs, m.txs)
  <2> SUFFICES ASSUME NEW j \in 1..Len(q), NEW c \in 1..Len(q[j].txs), NEW a \in 1..Len(m.txs)
               PROVE  q[j].txs[c] < m.txs[a]
    BY DEF Precedes
  <2>1. m.txs[a] = nx
    BY <1>6
  <2>2. q[j].txs[c] < nx
    BY <1>3
  <2> QED BY <2>1, <2>2
<1> QED BY <1>5, <1>7, <1>8, <1>9 DEF Later

LEMMA SoundSent ==
  ASSUME NEW h, NEW nx, NEW b, NEW x, NEW q \in Seq(Msg), NEW lo \in Nat, NEW o, Sound(h, nx, b, x, q, 0, lo, o),
         NEW m, NEW top \in Nat, top <= Level(q, lo, Len(q)), Sendable(h, nx, x, q, m, top),
         NEW p, p = 0 => o = 0 /\ Later(x, q, m)
  PROVE  Sound(h, nx, b, x, Append(q, m), 0, lo, p)
<1>1. m \in Msg
  BY DEF Sendable, Brings
<1>2. Ahead(h, nx, x, q, 0, lo) /\ Stands(h, nx, b, x, Level(q, lo, 0)) /\ (o = 0 => OnceAhead(x, q, 0))
  BY DEF Sound
<1>3. Ahead(h, nx, x, Append(q, m), 0, lo)
  BY <1>2, AheadSent
<1>4. p = 0 => OnceAhead(x, Append(q, m), 0)
  BY <1>1, <1>2, OnceSent
<1>5. Level(Append(q, m), lo, 0) = Level(q, lo, 0)
  BY DEF Level
<1> QED BY <1>2, <1>3, <1>4, <1>5 DEF Sound

LEMMA SoundMined ==
  ASSUME NEW h \in [Nat -> Nat], NEW nx \in Nat, NEW b, NEW x, NEW q \in Seq(Msg), NEW lo \in Nat, NEW o,
         Sound(h, nx, b, x, q, 0, lo, o),
         NEW m \in Msg, m.type # "rollback", m.id = nx, m.txs = <<nx>>, m.h >= StartHeight,
         NEW top \in Nat, top <= Level(q, lo, Len(q)), m.h <= top \/ (m.type = "block" /\ m.h = top + 1)
  PROVE  Sound(Noted(h, nx, m.h), nx + 1, b, x, Append(q, m), 0, lo, o)
<1> DEFINE g == Noted(h, nx, m.h)
<1>1. m.h \in Nat
  BY DEF Msg
<1>2. NewHere(x, q, m.id) /\ Later(x, q, m)
  BY MinedNew
<1>3. Brings(g, nx + 1, m)
  BY <1>1, BornNew DEF Brings
<1>4. Sound(g, nx + 1, b, x, q, 0, lo, o)
  BY <1>1, SoundNoted
<1> HIDE DEF g
<1>5. Sendable(g, nx + 1, x, q, m, top)
  BY <1>2, <1>3 DEF Sendable
<1>6. Sound(g, nx + 1, b, x, Append(q, m), 0, lo, o)
  BY <1>2, <1>4, <1>5, SoundSent
<1> QED BY <1>6 DEF g

----------------------------------------------------------------------------
(* What the node sends to a new subscription.                              *)

\* c has k key blocks, at the heights from StartHeight on.
Heights(c, k) ==
  /\ k \in 1..Len(c) /\ Len(c) \in Nat
  /\ \A i \in 1..Len(c) : /\ c[i] \in Unit /\ (c[i].key <=> i <= k)
                          /\ c[i].h = StartHeight - 1 + (IF i <= k THEN i ELSE k)
  /\ Height(c) = StartHeight - 1 + k /\ c # << >>

LEMMA NodeHeights ==
  ASSUME NEW c \in Seq(Unit), NEW lq, NEW nx, NEW k, NodeRows(Ids(c), lq, nx, k)
  PROVE  Heights(c, k)
<1> DEFINE b == Ids(c)
<1>1. /\ Len(b) = Len(c) /\ Len(c) \in Nat
      /\ \A i \in 1..Len(c) : c[i] \in Unit /\ b[i].h = c[i].h /\ b[i].key = c[i].key
      /\ (c = << >>) <=> (b = << >>)
  BY NodeIds
<1>2. ShapeAt(b, k) /\ k \in 1..Len(b) /\ Height(b) = StartHeight - 1 + k /\ b # << >>
  BY NodeRowsFacts
<1>3. Height(b) = Height(c)
  BY <1>1, <1>2, HeightOfRows
<1> HIDE DEF b
<1>4. \A i \in 1..Len(c) : (b[i].key <=> i <= k) /\ b[i].h = StartHeight - 1 + (IF i <= k THEN i ELSE k)
  BY <1>1, <1>2 DEF ShapeAt
<1>5. \A i \in 1..Len(c) : (c[i].key <=> i <= k) /\ c[i].h = StartHeight - 1 + (IF i <= k THEN i ELSE k)
  BY <1>1, <1>4
<1> QED BY <1>1, <1>2, <1>3, <1>5 DEF Heights

LEMMA HistoryAbove ==
  ASSUME NEW c, NEW k, Heights(c, k), NEW v \in Nat, v > Height(c)
  PROVE  History(c, v) = << >>
<1> DEFINE first == SelectInSeq(c, LAMBDA u : u.h >= v)
           I == {i \in 1..Len(c) : c[i].h >= v}
<1>1. first = IF I # {} THEN Min(I) ELSE 0
  BY DEF SelectInSeq
<1>2. k \in 1..Len(c) /\ Len(c) \in Nat /\ Height(c) = StartHeight - 1 + k /\ StartHeight \in Nat
  BY ConsumerAssumption DEF Heights
<1>3. \A i \in 1..Len(c) : ~(c[i].h >= v)
  <2> SUFFICES ASSUME NEW i \in 1..Len(c) PROVE ~(c[i].h >= v)
    OBVIOUS
  <2>1. c[i].h = StartHeight - 1 + (IF i <= k THEN i ELSE k)
    BY DEF Heights
  <2> QED BY <1>2, <2>1
<1>4. I = {}
  BY <1>3
<1>5. first = 0
  BY <1>1, <1>4
<1> HIDE DEF first
<1>6. History(c, v) = IF first = 0 THEN << >>
                      ELSE [i \in 1..(Len(c) - first + 1) |-> AppendMsg(c[first + i - 1])]
  BY DEF History, first
<1> QED BY <1>5, <1>6

\* The messages q are the blocks of c from the one after position p on.
Suffix(q, c, p) ==
  /\ q \in Seq(Msg) /\ Len(q) = Len(c) - p
  /\ \A i \in 1..Len(q) : /\ p + i \in 1..Len(c) /\ q[i].id = c[p + i].id /\ q[i].h = c[p + i].h
                          /\ q[i].txs = c[p + i].txs /\ q[i].type # "rollback"
                          /\ q[i].type = "block" <=> c[p + i].key

LEMMA HistorySuffix ==
  ASSUME NEW c \in Seq(Unit), NEW lq, NEW nx, NEW k, NodeRows(Ids(c), lq, nx, k),
         NEW p \in 0..(k - 1)
  PROVE  Suffix(History(c, StartHeight + p), c, p)
<1> DEFINE q == History(c, StartHeight + p)
<1>1. Heights(c, k)
  BY NodeHeights
<1>2. k \in 1..Len(c) /\ Len(c) \in Nat /\ \A i \in 1..Len(c) : c[i] \in Unit
  BY <1>1 DEF Heights
<1>3. p \in 0..k /\ p < k /\ p \in Nat
  BY <1>2
<1>4. q \in Seq(Msg)
  BY <1>3, HistoryFacts
<1>5. Len(q) = Len(c) - p
  BY <1>3, HistoryFacts
<1>6. \A i \in 1..(Len(c) - p) : q[i] = AppendMsg(c[p + i])
  BY <1>3, HistoryFacts
<1> HIDE DEF q
<1>7. ASSUME NEW i \in 1..Len(q)
      PROVE  /\ p + i \in 1..Len(c) /\ q[i].id = c[p + i].id /\ q[i].h = c[p + i].h
             /\ q[i].txs = c[p + i].txs /\ q[i].type # "rollback"
             /\ q[i].type = "block" <=> c[p + i].key
  <2>1. p + i \in 1..Len(c) /\ i \in 1..(Len(c) - p)
    BY <1>2, <1>3, <1>5
  <2> DEFINE u == c[p + i]
  <2>2. q[i] = AppendMsg(u) /\ u \in Unit
    BY <1>2, <1>6, <2>1
  <2> HIDE DEF u
  <2>3. /\ q[i].id = u.id /\ q[i].h = u.h /\ q[i].txs = u.txs
        /\ q[i].type = IF u.key THEN "block" ELSE "microblock"
    BY <2>2, MsgOfUnit
  <2>4. q[i].type # "rollback" /\ (q[i].type = "block" <=> u.key)
    BY <2>3
  <2> QED BY <2>1, <2>3, <2>4 DEF u
<1>8. Suffix(q, c, p)
  BY <1>4, <1>5, <1>7 DEF Suffix
<1> QED BY <1>8 DEF q

LEMMA SuffixLevel ==
  ASSUME NEW c, NEW k, Heights(c, k), NEW p \in 0..(k - 1), NEW q, Suffix(q, c, p)
  PROVE  /\ \A i \in 1..Len(q) :
              /\ q[i].h >= StartHeight + p
              /\ \/ q[i].h <= Level(q, StartHeight + p - 1, i - 1)
                 \/ q[i].type = "block" /\ q[i].h = Level(q, StartHeight + p - 1, i - 1) + 1
         /\ Level(q, StartHeight + p - 1, Len(q)) = Height(c)
<1> DEFINE lo == StartHeight + p - 1
           F(i) == StartHeight - 1 + (IF i <= k THEN i ELSE k)
           n == Len(c)
           z == Len(q)
<1>1. k \in 1..n /\ n \in Nat /\ StartHeight \in Nat \ {0} /\ p \in Nat /\ p < k /\ Height(c) = StartHeight - 1 + k
  BY ConsumerAssumption DEF Heights
<1>2. \A i \in 1..n : (c[i].key <=> i <= k) /\ c[i].h = F(i)
  BY DEF Heights
<1>3. z = n - p
  BY DEF Suffix
<1>4. \A i \in 1..z : p + i \in 1..n /\ q[i].h = c[p + i].h /\ (q[i].type = "block" <=> c[p + i].key)
  BY DEF Suffix
<1> HIDE DEF n, z
<1>5. \A i \in 1..z : q[i].h = F(p + i) /\ (q[i].type = "block" <=> p + i <= k)
  BY <1>2, <1>4
<1>6. z \in Nat \ {0}
  BY <1>1, <1>3
<1>7. \A i \in 0..z : Level(q, lo, i) = F(p + i)
  <2> SUFFICES ASSUME NEW i \in 0..z PROVE Level(q, lo, i) = F(p + i)
    OBVIOUS
  <2>1. CASE i = 0
    <3>1. lo = F(p + i)
      BY <1>1, <2>1
    <3> QED BY <2>1, <3>1 DEF Level
  <2>2. CASE i # 0
    <3>1. i \in 1..z
      BY <1>6, <2>2
    <3> QED BY <1>5, <2>2, <3>1 DEF Level
  <2> QED BY <2>1, <2>2
<1>8. ASSUME NEW i \in 1..z
      PROVE  /\ q[i].h >= StartHeight + p
             /\ \/ q[i].h <= Level(q, lo, i - 1)
                \/ q[i].type = "block" /\ q[i].h = Level(q, lo, i - 1) + 1
  <2>1. i - 1 \in 0..z
    BY <1>6
  <2>2. Level(q, lo, i - 1) = F(p + (i - 1))
    BY <1>7, <2>1
  <2>3. q[i].h = F(p + i) /\ (q[i].type = "block" <=> p + i <= k)
    BY <1>5
  <2>4. F(p + i) >= StartHeight + p
    BY <1>1
  <2>5. IF p + i <= k THEN F(p + i) = F(p + (i - 1)) + 1 ELSE F(p + i) <= F(p + (i - 1))
    BY <1>1
  <2> HIDE DEF F
  <2> QED BY <2>2, <2>3, <2>4, <2>5
<1>9. Level(q, lo, z) = Height(c)
  <2>1. z \in 0..z /\ p + z = n
    BY <1>1, <1>3, <1>6
  <2>2. Level(q, lo, z) = F(n)
    BY <1>7, <2>1
  <2>3. F(n) = StartHeight - 1 + k
    BY <1>1
  <2> QED BY <1>1, <2>2, <2>3
<1> QED BY <1>8, <1>9 DEF z

\* A subscription that starts above all stored transactions.
LEMMA SuffixSound ==
  ASSUME NEW h \in [Nat -> Nat], NEW nx \in Nat, NEW c \in Seq(Unit), NEW k, Heights(c, k), Grown(h, nx, c),
         NEW p \in 0..(k - 1), NEW q, Suffix(q, c, p), NEW b, NEW x, Stands(h, nx, b, x, StartHeight + p - 1),
         \A t \in x : h[t.tx] < StartHeight + p, NEW o, o = 0 => Once(x)
  PROVE  Sound(h, nx, b, x, q, 0, StartHeight + p - 1, o)
<1> DEFINE lo == StartHeight + p - 1
           v == StartHeight + p
           z == Len(q)
<1>1. z \in Nat /\ p \in Nat /\ v \in Nat
  <2>1. k \in 1..Len(c) /\ Len(c) \in Nat /\ StartHeight \in Nat
    BY ConsumerAssumption DEF Heights
  <2>2. q \in Seq(Msg)
    BY DEF Suffix
  <2> QED BY <2>1, <2>2
<1>2. \A i \in 1..z : /\ p + i \in 1..Len(c) /\ q[i].id = c[p + i].id /\ q[i].h = c[p + i].h
                       /\ q[i].txs = c[p + i].txs /\ q[i].type # "rollback" /\ q[i] \in Msg
  <2>1. q \in Seq(Msg)
    BY DEF Suffix
  <2>2. \A i \in 1..z : q[i] \in Msg
    BY <2>1, ListedMsg
  <2> QED BY <2>2 DEF Suffix
<1>3. \A i \in 1..z : /\ q[i].h >= v
                       /\ \/ q[i].h <= Level(q, lo, i - 1)
                          \/ q[i].type = "block" /\ q[i].h = Level(q, lo, i - 1) + 1
  BY SuffixLevel
<1>4. ASSUME NEW i \in 1..z
      PROVE  /\ Born(h, nx, q[i]) /\ Own(q[i]) /\ Rising(q[i].txs) /\ q[i].txs \in Seq(Nat)
             /\ Brings(h, nx, q[i])
  <2> DEFINE u == c[p + i]
  <2>1. Born(h, nx, u) /\ Own(u) /\ Rising(u.txs)
    BY <1>2 DEF Grown
  <2>2. q[i].id = u.id /\ q[i].h = u.h /\ q[i].txs = u.txs /\ q[i] \in Msg
    BY <1>2
  <2> HIDE DEF u
  <2>3. Born(h, nx, q[i]) /\ Own(q[i]) /\ Rising(q[i].txs)
    BY <2>1, <2>2 DEF Born, Own
  <2>4. q[i].txs \in Seq(Nat)
    BY <2>2 DEF Msg
  <2> QED BY <2>2, <2>3, <2>4 DEF Brings
<1>5. ASSUME NEW i \in 1..z, NEW j \in 1..z, j < i
      PROVE  Precedes(q[j].txs, q[i].txs)
  <2>1. p + j < p + i
    BY <1>1, <1>5
  <2>2. p + j \in 1..Len(c) /\ p + i \in 1..Len(c) /\ q[i].txs = c[p + i].txs /\ q[j].txs = c[p + j].txs
    BY <1>2
  <2> DEFINE y == p + j
             w == p + i
  <2>3. y < w /\ y \in 1..Len(c) /\ w \in 1..Len(c) /\ q[i].txs = c[w].txs /\ q[j].txs = c[y].txs
    BY <2>1, <2>2
  <2> HIDE DEF y, w
  <2>4. Precedes(c[y].txs, c[w].txs)
    BY <2>3 DEF Grown
  <2> QED BY <2>3, <2>4
<1>6. ASSUME NEW i \in 1..z, NEW a \in 1..Len(q[i].txs), NEW t \in x
      PROVE  t.tx # q[i].txs[a]
  <2>1. h[q[i].txs[a]] = q[i].h
    BY <1>4 DEF Born
  <2>2. q[i].h >= v /\ q[i].h \in Nat
    BY <1>2, <1>3 DEF Msg
  <2>3. h[t.tx] < v
    OBVIOUS
  <2> HIDE DEF v
  <2> SUFFICES ASSUME t.tx = q[i].txs[a] PROVE FALSE
    OBVIOUS
  <2>4. h[t.tx] = q[i].h
    BY <2>1
  <2>5. q[i].h < v
    BY <2>3, <2>4, Zenon
  <2>6. v \in Nat
    BY <1>1
  <2>7. ~(q[i].h >= v)
    BY <2>2, <2>5, <2>6, LessNot, Zenon
  <2> QED BY <2>2, <2>7, Zenon
<1>7. ASSUME NEW i \in 1..z, NEW j \in 1..z, j < i, NEW a \in 1..Len(q[j].txs)
      PROVE  q[j].txs[a] # q[i].id
  <2>1. PICK d \in 1..Len(q[i].txs) : q[i].txs[d] = q[i].id
    BY <1>4 DEF Own
  <2>2. q[j].txs[a] < q[i].txs[d]
    BY <1>5, <1>7 DEF Precedes
  <2>3. q[j].txs \in Seq(Nat) /\ q[i].txs \in Seq(Nat)
    BY <1>4
  <2>4. q[j].txs[a] \in Nat
    BY <2>3, ListedNat
  <2>5. q[i].txs[d] \in Nat
    BY <2>3, ListedNat
  <2>6. q[j].txs[a] # q[i].txs[d]
    BY <2>2, <2>4, <2>5, LessNot, Zenon
  <2> QED BY <2>1, <2>6, Zenon
<1>8. ASSUME NEW i \in 1..z, NEW t \in x
      PROVE  t.tx # q[i].id
  <2>1. PICK d \in 1..Len(q[i].txs) : q[i].txs[d] = q[i].id
    BY <1>4 DEF Own
  <2> QED BY <1>6, <2>1
<1> HIDE DEF lo, v, z
<1>9. Ahead(h, nx, x, q, 0, lo)
  <2> SUFFICES ASSUME NEW i \in 1..z, 0 < i PROVE Rises(h, nx, x, q, 0, lo, i)
    BY DEF Ahead, z
  <2>1. Brings(h, nx, q[i])
    BY <1>4
  <2>2. \A t \in x : t.tx # q[i].id
    BY <1>8
  <2>3. \A j \in 1..z : 0 < j /\ j < i => \A a \in 1..Len(q[j].txs) : q[j].txs[a] # q[i].id
    BY <1>7
  <2> QED BY <1>3, <2>1, <2>2, <2>3 DEF Rises, z
<1>10. ASSUME o = 0 PROVE OnceAhead(x, q, 0)
  <2> SUFFICES ASSUME NEW i \in 1..z, 0 < i PROVE Unstored(x, q, 0, i)
    BY <1>10 DEF OnceAhead, z
  <2>1. \A t \in x : \A a \in 1..Len(q[i].txs) : t.tx # q[i].txs[a]
    BY <1>6
  <2>2. \A j \in 1..z : 0 < j /\ j < i => Precedes(q[j].txs, q[i].txs)
    BY <1>5
  <2> QED BY <1>4, <2>1, <2>2 DEF Unstored, z
<1>11. Level(q, lo, 0) = lo
  BY DEF Level
<1>12. Sound(h, nx, b, x, q, 0, lo, o)
  BY <1>9, <1>10, <1>11 DEF Sound, lo
<1> QED BY <1>12 DEF lo

\* The same for any height to subscribe from.
LEMMA HistorySound ==
  ASSUME NEW h \in [Nat -> Nat], NEW c \in Seq(Unit), NEW lq, NEW nx \in Nat, NEW k, NodeRows(Ids(c), lq, nx, k),
         Grown(h, nx, c), NEW v \in Nat, v >= StartHeight, NEW b, NEW x, Stands(h, nx, b, x, v - 1),
         \A t \in x : h[t.tx] < v, NEW o, o = 0 => Once(x)
  PROVE  /\ Sound(h, nx, b, x, History(c, v), 0, v - 1, o)
         /\ Height(c) <= Level(History(c, v), v - 1, Len(History(c, v)))
<1> DEFINE q == History(c, v)
           lo == v - 1
<1>1. Heights(c, k)
  BY NodeHeights
<1>2. k \in 1..Len(c) /\ Len(c) \in Nat /\ StartHeight \in Nat \ {0} /\ Height(c) = StartHeight - 1 + k
  BY <1>1, ConsumerAssumption DEF Heights
<1>3. CASE v > Height(c)
  <2>1. q = << >>
    BY <1>1, <1>3, HistoryAbove
  <2>2. Len(q) = 0
    BY <2>1
  <2>3. \A i \in 1..Len(q) : FALSE
    BY <2>2
  <2> HIDE DEF q
  <2>4. Level(q, lo, 0) = lo
    BY DEF Level
  <2>5. Height(c) <= lo
    BY <1>2, <1>3
  <2> HIDE DEF lo
  <2>6. Ahead(h, nx, x, q, 0, lo)
    BY <2>3 DEF Ahead
  <2>7. o = 0 => OnceAhead(x, q, 0)
    BY <2>3 DEF OnceAhead
  <2>8. Sound(h, nx, b, x, q, 0, lo, o)
    BY <2>4, <2>6, <2>7 DEF Sound, lo
  <2> QED BY <2>2, <2>4, <2>5, <2>8 DEF q, lo
<1>4. CASE ~(v > Height(c))
  <2> DEFINE p == v - StartHeight
  <2>1. p \in 0..(k - 1) /\ v = StartHeight + p /\ lo = StartHeight + p - 1
    BY <1>2, <1>4
  <2>2. q = History(c, StartHeight + p)
    BY <2>1
  <2> HIDE DEF p, q, lo
  <2>3. Suffix(q, c, p)
    BY <2>1, <2>2, HistorySuffix
  <2>4. Stands(h, nx, b, x, StartHeight + p - 1)
    BY <2>1 DEF lo
  <2>5. \A t \in x : h[t.tx] < StartHeight + p
    BY <2>1
  <2>6. Sound(h, nx, b, x, q, 0, StartHeight + p - 1, o)
    BY <1>1, <2>1, <2>3, <2>4, <2>5, SuffixSound
  <2>7. Level(q, StartHeight + p - 1, Len(q)) = Height(c)
    BY <1>1, <2>1, <2>3, SuffixLevel
  <2>8. Sound(h, nx, b, x, q, 0, lo, o) /\ Level(q, lo, Len(q)) = Height(c)
    BY <2>1, <2>6, <2>7
  <2>9. Height(c) <= Height(c)
    BY <1>2
  <2> QED BY <2>8, <2>9 DEF q, lo
<1> QED BY <1>3, <1>4

----------------------------------------------------------------------------
(* When what is in flight was made.                                        *)

\* The messages in flight rise from lo to the last block of the node.
Queued(h, lo) ==
  /\ lo \in Nat
  /\ Sound(h, nextId, blocks, txs, InFlight, 0, lo, resends)
  /\ Height(node) <= Level(InFlight, lo, Len(InFlight))

\* A process subscribes from above all transactions that it has stored.
Waiting(h) ==
  /\ from >= StartHeight /\ Stands(h, nextId, blocks, txs, from - 1)
  /\ \A t \in txs : h[t.tx] < from

Timed(h) ==
  /\ h \in [Nat -> Nat] /\ Grown(h, nextId, node)
  /\ \E k : Tall(h, blocks, txs, nextId, k)
  /\ resends = 0 => Once(txs)
  /\ pc = "connect" /\ ~resent => Waiting(h)
  /\ Subscribed /\ ~resent => \E lo : Queued(h, lo)

LEMMA TimedSame ==
  ASSUME NEW h, Timed(h), UNCHANGED <<node, nextId, blocks, txs, resends, resent>>,
         Subscribed' => Subscribed /\ InFlight' = InFlight,
         pc' = "connect" => pc = "connect" /\ from' = from
  PROVE  Timed(h)'
<1>1. h \in [Nat -> Nat] /\ Grown(h, nextId', node') /\ \E k : Tall(h, blocks', txs', nextId', k)
  BY DEF Timed
<1>2. resends' = 0 => Once(txs')
  BY DEF Timed
<1>3. pc' = "connect" /\ ~resent' => Waiting(h)'
  BY DEF Timed, Waiting
<1>4. ASSUME Subscribed', ~resent' PROVE \E lo : Queued(h, lo)'
  <2>1. PICK lo : Queued(h, lo)
    BY <1>4 DEF Timed
  <2>2. InFlight' = InFlight
    BY <1>4
  <2>3. Queued(h, lo)'
    BY <2>1, <2>2 DEF Queued
  <2> QED BY <2>3
<1> QED BY <1>1, <1>2, <1>3, <1>4 DEF Timed

\* The node makes message m.
Makes(m) ==
  /\ m \in Msg /\ m.type # "rollback" /\ m.id = nextId /\ m.txs = <<nextId>> /\ m.h >= StartHeight
  /\ m.h <= Height(node) \/ (m.type = "block" /\ m.h = Height(node) + 1)
  /\ node' = Applied(node, m) /\ Send(m) /\ nextId' = nextId + 1 /\ Height(node') = m.h

LEMMA HeightMoved ==
  ASSUME NEW d \in Seq(Unit), d # << >>, NEW m, Ends(Ids(d), m)
  PROVE  Height(d) = m.h
<1>1. Height(Ids(d)) = Height(d)
  BY HeightOfRows
<1> QED BY <1>1 DEF Ends

LEMMA MineBlockMakes ==
  ASSUME NodeOk, MineBlock
  PROVE  \E m : Makes(m)
<1> DEFINE m == [type |-> "block", id |-> nextId, h |-> Height(node) + 1, txs |-> <<nextId>>]
<1>1. node' = Applied(node, m) /\ Send(m) /\ nextId' = nextId + 1 /\ liquid' \in BOOLEAN
  BY DEF MineBlock
<1>2. Height(node) = Height(Rows) /\ Height(node) \in Nat /\ nextId \in Nat
  BY NodeFacts
<1>3. /\ m \in Msg /\ m.type = "block" /\ m.type # "rollback" /\ m.id = nextId /\ m.txs = <<nextId>>
      /\ m.h = Height(Rows) + 1
  BY <1>2 DEF Msg
<1> HIDE DEF m
<1>4. NodeRows(Rows, liquid, nextId, Top)
  BY DEF NodeOk
<1>5. node' \in Seq(Unit) /\ node' # << >> /\ Rows' = RowApplied(Rows, m)
  BY <1>1, <1>3, UnitsMoved
<1>6. Ends(RowApplied(Rows, m), m)
  BY <1>1, <1>3, <1>4, RowsMineBlock
<1>7. Ends(Ids(node'), m)
  BY <1>5, <1>6 DEF Rows
<1>8. Height(node') = m.h
  BY <1>5, <1>7, HeightMoved
<1>9. m.h >= StartHeight
  <2>1. Height(Rows) = StartHeight - 1 + Top /\ Top \in 1..Len(Rows) /\ StartHeight \in Nat \ {0} /\ Len(Rows) \in Nat
    BY <1>4, NodeRowsFacts
  <2> QED BY <1>3, <2>1
<1>10. m.h = Height(node) + 1
  BY <1>2, <1>3
<1>11. Makes(m)
  BY <1>1, <1>3, <1>8, <1>9, <1>10 DEF Makes
<1> QED BY <1>11

LEMMA MineMicroblockMakes ==
  ASSUME NodeOk, MineMicroblock
  PROVE  \E m : Makes(m)
<1> DEFINE m == [type |-> "microblock", id |-> nextId, h |-> Height(node), txs |-> <<nextId>>]
<1>1. node' = Applied(node, m) /\ Send(m) /\ nextId' = nextId + 1 /\ liquid
  BY DEF MineMicroblock
<1>2. Height(node) = Height(Rows) /\ Height(node) \in Nat /\ nextId \in Nat
  BY NodeFacts
<1>3. /\ m \in Msg /\ m.type = "microblock" /\ m.type # "rollback" /\ m.id = nextId /\ m.txs = <<nextId>>
      /\ m.h = Height(Rows)
  BY <1>2 DEF Msg
<1> HIDE DEF m
<1>4. NodeRows(Rows, liquid, nextId, Top)
  BY DEF NodeOk
<1>5. node' \in Seq(Unit) /\ node' # << >> /\ Rows' = RowApplied(Rows, m)
  BY <1>1, <1>3, UnitsMoved
<1>6. Ends(RowApplied(Rows, m), m)
  BY <1>1, <1>3, <1>4, RowsMineMicroblock
<1>7. Ends(Ids(node'), m)
  BY <1>5, <1>6 DEF Rows
<1>8. Height(node') = m.h
  BY <1>5, <1>7, HeightMoved
<1>9. m.h >= StartHeight
  <2>1. Height(Rows) = StartHeight - 1 + Top /\ Top \in 1..Len(Rows) /\ StartHeight \in Nat \ {0} /\ Len(Rows) \in Nat
    BY <1>4, NodeRowsFacts
  <2> QED BY <1>3, <2>1
<1>10. m.h <= Height(node)
  BY <1>2, <1>3
<1>11. Makes(m)
  BY <1>1, <1>3, <1>8, <1>9, <1>10 DEF Makes
<1> QED BY <1>11

LEMMA MadeTimed ==
  ASSUME Base, NEW h, Timed(h), NEW m, Makes(m), UNCHANGED <<memVars, pc, from, dbVars, resent, resends>>
  PROVE  \E g : Timed(g)'
<1>1. UNCHANGED <<work, chan, batch, pc, from, blocks, txs, resent, resends>>
  BY DEF memVars, dbVars
<1>2. PICK g : g = Noted(h, nextId, m.h)
  OBVIOUS
<1>3. /\ m \in Msg /\ m.type # "rollback" /\ m.id = nextId /\ m.txs = <<nextId>> /\ m.h >= StartHeight
      /\ m.h <= Height(node) \/ (m.type = "block" /\ m.h = Height(node) + 1)
      /\ node' = Applied(node, m) /\ Send(m) /\ nextId' = nextId + 1 /\ Height(node') = m.h
  BY DEF Makes
<1>4. h \in [Nat -> Nat] /\ nextId \in Nat /\ m.h \in Nat /\ Height(node) \in Nat /\ node \in Seq(Unit)
      /\ NodeRows(Ids(node), liquid, nextId, Top)
  BY <1>3, NodeFacts DEF Base, NodeOk, Rows, Timed, Msg
<1>5. g \in [Nat -> Nat] /\ \A i \in Nat : i < nextId => g[i] = h[i]
  <2>1. Noted(h, nextId, m.h) \in [Nat -> Nat]
    BY <1>4, NotedFacts
  <2>2. \A i \in Nat : i < nextId => Noted(h, nextId, m.h)[i] = h[i]
    BY <1>4, NotedBelow, Zenon
  <2> QED BY <1>2, <2>1, <2>2
<1>6. Grown(g, nextId', node')
  <2>1. Grown(h, nextId, node)
    BY DEF Timed
  <2>2. Grown(Noted(h, nextId, m.h), nextId + 1, Applied(node, m))
    BY <1>3, <1>4, <2>1, GrownMined
  <2> QED BY <1>2, <1>3, <2>2
<1>7. \A k : Tall(h, blocks, txs, nextId, k) => Tall(g, blocks', txs', nextId', k)
  BY <1>1, <1>2, <1>3, <1>4, TallNoted
<1>8. \E k : Tall(g, blocks', txs', nextId', k)
  BY <1>7 DEF Timed
<1>9. resends' = 0 => Once(txs')
  BY <1>1 DEF Timed
<1>10. ASSUME pc' = "connect", ~resent' PROVE Waiting(g)'
  <2>1. /\ from >= StartHeight /\ Stands(h, nextId, blocks, txs, from - 1)
        /\ \A t \in txs : h[t.tx] < from
    BY <1>1, <1>10 DEF Timed, Waiting
  <2>2. Stands(g, nextId', blocks', txs', from' - 1)
    BY <1>1, <1>7, <2>1 DEF Stands
  <2>3. \A t \in txs' : g[t.tx] < from'
    <3>1. \A t \in txs : t.tx \in Nat /\ t.tx < nextId
      BY DEF Timed, Tall, Low, TxRow
    <3> QED BY <1>1, <1>5, <2>1, <3>1
  <2> QED BY <1>1, <2>1, <2>2, <2>3 DEF Waiting
<1>11. ASSUME Subscribed', ~resent' PROVE \E lo : Queued(g, lo)'
  <2>1. Subscribed /\ ~resent
    BY <1>1, <1>11 DEF Subscribed
  <2>2. PICK lo : Queued(h, lo)
    BY <2>1 DEF Timed
  <2>3. InFlight' = Append(InFlight, m) /\ InFlight \in Seq(Msg)
    BY <1>1, <1>3, <2>1, SentLast, InFlightFacts DEF Send
  <2> DEFINE q == InFlight
             top == Height(node)
  <2>4. lo \in Nat /\ q \in Seq(Msg) /\ Sound(h, nextId, blocks, txs, q, 0, lo, resends)
        /\ top <= Level(q, lo, Len(q)) /\ top \in Nat
        /\ (m.h <= top \/ (m.type = "block" /\ m.h = top + 1))
    BY <1>3, <1>4, <2>2, <2>3 DEF Queued
  <2>5. InFlight' = Append(q, m)
    BY <2>3
  <2> HIDE DEF q, top
  <2>6. Sound(Noted(h, nextId, m.h), nextId + 1, blocks, txs, Append(q, m), 0, lo, resends)
    BY <1>3, <1>4, <2>4, SoundMined
  <2>7. Sound(g, nextId', blocks', txs', InFlight', 0, lo, resends')
    BY <1>1, <1>2, <1>3, <2>5, <2>6
  <2>8. Len(Append(q, m)) = Len(q) + 1 /\ Level(Append(q, m), lo, Len(q) + 1) = m.h
    <3>1. Len(Append(q, m)) = Len(q) + 1
      BY <1>3, <2>4, LevelSent
    <3>2. Level(Append(q, m), lo, Len(q) + 1) = m.h
      BY <1>3, <2>4, LevelSent
    <3> QED BY <3>1, <3>2
  <2>9. Height(node') <= Level(InFlight', lo, Len(InFlight'))
    <3>1. Level(InFlight', lo, Len(InFlight')) = m.h
      BY <2>5, <2>8
    <3>2. Height(node') = m.h
      BY <1>3
    <3>3. m.h <= m.h
      BY <1>4, NotAboveItself, Zenon
    <3> QED BY <3>1, <3>2, <3>3, Zenon
  <2>10. Queued(g, lo)'
    BY <2>4, <2>7, <2>9 DEF Queued
  <2> QED BY <2>10
<1>12. Timed(g)'
  BY <1>5, <1>6, <1>8, <1>9, <1>10, <1>11 DEF Timed
<1> QED BY <1>12

\* A message that brings nothing new.
SentTop(m) ==
  /\ Height(node) >= m.h /\ Height(node') = m.h /\ Send(m) /\ nextId' = nextId
  /\ resends' = 0 => resends = 0 /\ m.txs = << >>

LEMMA NothingLater ==
  ASSUME NEW x, NEW q, NEW m, m.txs = << >>
  PROVE  Later(x, q, m)
<1>1. Len(m.txs) = 0
  OBVIOUS
<1>2. \A a \in 1..Len(m.txs) : FALSE
  BY <1>1
<1> QED BY <1>2 DEF Later, Rising, Precedes

LEMMA SentTimed ==
  ASSUME Base, NEW h, Timed(h), NEW m, SentTop(m), Brings(h, nextId, m), Grown(h, nextId, node'),
         UNCHANGED <<memVars, pc, from, dbVars, resent>>, resends' \in Nat
  PROVE  Timed(h)'
<1>1. UNCHANGED <<work, chan, batch, pc, from, blocks, txs, resent, nextId>>
  BY DEF memVars, dbVars, SentTop
<1>2. m \in Msg /\ m.h \in Nat /\ Height(node) \in Nat /\ m.h <= Height(node) /\ Height(node') = m.h
  BY NodeFacts DEF Base, Brings, Msg, SentTop
<1>3. h \in [Nat -> Nat] /\ Grown(h, nextId', node') /\ \E k : Tall(h, blocks', txs', nextId', k)
  BY <1>1 DEF Timed
<1>4. resends' = 0 => Once(txs')
  BY <1>1 DEF Timed, SentTop
<1>5. pc' = "connect" /\ ~resent' => Waiting(h)'
  BY <1>1 DEF Timed, Waiting
<1>6. ASSUME Subscribed', ~resent' PROVE \E lo : Queued(h, lo)'
  <2>1. Subscribed /\ ~resent
    BY <1>1, <1>6 DEF Subscribed
  <2>2. PICK lo : Queued(h, lo)
    BY <2>1 DEF Timed
  <2>3. InFlight' = Append(InFlight, m) /\ InFlight \in Seq(Msg)
    BY <1>1, <1>2, <2>1, SentLast, InFlightFacts DEF Send, SentTop
  <2> DEFINE q == InFlight
             top == Height(node)
  <2>4. lo \in Nat /\ q \in Seq(Msg) /\ Sound(h, nextId, blocks, txs, q, 0, lo, resends)
        /\ top <= Level(q, lo, Len(q)) /\ top \in Nat /\ m.h <= top
    BY <1>2, <2>2, <2>3 DEF Queued
  <2>5. InFlight' = Append(q, m)
    BY <2>3
  <2> HIDE DEF q, top
  <2>6. Sendable(h, nextId, txs, q, m, top)
    BY <2>4 DEF Sendable
  <2>7. resends' = 0 => resends = 0 /\ Later(txs, q, m)
    BY NothingLater DEF SentTop
  <2>8. Sound(h, nextId, blocks, txs, Append(q, m), 0, lo, resends')
    BY <2>4, <2>6, <2>7, SoundSent
  <2>9. Sound(h, nextId', blocks', txs', InFlight', 0, lo, resends')
    BY <1>1, <2>5, <2>8
  <2>10. Len(Append(q, m)) = Len(q) + 1
    BY <1>2, <2>4, LevelSent
  <2>11. Level(Append(q, m), lo, Len(q) + 1) = m.h
    BY <1>2, <2>4, LevelSent
  <2>12. Level(InFlight', lo, Len(InFlight')) = m.h
    BY <2>5, <2>10, <2>11
  <2>13. Height(node') <= Level(InFlight', lo, Len(InFlight'))
    BY <1>2, <2>12
  <2>14. Queued(h, lo)'
    BY <2>4, <2>9, <2>13 DEF Queued
  <2> QED BY <2>14
<1> QED BY <1>3, <1>4, <1>5, <1>6 DEF Timed

\* The node goes back to one of its blocks.
GoesBack(m) ==
  /\ m \in Msg /\ m.type = "rollback" /\ m.txs = << >> /\ SentTop(m)
  /\ \E p \in 1..Len(node) : m.id = node[p].id /\ m.h = node[p].h /\ node' = SubSeq(node, 1, p)

LEMMA ReorganiseBack ==
  ASSUME NodeOk, Reorganise
  PROVE  \E m : GoesBack(m)
<1>1. PICK p \in 1..(Len(node) - 1) :
        LET m == [type |-> "rollback", id |-> node[p].id, h |-> node[p].h, txs |-> << >>]
        IN  /\ node' = Applied(node, m) /\ liquid' = (liquid /\ m.h = Height(node)) /\ Send(m)
  BY DEF Reorganise
<1> DEFINE m == [type |-> "rollback", id |-> node[p].id, h |-> node[p].h, txs |-> << >>]
<1>2. /\ Height(node) = Height(Rows) /\ p \in 1..Len(Rows) /\ p \in 1..Len(node)
      /\ node[p].id \in Nat /\ node[p].h \in Nat
      /\ Rows[p].id = node[p].id /\ Rows[p].h = node[p].h /\ nextId' = nextId /\ resends' = resends
  BY NodeFacts DEF Reorganise
<1>3. /\ m \in Msg /\ m.type = "rollback" /\ m.id = Rows[p].id /\ m.h = Rows[p].h /\ m.txs = << >>
      /\ m.id = node[p].id /\ m.h = node[p].h
  BY <1>2 DEF Msg
<1>4. node' = Applied(node, m) /\ liquid' = (liquid /\ m.h = Height(Rows)) /\ Send(m)
  BY <1>1, <1>2
<1> HIDE DEF m
<1>5. NodeRows(Rows, liquid, nextId, Top) /\ node \in Seq(Unit)
  BY DEF NodeOk
<1>6. Ends(RowApplied(Rows, m), m) /\ Position(Rows, m.id) = p
  BY <1>2, <1>3, <1>4, <1>5, RowsReorganise
<1>7. Position(node, m.id) = p
  <2>1. Position(Rows, m.id) = Position(node, m.id)
    BY <1>5, NodeIds DEF Rows
  <2> QED BY <1>6, <2>1
<1>8. node' = SubSeq(node, 1, p)
  BY <1>3, <1>4, <1>7 DEF Applied
<1>9. node' \in Seq(Unit) /\ node' # << >> /\ Rows' = RowApplied(Rows, m)
  <2>1. Position(Rows, m.id) # 0
    BY <1>2, <1>6
  <2> QED BY <1>3, <1>4, <2>1, UnitsMoved
<1>10. Ends(Ids(node'), m)
  BY <1>6, <1>9 DEF Rows
<1>11. Height(node') = m.h
  BY <1>9, <1>10, HeightMoved
<1>12. Height(node) >= m.h
  <2>1. Rows[p].h <= Height(Rows) /\ Rows[p].h \in Nat
    BY <1>2, <1>5, NodeRowsFacts
  <2>2. Height(node) \in Nat
    BY NodeFacts
  <2> QED BY <1>2, <1>3, <2>1, <2>2
<1>13. SentTop(m)
  BY <1>2, <1>3, <1>4, <1>11, <1>12 DEF SentTop
<1>14. GoesBack(m)
  BY <1>2, <1>3, <1>8, <1>13 DEF GoesBack
<1> QED BY <1>14

LEMMA ReorganiseTimed ==
  ASSUME Base, NEW h, Timed(h), Reorganise
  PROVE  Timed(h)'
<1>1. UNCHANGED <<memVars, pc, from, dbVars, resent>> /\ resends' = resends
  BY DEF Reorganise
<1>2. PICK m : GoesBack(m)
  BY ReorganiseBack DEF Base
<1>3. PICK p \in 1..Len(node) : m.id = node[p].id /\ m.h = node[p].h /\ node' = SubSeq(node, 1, p)
  BY <1>2 DEF GoesBack
<1>4. m \in Msg /\ m.type = "rollback" /\ m.txs = << >> /\ SentTop(m)
  BY <1>2 DEF GoesBack
<1>5. node \in Seq(Unit) /\ Len(node) \in Nat /\ Grown(h, nextId, node)
  BY DEF Base, NodeOk, Timed
<1>6. Grown(h, nextId, node')
  <2>1. p \in 0..Len(node)
    BY <1>5
  <2> QED BY <1>3, <1>5, <2>1, GrownPrefix
<1>7. Born(h, nextId, m)
  <2>1. Born(h, nextId, node[p])
    BY <1>5 DEF Grown
  <2>2. \A a \in 1..Len(m.txs) : FALSE
    BY <1>4
  <2> QED BY <1>3, <2>1, <2>2 DEF Born
<1>8. Brings(h, nextId, m)
  BY <1>4, <1>7 DEF Brings
<1>9. resends' \in Nat
  BY <1>1 DEF Base, TypeOK
<1> QED BY <1>1, <1>4, <1>6, <1>8, <1>9, SentTimed

LEMMA SendAgainTimed ==
  ASSUME Base, NEW h, Timed(h), SendAgain
  PROVE  Timed(h)'
<1>1. UNCHANGED <<memVars, pc, from, dbVars, resent>> /\ node' = node /\ nextId' = nextId
  BY DEF SendAgain
<1>2. resends' = resends + 1 /\ resends \in Nat /\ Subscribed /\ Last(node).key
      /\ wire' = Append(wire, AppendMsg(Last(node)))
  BY DEF SendAgain, Base, TypeOK
<1> DEFINE u == Last(node)
           m == AppendMsg(u)
<1>3. node \in Seq(Unit) /\ node # << >> /\ Height(node) \in Nat
  BY NodeFacts DEF Base, NodeOk
<1>4. Len(node) \in 1..Len(node) /\ u = node[Len(node)] /\ u \in Unit
  BY <1>3 DEF Last
<1>5. m \in Msg
  BY <1>4, MsgOfUnit
<1>6. m.id = u.id /\ m.h = u.h /\ m.txs = u.txs
  BY DEF AppendMsg
<1>7. Height(node) = u.h
  BY <1>3 DEF Height
<1> HIDE DEF u, m
<1>8. Born(h, nextId, u) /\ Own(u) /\ Grown(h, nextId, node)
  BY <1>4 DEF Timed, Grown
<1>9. Brings(h, nextId, m)
  BY <1>5, <1>6, <1>8 DEF Brings, Born, Own
<1>10. Send(m)
  BY <1>2 DEF Send, m, u
<1>11. resends' \in Nat /\ resends' # 0
  BY <1>2
<1>12. SentTop(m)
  BY <1>1, <1>3, <1>6, <1>7, <1>10, <1>11 DEF SentTop
<1> QED BY <1>1, <1>8, <1>9, <1>11, <1>12, SentTimed

LEMMA ConnectTimed ==
  ASSUME Base, NEW h, Timed(h), Connect
  PROVE  Timed(h)'
<1>1. /\ pc = "connect" /\ pc' = "recv"
      /\ UNCHANGED <<node, nextId, blocks, txs, resends, resent, from>>
  BY DEF Connect, nodeVars, dbVars
<1>2. InFlight' = InFlight /\ InFlight = History(node, from)
  BY <1>1, ConnectKeeps, InFlightFacts
<1>3. h \in [Nat -> Nat] /\ Grown(h, nextId, node) /\ (\E k : Tall(h, blocks, txs, nextId, k))
      /\ (resends = 0 => Once(txs))
  BY DEF Timed
<1>4. node \in Seq(Unit) /\ nextId \in Nat /\ NodeRows(Ids(node), liquid, nextId, Top)
      /\ from \in Nat /\ StartHeight \in Nat \ {0}
  BY NodeFacts, ConsumerAssumption DEF Base, NodeOk, Rows, TypeOK
<1>5. ASSUME ~resent PROVE Queued(h, from - 1)'
  <2>1. /\ from >= StartHeight /\ Stands(h, nextId, blocks, txs, from - 1)
        /\ \A t \in txs : h[t.tx] < from
    BY <1>1, <1>5 DEF Timed, Waiting
  <2>2. Sound(h, nextId, blocks, txs, History(node, from), 0, from - 1, resends)
    BY <1>3, <1>4, <2>1, HistorySound
  <2>3. Height(node) <= Level(History(node, from), from - 1, Len(History(node, from)))
    BY <1>3, <1>4, <2>1, HistorySound
  <2>4. from - 1 \in Nat
    BY <1>4, <2>1
  <2>5. InFlight' = History(node, from)
    BY <1>2
  <2>6. Sound(h, nextId', blocks', txs', InFlight', 0, from - 1, resends')
    BY <1>1, <2>2, <2>5
  <2>7. Height(node') <= Level(InFlight', from - 1, Len(InFlight'))
    BY <1>1, <2>3, <2>5
  <2>8. from' = from
    BY <1>1
  <2> QED BY <2>4, <2>6, <2>7, <2>8 DEF Queued
<1>6. (\E k : Tall(h, blocks', txs', nextId', k)) /\ Grown(h, nextId', node') /\ (resends' = 0 => Once(txs'))
  BY <1>1, <1>3
<1>7. Subscribed' /\ ~resent' => \E lo : Queued(h, lo)'
  <2> SUFFICES ASSUME ~resent' PROVE \E lo : Queued(h, lo)'
    OBVIOUS
  <2>1. PICK lo : lo = from' - 1
    OBVIOUS
  <2>2. Queued(h, lo)'
    BY <1>1, <1>5, <2>1
  <2> QED BY <2>2
<1>8. ~(pc' = "connect")
  BY <1>1
<1> QED BY <1>3, <1>6, <1>7, <1>8 DEF Timed

LEMMA FirstAtHeight ==
  ASSUME NEW b \in Seq(Row), Stepped(b), NEW p \in 1..Len(b), NEW i \in 1..Len(b), b[p].h < b[i].h
  PROVE  \E j \in 1..Len(b) : j <= i /\ b[j].h = b[p].h
<1> DEFINE v == b[p].h
           J == {j \in 1..Len(b) : b[j].h >= v}
<1>1. Len(b) \in Nat /\ \A j \in 1..Len(b) : b[j].h \in Nat
  BY RowFields
<1>2. v \in Nat /\ v >= StartHeight /\ StartHeight \in Nat
  BY <1>1, ConsumerAssumption DEF Stepped
<1>3. i \in J /\ J \in SUBSET (1..Len(b))
  BY <1>1
<1>4. Min(J) \in J /\ \A j \in J : Min(J) <= j
  BY <1>1, <1>3, LeastIndex
<1>5. PICK j : j = Min(J)
  OBVIOUS
<1>6. j \in 1..Len(b) /\ b[j].h >= v /\ j <= i
  BY <1>3, <1>4, <1>5
<1>7. b[j].h <= v
  <2>1. CASE j = 1
    <3>1. b[1].h = StartHeight
      BY <1>6, <2>1 DEF Stepped
    <3> QED BY <1>2, <2>1, <3>1
  <2>2. CASE j # 1
    <3>1. PICK n \in 1..(j - 1) : b[j].h <= b[n].h + 1
      BY <1>6, <2>2 DEF Stepped
    <3>2. n \in 1..Len(b) /\ n < j
      BY <1>1, <1>6, <3>1
    <3>3. n \notin J
      BY <1>4, <1>5, <1>6, <3>2
    <3>4. b[n].h < v
      BY <1>1, <1>2, <3>2, <3>3
    <3> QED BY <1>1, <1>2, <1>6, <3>1, <3>2, <3>4
  <2> QED BY <2>1, <2>2
<1>8. b[j].h = v
  BY <1>1, <1>2, <1>6, <1>7
<1> QED BY <1>6, <1>8

\* The startup rollback keeps no row above the one that it ends at.
LEMMA TargetHighest ==
  ASSUME NEW p, StartAt(p), blocks \in Seq(Row), Stepped(blocks)
  PROVE  \A i \in 1..p : blocks[i].h <= blocks[p].h
<1> SUFFICES ASSUME NEW i \in 1..p PROVE blocks[i].h <= blocks[p].h
  OBVIOUS
<1>1. p \in 1..Len(blocks) /\ p = Min(RollbackRows) /\ RollbackRows # {}
  BY DEF StartAt
<1>2. Len(blocks) \in Nat /\ \A j \in 1..Len(blocks) : blocks[j].h \in Nat
  BY RowFields
<1>3. i \in 1..Len(blocks)
  BY <1>1, <1>2
<1>4. RollbackRows \in SUBSET (1..Len(blocks))
  BY <1>2 DEF RollbackRows
<1>5. p \in RollbackRows /\ \A j \in RollbackRows : p <= j
  BY <1>1, <1>2, <1>4, LeastIndex
<1>6. ASSUME ~(blocks[i].h <= blocks[p].h) PROVE FALSE
  <2>1. blocks[p].h < blocks[i].h
    BY <1>1, <1>2, <1>3, <1>6
  <2>2. PICK j \in 1..Len(blocks) : j <= i /\ blocks[j].h = blocks[p].h
    BY <1>1, <1>3, <2>1, FirstAtHeight
  <2>3. j \in RollbackRows
    BY <1>5, <2>2 DEF RollbackRows
  <2>4. j = p
    BY <1>1, <1>2, <1>5, <2>2, <2>3
  <2>5. i = p
    BY <1>1, <1>2, <2>2, <2>4
  <2> QED BY <1>1, <1>2, <2>1, <2>5
<1> QED BY <1>6

LEMMA StartAtTimed ==
  ASSUME Base, NEW h, Timed(h), NEW p, StartAt(p), pc' = "connect", UNCHANGED <<node, nextId, resends>>
  PROVE  Timed(h)'
<1>1. PICK k : Tall(h, blocks, txs, nextId, k)
  BY DEF Timed
<1>2. /\ p \in 1..Len(blocks) /\ blocks[p].h \in Nat /\ from' = blocks[p].h + 1
      /\ blocks' = SubSeq(blocks, 1, p) /\ txs' = Until(txs, p)
  BY DEF StartAt, Until
<1>3. PICK l : l = IF p <= k THEN p ELSE k
  OBVIOUS
<1>4. Tall(h, SubSeq(blocks, 1, p), Until(txs, p), nextId, l)
  BY <1>1, <1>2, <1>3, TallCut
<1>5. l \in 1..p
  BY <1>1, <1>2, <1>3, TallCut
<1>6. blocks[p].h <= blocks[l].h
  BY <1>1, <1>2, <1>3, TallCut
<1>7. Tall(h, blocks', txs', nextId', l)
  BY <1>2, <1>4
<1>8. blocks \in Seq(Row) /\ Stepped(blocks) /\ Low(h, blocks, txs, nextId) /\ StartHeight \in Nat
  BY <1>1, ConsumerAssumption DEF Tall
<1>9. Len(blocks') = p /\ blocks' # << >> /\ \A i \in 1..p : blocks'[i] = blocks[i]
  BY <1>2, <1>8, Prefix
<1>10. from' \in Nat /\ from' >= StartHeight /\ from' - 1 = blocks[p].h
  <2>1. blocks[p].h >= StartHeight
    BY <1>2, <1>8 DEF Stepped
  <2> QED BY <1>2, <1>8, <2>1
<1>11. Stands(h, nextId', blocks', txs', from' - 1)
  <2>1. blocks'[l].h = blocks[l].h /\ blocks'[Len(blocks')].h = blocks[p].h
    BY <1>2, <1>5, <1>9
  <2>2. blocks[p].h <= blocks'[l].h
    BY <1>6, <2>1
  <2>3. blocks[p].h <= blocks'[Len(blocks')].h
    BY <1>2, <2>1
  <2>4. Reached(blocks', l, blocks[p].h)
    BY <1>9, <2>2, <2>3, Zenon DEF Reached
  <2> QED BY <1>2, <1>7, <1>10, <2>4 DEF Stands
<1>12. \A t \in txs' : h[t.tx] < from'
  <2> SUFFICES ASSUME NEW t \in txs' PROVE h[t.tx] < from'
    OBVIOUS
  <2>1. t \in txs /\ t.at <= p
    BY <1>2 DEF Until
  <2>2. t.at \in 1..Len(blocks) /\ h[t.tx] <= blocks[t.at].h
    BY <1>8, <2>1 DEF Low
  <2>3. t.at \in 1..p
    BY <1>2, <2>1, <2>2
  <2>4. blocks[t.at].h <= blocks[p].h
    BY <1>8, <2>3, TargetHighest
  <2>5. blocks[t.at].h \in Nat
    BY <1>8, <2>2, RowFields
  <2>6. h[t.tx] \in Nat
    BY <1>1, <2>1 DEF Tall, TxRow, Timed
  <2> QED BY <1>2, <2>2, <2>4, <2>5, <2>6
<1>13. resends' = 0 => Once(txs')
  BY <1>2 DEF Timed, Once, Until
<1>14. h \in [Nat -> Nat] /\ Grown(h, nextId', node')
  BY DEF Timed
<1>15. Waiting(h)'
  BY <1>10, <1>11, <1>12 DEF Waiting
<1>16. ~Subscribed'
  BY DEF Subscribed
<1> QED BY <1>7, <1>13, <1>14, <1>15, <1>16 DEF Timed

LEMMA StartEmptyTimed ==
  ASSUME Base, NEW h, Timed(h), StartEmpty, pc' = "connect", UNCHANGED <<node, nextId, resends>>
  PROVE  Timed(h)'
<1>1. from' = StartHeight /\ blocks' = blocks /\ txs' = txs /\ resent' = (blocks # << >>)
      /\ StartHeight \in Nat \ {0}
  BY ConsumerAssumption DEF StartEmpty, dbVars
<1>2. PICK k : Tall(h, blocks, txs, nextId, k)
  BY DEF Timed
<1>3. ASSUME ~resent' PROVE Waiting(h)'
  <2>1. blocks = << >>
    BY <1>1, <1>3
  <2>2. txs = {}
    <3>1. \A t \in txs : t.at \in 1..Len(blocks)
      BY <1>2 DEF Tall, Low
    <3> QED BY <2>1, <3>1
  <2>3. Reached(blocks, k, StartHeight - 1) /\ StartHeight - 1 \in Nat
    BY <1>1, <2>1 DEF Reached
  <2>4. Stands(h, nextId, blocks, txs, StartHeight - 1)
    BY <1>2, <2>3 DEF Stands
  <2>5. Stands(h, nextId', blocks', txs', from' - 1)
    BY <1>1, <2>4
  <2>6. from' >= StartHeight /\ txs' = {}
    BY <1>1, <2>2
  <2> QED BY <2>5, <2>6 DEF Waiting
<1>4. (\E j : Tall(h, blocks', txs', nextId', j)) /\ Grown(h, nextId', node') /\ (resends' = 0 => Once(txs'))
  BY <1>1, <1>2 DEF Timed
<1>5. ~Subscribed'
  BY DEF Subscribed
<1> QED BY <1>3, <1>4, <1>5 DEF Timed

LEMMA StartTimed ==
  ASSUME Base, NEW h, Timed(h), Start
  PROVE  Timed(h)'
<1>1. pc' = "connect" /\ UNCHANGED <<node, nextId, resends>>
  BY DEF Start, nodeVars
<1>2. StartEmpty \/ \E p : StartAt(p)
  BY StartCases
<1> QED BY <1>1, <1>2, StartEmptyTimed, StartAtTimed

\* A transaction writes what is first in flight.
LEMMA BatchWritten ==
  ASSUME Base, pc = "txn", NEW f, Handled(f, work)
  PROVE  Written(f, work, work \o Queue)
<1>1. /\ work \in Seq(Msg) /\ Len(work) \in Nat \ {0}
      /\ \A i \in 0..Len(work) : GoodDb(f[i])
  BY TransactionFacts
<1>2. f[0] = Before /\ \A i \in 1..Len(work) : f[i] = Handle(work[i], f[i - 1])
  BY DEF Handled
<1>3. f[0].error = "none" /\ f[0].blocks = blocks
  BY <1>2 DEF Before
<1>4. InFlight = work \o Queue /\ Queue \in Seq(Msg) /\ work \o Queue \in Seq(Msg)
  BY InFlightFacts
<1>5. Len(work \o Queue) = Len(work) + Len(Queue) /\ Len(Queue) \in Nat
      /\ \A i \in 1..Len(work) : (work \o Queue)[i] = work[i]
  BY <1>1, <1>4
<1>6. blocks = << >> => Opening(work[1]) /\ gen = NewGenerator
  <2> SUFFICES ASSUME blocks = << >> PROVE Opening(work[1]) /\ gen = NewGenerator
    OBVIOUS
  <2>1. gen = NewGenerator /\ Opening(InFlight[1])
    BY DEF Base, StreamOk, Subscribed
  <2>2. (work \o Queue)[1] = work[1]
    BY <1>1, <1>5
  <2> QED BY <1>4, <2>1, <2>2
<1>7. \A i \in 0..Len(work) : i > 0 /\ f[i].error = "none" => f[i].blocks # << >>
  <2>1. GoodDb(Before)
    BY DEF Base, DbOk
  <2>2. \A i \in 0..Len(work) : GoodDb(f[i]) /\ (i > 0 /\ f[i].error = "none" => f[i].blocks # << >>)
    BY <1>1, <1>6, <2>1, FoldGood
  <2> QED BY <2>2
<1>8. ASSUME NEW i \in 1..Len(work), f[i - 1].error = "none", f[i - 1].blocks = << >>
      PROVE  Opening((work \o Queue)[i])
  <2>1. CASE i = 1
    <3>1. blocks = << >>
      BY <1>3, <1>8, <2>1
    <3>2. 1 \in 1..Len(work)
      BY <1>1
    <3>3. (work \o Queue)[1] = work[1]
      BY <1>5, <3>2
    <3> QED BY <1>6, <2>1, <3>1, <3>3
  <2>2. CASE i # 1
    <3>1. i - 1 \in 0..Len(work) /\ i - 1 > 0
      BY <1>1, <2>2
    <3> QED BY <1>7, <1>8, <3>1
  <2> QED BY <2>1, <2>2
<1> DEFINE q == work \o Queue
<1>9. \A i \in 1..Len(work) : i \in 1..Len(q) /\ f[i] = Handle(q[i], f[i - 1])
  <2> SUFFICES ASSUME NEW i \in 1..Len(work) PROVE i \in 1..Len(q) /\ f[i] = Handle(q[i], f[i - 1])
    OBVIOUS
  <2>1. i \in 1..Len(q)
    BY <1>1, <1>5
  <2>2. q[i] = work[i]
    BY <1>5
  <2> HIDE DEF q
  <2> QED BY <1>2, <2>1, <2>2
<1>10. \A i \in 1..Len(work) : f[i - 1].error = "none" /\ f[i - 1].blocks = << >> => Opening(q[i])
  BY <1>8
<1> HIDE DEF q
<1>11. Written(f, work, q)
  BY <1>1, <1>3, <1>9, <1>10 DEF Written
<1> QED BY <1>11 DEF q

LEMMA HighestRow ==
  ASSUME NEW h, NEW nx, NEW b, NEW x, NEW l, Stands(h, nx, b, x, l), b # << >>
  PROVE  l <= Height(b)
BY DEF Stands, Reached, Height, Last

\* A transaction that commits stores its messages: no more than the height of
\* the last is stored, and what follows rises from there.
LEMMA CommitSound ==
  ASSUME Base, NEW h, Timed(h), Commit
  PROVE  /\ \E lo \in Nat : Sound(h, nextId, blocks', txs', InFlight', 0, lo, resends)
                            /\ Height(node) <= Level(InFlight', lo, Len(InFlight'))
         /\ Last(work).h <= Height(blocks')
<1>1. pc = "txn" /\ Subscribed /\ ~resent
  BY CommitBase DEF Commit, Subscribed
<1> DEFINE s == HandleUpdates(work)
           n == Len(work)
           q == work \o Queue
<1>2. s.error = "none" /\ blocks' = s.blocks /\ txs' = s.txs
  BY DEF Commit
<1> HIDE DEF s
<1>3. InFlight' = Queue /\ InFlight = work \o Queue /\ Queue \in Seq(Msg)
  BY <1>1, CommitTakes, InFlightFacts
<1>4. work \in Seq(Msg) /\ \E f : Handled(f, work)
  BY Frames, HandleUpdatesRun
<1>5. PICK f : Handled(f, work)
  BY <1>4
<1>6. /\ n \in Nat \ {0} /\ f[n] = s /\ s.blocks # << >>
  <2>1. Len(work) \in Nat \ {0} /\ HandleUpdates(work) = f[Len(work)]
    BY <1>1, <1>5, TransactionFacts
  <2>2. HandleUpdates(work).error = "none" => HandleUpdates(work).blocks # << >>
    BY <1>1, <1>5, TransactionFacts
  <2> QED BY <1>2, <2>1, <2>2 DEF s
<1>7. Written(f, work, q)
  BY <1>1, <1>5, BatchWritten
<1>8. h \in [Nat -> Nat] /\ nextId \in Nat
  BY NodeFacts DEF Timed, Base
<1>9. q \in Seq(Msg) /\ Len(Queue) \in Nat /\ Len(q) = n + Len(Queue)
  BY <1>3, <1>4
<1>10. PICK lo : Queued(h, lo)
  BY <1>1 DEF Timed
<1>11. lo \in Nat /\ Sound(h, nextId, blocks, txs, q, 0, lo, resends) /\ Height(node) <= Level(q, lo, Len(q))
  BY <1>3, <1>10 DEF Queued
<1>12. Sound(h, nextId, s.blocks, s.txs, q, n, lo, resends)
  <2>1. f[0].blocks = blocks /\ f[0].txs = txs
    BY <1>5 DEF Handled, Before
  <2>2. Sound(h, nextId, f[0].blocks, f[0].txs, q, 0, lo, resends)
    BY <1>11, <2>1
  <2> HIDE DEF q
  <2>3. f[n].error = "none" => Sound(h, nextId, f[n].blocks, f[n].txs, q, n, lo, resends)
    BY <1>4, <1>7, <1>8, <1>9, <2>2, FoldSound
  <2> QED BY <1>2, <1>6, <2>3
<1>13. PICK l2 : l2 = Level(q, lo, n)
  OBVIOUS
<1>14. l2 = work[n].h /\ l2 \in Nat
  <2>1. n \in 1..Len(work) /\ n # 0
    BY <1>6
  <2>2. q[n] = work[n]
    BY <1>3, <1>4, <2>1, JoinedQueue
  <2>3. work[n].h \in Nat
    BY <1>4, <2>1, ListedMsg
  <2> QED BY <1>13, <2>1, <2>2, <2>3 DEF Level
<1>15. Sound(h, nextId, blocks', txs', InFlight', 0, l2, resends)
  <2>1. Sound(h, nextId, s.blocks, s.txs, Queue, 0, l2, resends)
    BY <1>3, <1>4, <1>12, <1>13, SoundShift
  <2> QED BY <1>2, <1>3, <2>1
<1>16. Height(node) <= Level(InFlight', l2, Len(InFlight'))
  <2>1. \A i \in 0..Len(Queue) : Level(Queue, Level(q, lo, n), i) = Level(q, lo, n + i)
    BY <1>3, <1>4, JoinedQueue
  <2>2. Level(Queue, l2, Len(Queue)) = Level(q, lo, n + Len(Queue))
    BY <1>9, <1>13, <2>1
  <2> QED BY <1>3, <1>9, <1>11, <2>2
<1>17. Last(work).h <= Height(blocks')
  <2>1. Stands(h, nextId, s.blocks, s.txs, l2)
    BY <1>12, <1>13 DEF Sound
  <2>2. l2 <= Height(s.blocks)
    BY <1>6, <2>1, HighestRow
  <2>3. Last(work).h = l2
    BY <1>14 DEF Last
  <2> QED BY <1>2, <2>2, <2>3
<1> QED BY <1>14, <1>15, <1>16, <1>17

LEMMA CommitTimed ==
  ASSUME Base, NEW h, Timed(h), Commit
  PROVE  Timed(h)'
<1>1. pc' = "store" /\ UNCHANGED <<node, nextId, resends>>
  BY DEF Commit, nodeVars
<1>2. PICK lo \in Nat : /\ Sound(h, nextId, blocks', txs', InFlight', 0, lo, resends)
                        /\ Height(node) <= Level(InFlight', lo, Len(InFlight'))
  BY CommitSound
<1>3. Queued(h, lo)'
  BY <1>1, <1>2 DEF Queued
<1>4. \E k : Tall(h, blocks', txs', nextId', k)
  BY <1>1, <1>2 DEF Sound, Stands
<1>5. resends' = 0 => Once(txs')
  BY <1>1, <1>2 DEF Sound, OnceAhead
<1>6. h \in [Nat -> Nat] /\ Grown(h, nextId', node')
  BY <1>1 DEF Timed
<1>7. ~(pc' = "connect")
  BY <1>1
<1> QED BY <1>3, <1>4, <1>5, <1>6, <1>7 DEF Timed

TimedOk == \E h : Timed(h)

LEMMA TimedInit ==
  ASSUME Init
  PROVE  TimedOk
<1> DEFINE h == [i \in Nat |-> StartHeight]
<1>1. /\ node = <<FirstBlock>> /\ nextId = 2 /\ blocks = << >> /\ txs = {} /\ pc = "down"
  BY DEF Init
<1>2. StartHeight \in Nat \ {0}
  BY ConsumerAssumption
<1>3. h \in [Nat -> Nat] /\ h[1] = StartHeight
  BY <1>2
<1> HIDE DEF h
<1>4. Len(node) = 1 /\ node[1] = FirstBlock
  BY <1>1
<1>5. /\ FirstBlock.id = 1 /\ FirstBlock.h = StartHeight /\ Len(FirstBlock.txs) = 1
      /\ FirstBlock.txs[1] = 1
  BY DEF FirstBlock
<1>6. Born(h, nextId, FirstBlock) /\ Own(FirstBlock) /\ Rising(FirstBlock.txs)
  BY <1>1, <1>2, <1>3, <1>5 DEF Born, Own, Rising
<1>7. Grown(h, nextId, node)
  BY <1>4, <1>6 DEF Grown
<1>8. Tall(h, blocks, txs, nextId, 0)
  <2>1. blocks \in Seq(Row) /\ Len(blocks) = 0
    BY <1>1
  <2> QED BY <1>1, <2>1 DEF Tall, Keyed, Stepped, Named, Low
<1>9. Once(txs)
  BY <1>1 DEF Once
<1>10. ~Subscribed /\ pc # "connect"
  BY <1>1 DEF Subscribed
<1>11. Timed(h)
  BY <1>3, <1>7, <1>8, <1>9, <1>10 DEF Timed
<1> QED BY <1>11 DEF TimedOk

LEMMA TimedStep ==
  ASSUME Base, TimedOk, [Next]_vars
  PROVE  TimedOk'
<1> SUFFICES \E g : Timed(g)'
  BY DEF TimedOk
<1>1. PICK h : Timed(h)
  BY DEF TimedOk
<1>2. CASE MineBlock
  <2>1. UNCHANGED <<memVars, pc, from, dbVars, resent, resends>>
    BY <1>2 DEF MineBlock
  <2>2. PICK m : Makes(m)
    BY <1>2, MineBlockMakes DEF Base
  <2> QED BY <1>1, <2>1, <2>2, MadeTimed
<1>3. CASE MineMicroblock
  <2>1. UNCHANGED <<memVars, pc, from, dbVars, resent, resends>>
    BY <1>3 DEF MineMicroblock
  <2>2. PICK m : Makes(m)
    BY <1>3, MineMicroblockMakes DEF Base
  <2> QED BY <1>1, <2>1, <2>2, MadeTimed
<1>4. CASE Reorganise
  BY <1>1, <1>4, ReorganiseTimed
<1>5. CASE SendAgain
  BY <1>1, <1>5, SendAgainTimed
<1>6. CASE Receive \/ SendBatch \/ TakeBatch \/ StoreMetric \/ Publish \/ EndBatch
  <2>1. UNCHANGED <<nodeVars, dbVars, resent>> /\ Subscribed /\ Subscribed'
    BY <1>6 DEF Receive, SendBatch, TakeBatch, StoreMetric, Publish, EndBatch, Subscribed, memVars
  <2>2. UNCHANGED <<node, nextId, blocks, txs, resends, resent>> /\ pc' # "connect"
    BY <2>1 DEF nodeVars, dbVars, Subscribed
  <2>3. InFlight' = InFlight
    BY <1>6, FlowKeeps
  <2> QED BY <1>1, <2>1, <2>2, <2>3, TimedSame
<1>7. CASE Start
  BY <1>1, <1>7, StartTimed
<1>8. CASE Connect
  BY <1>1, <1>8, ConnectTimed
<1>9. CASE Commit
  BY <1>1, <1>9, CommitTimed
<1>10. CASE FailTransaction \/ Crash \/ IdleTimeout
  <2>1. pc' = "down" /\ UNCHANGED <<nodeVars, dbVars, resent>>
    BY <1>10 DEF FailTransaction, Crash, IdleTimeout, Stop
  <2>2. UNCHANGED <<node, nextId, blocks, txs, resends, resent>> /\ ~Subscribed' /\ pc' # "connect"
    BY <2>1 DEF nodeVars, dbVars, Subscribed
  <2> QED BY <1>1, <2>2, TimedSame
<1>11. CASE UNCHANGED vars
  <2>1. UNCHANGED <<nodeVars, memVars, dbVars, wire, pc, from, resent>>
    BY <1>11 DEF vars
  <2>2. UNCHANGED <<node, nextId, blocks, txs, resends, resent, work, chan, batch>>
    BY <2>1 DEF nodeVars, memVars, dbVars
  <2>3. InFlight' = InFlight /\ (Subscribed' => Subscribed) /\ (pc' = "connect" => pc = "connect" /\ from' = from)
    BY <2>1, <2>2 DEF InFlight, Subscribed
  <2> QED BY <1>1, <2>2, <2>3, TimedSame
<1> QED BY <1>2, <1>3, <1>4, <1>5, <1>6, <1>7, <1>8, <1>9, <1>10, <1>11, Zenon DEF Next, Reader, Loop

LEMMA TimedAlways == Spec => [](Base /\ TimedOk)
<1>1. Init => Base /\ TimedOk
  BY BaseInit, TimedInit
<1>2. Base /\ TimedOk /\ [Next]_vars => (Base /\ TimedOk)'
  BY BaseStep, TimedStep
<1> QED BY <1>1, <1>2, PTL DEF Spec

\* TxsStoredOnce: insert_txs stores a transaction once, whatever batches,
\* squashes, rollbacks and restarts its block goes through, also when the node
\* abandoned what a restarted process keeps, while no block is sent again.
THEOREM StoredOnce == Spec => []TxsStoredOnce
<1>1. TimedOk => TxsStoredOnce
  BY DEF TimedOk, Timed, Once, TxsStoredOnce
<1> QED BY <1>1, TimedAlways, PTL

\* The batch whose height is to be stored is committed.
Covered == pc = "store" => Last(work).h <= Height(blocks)

LEMMA CoveredStep ==
  ASSUME Base, TimedOk, Covered, [Next]_vars
  PROVE  Covered' /\ (metric' > metric => metric' <= Height(blocks))
<1>0. metric \in Nat
  BY DEF Base, TypeOK
<1>1. CASE MineBlock \/ MineMicroblock \/ Reorganise \/ SendAgain
  <2>1. UNCHANGED <<memVars, pc, dbVars>>
    BY <1>1 DEF MineBlock, MineMicroblock, Reorganise, SendAgain
  <2> QED BY <1>0, <2>1 DEF Covered, memVars, dbVars
<1>2. CASE Receive \/ SendBatch
  <2>1. UNCHANGED <<pc, work, blocks, metric>>
    BY <1>2 DEF Receive, SendBatch, dbVars
  <2> QED BY <1>0, <2>1 DEF Covered
<1>3. CASE TakeBatch \/ Publish \/ EndBatch \/ Connect \/ Start
  <2>1. pc' # "store" /\ metric' = metric
    BY <1>3 DEF TakeBatch, Publish, EndBatch, Connect, Start, memVars
  <2> QED BY <1>0, <2>1 DEF Covered
<1>4. CASE StoreMetric
  <2>1. pc = "store" /\ pc' = "publish" /\ metric' = Last(work).h
    BY <1>4 DEF StoreMetric
  <2> QED BY <2>1 DEF Covered
<1>5. CASE Commit
  <2>1. metric' = metric /\ work' = work
    BY <1>5 DEF Commit
  <2>2. PICK h : Timed(h)
    BY DEF TimedOk
  <2>3. Last(work).h <= Height(blocks')
    BY <1>5, <2>2, CommitSound
  <2>4. Last(work').h <= Height(blocks')
    BY <2>1, <2>3
  <2> QED BY <1>0, <2>1, <2>4 DEF Covered
<1>6. CASE FailTransaction \/ Crash \/ IdleTimeout
  <2>1. pc' # "store" /\ metric' = 0
    BY <1>6 DEF FailTransaction, Crash, IdleTimeout, Stop
  <2> QED BY <1>0, <2>1 DEF Covered
<1>7. CASE UNCHANGED vars
  <2>1. UNCHANGED <<pc, work, blocks, metric>>
    BY <1>7 DEF vars, memVars, dbVars
  <2> QED BY <1>0, <2>1 DEF Covered
<1> QED BY <1>1, <1>2, <1>3, <1>4, <1>5, <1>6, <1>7, Zenon DEF Next, Reader, Loop

\* MetricFollowsCommit: StoreMetric raises last_synced_height to no height above
\* the rows that Commit has stored, also after a rollback that ends a batch and
\* when the node abandoned what a restarted process keeps.
THEOREM MetricFollows == Spec => MetricFollowsCommit
<1>1. Spec => [](Base /\ TimedOk /\ Covered)
  <2>1. Init => Base /\ TimedOk /\ Covered
    <3>1. Init => Covered
      BY DEF Init, Covered
    <3> QED BY <3>1, BaseInit, TimedInit
  <2>2. Base /\ TimedOk /\ Covered /\ [Next]_vars => Base' /\ TimedOk' /\ Covered'
    BY BaseStep, TimedStep, CoveredStep
  <2> QED BY <2>1, <2>2, PTL DEF Spec
<1>2. Base /\ TimedOk /\ Covered /\ [Next]_vars
        => [metric' > metric => metric' <= Height(blocks)]_vars
  BY CoveredStep
<1> QED BY <1>1, <1>2, PTL DEF Spec, MetricFollowsCommit

=============================================================================
