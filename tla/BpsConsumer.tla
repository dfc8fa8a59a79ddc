---------------------------- MODULE BpsConsumer ----------------------------
(***************************************************************************)
(* The consumer process of blockchain-postgres-sync, from the node's       *)
(* BlockchainUpdates stream to Postgres and Redis: the task that batches   *)
(* stream messages, the capacity-1 channel to the loop that writes each    *)
(* batch in one transaction, the metric and the Redis events that follow   *)
(* the commit, crashes anywhere in between, and the rollback at startup.   *)
(*                                                                         *)
(* The node is external: it extends its chain, and on a reorganisation     *)
(* announces the block it rolls back to.  Each block or microblock carries *)
(* one transaction, which sets one state entry; all transactions are of    *)
(* one type, so their uids share one primary key.  assets_only is off.     *)
(***************************************************************************)
EXTENDS Integers, Sequences, SequencesExt

CONSTANTS
  StartHeight,   \* starting_height
  Depth,         \* start_rollback_depth
  Step,          \* rollback_step
  BatchMax,      \* updates_per_request
  Multiplier,    \* uids reserved for each height (100_000 in the code)
  MaxUnits,      \* bound: blocks and microblocks the node creates
  MaxReorgs,     \* bound: reorganisations
  MaxResends,    \* bound: blocks the node sends a second time
  MaxCrashes     \* bound: crashes, and the idle timeouts that are counted

ASSUME ConsumerAssumption ==
  /\ {StartHeight, Depth, Step, BatchMax, Multiplier} \subseteq Nat \ {0}
  /\ {MaxUnits, MaxReorgs, MaxResends} \subseteq Nat
  /\ MaxCrashes \in Nat \ {0}

VARIABLES
  node,      \* the node's chain: key blocks, then microblocks on the last one
  liquid,    \* its last key block can still get microblocks
  nextId,    \* the next block (and transaction) identifier
  wire,      \* messages of the current subscription not yet received
  batch,     \* messages the reader task has gathered (result in run)
  full,      \* the batch is to be sent before more is received
  chan,      \* the channel to the consumer loop: an empty or one batch
  pc,        \* where the consumer process is
  from,      \* the height to subscribe from
  work,      \* the batch being written
  blocks,    \* blocks_microblocks in uid order; a row's position is its uid
  txs,       \* the transactions table: [uid, tx, at], at = block_uid
  gen,       \* TxUidGenerator
  events,    \* committed events not yet published
  redis,     \* transactions whose state entry was SET in Redis
  metric,    \* last_synced_height
  error,     \* why the last transaction failed
  resent,    \* the stream restarted at StartHeight over a non-empty database
  stray,     \* history: the node abandoned what a restarted process keeps
  reorgs, resends,  \* what the bounds count
  crashes    \* ends of a process other than by a failed transaction, up to MaxCrashes

nodeVars == <<node, liquid, nextId, reorgs, resends>>
dbVars   == <<blocks, txs>>
memVars  == <<batch, full, chan, work, gen, events, metric>>
vars     == <<nodeVars, wire, memVars, pc, from, dbVars, redis, error, resent, stray, crashes>>

States == {"down", "connect", "recv", "txn", "store", "publish"}
Errors == {"none", "unknown_block", "unique_violation"}

Row  == [id : Nat, h : Nat, key : BOOLEAN]
Unit == [id : Nat, h : Nat, key : BOOLEAN, txs : Seq(Nat)]
Msg  == [type : {"block", "microblock", "rollback"}, id : Nat, h : Nat, txs : Seq(Nat)]

TypeOK ==
  /\ node \in Seq(Unit) /\ liquid \in BOOLEAN /\ nextId \in Nat
  /\ {wire, batch, chan, work} \subseteq Seq(Msg)
  /\ full \in BOOLEAN /\ pc \in States /\ from \in Nat
  /\ blocks \in Seq(Row)
  /\ txs \subseteq [uid : Nat, tx : Nat, at : DOMAIN blocks]
  /\ gen \in [height : Nat, id : Nat]
  /\ events \in Seq(Nat) /\ redis \subseteq Nat
  /\ metric \in Nat /\ error \in Errors /\ {resent, stray} \subseteq BOOLEAN
  /\ reorgs \in 0..MaxReorgs /\ resends \in 0..MaxResends /\ crashes \in 0..MaxCrashes

NewGenerator == [height |-> 0, id |-> 0]

\* The block at StartHeight: of what is below it nothing is asked.
FirstBlock == [id |-> 1, h |-> StartHeight, key |-> TRUE, txs |-> <<1>>]

Init ==
  /\ node = <<FirstBlock>>
  /\ liquid = FALSE /\ nextId = 2
  /\ wire = << >> /\ batch = << >> /\ full = FALSE /\ chan = << >>
  /\ pc = "down" /\ from = StartHeight /\ work = << >>
  /\ blocks = << >> /\ txs = {} /\ gen = NewGenerator
  /\ events = << >> /\ redis = {} /\ metric = 0
  /\ error = "none" /\ resent = FALSE /\ stray = FALSE
  /\ reorgs = 0 /\ resends = 0 /\ crashes = 0

----------------------------------------------------------------------------
(* Chains.                                                                 *)

Height(c) == IF c = << >> THEN 0 ELSE Last(c).h

\* get_current_height: the greatest height stored, which the last row need not
\* have when the node has abandoned what a restarted consumer kept
CurrentHeight(c) == IF c = << >> THEN 0 ELSE Max({c[i].h : i \in DOMAIN c})

\* Where the last key block is, and where the block named id is (0: nowhere).
LastKey(c) == SelectLastInSeq(c, LAMBDA u : u.key)
Position(c, id) == SelectLastInSeq(c, LAMBDA u : u.id = id)

\* The chain with its microblocks merged into the last key block, which then
\* takes the identifier of the last microblock.
Merged(c) ==
  IF c = << >> \/ Last(c).key THEN c
  ELSE LET k   == LastKey(c)
           all == [i \in 1..(Len(c) - k + 1) |-> c[k + i - 1].txs]
       IN  [SubSeq(c, 1, k) EXCEPT ![k].id = Last(c).id, ![k].txs = FlattenSeq(all)]

\* What a chain becomes when a message is applied to it.  A block or microblock
\* it already holds is absorbed.
Applied(c, m) ==
  LET base == IF m.type = "block" THEN Merged(c) ELSE c
  IN  IF m.type = "rollback" THEN SubSeq(c, 1, Position(c, m.id))
      ELSE IF Position(base, m.id) # 0 THEN base
      ELSE Append(base, [id |-> m.id, h |-> m.h, key |-> m.type = "block", txs |-> m.txs])

AppendMsg(u) ==
  [type |-> IF u.key THEN "block" ELSE "microblock", id |-> u.id, h |-> u.h, txs |-> u.txs]

\* What the node sends to a new subscription.
History(c, h) ==
  LET first == SelectInSeq(c, LAMBDA u : u.h >= h)
  IN  IF first = 0 THEN << >>
      ELSE [i \in 1..(Len(c) - first + 1) |-> AppendMsg(c[first + i - 1])]

----------------------------------------------------------------------------
(* The startup rollback (get_blocks_rollback_to).                          *)

\* A faulty choice of heights: one step back only.
OneStepBack(cur) == {IF cur > Step /\ Step < Depth THEN cur - Step ELSE IF cur > Depth THEN cur - Depth ELSE 0}

\* The heights whose rows the startup rollback visits, newest first.
RollbackHeights(cur) ==
  LET step  == IF Step < Depth THEN Step ELSE Depth
      first == IF cur > step THEN cur - step ELSE 0
      final == IF cur > Depth THEN cur - Depth ELSE 0
  IN  {final} \cup {h \in (final + 1)..first : (first - h) % step = 0}

\* The rows at those heights; the rollback ends at the one with the least uid.
RollbackRows == {i \in DOMAIN blocks : blocks[i].h \in RollbackHeights(CurrentHeight(blocks))}

----------------------------------------------------------------------------
(* The node.                                                               *)

Subscribed == pc \notin {"down", "connect"}

Send(m) == wire' = IF Subscribed THEN Append(wire, m) ELSE wire

\* The rows a restarted consumer is to keep: what is Depth or more below its
\* last block if it stored as much, else what it finds at the heights it visits.
KeptRows ==
  {i \in DOMAIN blocks :
     \/ pc = "connect"
     \/ IF CurrentHeight(blocks) >= StartHeight + Depth
          THEN blocks[i].h + Depth <= CurrentHeight(blocks)
          ELSE RollbackRows # {} /\ i <= Min(RollbackRows)}

\* All of their blocks are on chain c.
KeptBy(c) == \A i \in KeptRows : Position(c, blocks[i].id) # 0

MineBlock ==
  /\ nextId <= MaxUnits
  /\ LET m == [type |-> "block", id |-> nextId, h |-> Height(node) + 1, txs |-> <<nextId>>]
     IN  node' = Applied(node, m) /\ Send(m)
  /\ liquid' = TRUE /\ nextId' = nextId + 1
  /\ UNCHANGED <<reorgs, resends, memVars, pc, from, dbVars, redis, error, resent, stray, crashes>>

MineMicroblock ==
  /\ nextId <= MaxUnits
  /\ liquid
  /\ LET m == [type |-> "microblock", id |-> nextId, h |-> Height(node), txs |-> <<nextId>>]
     IN  node' = Applied(node, m) /\ Send(m)
  /\ nextId' = nextId + 1
  /\ UNCHANGED <<liquid, reorgs, resends, memVars, pc, from, dbVars, redis, error, resent, stray, crashes>>

\* The depth of the startup rollback is chosen so that the node does not abandon
\* a block that a restarted consumer keeps.  If it does, stray records it.
Reorganise ==
  /\ reorgs < MaxReorgs
  /\ \E i \in 1..(Len(node) - 1) :
       LET m == [type |-> "rollback", id |-> node[i].id, h |-> node[i].h, txs |-> << >>]
       IN  /\ node' = Applied(node, m)
           /\ liquid' = (liquid /\ m.h = Height(node))
           /\ Send(m)
  /\ stray' = (stray \/ (~Subscribed /\ ~KeptBy(node')))
  /\ reorgs' = reorgs + 1
  /\ UNCHANGED <<nextId, resends, memVars, pc, from, dbVars, redis, error, resent, crashes>>

\* "The gRPC stream can deliver the same block more than once".
SendAgain ==
  /\ resends < MaxResends
  /\ Subscribed /\ Last(node).key
  /\ wire' = Append(wire, AppendMsg(Last(node)))
  /\ resends' = resends + 1
  /\ UNCHANGED <<node, liquid, nextId, reorgs, memVars, pc, from, dbVars, redis, error, resent, stray, crashes>>

----------------------------------------------------------------------------
(* The reader task (UpdatesSourceImpl::run).                               *)

\* A faulty reader that waits for a full batch whatever the message is.
ReceiveHolding ==
  /\ Subscribed /\ ~full /\ wire # << >>
  /\ batch' = Append(batch, Head(wire))
  /\ wire' = Tail(wire)
  /\ full' = (Len(batch) + 1 >= BatchMax)
  /\ UNCHANGED <<nodeVars, chan, work, gen, events, metric, pc, from, dbVars, redis, error, resent, stray, crashes>>

\* A block completes the batch when the batch has reached its size or its
\* age; a microblock or a rollback always does.
Receive ==
  /\ Subscribed /\ ~full /\ wire # << >>
  /\ batch' = Append(batch, Head(wire))
  /\ wire' = Tail(wire)
  /\ full' \in IF Head(wire).type = "block" /\ Len(batch) + 1 < BatchMax THEN BOOLEAN ELSE {TRUE}
  /\ UNCHANGED <<nodeVars, chan, work, gen, events, metric, pc, from, dbVars, redis, error, resent, stray, crashes>>

SendBatch ==
  /\ Subscribed /\ full /\ chan = << >>
  /\ chan' = batch /\ batch' = << >> /\ full' = FALSE
  /\ UNCHANGED <<nodeVars, wire, work, gen, events, metric, pc, from, dbVars, redis, error, resent, stray, crashes>>

----------------------------------------------------------------------------
(* One transaction: handle_updates folds the batch over the database.      *)

\* A faulty generator that starts over for every block.
AtEveryBlock(g, h) == [height |-> h, id |-> 0]

\* maybe_update_height
AtHeight(g, h) == IF g.height < h THEN [height |-> h, id |-> 0] ELSE g

NextUid(g, i) == g.height * Multiplier + g.id + i - 1

\* A faulty squash: the merged block keeps the key block's identifier.
SquashKeepingId(s) ==
  IF s.blocks = << >> \/ Last(s.blocks).key THEN s
  ELSE LET k == LastKey(s.blocks)
       IN  [s EXCEPT !.blocks = SubSeq(@, 1, k),
                     !.txs = {IF t.at > k THEN [t EXCEPT !.at = k] ELSE t : t \in s.txs}]

\* squash_microblocks: the rows above the last key block are the microblocks.
Squash(s) ==
  IF s.blocks = << >> \/ Last(s.blocks).key THEN s
  ELSE LET k == LastKey(s.blocks)
       IN  [s EXCEPT !.blocks = [SubSeq(@, 1, k) EXCEPT ![k].id = Last(s.blocks).id],
                     !.txs = {IF t.at > k THEN [t EXCEPT !.at = k] ELSE t : t \in s.txs}]

\* A faulty insertion without the conflict clause.
InsertEvery(s, m) ==
  [s EXCEPT !.blocks = Append(@, [id |-> m.id, h |-> m.h, key |-> m.type = "block"])]

\* insert_blocks_or_microblocks: a stored identifier keeps its row.
Upsert(s, m) ==
  IF Position(s.blocks, m.id) # 0 THEN s
  ELSE [s EXCEPT !.blocks = Append(@, [id |-> m.id, h |-> m.h, key |-> m.type = "block"])]

\* A faulty insertion that skips rows whose uid is taken.
InsertTxsSkipping(s, m) ==
  LET g   == AtHeight(s.gen, m.h)
      new == {[uid |-> NextUid(g, i), tx |-> m.txs[i],
               at |-> Position(s.blocks, m.id)] : i \in DOMAIN m.txs}
  IN  [s EXCEPT !.gen = [g EXCEPT !.id = @ + Len(m.txs)], !.events = @ \o m.txs,
                !.txs = @ \cup {t \in new : \A r \in s.txs : r.uid # t.uid}]

\* handle_txs: the uids are taken whether or not the rows can be inserted.
InsertTxs(s, m) ==
  LET g   == AtHeight(s.gen, m.h)
      at  == Position(s.blocks, m.id)
      new == {[uid |-> NextUid(g, i), tx |-> m.txs[i], at |-> at] : i \in DOMAIN m.txs}
  IN  [s EXCEPT !.gen = [g EXCEPT !.id = @ + Len(m.txs)],
                !.txs = @ \cup new,
                !.events = @ \o m.txs,
                !.error = IF \E r \in s.txs, t \in new : r.uid = t.uid
                            THEN "unique_violation" ELSE @]

\* A faulty rollback leaves the transactions of the blocks it deletes.
RolledBackBlocksOnly(s, p) == [s EXCEPT !.blocks = SubSeq(@, 1, p)]

\* rollback: rows of later blocks go, then the blocks.
RolledBack(s, p) ==
  [s EXCEPT !.blocks = SubSeq(@, 1, p), !.txs = {t \in @ : t.at <= p}]

HandleRollback(s, m) ==
  LET p == Position(s.blocks, m.id)
  IN  IF p = 0 THEN [s EXCEPT !.error = "unknown_block"] ELSE RolledBack(s, p)

\* A failed statement ends the transaction.
Handle(m, s) ==
  IF s.error # "none" THEN s
  ELSE CASE m.type = "block"      -> InsertTxs(Upsert(Squash(s), m), m)
         [] m.type = "microblock" -> InsertTxs(Upsert(s, m), m)
         [] m.type = "rollback"   -> HandleRollback(s, m)

HandleUpdates(ms) ==
  LET before   == [blocks |-> blocks, txs |-> txs, gen |-> gen, events |-> << >>, error |-> "none"]
      after[i \in 0..Len(ms)] == IF i = 0 THEN before ELSE Handle(ms[i], after[i - 1])
  IN  after[Len(ms)]

----------------------------------------------------------------------------
(* The consumer loop (start).                                              *)

\* A new process rolls back in one transaction ...
Start ==
  /\ pc = "down"
  /\ IF RollbackRows = {}
       THEN from' = StartHeight /\ UNCHANGED dbVars
       ELSE LET p == Min(RollbackRows)
                s == RolledBack([blocks |-> blocks, txs |-> txs], p)
            IN  /\ blocks' = s.blocks /\ txs' = s.txs
                /\ from' = blocks[p].h + 1
  /\ resent' = (RollbackRows = {} /\ blocks # << >>)
  /\ pc' = "connect" /\ error' = "none"
  /\ UNCHANGED <<nodeVars, wire, memVars, redis, stray, crashes>>

\* ... and then subscribes.
Connect ==
  /\ pc = "connect"
  /\ pc' = "recv"
  /\ wire' = History(node, from)
  /\ UNCHANGED <<nodeVars, memVars, from, dbVars, redis, error, resent, stray, crashes>>

\* Two faulty ways to take a batch: the metric is stored before the commit, the
\* channel is not emptied.
TakeBatchStoring ==
  /\ pc = "recv" /\ chan # << >>
  /\ work' = chan /\ chan' = << >> /\ pc' = "txn" /\ metric' = Last(chan).h
  /\ UNCHANGED <<nodeVars, wire, batch, full, gen, events, from, dbVars, redis, error, resent, stray, crashes>>

TakeBatchAgain ==
  /\ pc = "recv" /\ chan # << >>
  /\ work' = chan /\ pc' = "txn"
  /\ UNCHANGED <<nodeVars, wire, batch, full, chan, gen, events, metric, from, dbVars, redis, error, resent, stray, crashes>>

TakeBatch ==
  /\ pc = "recv" /\ chan # << >>
  /\ work' = chan /\ chan' = << >> /\ pc' = "txn"
  /\ UNCHANGED <<nodeVars, wire, batch, full, gen, events, metric, from, dbVars, redis, error, resent, stray, crashes>>

\* The memory of the process, and its subscription, are gone.
Stop ==
  /\ pc' = "down"
  /\ wire' = << >> /\ batch' = << >> /\ full' = FALSE /\ chan' = << >>
  /\ work' = << >> /\ gen' = NewGenerator /\ events' = << >> /\ metric' = 0
  /\ stray' = (stray \/ ~KeptBy(node))

Commit ==
  /\ pc = "txn"
  /\ \E s \in {HandleUpdates(work)} :
       /\ s.error = "none"
       /\ blocks' = s.blocks /\ txs' = s.txs /\ gen' = s.gen /\ events' = s.events
  /\ pc' = "store"
  /\ UNCHANGED <<nodeVars, wire, batch, full, chan, work, metric, from, redis, error, resent, stray, crashes>>

\* The error leaves start and ends the process.
FailTransaction ==
  /\ pc = "txn"
  /\ \E s \in {HandleUpdates(work)} : s.error # "none" /\ error' = s.error
  /\ Stop
  /\ UNCHANGED <<nodeVars, from, dbVars, redis, resent, crashes>>

StoreMetric ==
  /\ pc = "store"
  /\ metric' = Last(work).h
  /\ work' = << >> /\ pc' = "publish"
  /\ UNCHANGED <<nodeVars, wire, batch, full, chan, gen, events, from, dbVars, redis, error, resent, stray, crashes>>

\* publish_batch: SET, then PUBLISH, event by event.
Publish ==
  /\ pc = "publish" /\ events # << >>
  /\ redis' = redis \cup {Head(events)}
  /\ events' = Tail(events)
  /\ UNCHANGED <<nodeVars, wire, batch, full, chan, work, gen, metric, pc, from, dbVars, error, resent, stray, crashes>>

\* A faulty end of the batch that drops what is not yet published.
EndBatchEarly ==
  /\ pc = "publish"
  /\ pc' = "recv"
  /\ UNCHANGED <<nodeVars, wire, memVars, from, dbVars, redis, error, resent, stray, crashes>>

EndBatch ==
  /\ pc = "publish" /\ events = << >>
  /\ pc' = "recv"
  /\ UNCHANGED <<nodeVars, wire, memVars, from, dbVars, redis, error, resent, stray, crashes>>

\* The process ends for a reason of its own: a kill, a broken stream, a
\* database error.  A broken stream is noticed once the channel is drained,
\* which is a crash at "recv".
Crash ==
  /\ pc # "down" /\ crashes < MaxCrashes
  /\ Stop
  /\ crashes' = crashes + 1
  /\ UNCHANGED <<nodeVars, from, dbVars, redis, error, resent>>

\* A stream that is silent for the idle timeout is given up, however healthy it
\* is, and the process ends with it: as often as the chain is quiet for so long.
IdleTimeout ==
  /\ pc = "recv" /\ wire = << >> /\ ~full /\ chan = << >>
  /\ Stop
  /\ crashes' = IF crashes < MaxCrashes THEN crashes + 1 ELSE crashes
  /\ UNCHANGED <<nodeVars, from, dbVars, redis, error, resent>>

----------------------------------------------------------------------------
\* The two tasks of the process.
Reader == Receive \/ SendBatch
Loop ==
  \/ Start \/ Connect \/ TakeBatch
  \/ Commit \/ FailTransaction \/ StoreMetric \/ Publish \/ EndBatch

Next ==
  \/ MineBlock \/ MineMicroblock \/ Reorganise \/ SendAgain
  \/ Reader \/ Loop \/ Crash \/ IdleTimeout

Spec == Init /\ [][Next]_vars

\* The runtime polls both tasks and the supervisor restarts the process.
FairSpec == Spec /\ WF_vars(Reader) /\ WF_vars(Loop)

----------------------------------------------------------------------------
(* Properties.                                                             *)

\* The stored chain as a reader sees it: rows in uid order, each with its
\* transactions in uid order.
TxsAt(i) ==
  LET rows == {t \in txs : t.at = i}
      nth(j) == CHOOSE t \in rows : Cardinality({u \in rows : u.uid < t.uid}) = j - 1
  IN  [j \in 1..Cardinality(rows) |-> nth(j).tx]

Stored ==
  [i \in DOMAIN blocks |->
     [id |-> blocks[i].id, h |-> blocks[i].h, key |-> blocks[i].key, txs |-> TxsAt(i)]]

\* Everything sent or still to be sent to this process and not yet written.
InFlight ==
  IF pc = "connect" THEN History(node, from)
  ELSE (IF pc = "txn" THEN work ELSE << >>) \o chan \o batch \o wire

Ids(c) == [i \in DOMAIN c |-> [id |-> c[i].id, h |-> c[i].h, key |-> c[i].key]]

Caught ==
  LET after[i \in 0..Len(InFlight)] == IF i = 0 THEN Stored ELSE Applied(after[i - 1], InFlight[i])
  IN  after[Len(InFlight)]

\* Postgres is a delayed replica of the node's chain: what is stored, with
\* the messages in flight applied to it, is the chain of the node.  So no
\* message is lost, applied twice or out of order between the stream, the
\* batch, the channel and the transaction, microblocks end up merged under
\* the identifier the node gives the merged block, and a restarted process
\* resumes where the stored chain ends.  Only a block that is delivered again
\* stores transactions the node has not repeated.
Replica == pc # "down" /\ ~resent /\ ~stray /\ resends = 0 => Caught = node

\* The same for the rows of blocks_microblocks alone, which a block that is
\* delivered again does not disturb.
BlocksReplica == pc # "down" /\ ~resent /\ ~stray => Ids(Caught) = Ids(node)

\* A rollback always names a block that is stored, under the identifier it
\* was given by the last squash.
RollbackTargetStored == ~stray => error # "unknown_block"

\* When the stream restarts at StartHeight over a database that already holds
\* blocks, nothing is written twice: the transaction fails as a whole.
ResentWritesNothing == [][resent /\ resent' => UNCHANGED <<blocks, txs>>]_vars

\* The metric only rises to heights that are already committed.
MetricFollowsCommit == [][metric' > metric => metric' <= Height(blocks)]_vars

\* Transaction uids follow the order of the chain, which is the order the
\* data service pages through transactions in, as long as one process keeps
\* the generator.
UidsInChainOrder == crashes = 0 => \A t, u \in txs : t.at < u.at => t.uid < u.uid

\* A transaction is stored once, whatever batches, reorganisations and restarts
\* its block goes through, unless the node sends it twice to one process.
TxsStoredOnce == resends = 0 => \A t, u \in txs : t.tx = u.tx => t = u

\* Receiving a block again never makes the consumer fail.
DuplicatesAbsorbed == error # "unique_violation"

\* Of a process that keeps running this is true.
RunningAbsorbsDuplicates == crashes = 0 => DuplicatesAbsorbed

\* Again and again the consumer has written what it was sent, up to the last
\* microblock or rollback at least: what it still holds back is an incomplete
\* batch of blocks. It does not stay there: on a quiet chain the idle timeout
\* ends the process, and the next one rolls back and is sent the last heights
\* anew. A process that restarts over stored blocks may fail for ever.
CatchesUp ==
  []<>(\/ resent
       \/ /\ pc = "recv" /\ wire = << >> /\ chan = << >>
          /\ \A i \in DOMAIN batch : batch[i].type = "block")

\* Again and again everything that is stored has been published, also when a
\* crash falls between the commit and the publication, because the startup
\* rollback makes the node send the last heights again: as many as a batch may
\* span, if Depth >= BatchMax.  The first block is never rolled back.
EventsPublished ==
  []<>(resent \/ \A t \in txs : t.tx = 1 \/ t.tx \in redis)
============================================================================
