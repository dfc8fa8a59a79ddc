---------------------- MODULE WsSubscriptionsProofs ----------------------
(***************************************************************************)
(* The topics map, the clients' own tables and what the clients were told  *)
(* stay consistent, for any number of clients, topics and messages.        *)
(***************************************************************************)
EXTENDS WsSubscriptions, TLAPS

InfoType == [direct : SUBSET Clients, indirect : [Clients -> SUBSET Multis],
             subtopics : SUBSET Singles]
SubType  == [direct : BOOLEAN, new : BOOLEAN, sources : SUBSET Multis]
Maps     == [Topics -> InfoType]
Tables   == [Topics -> SubType]
ConnType == [pc : ConnStates, topic : Topics \cup {None}, value : Values \cup {None},
             leaving : SUBSET Topics]

----------------------------------------------------------------------------
(* What the operators on the topics map do to direct subscriptions.        *)

\* Pruning an entry does not touch who is directly subscribed.
LEMMA PrunedKeeps ==
  ASSUME NEW i \in InfoType
  PROVE  Pruned(i) \in InfoType /\ Pruned(i).direct = i.direct
BY DEF Pruned, NoInfo, InfoType

\* add_subscription adds one client to one topic.
LEMMA AddSubscriptionAdds ==
  ASSUME NEW map \in Maps, NEW t \in Topics, NEW c \in Clients
  PROVE  /\ AddSubscription(map, t, c) \in Maps
         /\ \A x \in Topics : AddSubscription(map, t, c)[x].direct =
              IF x = t THEN map[x].direct \cup {c} ELSE map[x].direct
BY DEF AddSubscription, Maps, InfoType

\* remove_subscription removes one client from one topic.
LEMMA RemoveSubscriptionRemoves ==
  ASSUME NEW map \in Maps, NEW t \in Topics, NEW c \in Clients
  PROVE  /\ RemoveSubscription(map, t, c) \in Maps
         /\ \A x \in Topics : RemoveSubscription(map, t, c)[x].direct =
              IF x = t THEN map[x].direct \ {c} ELSE map[x].direct
<1> DEFINE i == [map[t] EXCEPT !.direct = @ \ {c}]
<1>1. i \in InfoType /\ i.direct = map[t].direct \ {c}
  BY DEF Maps, InfoType
<1>2. Pruned(i) \in InfoType /\ Pruned(i).direct = i.direct
  BY <1>1, PrunedKeeps
<1>3. RemoveSubscription(map, t, c) = [map EXCEPT ![t] = Pruned(i)]
  BY DEF RemoveSubscription
<1> QED
  BY <1>1, <1>2, <1>3 DEF Maps

\* update_indirect_subscriptions leaves direct subscriptions alone: added ...
LEMMA AddIndirectKeeps ==
  ASSUME NEW map \in Maps, NEW m \in Multis, NEW ss \in SUBSET Singles,
         NEW cs \in SUBSET Clients
  PROVE  /\ AddIndirect(map, m, ss, cs) \in Maps
         /\ \A x \in Topics : AddIndirect(map, m, ss, cs)[x].direct = map[x].direct
<1> DEFINE entry(x) == [map[x] EXCEPT !.indirect =
              [c \in Clients |-> IF c \in cs THEN @[c] \cup {m} ELSE @[c]]]
<1>1. \A x \in Topics : entry(x) \in InfoType /\ entry(x).direct = map[x].direct
  BY DEF Maps, InfoType
<1> QED
  BY <1>1 DEF AddIndirect, Maps

\* ... and removed.
LEMMA DropIndirectKeeps ==
  ASSUME NEW map \in Maps, NEW m \in Multis, NEW ss \in SUBSET Singles,
         NEW cs \in SUBSET Clients
  PROVE  /\ DropIndirect(map, m, ss, cs) \in Maps
         /\ \A x \in Topics : DropIndirect(map, m, ss, cs)[x].direct = map[x].direct
<1> DEFINE entry(x) == [map[x] EXCEPT !.indirect =
              [c \in Clients |-> IF c \in cs THEN @[c] \ {m} ELSE @[c]]]
<1>1. \A x \in Topics : entry(x) \in InfoType /\ entry(x).direct = map[x].direct
  BY DEF Maps, InfoType
<1>2. \A x \in Topics : Pruned(entry(x)) \in InfoType
                        /\ Pruned(entry(x)).direct = map[x].direct
  BY <1>1, PrunedKeeps
<1> QED
  BY <1>2 DEF DropIndirect, Maps

----------------------------------------------------------------------------
(* What the operators on a client's table do to direct subscriptions.      *)

\* Dropping an absent subscription changes neither flag of a direct one.
LEMMA KeptKeeps ==
  ASSUME NEW d \in SubType
  PROVE  /\ Kept(d) \in SubType
         /\ Kept(d).direct = d.direct
         /\ d.direct => Kept(d).new = d.new
BY DEF Kept, Present, NoSub, SubType

\* remove_direct_subscription ends one direct subscription.
LEMMA RemoveDirectRemoves ==
  ASSUME NEW table \in Tables, NEW t \in Topics
  PROVE  /\ RemoveDirect(table, t) \in Tables
         /\ ~RemoveDirect(table, t)[t].direct
         /\ \A x \in Topics \ {t} : RemoveDirect(table, t)[x] = table[x]
<1> DEFINE d == [table[t] EXCEPT !.direct = FALSE]
<1>1. d \in SubType /\ d.direct = FALSE
  BY DEF Tables, SubType
<1>2. Kept(d) \in SubType /\ Kept(d).direct = d.direct
  BY <1>1, KeptKeeps
<1>3. RemoveDirect(table, t) = [table EXCEPT ![t] = Kept(d)]
  BY DEF RemoveDirect
<1> QED
  BY <1>1, <1>2, <1>3 DEF Tables

\* Indirect subscriptions come and go without touching direct ones.
LEMMA AddSourcesKeeps ==
  ASSUME NEW table \in Tables, NEW m \in Multis, NEW ss \in SUBSET Singles
  PROVE  /\ AddSources(table, m, ss) \in Tables
         /\ \A x \in Topics : /\ AddSources(table, m, ss)[x].direct = table[x].direct
                              /\ AddSources(table, m, ss)[x].new = table[x].new
BY DEF AddSources, Tables, SubType

LEMMA RemoveSourcesKeeps ==
  ASSUME NEW table \in Tables, NEW m, NEW ss \in SUBSET Singles
  PROVE  /\ RemoveSources(table, m, ss) \in Tables
         /\ \A x \in Topics :
              /\ RemoveSources(table, m, ss)[x].direct = table[x].direct
              /\ table[x].direct => RemoveSources(table, m, ss)[x].new = table[x].new
<1> DEFINE d(x) == [table[x] EXCEPT !.sources = @ \ {m}]
<1>1. \A x \in Topics : /\ d(x) \in SubType
                        /\ d(x).direct = table[x].direct /\ d(x).new = table[x].new
  BY DEF Tables, SubType
<1>2. \A x \in Topics : /\ Kept(d(x)) \in SubType
                        /\ Kept(d(x)).direct = table[x].direct
                        /\ table[x].direct => Kept(d(x)).new = table[x].new
  BY <1>1, KeptKeeps
<1> QED
  BY <1>2 DEF RemoveSources, Tables

----------------------------------------------------------------------------
(* The inductive invariant.                                                *)

Wiring ==
  /\ info \in Maps
  /\ subs \in [Clients -> Tables]
  /\ conn \in [Clients -> ConnType]
  /\ heard \in [Clients -> SUBSET Topics]
  /\ redis \in [Topics -> Values \cup {None}]
  /\ writes \in Nat /\ unpublished \subseteq Topics
  /\ \A t \in unpublished : redis[t] # None
  /\ buffer \in Seq(Messages) /\ channel \in Seq(Messages)
  /\ handler \in [pc : HandlerStates, topic : Topics \cup {None}, value : Values \cup {None},
                  to : SUBSET Clients, added : SUBSET Singles, removed : SUBSET Singles]

\* A task that is in the middle of a message has one.
Busy ==
  /\ handler.pc # "idle" => handler.topic \in Topics /\ handler.value \in Values
  /\ handler.pc \in {"expand", "fetch"} => handler.topic \in Multis
  /\ handler.topic \notin Multis => handler.added = {} /\ handler.removed = {}
  /\ \A c \in Clients : conn[c].pc \in {"read", "members", "register", "key"} =>
       conn[c].topic \in Topics

\* The map and the tables agree from the connection of a client to its removal
\* from the map, and its leaving task knows every topic to remove.
Agreement ==
  \A c \in Clients, t \in Topics :
    /\ conn[c].pc # "gone" => (c \in info[t].direct <=> subs[c][t].direct)
    /\ conn[c].pc = "gone" => c \notin info[t].direct
    /\ conn[c].pc = "off" => t \notin heard[c] /\ ~subs[c][t].direct
    /\ conn[c].pc = "leaving" /\ subs[c][t].direct => t \in conn[c].leaving

\* What a live client was told matches its table.
Answers ==
  \A c \in Clients, t \in Topics : Live(c) =>
    /\ t \in heard[c] => subs[c][t].direct
    /\ subs[c][t].direct /\ ~subs[c][t].new => t \in heard[c]

IInv == Wiring /\ Busy /\ Agreement /\ Answers

\* Initially nobody is connected.
LEMMA InitIInv == Init => IInv
<1> SUFFICES ASSUME Init PROVE IInv
  OBVIOUS
<1>1. Wiring
  BY SubscriptionsAssumption DEF Init, Wiring, Maps, Tables, InfoType, SubType, ConnType, NoInfo, NoSub,
     Off, At, Idle, ConnStates, HandlerStates
<1>2. Busy /\ Agreement /\ Answers
  BY DEF Init, Busy, Agreement, Answers, NoInfo, NoSub, Off, At, Idle, Live
<1> QED
  BY <1>1, <1>2 DEF IInv

\* A step that leaves the tables, the tasks and the answers alone.
LEMMA TablesUntouched ==
  ASSUME IInv, UNCHANGED <<info, subs, conn, heard, handler>>, Wiring'
  PROVE  IInv'
BY DEF IInv, Busy, Agreement, Answers, Live

\* A writer's SET.
LEMMA SetKeyKeepsIInv ==
  ASSUME IInv, NEW t \in Topics, NEW v \in Values, SetKey(t, v)
  PROVE  IInv'
<1>1. v # None
  BY SubscriptionsAssumption
<1>2. Wiring'
  BY <1>1 DEF IInv, Wiring, SetKey, queueVars
<1> QED
  BY <1>2, TablesUntouched DEF SetKey

\* A writer's PUBLISH and the updater's forwarding.
LEMMA QueuesKeepIInv ==
  ASSUME IInv, (\E t \in Topics : Publish(t)) \/ Forward
  PROVE  IInv'
<1>1. CASE \E t \in Topics : Publish(t)
  <2> PICK t \in Topics : Publish(t)
    BY <1>1
  <2> DEFINE rest == IF Len(buffer) = BufferSize THEN Tail(buffer) ELSE buffer
             u    == [topic |-> t, value |-> redis[t]]
  <2>1. u \in Messages
    BY DEF IInv, Wiring, Publish, Messages
  <2>2. rest \in Seq(Messages)
    BY SubscriptionsAssumption DEF IInv, Wiring
  <2>3. buffer' = Append(rest, u)
    BY DEF Publish
  <2>4. buffer' \in Seq(Messages)
    BY <2>1, <2>2, <2>3
  <2>5. Wiring'
    BY <2>4 DEF IInv, Wiring, Publish, clientVars
  <2> QED
    BY <2>5, TablesUntouched DEF Publish, clientVars
<1>2. CASE Forward
  <2>1. Head(buffer) \in Messages /\ Tail(buffer) \in Seq(Messages)
    BY <1>2 DEF Forward, IInv, Wiring
  <2>2. buffer' \in Seq(Messages) /\ channel' \in Seq(Messages)
    BY <1>2, <2>1 DEF Forward, IInv, Wiring
  <2>3. Wiring'
    BY <1>2, <2>2 DEF IInv, Wiring, Forward, redisVars, clientVars
  <2> QED
    BY <1>2, <2>3, TablesUntouched DEF Forward, clientVars
<1> QED
  BY <1>1, <1>2

\* A client connects, or its task moves on without touching a table.
LEMMA MoveKeepsIInv ==
  ASSUME IInv, NEW c \in Clients, NEW k \in ConnType,
         UNCHANGED <<redisVars, queueVars, info, subs, handler, heard, writes>>,
         conn' = [conn EXCEPT ![c] = k],
         conn[c].pc \notin {"gone", "leaving"},
         k.pc \in {"open", "read", "members", "register", "leaving"},
         k.pc = "leaving" => k.leaving = {t \in Topics : Present(subs[c][t])},
         k.pc \in {"read", "members", "register"} => k.topic \in Topics
  PROVE  IInv'
<1>1. /\ \A d \in Clients \ {c} : conn'[d] = conn[d]
      /\ conn'[c] = k
      /\ conn' \in [Clients -> ConnType]
  BY DEF IInv, Wiring
<1>2. Wiring'
  BY <1>1 DEF IInv, Wiring, redisVars, queueVars
<1>3. Busy'
  BY <1>1 DEF IInv, Busy
<1>4. Agreement'
  BY <1>1 DEF IInv, Agreement, Present
<1>5. Answers'
  <2>1. \A t \in Topics : conn[c].pc = "off" => t \notin heard[c] /\ ~subs[c][t].direct
    BY DEF IInv, Agreement
  <2>2. conn[c].pc # "off" => Live(c)
    BY DEF Live
  <2> QED
    BY <1>1, <2>1, <2>2 DEF IInv, Answers, Live
<1> QED
  BY <1>2, <1>3, <1>4, <1>5 DEF IInv

LEMMA ConnectionMovesKeepIInv ==
  ASSUME IInv, NEW c \in Clients,
         \/ Connect(c) \/ (\E t \in Topics : Subscribe(c, t))
         \/ ReadKey(c) \/ ReadMembers(c) \/ AlreadySubscribed(c) \/ WriteKey(c) \/ Disconnect(c)
  PROVE  IInv'
<1>1. UNCHANGED <<redisVars, queueVars, info, subs, handler, heard, writes>>
  BY DEF Connect, Subscribe, ReadKey, ReadMembers, AlreadySubscribed, WriteKey, Disconnect,
     clientVars
<1>2. CASE Connect(c) \/ AlreadySubscribed(c) \/ WriteKey(c)
  <2>1. conn' = [conn EXCEPT ![c] = Open] /\ conn[c].pc \in {"off", "register", "key"}
    BY <1>2 DEF Connect, AlreadySubscribed, WriteKey
  <2>2. Open \in ConnType /\ Open.pc = "open"
    BY DEF Open, At, ConnType, ConnStates
  <2> QED
    BY <1>1, <2>1, <2>2, MoveKeepsIInv
<1>3. CASE \E t \in Topics : Subscribe(c, t)
  <2> PICK t \in Topics : Subscribe(c, t)
    BY <1>3
  <2> DEFINE k == At("read", t, None, {})
  <2>1. conn' = [conn EXCEPT ![c] = k] /\ conn[c].pc = "open"
    BY DEF Subscribe
  <2>2. k \in ConnType /\ k.pc = "read" /\ k.topic \in Topics
    BY DEF At, ConnType, ConnStates
  <2> QED
    BY <1>1, <2>1, <2>2, MoveKeepsIInv
<1>4. CASE ReadKey(c)
  <2> DEFINE t == conn[c].topic
             v == redis[t]
             k == At(IF t \in Multis /\ v # None THEN "members" ELSE "register", t, v, {})
  <2>1. conn' = [conn EXCEPT ![c] = k] /\ conn[c].pc = "read"
    BY <1>4 DEF ReadKey
  <2>2. t \in Topics /\ v \in Values \cup {None}
    BY <2>1 DEF IInv, Busy, Wiring
  <2>3. k \in ConnType /\ k.pc \in {"members", "register"} /\ k.topic \in Topics
    BY <2>2 DEF At, ConnType, ConnStates
  <2> QED
    BY <1>1, <2>1, <2>3, MoveKeepsIInv
<1>5. CASE ReadMembers(c)
  <2> DEFINE k == [conn[c] EXCEPT !.pc = "register"]
  <2>1. conn' = [conn EXCEPT ![c] = k] /\ conn[c].pc = "members"
    BY <1>5 DEF ReadMembers
  <2>2. conn[c] \in ConnType /\ conn[c].topic \in Topics
    BY <2>1 DEF IInv, Busy, Wiring
  <2>3. k \in ConnType /\ k.pc = "register" /\ k.topic \in Topics
    BY <2>2 DEF ConnType, ConnStates
  <2> QED
    BY <1>1, <2>1, <2>3, MoveKeepsIInv
<1>6. CASE Disconnect(c)
  <2> DEFINE k == At("leaving", None, None, {t \in Topics : Present(subs[c][t])})
  <2>1. conn' = [conn EXCEPT ![c] = k] /\ conn[c].pc \notin {"off", "leaving", "gone"}
    BY <1>6 DEF Disconnect, Live
  <2>2. /\ k \in ConnType /\ k.pc = "leaving"
        /\ k.leaving = {t \in Topics : Present(subs[c][t])}
    BY DEF At, ConnType, ConnStates
  <2> QED
    BY <1>1, <2>1, <2>2, MoveKeepsIInv
<1> QED
  BY <1>2, <1>3, <1>4, <1>5, <1>6

\* A connection task changes its client's subscriptions: the map changes for
\* this client only, and with its table and what it is told.
LEMMA OwnChangeKeepsIInv ==
  ASSUME IInv, NEW c \in Clients,
         NEW map \in Maps, NEW table \in Tables, NEW h \in SUBSET Topics, NEW k \in ConnType,
         UNCHANGED <<redisVars, queueVars, handler, writes>>,
         info' = map,
         subs' = [subs EXCEPT ![c] = table],
         heard' = [heard EXCEPT ![c] = h],
         conn' = [conn EXCEPT ![c] = k],
         Live(c), k.pc \in {"open", "key"}, k.pc = "key" => k.topic \in Topics,
         \A t \in Topics, d \in Clients \ {c} : d \in map[t].direct <=> d \in info[t].direct,
         \A t \in Topics : c \in map[t].direct <=> table[t].direct,
         \A t \in Topics : t \in h => table[t].direct,
         \A t \in Topics : table[t].direct /\ ~table[t].new => t \in h
  PROVE  IInv'
<1>1. /\ \A d \in Clients \ {c} : /\ conn'[d] = conn[d] /\ subs'[d] = subs[d]
                                  /\ heard'[d] = heard[d]
      /\ conn'[c] = k /\ subs'[c] = table /\ heard'[c] = h
      /\ conn' \in [Clients -> ConnType] /\ subs' \in [Clients -> Tables]
      /\ heard' \in [Clients -> SUBSET Topics]
  BY DEF IInv, Wiring
<1>2. Wiring'
  BY <1>1 DEF IInv, Wiring, redisVars, queueVars
<1>3. Busy'
  BY <1>1 DEF IInv, Busy
<1>4. Agreement'
  BY <1>1 DEF IInv, Agreement
<1>5. Answers'
  BY <1>1 DEF IInv, Answers, Live
<1> QED
  BY <1>2, <1>3, <1>4, <1>5 DEF IInv

LEMMA RegisterWithValueKeepsIInv ==
  ASSUME IInv, NEW c \in Clients, RegisterWithValue(c)
  PROVE  IInv'
<1> DEFINE t     == conn[c].topic
           v     == conn[c].value
           table == [subs[c] EXCEPT ![t].direct = TRUE]
           map   == AddSubscription(info, t, c)
           h     == heard[c] \cup {t}
           k     == [conn[c] EXCEPT !.pc = "key"]
<1>1. /\ t \in Topics /\ v \in Values /\ v.list \in SUBSET Singles
      /\ Live(c) /\ conn[c] \in ConnType /\ subs[c] \in Tables
      /\ info \in Maps /\ h \in SUBSET Topics
  BY DEF RegisterWithValue, IInv, Wiring, Busy, Live, ConnType, Values
<1>2. k \in ConnType /\ k.pc = "key" /\ k.topic = t
  BY <1>1 DEF ConnType, ConnStates
<1>3. /\ map \in Maps
      /\ \A x \in Topics : map[x].direct =
           IF x = t THEN info[x].direct \cup {c} ELSE info[x].direct
  BY <1>1, AddSubscriptionAdds
<1>4. /\ table \in Tables
      /\ \A x \in Topics : /\ table[x].direct = (x = t \/ subs[c][x].direct)
                           /\ table[x].new = subs[c][x].new
  BY <1>1 DEF Tables, SubType
<1>5. /\ \A x \in Topics : c \in info[x].direct <=> subs[c][x].direct
      /\ \A x \in Topics : x \in heard[c] => subs[c][x].direct
      /\ \A x \in Topics : subs[c][x].direct /\ ~subs[c][x].new => x \in heard[c]
  BY <1>1 DEF IInv, Agreement, Answers, Live
<1>6. /\ UNCHANGED <<redisVars, queueVars, handler, writes>>
      /\ heard' = [heard EXCEPT ![c] = h]
      /\ conn' = [conn EXCEPT ![c] = k]
  BY DEF RegisterWithValue
<1>7. CASE t \in Multis
  <2> DEFINE listed == [map EXCEPT ![t].subtopics = v.list]
             map2   == AddIndirect(listed, t, v.list, {c})
             table2 == AddSources(table, t, v.list)
  <2>1. listed \in Maps /\ \A x \in Topics : listed[x].direct = map[x].direct
    BY <1>1, <1>3 DEF Maps, InfoType
  <2>2. map2 \in Maps /\ \A x \in Topics : map2[x].direct = map[x].direct
    <3>1. {c} \in SUBSET Clients
      OBVIOUS
    <3> HIDE DEF listed
    <3>2. /\ map2 \in Maps
          /\ \A x \in Topics : map2[x].direct = listed[x].direct
      BY <1>1, <1>7, <2>1, <3>1, AddIndirectKeeps
    <3> QED
      BY <2>1, <3>2
  <2>3. /\ table2 \in Tables
        /\ \A x \in Topics : table2[x].direct = table[x].direct /\ table2[x].new = table[x].new
    <3>1. v.list \in SUBSET Singles /\ table \in Tables
      BY <1>1, <1>4
    <3> HIDE DEF table
    <3> QED
      BY <1>1, <1>7, <3>1, AddSourcesKeeps
  <2>4. info' = map2 /\ subs' = [subs EXCEPT ![c] = table2]
    BY <1>7 DEF RegisterWithValue
  <2>5. /\ \A x \in Topics, d \in Clients \ {c} : d \in map2[x].direct <=> d \in info[x].direct
        /\ \A x \in Topics : c \in map2[x].direct <=> table2[x].direct
        /\ \A x \in Topics : x \in h => table2[x].direct
        /\ \A x \in Topics : table2[x].direct /\ ~table2[x].new => x \in h
    <3>1. \A x \in Topics : map2[x].direct = IF x = t THEN info[x].direct \cup {c} ELSE info[x].direct
      BY <1>3, <2>2
    <3>2. \A x \in Topics : /\ table2[x].direct = (x = t \/ subs[c][x].direct)
                              /\ table2[x].new = subs[c][x].new
      BY <1>4, <2>3
    <3> HIDE DEF map2, table2
    <3>3. \A x \in Topics, d \in Clients \ {c} : d \in map2[x].direct <=> d \in info[x].direct
      BY <3>1
    <3>5. \A x \in Topics : c \in map2[x].direct <=> table2[x].direct
      BY <1>5, <3>1, <3>2
    <3>4. /\ \A x \in Topics : x \in h => table2[x].direct
          /\ \A x \in Topics : table2[x].direct /\ ~table2[x].new => x \in h
      BY <1>5, <3>2
    <3> QED BY <3>3, <3>4, <3>5
  <2> HIDE DEF map2, table2, h, k
  <2> QED
    BY <1>1, <1>2, <1>6, <2>2, <2>3, <2>4, <2>5, OwnChangeKeepsIInv
<1>8. CASE t \notin Multis
  <2>1. info' = map /\ subs' = [subs EXCEPT ![c] = table]
    BY <1>8 DEF RegisterWithValue
  <2>2. /\ \A x \in Topics, d \in Clients \ {c} : d \in map[x].direct <=> d \in info[x].direct
        /\ \A x \in Topics : c \in map[x].direct <=> table[x].direct
        /\ \A x \in Topics : x \in h => table[x].direct
        /\ \A x \in Topics : table[x].direct /\ ~table[x].new => x \in h
    BY <1>3, <1>4, <1>5
  <2>3. k.pc \in {"open", "key"} /\ (k.pc = "key" => k.topic \in Topics)
    BY <1>1, <1>2
  <2>4. map \in Maps /\ table \in Tables /\ h \in SUBSET Topics /\ k \in ConnType
    BY <1>1, <1>2, <1>3, <1>4
  <2> HIDE DEF map, table, h, k
  <2> QED
    BY <1>1, <1>6, <2>1, <2>2, <2>3, <2>4, OwnChangeKeepsIInv
<1> QED
  BY <1>7, <1>8

LEMMA RegisterAsNewKeepsIInv ==
  ASSUME IInv, NEW c \in Clients, RegisterAsNew(c)
  PROVE  IInv'
<1> DEFINE t     == conn[c].topic
           table == [subs[c] EXCEPT ![t].direct = TRUE, ![t].new = TRUE]
           map   == AddSubscription(info, t, c)
           h     == heard[c]
           k     == [conn[c] EXCEPT !.pc = "key"]
<1>1. /\ t \in Topics /\ Live(c) /\ conn[c] \in ConnType /\ subs[c] \in Tables
      /\ info \in Maps /\ h \in SUBSET Topics
  BY DEF RegisterAsNew, IInv, Wiring, Busy, Live, ConnType
<1>2. k \in ConnType /\ k.pc = "key" /\ k.topic = t
  BY <1>1 DEF ConnType, ConnStates
<1>3. /\ map \in Maps
      /\ \A x \in Topics : map[x].direct =
           IF x = t THEN info[x].direct \cup {c} ELSE info[x].direct
  BY <1>1, AddSubscriptionAdds
<1>4. /\ table \in Tables
      /\ \A x \in Topics : /\ table[x].direct = (x = t \/ subs[c][x].direct)
                           /\ table[x].new = (x = t \/ subs[c][x].new)
  BY <1>1 DEF Tables, SubType
<1>5. /\ \A x \in Topics : c \in info[x].direct <=> subs[c][x].direct
      /\ \A x \in Topics : x \in heard[c] => subs[c][x].direct
      /\ \A x \in Topics : subs[c][x].direct /\ ~subs[c][x].new => x \in heard[c]
  BY <1>1 DEF IInv, Agreement, Answers, Live
<1>6. /\ UNCHANGED <<redisVars, queueVars, handler, writes>>
      /\ heard' = [heard EXCEPT ![c] = h]
      /\ conn' = [conn EXCEPT ![c] = k]
      /\ info' = map
      /\ subs' = [subs EXCEPT ![c] = table]
  BY <1>1 DEF RegisterAsNew, IInv, Wiring
<1>7. /\ \A x \in Topics, d \in Clients \ {c} : d \in map[x].direct <=> d \in info[x].direct
      /\ \A x \in Topics : c \in map[x].direct <=> table[x].direct
      /\ \A x \in Topics : x \in h => table[x].direct
      /\ \A x \in Topics : table[x].direct /\ ~table[x].new => x \in h
  BY <1>3, <1>4, <1>5
<1>8. k.pc \in {"open", "key"} /\ (k.pc = "key" => k.topic \in Topics)
  BY <1>1, <1>2
<1>9. map \in Maps /\ table \in Tables /\ h \in SUBSET Topics /\ k \in ConnType
  BY <1>1, <1>2, <1>3, <1>4
<1> HIDE DEF map, table, h, k
<1> QED
  BY <1>1, <1>6, <1>7, <1>8, <1>9, OwnChangeKeepsIInv

LEMMA UnsubscribeKeepsIInv ==
  ASSUME IInv, NEW c \in Clients, NEW t \in Topics, Unsubscribe(c, t)
  PROVE  IInv'
<1> DEFINE ss     == IF t \in Multis THEN info[t].subtopics ELSE {}
           table  == RemoveDirect(subs[c], t)
           table2 == RemoveSources(table, t, ss)
           map    == DropIndirect(info, t, ss, {c})
           map2   == RemoveSubscription(map, t, c)
           h      == heard[c] \ {t}
           k      == conn[c]
<1>1. /\ Live(c) /\ conn[c] \in ConnType /\ subs[c] \in Tables /\ conn[c].pc = "open"
      /\ info \in Maps /\ h \in SUBSET Topics /\ ss \in SUBSET Singles
  BY DEF Unsubscribe, IInv, Wiring, Live, Maps, InfoType
<1>2. /\ \A x \in Topics : c \in info[x].direct <=> subs[c][x].direct
      /\ \A x \in Topics : x \in heard[c] => subs[c][x].direct
      /\ \A x \in Topics : subs[c][x].direct /\ ~subs[c][x].new => x \in heard[c]
  BY <1>1 DEF IInv, Agreement, Answers, Live
<1>3. /\ UNCHANGED <<redisVars, queueVars, handler, writes>>
      /\ heard' = [heard EXCEPT ![c] = h]
      /\ conn' = [conn EXCEPT ![c] = k]
  BY <1>1 DEF Unsubscribe, IInv, Wiring
<1>4. CASE Present(subs[c][t])
  <2>1. table \in Tables /\ ~table[t].direct /\ \A x \in Topics \ {t} : table[x] = subs[c][x]
    BY <1>1, RemoveDirectRemoves
  <2>2. /\ table2 \in Tables
        /\ \A x \in Topics : /\ table2[x].direct = table[x].direct
                             /\ table[x].direct => table2[x].new = table[x].new
    BY <1>1, <2>1, RemoveSourcesKeeps
  <2>3. map \in Maps /\ \A x \in Topics : map[x].direct = info[x].direct
    <3>1. CASE t \in Multis
      <4>1. {c} \in SUBSET Clients
        OBVIOUS
      <4> HIDE DEF ss
      <4> QED
        BY <1>1, <3>1, <4>1, DropIndirectKeeps
    <3>2. CASE t \notin Multis
      <4>1. ss = {}
        BY <3>2
      <4>2. map = [x \in Topics |-> info[x]]
        BY <4>1 DEF DropIndirect
      <4> QED
        BY <1>1, <4>2 DEF Maps
    <3> QED
      BY <3>1, <3>2
  <2>4. /\ map2 \in Maps
        /\ \A x \in Topics : map2[x].direct =
             IF x = t THEN map[x].direct \ {c} ELSE map[x].direct
    <3>1. \A mm \in Maps :
            /\ RemoveSubscription(mm, t, c) \in Maps
            /\ \A x \in Topics : RemoveSubscription(mm, t, c)[x].direct =
                 IF x = t THEN mm[x].direct \ {c} ELSE mm[x].direct
      BY RemoveSubscriptionRemoves
    <3> HIDE DEF map
    <3> QED
      BY <2>3, <3>1
  <2>5. info' = map2 /\ subs' = [subs EXCEPT ![c] = table2]
    BY <1>4 DEF Unsubscribe
  <2>6. /\ \A x \in Topics, d \in Clients \ {c} : d \in map2[x].direct <=> d \in info[x].direct
        /\ \A x \in Topics : c \in map2[x].direct <=> table2[x].direct
        /\ \A x \in Topics : x \in h => table2[x].direct
        /\ \A x \in Topics : table2[x].direct /\ ~table2[x].new => x \in h
    <3>1. \A x \in Topics : map2[x].direct = IF x = t THEN info[x].direct \ {c} ELSE info[x].direct
      BY <2>3, <2>4
    <3>2. /\ ~table2[t].direct
          /\ \A x \in Topics \ {t} : /\ table2[x].direct = subs[c][x].direct
                                     /\ table2[x].direct => table2[x].new = subs[c][x].new
      BY <2>1, <2>2
    <3> HIDE DEF map2, table2
    <3>3. \A x \in Topics, d \in Clients \ {c} : d \in map2[x].direct <=> d \in info[x].direct
      BY <3>1
    <3>4. \A x \in Topics : c \in map2[x].direct <=> table2[x].direct
      BY <1>2, <3>1, <3>2
    <3>5. /\ \A x \in Topics : x \in h => table2[x].direct
          /\ \A x \in Topics : table2[x].direct /\ ~table2[x].new => x \in h
      BY <1>2, <3>2
    <3> QED BY <3>3, <3>4, <3>5
  <2> HIDE DEF map2, table2, h, k
  <2> QED
    BY <1>1, <1>3, <2>2, <2>4, <2>5, <2>6, OwnChangeKeepsIInv DEF k
<1>5. CASE ~Present(subs[c][t])
  <2>1. info' = info /\ subs' = [subs EXCEPT ![c] = subs[c]]
    BY <1>5 DEF Unsubscribe, IInv, Wiring
  <2>2. ~subs[c][t].direct
    BY <1>5 DEF Present
  <2>3. /\ \A x \in Topics : x \in h => subs[c][x].direct
        /\ \A x \in Topics : subs[c][x].direct /\ ~subs[c][x].new => x \in h
    BY <1>2, <2>2
  <2> HIDE DEF h, k
  <2> QED
    BY <1>1, <1>2, <1>3, <2>1, <2>3, OwnChangeKeepsIInv DEF k
<1> QED
  BY <1>4, <1>5

\* The leaving task removes its client from every topic it collected.
LEMMA LeaveKeepsIInv ==
  ASSUME IInv, NEW c \in Clients, Leave(c)
  PROVE  IInv'
<1> DEFINE gone   == conn[c].leaving
           direct == {t \in gone : subs[c][t].direct}
           via    == [s \in Topics |-> {m \in gone \cap Multis : s \in info[m].subtopics}]
           entry(t) == [direct |-> IF t \in direct THEN info[t].direct \ {c} ELSE info[t].direct,
                        indirect |-> [info[t].indirect EXCEPT ![c] = @ \ via[t]],
                        subtopics |-> info[t].subtopics]
           k      == At("gone", None, None, {})
<1>1. conn[c].pc = "leaving" /\ info \in Maps
  BY DEF Leave, IInv, Wiring
<1>2. \A t \in Topics :
        /\ entry(t) \in InfoType
        /\ entry(t).direct = IF t \in direct THEN info[t].direct \ {c} ELSE info[t].direct
  <2> TAKE t \in Topics
  <2>1. info[t] \in InfoType
    BY <1>1 DEF Maps
  <2>2. /\ info[t].direct \subseteq Clients
        /\ info[t].indirect \in [Clients -> SUBSET Multis]
        /\ info[t].subtopics \subseteq Singles
    BY <2>1 DEF InfoType
  <2>3. via[t] \subseteq Multis
    OBVIOUS
  <2> HIDE DEF direct, via
  <2> QED
    BY <2>2, <2>3 DEF InfoType
<1>3. \A t \in Topics : Pruned(entry(t)) \in InfoType /\ Pruned(entry(t)).direct = entry(t).direct
  <2> HIDE DEF entry, direct, via
  <2> QED
    BY <1>2, PrunedKeeps
<1>4. info' = [t \in Topics |-> IF t \in direct \/ via[t] # {} THEN Pruned(entry(t)) ELSE info[t]]
  BY DEF Leave
<1>5. /\ info' \in Maps
      /\ \A t \in Topics : info'[t].direct =
           IF t \in direct THEN info[t].direct \ {c} ELSE info[t].direct
  <2> HIDE DEF entry, direct, via
  <2> QED
    BY <1>1, <1>2, <1>3, <1>4 DEF Maps
<1>6. /\ UNCHANGED <<redisVars, queueVars, subs, handler, heard, writes>>
      /\ conn' = [conn EXCEPT ![c] = k]
  BY DEF Leave, clientVars
<1>7. k \in ConnType /\ k.pc = "gone"
  BY DEF At, ConnType, ConnStates
<1>8. /\ \A d \in Clients \ {c} : conn'[d] = conn[d]
      /\ conn'[c] = k /\ conn' \in [Clients -> ConnType]
  BY <1>6, <1>7 DEF IInv, Wiring
<1>9. \A t \in Topics : c \in info[t].direct => t \in direct
  BY <1>1 DEF IInv, Agreement
<1>10. \A t \in Topics : /\ c \notin info'[t].direct
                          /\ \A d \in Clients \ {c} : d \in info'[t].direct <=> d \in info[t].direct
  BY <1>5, <1>9
<1> HIDE DEF k
<1>11. Wiring'
  BY <1>5, <1>6, <1>8 DEF IInv, Wiring, redisVars, queueVars
<1>12. Busy'
  BY <1>6, <1>7, <1>8 DEF IInv, Busy
<1>13. Agreement'
  BY <1>6, <1>7, <1>8, <1>10 DEF IInv, Agreement
<1>14. Answers'
  BY <1>6, <1>7, <1>8 DEF IInv, Answers, Live
<1> QED
  BY <1>11, <1>12, <1>13, <1>14 DEF IInv

\* A step of the updates handler that touches no client's table.
LEMMA HandlerMoveKeepsIInv ==
  ASSUME IInv, Wiring', NEW map \in Maps, info' = map,
         \A t \in Topics : map[t].direct = info[t].direct,
         UNCHANGED <<subs, conn, heard>>,
         handler'.pc # "idle" => handler'.topic \in Topics /\ handler'.value \in Values,
         handler'.pc \in {"expand", "fetch"} => handler'.topic \in Multis,
         handler'.topic \notin Multis => handler'.added = {} /\ handler'.removed = {}
  PROVE  IInv'
<1>1. Busy'
  BY DEF IInv, Busy
<1>2. Agreement' /\ Answers'
  BY DEF IInv, Agreement, Answers, Live
<1> QED
  BY <1>1, <1>2 DEF IInv

LEMMA TakeUpdateKeepsIInv ==
  ASSUME IInv, TakeUpdate
  PROVE  IInv'
<1> DEFINE u == Head(channel)
<1>1. u \in Messages /\ Tail(channel) \in Seq(Messages)
  BY DEF TakeUpdate, IInv, Wiring
<1>2. u.topic \in Topics /\ u.value \in Values
  BY <1>1 DEF Messages
<1>3. SubscribedClients(u.topic) \subseteq Clients
  BY <1>2 DEF SubscribedClients, IInv, Wiring, Maps, InfoType
<1>4. \/ handler' = Idle
      \/ handler' = [pc |-> IF u.topic \in Multis THEN "expand" ELSE "collect",
                     topic |-> u.topic, value |-> u.value,
                     to |-> SubscribedClients(u.topic), added |-> {}, removed |-> {}]
  BY DEF TakeUpdate, Idle
<1> HIDE DEF u
<1>5. Wiring'
  BY <1>1, <1>2, <1>3, <1>4
     DEF TakeUpdate, Idle, HandlerStates, IInv, Wiring, redisVars, clientVars, u
<1>6. /\ handler'.pc # "idle" => handler'.topic \in Topics /\ handler'.value \in Values
      /\ handler'.pc \in {"expand", "fetch"} => handler'.topic \in Multis
      /\ handler'.topic \notin Multis => handler'.added = {} /\ handler'.removed = {}
  BY <1>2, <1>4 DEF Idle
<1>7. UNCHANGED <<info, subs, conn, heard>> /\ info \in Maps
  BY DEF TakeUpdate, clientVars, IInv, Wiring
<1> QED
  BY <1>5, <1>6, <1>7, HandlerMoveKeepsIInv

LEMMA ExpandKeepsIInv ==
  ASSUME IInv, Expand
  PROVE  IInv'
<1> DEFINE m       == handler.topic
           list    == handler.value.list
           added   == list \ info[m].subtopics
           removed == info[m].subtopics \ list
           listed  == [info EXCEPT ![m].subtopics = list]
           map     == AddIndirect(listed, m, added, handler.to)
           map2    == DropIndirect(map, m, removed, handler.to)
<1>1. /\ m \in Multis /\ m \in Topics /\ handler.value \in Values
      /\ handler.to \in SUBSET Clients /\ info \in Maps
  BY DEF Expand, IInv, Wiring, Busy, Topics
<1>2. list \in SUBSET Singles /\ added \in SUBSET Singles /\ removed \in SUBSET Singles
  BY <1>1 DEF Values, Maps, InfoType
<1>3. listed \in Maps /\ \A t \in Topics : listed[t].direct = info[t].direct
  BY <1>1, <1>2 DEF Maps, InfoType
<1>4. map \in Maps /\ \A t \in Topics : map[t].direct = listed[t].direct
  <2> HIDE DEF listed, added
  <2> QED
    BY <1>1, <1>2, <1>3, AddIndirectKeeps
<1>5. map2 \in Maps /\ \A t \in Topics : map2[t].direct = map[t].direct
  <2>1. \A mm \in Maps : LET r == DropIndirect(mm, m, removed, handler.to)
                         IN  r \in Maps /\ \A t \in Topics : r[t].direct = mm[t].direct
    <3> HIDE DEF removed
    <3> QED
      BY <1>1, <1>2, DropIndirectKeeps
  <2> HIDE DEF map
  <2> QED
    BY <1>4, <2>1
<1>6. info' = map2 /\ \A t \in Topics : map2[t].direct = info[t].direct
  <2>1. info' = map2
    BY DEF Expand
  <2> HIDE DEF map2, map, listed
  <2> QED
    BY <2>1, <1>3, <1>4, <1>5
<1>7. handler' = [handler EXCEPT !.pc = "fetch", !.added = added, !.removed = removed]
  BY DEF Expand
<1> HIDE DEF map2, map, listed, added, removed
<1>8. Wiring'
  BY <1>2, <1>5, <1>6, <1>7
     DEF Expand, HandlerStates, IInv, Wiring, redisVars, queueVars, clientVars
<1>9. /\ handler'.pc # "idle" => handler'.topic \in Topics /\ handler'.value \in Values
      /\ handler'.pc \in {"expand", "fetch"} => handler'.topic \in Multis
      /\ handler'.topic \notin Multis => handler'.added = {} /\ handler'.removed = {}
  BY <1>1, <1>7 DEF IInv, Wiring
<1>10. UNCHANGED <<subs, conn, heard>>
  BY DEF Expand, clientVars
<1> QED
  BY <1>5, <1>6, <1>8, <1>9, <1>10, HandlerMoveKeepsIInv

LEMMA HandlerStepsKeepIInv ==
  ASSUME IInv, FetchMembers \/ FailFetch \/ Collect
  PROVE  IInv'
<1>1. handler.pc \in {"fetch", "collect"}
  BY DEF FetchMembers, FailFetch, Collect
<1>2. \/ handler' = Idle
      \/ handler' = [handler EXCEPT !.pc = "collect"]
      \/ \E found \in SUBSET handler.to : handler' = [handler EXCEPT !.pc = "send", !.to = found]
  BY DEF FetchMembers, FailFetch, Collect
<1>3. UNCHANGED <<redisVars, queueVars, info, subs, conn, heard, writes>>
  BY DEF FetchMembers, FailFetch, Collect, clientVars
<1>4. Wiring'
  <2> DEFINE H == [pc : HandlerStates, topic : Topics \cup {None}, value : Values \cup {None},
                   to : SUBSET Clients, added : SUBSET Singles, removed : SUBSET Singles]
  <2>1. handler \in H
    BY DEF IInv, Wiring
  <2>2. CASE handler' = Idle
    BY <1>3, <2>2 DEF Idle, HandlerStates, IInv, Wiring, redisVars, queueVars
  <2>3. CASE handler' # Idle
    <3>1. handler' \in H
      BY <1>2, <2>1, <2>3 DEF HandlerStates
    <3> HIDE DEF H
    <3> QED
      BY <1>3, <3>1 DEF IInv, Wiring, redisVars, queueVars, H
  <2> QED
    BY <2>2, <2>3
<1>5. /\ handler'.pc # "idle" => handler'.topic \in Topics /\ handler'.value \in Values
      /\ handler'.pc \in {"expand", "fetch"} => handler'.topic \in Multis
      /\ handler'.topic \notin Multis => handler'.added = {} /\ handler'.removed = {}
  <2>1. CASE handler' = Idle
    BY <2>1 DEF Idle, IInv, Busy
  <2>2. CASE handler' # Idle
    <3>1. /\ handler'.pc \in {"collect", "send"} /\ handler'.topic = handler.topic
          /\ handler'.value = handler.value
          /\ handler'.added = handler.added /\ handler'.removed = handler.removed
      BY <1>2, <2>2 DEF IInv, Wiring
    <3> QED
      BY <1>1, <3>1 DEF IInv, Busy
  <2> QED
    BY <2>1, <2>2
<1> QED
  BY <1>3, <1>4, <1>5, HandlerMoveKeepsIInv DEF IInv, Wiring

\* The broadcast to one client changes its indirect subscriptions and answers
\* a subscription that was waiting for a value.
LEMMA SendToKeepsIInv ==
  ASSUME IInv, NEW c \in Clients, SendTo(c)
  PROVE  IInv'
<1> DEFINE t      == handler.topic
           first  == AddSources(subs[c], t, handler.added)
           table  == RemoveSources(first, t, handler.removed)
           table2 == IF table[t].direct THEN [table EXCEPT ![t].new = FALSE] ELSE table
           told_it == Live(c) /\ table[t].direct /\ table[t].new
           h      == IF told_it THEN heard[c] \cup {t} ELSE heard[c]
<1>1. /\ t \in Topics /\ subs[c] \in Tables /\ heard[c] \subseteq Topics
      /\ handler.added \in SUBSET Singles /\ handler.removed \in SUBSET Singles
      /\ t \notin Multis => handler.added = {}
  BY DEF SendTo, IInv, Wiring, Busy
<1>2. /\ first \in Tables
      /\ \A x \in Topics : first[x].direct = subs[c][x].direct /\ first[x].new = subs[c][x].new
  <2>1. CASE t \in Multis
    BY <1>1, <2>1, AddSourcesKeeps
  <2>2. CASE t \notin Multis
    <3>1. first = [x \in Topics |-> subs[c][x]]
      BY <1>1, <2>2 DEF AddSources
    <3> QED
      BY <1>1, <3>1 DEF Tables
  <2> QED
    BY <2>1, <2>2
<1>3. /\ table \in Tables
      /\ \A x \in Topics : /\ table[x].direct = first[x].direct
                           /\ first[x].direct => table[x].new = first[x].new
  <2> HIDE DEF first
  <2> QED
    BY <1>1, <1>2, RemoveSourcesKeeps
<1>4. /\ subs' = [subs EXCEPT ![c] = table2]
      /\ heard' = [heard EXCEPT ![c] = h]
      /\ UNCHANGED <<redisVars, queueVars, info, conn, writes>>
  BY DEF SendTo, IInv, Wiring
<1> HIDE DEF first, table
<1>5. /\ table2 \in Tables
      /\ \A x \in Topics : table2[x].direct = subs[c][x].direct
      /\ \A x \in Topics \ {t} : subs[c][x].direct => table2[x].new = subs[c][x].new
  <2>1. CASE ~table[t].direct
    BY <1>2, <1>3, <2>1
  <2>2. CASE table[t].direct
    <3> DEFINE d == [table[t] EXCEPT !.new = FALSE]
    <3>1. table2 = [table EXCEPT ![t] = d]
      BY <2>2
    <3>2. d \in SubType /\ d.direct = table[t].direct
      <4>1. table[t] \in SubType
        BY <1>1, <1>3 DEF Tables
      <4>2. \A x \in SubType : LET y == [x EXCEPT !.new = FALSE]
                              IN  y \in SubType /\ y.direct = x.direct
        BY DEF SubType
      <4> QED
        BY <4>1, <4>2
    <3> HIDE DEF d, table2
    <3>3. /\ table2 \in Tables /\ table2[t] = d
          /\ \A x \in Topics \ {t} : table2[x] = table[x]
      BY <1>1, <1>3, <3>1, <3>2 DEF Tables
    <3> QED
      BY <1>1, <1>2, <1>3, <3>2, <3>3
  <2> QED
    BY <2>1, <2>2
<1>6. Live(c) => /\ \A x \in Topics : x \in heard[c] => subs[c][x].direct
                 /\ \A x \in Topics : subs[c][x].direct /\ ~subs[c][x].new => x \in heard[c]
  BY DEF IInv, Answers
<1>7. Live(c) => /\ \A x \in Topics : x \in h => table2[x].direct
                 /\ \A x \in Topics : table2[x].direct /\ ~table2[x].new => x \in h
  <2> SUFFICES ASSUME Live(c), NEW x \in Topics
               PROVE  /\ x \in h => table2[x].direct
                      /\ table2[x].direct /\ ~table2[x].new => x \in h
    OBVIOUS
  <2>1. x \in h => table2[x].direct
    BY <1>2, <1>3, <1>5, <1>6
  <2>2. CASE x = t
    BY <1>1, <1>2, <1>3, <1>5, <1>6, <2>1, <2>2
  <2>3. CASE x # t
    BY <1>1, <1>5, <1>6, <2>1, <2>3
  <2> QED
    BY <2>2, <2>3
<1>8. ~Live(c) => h = heard[c]
  OBVIOUS
<1>9. h \subseteq Topics
  BY <1>1
<1> HIDE DEF table2, h
<1>10. /\ \A d \in Clients \ {c} : subs'[d] = subs[d] /\ heard'[d] = heard[d]
       /\ subs'[c] = table2 /\ heard'[c] = h
       /\ subs' \in [Clients -> Tables] /\ heard' \in [Clients -> SUBSET Topics]
  BY <1>4, <1>5, <1>9 DEF IInv, Wiring
<1>11. handler' = Idle \/ \E to \in SUBSET handler.to : handler' = [handler EXCEPT !.to = to]
  BY DEF SendTo
<1>12. Wiring' /\ Busy'
  <2> DEFINE H == [pc : HandlerStates, topic : Topics \cup {None}, value : Values \cup {None},
                   to : SUBSET Clients, added : SUBSET Singles, removed : SUBSET Singles]
  <2>1. handler \in H /\ handler.pc = "send"
    BY DEF IInv, Wiring, SendTo
  <2>2. Idle \in H /\ Idle.pc = "idle" /\ Idle.added = {} /\ Idle.removed = {}
    BY DEF Idle, HandlerStates
  <2>3. /\ handler' \in H
        /\ \/ handler' = Idle
           \/ /\ handler'.pc = "send" /\ handler'.topic = handler.topic
              /\ handler'.value = handler.value
              /\ handler'.added = handler.added /\ handler'.removed = handler.removed
    BY <1>11, <2>1, <2>2
  <2>4. Wiring'
    <3> HIDE DEF H
    <3> QED
      BY <1>4, <1>10, <2>3 DEF IInv, Wiring, redisVars, queueVars, H
  <2>5. Busy'
    BY <1>4, <2>1, <2>2, <2>3 DEF IInv, Busy
  <2> QED
    BY <2>4, <2>5
<1>13. Agreement'
  <2>1. Live(c) => conn[c].pc # "off"
    BY DEF Live
  <2>2. conn[c].pc = "off" => h = heard[c]
    BY <1>8, <2>1
  <2> QED
    BY <1>4, <1>5, <1>10, <2>2 DEF IInv, Agreement
<1>14. Answers'
  BY <1>4, <1>7, <1>10 DEF IInv, Answers, Live
<1> QED
  BY <1>12, <1>13, <1>14 DEF IInv

----------------------------------------------------------------------------
(* Every step keeps the invariant.                                         *)

LEMMA NextKeepsIInv ==
  ASSUME IInv, [Next]_vars
  PROVE  IInv'
<1>1. CASE SetSingle
  <2> PICK s \in Singles, v \in {Null, Entry(writes + 1)} : SetKey(s, v)
    BY <1>1 DEF SetSingle
  <2>1. s \in Topics /\ v \in Values
    BY DEF Topics, Values, Null, Entry, IInv, Wiring
  <2> QED
    BY <2>1, SetKeyKeepsIInv
<1>2. CASE SetMulti
  <2> PICK m \in Multis, ss \in SUBSET Singles : SetKey(m, List(ss))
    BY <1>2 DEF SetMulti
  <2>1. m \in Topics /\ List(ss) \in Values
    BY DEF Topics, Values, List
  <2> QED
    BY <2>1, SetKeyKeepsIInv
<1>3. CASE (\E t \in Topics : Publish(t)) \/ Forward
  BY <1>3, QueuesKeepIInv
<1>4. CASE Handler
  BY <1>4, TakeUpdateKeepsIInv, ExpandKeepsIInv, HandlerStepsKeepIInv, SendToKeepsIInv
     DEF Handler
<1>5. CASE \E c \in Clients : Client(c)
  BY <1>5, ConnectionMovesKeepIInv, UnsubscribeKeepsIInv DEF Client
<1>6. CASE \E c \in Clients : Connection(c)
  BY <1>6, ConnectionMovesKeepIInv, RegisterWithValueKeepsIInv, RegisterAsNewKeepsIInv,
     LeaveKeepsIInv DEF Connection
<1>7. CASE UNCHANGED vars
  <2>1. Wiring'
    BY <1>7 DEF IInv, Wiring, vars, redisVars, queueVars, clientVars
  <2> QED
    BY <1>7, <2>1, TablesUntouched DEF vars, clientVars
<1> QED
  BY <1>1, <1>2, <1>3, <1>4, <1>5, <1>6, <1>7 DEF Next, Writer

\* The invariant holds in every behaviour.
THEOREM Invariant == Spec => []IInv
<1>1. Init => IInv
  BY InitIInv
<1>2. IInv /\ [Next]_vars => IInv'
  BY NextKeepsIInv
<1> QED
  BY <1>1, <1>2, PTL DEF Spec

\* ClientIdsByTopics and Client.subscriptions agree on who is subscribed.
THEOREM DirectSubscriptionsAgree == Spec => []DirectAgrees
<1>1. IInv => DirectAgrees
  BY DEF IInv, Agreement, DirectAgrees, Live
<1> QED
  BY <1>1, Invariant, PTL

\* on_disconnect leaves no direct subscription behind.
THEOREM GoneAreForgotten == Spec => []GoneIsForgotten
<1>1. IInv => GoneIsForgotten
  BY DEF IInv, Agreement, GoneIsForgotten
<1> QED
  BY <1>1, Invariant, PTL

\* A client that got a "subscribed" message stays registered until it
\* unsubscribes or leaves.
THEOREM HeardAreRegistered == Spec => []HeardIsRegistered
<1>1. IInv => HeardIsRegistered
  BY DEF IInv, Wiring, Agreement, Answers, HeardIsRegistered, Live
<1> QED
  BY <1>1, Invariant, PTL

\* A direct subscription that gets updates is one the client was told of, and
\* was not told the end of; the indirect entries of its table are another matter.
THEOREM DirectIsAnswered == Spec => []DirectUpdatesAnswered
<1>1. IInv => DirectUpdatesAnswered
  BY DEF IInv, Answers, DirectUpdatesAnswered
<1> QED
  BY <1>1, Invariant, PTL

----------------------------------------------------------------------------
(* Types and bounds.                                                       *)

Bounds ==
  /\ Len(buffer) <= BufferSize /\ Len(channel) <= ChannelSize /\ lagged \in BOOLEAN
  /\ told \in [Clients -> [Singles -> Values \cup {None}]]
  /\ renewed \subseteq Clients \X Singles
  /\ writes <= MaxWrites /\ errors \in 0..MaxErrors

LEMMA InitBounds == Init => Bounds
<1>1. /\ BufferSize \in Nat \ {0} /\ ChannelSize \in Nat \ {0}
      /\ MaxWrites \in Nat /\ MaxErrors \in Nat
  BY SubscriptionsAssumption
<1>2. Len(<< >>) = 0
  OBVIOUS
<1> SUFFICES ASSUME Init PROVE Bounds
  OBVIOUS
<1>3. Len(buffer) <= BufferSize /\ Len(channel) <= ChannelSize
  BY <1>1, <1>2 DEF Init
<1>4. /\ lagged \in BOOLEAN /\ renewed \subseteq Clients \X Singles
      /\ told \in [Clients -> [Singles -> Values \cup {None}]]
  BY DEF Init
<1>5. writes <= MaxWrites /\ errors \in 0..MaxErrors
  BY <1>1 DEF Init
<1> QED
  BY <1>3, <1>4, <1>5 DEF Bounds

\* The queues stay within their sizes.
LEMMA QueueBounds ==
  ASSUME IInv, Bounds, (\E t \in Topics : Publish(t)) \/ Forward \/ TakeUpdate
  PROVE  Bounds'
<1>1. /\ buffer \in Seq(Messages) /\ channel \in Seq(Messages)
      /\ BufferSize \in Nat \ {0} /\ ChannelSize \in Nat \ {0}
  BY SubscriptionsAssumption DEF IInv, Wiring
<1>2. ASSUME NEW t \in Topics, Publish(t)
      PROVE  Bounds'
  <2> DEFINE rest == IF Len(buffer) = BufferSize THEN Tail(buffer) ELSE buffer
             u    == [topic |-> t, value |-> redis[t]]
  <2>1. u \in Messages
    BY <1>2 DEF IInv, Wiring, Publish, Messages
  <2>2. rest \in Seq(Messages) /\ Len(rest) < BufferSize
    BY <1>1 DEF Bounds
  <2>3. buffer' = Append(rest, u)
    BY <1>2 DEF Publish
  <2> HIDE DEF rest, u
  <2>4. Len(buffer') <= BufferSize
    BY <1>1, <2>1, <2>2, <2>3
  <2> QED
    BY <1>2, <2>4 DEF Bounds, Publish, clientVars
<1>3. CASE Forward
  <2>1. /\ Head(buffer) \in Messages /\ channel' = Append(channel, Head(buffer))
        /\ buffer' = Tail(buffer) /\ Len(channel) < ChannelSize /\ buffer # << >>
    BY <1>1, <1>3 DEF Forward
  <2>2. Len(channel') <= ChannelSize /\ Len(buffer') <= BufferSize
    BY <1>1, <2>1 DEF Bounds
  <2> QED
    BY <1>3, <2>2 DEF Bounds, Forward, clientVars
<1>4. CASE TakeUpdate
  <2>1. Len(channel') <= ChannelSize
    BY <1>1, <1>4 DEF TakeUpdate, Bounds
  <2> QED
    BY <1>4, <2>1 DEF Bounds, TakeUpdate, clientVars
<1> QED
  BY <1>2, <1>3, <1>4

LEMMA NextKeepsBounds ==
  ASSUME IInv, Bounds, [Next]_vars
  PROVE  Bounds'
<1>1. ASSUME NEW t \in Topics, NEW v, SetKey(t, v)
      PROVE  Bounds'
  <2>1. info[t].direct \subseteq Clients
    BY DEF IInv, Wiring, Maps, InfoType
  <2>2. renewed' \subseteq Clients \X Singles
    BY <1>1, <2>1 DEF SetKey, Bounds
  <2>3. writes' <= MaxWrites
    BY <1>1, SubscriptionsAssumption DEF SetKey, IInv, Wiring
  <2> QED
    BY <1>1, <2>2, <2>3 DEF SetKey, Bounds, queueVars
<1>2. CASE Writer
  BY <1>1, <1>2, QueueBounds DEF Writer, SetSingle, SetMulti, Topics
<1>3. CASE Forward
  BY <1>3, QueueBounds
<1>4. CASE Handler
  <2>1. CASE TakeUpdate
    BY <2>1, QueueBounds
  <2>2. CASE FailFetch
    BY <2>2, SubscriptionsAssumption DEF FailFetch, Bounds, queueVars, clientVars
  <2>3. CASE Expand \/ FetchMembers \/ Collect
    BY <2>3 DEF Expand, FetchMembers, Collect, Bounds, queueVars, clientVars
  <2>4. ASSUME NEW c \in Clients, SendTo(c)
        PROVE  Bounds'
    <3>1. handler.value \in Values
      BY <2>4 DEF SendTo, IInv, Busy
    <3>2. \/ told' = [told EXCEPT ![c][handler.topic] = handler.value] /\ handler.topic \in Singles
          \/ told' = told
      BY <2>4 DEF SendTo
    <3>3. told' \in [Clients -> [Singles -> Values \cup {None}]]
      BY <3>1, <3>2 DEF Bounds
    <3> QED
      BY <2>4, <3>3 DEF SendTo, Bounds, queueVars
  <2> QED
    BY <1>4, <2>1, <2>2, <2>3, <2>4 DEF Handler
<1>5. ASSUME NEW c \in Clients, Client(c) \/ Connection(c)
      PROVE  Bounds'
  <2>1. CASE RegisterWithValue(c)
    <3>1. conn[c].value \in Values \cup {None}
      BY DEF IInv, Wiring, ConnType
    <3>2. told' \in [Clients -> [Singles -> Values \cup {None}]]
      BY <2>1, <3>1 DEF RegisterWithValue, Bounds
    <3> QED
      BY <2>1, <3>2 DEF RegisterWithValue, Bounds, queueVars
  <2>2. CASE RegisterAsNew(c) \/ \E t \in Topics : Unsubscribe(c, t)
    BY <2>2 DEF RegisterAsNew, Unsubscribe, Bounds, queueVars
  <2>3. CASE \/ Connect(c) \/ Disconnect(c) \/ (\E t \in Topics : Subscribe(c, t))
             \/ ReadKey(c) \/ ReadMembers(c) \/ AlreadySubscribed(c) \/ WriteKey(c) \/ Leave(c)
    BY <2>3 DEF Connect, Disconnect, Subscribe, ReadKey, ReadMembers, AlreadySubscribed,
       WriteKey, Leave, Bounds, queueVars, clientVars
  <2> QED
    BY <1>5, <2>1, <2>2, <2>3 DEF Client, Connection
<1>6. CASE UNCHANGED vars
  BY <1>6 DEF vars, Bounds, queueVars, clientVars
<1> QED
  BY <1>2, <1>3, <1>4, <1>5, <1>6 DEF Next

\* The maps, the tables, the tasks and the queues keep their types, and the
\* queues their sizes: a publication that does not fit displaces the oldest
\* one, and the updater waits for the handler (updater.rs, websocket.rs).
THEOREM TypeCorrect == Spec => []TypeOK
<1>1. Init => IInv /\ Bounds
  BY InitIInv, InitBounds
<1>2. IInv /\ Bounds /\ [Next]_vars => Bounds'
  BY NextKeepsBounds
<1>3. IInv /\ Bounds => TypeOK
  BY SubscriptionsAssumption
     DEF IInv, Bounds, Wiring, TypeOK, Maps, Tables, InfoType, SubType, ConnType
<1> QED
  BY <1>1, <1>2, <1>3, Invariant, PTL DEF Spec

----------------------------------------------------------------------------
(* Delivery: what was written after a registration is on its way.          *)

Mentions(q, s) == \E i \in 1..Len(q) : q[i].topic = s

\* The last message of q about s carries v.
EndsWith(q, s, v) ==
  \E i \in 1..Len(q) : /\ q[i].topic = s /\ q[i].value = v
                       /\ \A j \in 1..Len(q) : i < j => q[j].topic # s

Handling(c, s) == handler.topic = s /\ c \in handler.to

\* The value of a topic is unpublished, or the last one about it in the queues,
\* or in the hands of the updates handler, or with the client already.
OnItsWay(c, s) ==
  \/ s \in unpublished
  \/ EndsWith(buffer, s, redis[s])
  \/ /\ ~Mentions(buffer, s)
     /\ \/ EndsWith(channel, s, redis[s])
        \/ /\ ~Mentions(channel, s)
           /\ IF Handling(c, s) THEN handler.value = redis[s] ELSE told[c][s] = redis[s]

Delivery ==
  /\ handler.pc = "idle" => handler.to = {}
  /\ \A c \in Clients, s \in Singles : <<c, s>> \in renewed =>
       /\ conn[c].pc \in {"leaving", "gone"} \/ subs[c][s].direct
       /\ Live(c) /\ ~lagged => OnItsWay(c, s)

\* A message about another topic changes nothing for this one.
LEMMA AppendOther ==
  ASSUME NEW q \in Seq(Messages), NEW u \in Messages, NEW s, u.topic # s
  PROVE  /\ \A v : EndsWith(q, s, v) => EndsWith(Append(q, u), s, v)
         /\ ~Mentions(q, s) => ~Mentions(Append(q, u), s)
<1> DEFINE p == Append(q, u)
<1>1. /\ Len(p) = Len(q) + 1 /\ Len(q) \in Nat
      /\ \A i \in 1..Len(q) : p[i] = q[i] /\ p[Len(q) + 1] = u
      /\ p[Len(q) + 1] = u
  OBVIOUS
<1> HIDE DEF p
<1>2. \A i \in 1..Len(p) : i \in 1..Len(q) \/ i = Len(q) + 1
  BY <1>1
<1>3. ASSUME NEW v, EndsWith(q, s, v)
      PROVE  EndsWith(p, s, v)
  BY <1>1, <1>2, <1>3 DEF EndsWith
<1>4. ~Mentions(q, s) => ~Mentions(p, s)
  BY <1>1, <1>2 DEF Mentions
<1> QED
  BY <1>3, <1>4 DEF p

\* The newest message is the last one about its topic.
LEMMA AppendOwn ==
  ASSUME NEW q \in Seq(Messages), NEW u \in Messages
  PROVE  EndsWith(Append(q, u), u.topic, u.value)
<1> DEFINE p == Append(q, u)
<1>1. Len(p) = Len(q) + 1 /\ Len(q) \in Nat /\ p[Len(q) + 1] = u
  OBVIOUS
<1> HIDE DEF p
<1>2. Len(q) + 1 \in 1..Len(p) /\ \A j \in 1..Len(p) : ~(Len(q) + 1 < j)
  BY <1>1
<1> QED
  BY <1>1, <1>2 DEF EndsWith, p

\* Taking the oldest message leaves the last one about a topic, or was it.
LEMMA TakeOldest ==
  ASSUME NEW q \in Seq(Messages), q # << >>, NEW s
  PROVE  /\ \A v : EndsWith(q, s, v) =>
              \/ EndsWith(Tail(q), s, v)
              \/ Head(q).topic = s /\ Head(q).value = v /\ ~Mentions(Tail(q), s)
         /\ ~Mentions(q, s) => ~Mentions(Tail(q), s) /\ Head(q).topic # s
<1> DEFINE p == Tail(q)
<1>1. /\ Len(p) = Len(q) - 1 /\ Len(q) \in Nat \ {0} /\ Head(q) = q[1]
      /\ \A i \in 1..Len(p) : p[i] = q[i + 1]
  OBVIOUS
<1> HIDE DEF p
<1>2. /\ \A i \in 1..Len(p) : i + 1 \in 1..Len(q)
      /\ \A i \in 1..Len(q) : i = 1 \/ (i - 1 \in 1..Len(p) /\ p[i - 1] = q[i])
  BY <1>1
<1>3. ASSUME NEW v, EndsWith(q, s, v)
      PROVE  EndsWith(p, s, v) \/ (q[1].topic = s /\ q[1].value = v /\ ~Mentions(p, s))
  <2>1. PICK i \in 1..Len(q) : /\ q[i].topic = s /\ q[i].value = v
                               /\ \A j \in 1..Len(q) : i < j => q[j].topic # s
    BY <1>3 DEF EndsWith
  <2>2. CASE i = 1
    <3>1. \A j \in 1..Len(p) : p[j].topic # s
      BY <1>1, <1>2, <2>1, <2>2
    <3> QED
      BY <2>1, <2>2, <3>1 DEF Mentions
  <2>3. CASE i # 1
    <3>1. i - 1 \in 1..Len(p) /\ p[i - 1].topic = s /\ p[i - 1].value = v
      BY <1>2, <2>1, <2>3
    <3>2. \A j \in 1..Len(p) : i - 1 < j => p[j].topic # s
      <4> SUFFICES ASSUME NEW j \in 1..Len(p), i - 1 < j
                   PROVE  p[j].topic # s
        OBVIOUS
      <4>1. j + 1 \in 1..Len(q) /\ i < j + 1 /\ p[j] = q[j + 1]
        BY <1>1, <1>2
      <4> QED
        BY <2>1, <4>1
    <3> QED
      BY <3>1, <3>2 DEF EndsWith
  <2> QED
    BY <2>2, <2>3
<1>4. ~Mentions(q, s) => ~Mentions(p, s) /\ q[1].topic # s
  BY <1>1, <1>2 DEF Mentions
<1> QED
  BY <1>1, <1>3, <1>4 DEF p

\* What touches neither the queues, the handler nor the client keeps it so.
LEMMA OnItsWayKept ==
  ASSUME NEW c \in Clients, NEW s \in Singles, OnItsWay(c, s),
         UNCHANGED <<redis, unpublished, buffer, channel>>,
         handler'.topic = handler.topic, handler'.value = handler.value,
         c \in handler'.to <=> c \in handler.to,
         told'[c][s] = told[c][s]
  PROVE  OnItsWay(c, s)'
BY DEF OnItsWay, Handling

\* A step of a connection task, or of nobody: no pair is renewed, and what the
\* client of a renewed one was told and subscribed to stays.
LEMMA DeliveryKept ==
  ASSUME Delivery, UNCHANGED <<redisVars, queueVars, handler>>, renewed' \subseteq renewed,
         \A c \in Clients, s \in Singles : <<c, s>> \in renewed' =>
           /\ told'[c][s] = told[c][s]
           /\ subs[c][s].direct => subs'[c][s].direct
           /\ conn[c].pc \in {"leaving", "gone"} => conn'[c].pc \in {"leaving", "gone"}
           /\ Live(c)' => Live(c) \/ ~subs[c][s].direct
  PROVE  Delivery'
<1>1. handler'.pc = "idle" => handler'.to = {}
  BY DEF Delivery
<1> SUFFICES ASSUME NEW c \in Clients, NEW s \in Singles, <<c, s>> \in renewed'
             PROVE  /\ conn'[c].pc \in {"leaving", "gone"} \/ subs'[c][s].direct
                    /\ Live(c)' /\ ~lagged' => OnItsWay(c, s)'
  BY <1>1 DEF Delivery
<1>2. /\ conn[c].pc \in {"leaving", "gone"} \/ subs[c][s].direct
      /\ Live(c) /\ ~lagged => OnItsWay(c, s)
  BY DEF Delivery
<1>3. Live(c)' => Live(c)
  BY <1>2 DEF Live
<1>4. UNCHANGED <<redis, unpublished, buffer, channel, lagged>>
  BY DEF redisVars, queueVars
<1> QED
  BY <1>2, <1>3, <1>4, OnItsWayKept

----------------------------------------------------------------------------
(* Every step keeps what is on its way.                                    *)

LEMMA SetKeyDelivers ==
  ASSUME IInv, Delivery, NEW t \in Topics, NEW v, SetKey(t, v)
  PROVE  Delivery'
<1>1. /\ UNCHANGED <<queueVars, info, subs, conn, handler, heard, told>>
      /\ redis' = [redis EXCEPT ![t] = v] /\ unpublished' = unpublished \cup {t}
      /\ renewed' = renewed \cup (info[t].direct \X ({t} \cap Singles))
  BY DEF SetKey
<1> SUFFICES ASSUME NEW c \in Clients, NEW s \in Singles, <<c, s>> \in renewed'
             PROVE  /\ conn[c].pc \in {"leaving", "gone"} \/ subs[c][s].direct
                    /\ Live(c) /\ ~lagged => OnItsWay(c, s)'
  BY <1>1 DEF Delivery, queueVars, Live
<1>2. CASE s = t
  <2>1. <<c, s>> \in renewed \/ c \in info[t].direct
    BY <1>1
  <2>2. conn[c].pc \in {"leaving", "gone"} \/ subs[c][s].direct
    BY <1>2, <2>1 DEF Delivery, IInv, Agreement
  <2>3. OnItsWay(c, s)'
    BY <1>1, <1>2 DEF OnItsWay
  <2> QED
    BY <2>2, <2>3
<1>3. CASE s # t
  <2>1. <<c, s>> \in renewed /\ redis'[s] = redis[s]
    BY <1>1, <1>3 DEF IInv, Wiring, Topics
  <2>2. OnItsWay(c, s) => OnItsWay(c, s)'
    BY <1>1, <1>3, <2>1 DEF OnItsWay, Handling, queueVars
  <2> QED
    BY <2>1, <2>2 DEF Delivery
<1> QED
  BY <1>2, <1>3

LEMMA PublishDelivers ==
  ASSUME IInv, Delivery, NEW t \in Topics, Publish(t)
  PROVE  Delivery'
<1> DEFINE u == [topic |-> t, value |-> redis[t]]
<1>1. /\ UNCHANGED <<redis, channel, info, subs, conn, handler, clientVars>>
      /\ unpublished' = unpublished \ {t} /\ t \in unpublished
      /\ ~lagged' => ~lagged /\ buffer' = Append(buffer, u)
  BY DEF Publish
<1>2. u \in Messages /\ u.topic = t /\ u.value = redis[t] /\ buffer \in Seq(Messages)
  BY <1>1 DEF IInv, Wiring, Messages
<1> HIDE DEF u
<1> SUFFICES ASSUME NEW c \in Clients, NEW s \in Singles, <<c, s>> \in renewed,
                    Live(c), ~lagged'
             PROVE  OnItsWay(c, s)'
  BY <1>1 DEF Delivery, clientVars, Live
<1>3. CASE s = t
  <2>1. EndsWith(buffer', s, redis'[s])
    BY <1>1, <1>2, <1>3, AppendOwn
  <2> QED
    BY <2>1 DEF OnItsWay
<1>4. CASE s # t
  <2>1. OnItsWay(c, s)
    BY <1>1 DEF Delivery
  <2>2. /\ EndsWith(buffer, s, redis[s]) => EndsWith(buffer', s, redis[s])
        /\ ~Mentions(buffer, s) => ~Mentions(buffer', s)
    BY <1>1, <1>2, <1>4, AppendOther
  <2> QED
    BY <1>1, <1>4, <2>1, <2>2 DEF OnItsWay, Handling, clientVars
<1> QED
  BY <1>3, <1>4

LEMMA ForwardDelivers ==
  ASSUME IInv, Delivery, Forward
  PROVE  Delivery'
<1> DEFINE u == Head(buffer)
<1>1. /\ UNCHANGED <<redisVars, lagged, subs, conn, handler, clientVars>>
      /\ buffer # << >> /\ channel' = Append(channel, u) /\ buffer' = Tail(buffer)
  BY DEF Forward
<1>2. u \in Messages /\ buffer \in Seq(Messages) /\ channel \in Seq(Messages)
  BY <1>1 DEF IInv, Wiring
<1> HIDE DEF u
<1> SUFFICES ASSUME NEW c \in Clients, NEW s \in Singles, <<c, s>> \in renewed,
                    Live(c), ~lagged
             PROVE  OnItsWay(c, s)'
  BY <1>1 DEF Delivery, clientVars, Live
<1>3. OnItsWay(c, s)
  BY <1>1 DEF Delivery
<1>4. /\ EndsWith(buffer, s, redis[s]) =>
           \/ EndsWith(buffer', s, redis[s])
           \/ u.topic = s /\ u.value = redis[s] /\ ~Mentions(buffer', s)
      /\ ~Mentions(buffer, s) => ~Mentions(buffer', s) /\ u.topic # s
  BY <1>1, <1>2, TakeOldest DEF u
<1>5. u.topic = s /\ u.value = redis[s] => EndsWith(channel', s, redis[s])
  BY <1>1, <1>2, AppendOwn
<1>6. u.topic # s => /\ EndsWith(channel, s, redis[s]) => EndsWith(channel', s, redis[s])
                     /\ ~Mentions(channel, s) => ~Mentions(channel', s)
  BY <1>1, <1>2, AppendOther
<1> QED
  BY <1>1, <1>3, <1>4, <1>5, <1>6 DEF OnItsWay, Handling, redisVars, clientVars

LEMMA TakeUpdateDelivers ==
  ASSUME IInv, Delivery, TakeUpdate
  PROVE  Delivery'
<1> DEFINE u == Head(channel)
           to == SubscribedClients(u.topic)
<1>1. /\ UNCHANGED <<redisVars, buffer, lagged, info, subs, conn, clientVars>>
      /\ channel # << >> /\ channel' = Tail(channel) /\ handler.pc = "idle"
  BY DEF TakeUpdate
<1>2. \/ to = {} /\ handler' = Idle
      \/ handler' = [pc |-> IF u.topic \in Multis THEN "expand" ELSE "collect",
                     topic |-> u.topic, value |-> u.value,
                     to |-> to, added |-> {}, removed |-> {}]
  BY DEF TakeUpdate, Idle
<1>3. u \in Messages /\ channel \in Seq(Messages)
  BY <1>1 DEF IInv, Wiring
<1>4. /\ handler'.pc = "idle" => handler'.to = {}
      /\ handler'.to = to /\ (to # {} => handler'.topic = u.topic /\ handler'.value = u.value)
  BY <1>2 DEF Idle
<1>5. \A c \in Clients : c \in info[u.topic].direct => c \in to
  BY DEF SubscribedClients
<1> HIDE DEF to
<1>6. ASSUME NEW s \in Singles
      PROVE  /\ EndsWith(channel, s, redis[s]) =>
                  \/ EndsWith(channel', s, redis[s])
                  \/ u.topic = s /\ u.value = redis[s] /\ ~Mentions(channel', s)
             /\ ~Mentions(channel, s) => ~Mentions(channel', s) /\ u.topic # s
  <2> HIDE DEF u
  <2> QED
    BY <1>1, <1>3, TakeOldest DEF u
<1> HIDE DEF u
<1> SUFFICES ASSUME NEW c \in Clients, NEW s \in Singles, <<c, s>> \in renewed,
                    Live(c), ~lagged
             PROVE  OnItsWay(c, s)'
  BY <1>1, <1>4 DEF Delivery, clientVars, Live
<1>7. OnItsWay(c, s) /\ c \notin handler.to
  BY <1>1 DEF Delivery
<1>8. c \in info[s].direct
  <2>1. s \in Topics /\ conn[c].pc # "gone" /\ subs[c][s].direct
    BY DEF Delivery, Live, Topics
  <2> QED
    BY <2>1 DEF IInv, Agreement
<1>9. ~Handling(c, s)
  BY <1>7 DEF Handling
<1>10. CASE u.topic = s
  <2>1. c \in to
    BY <1>5, <1>8, <1>10
  <2>2. handler'.topic = s /\ handler'.value = u.value /\ c \in handler'.to
    BY <1>4, <1>10, <2>1
  <2> QED
    BY <1>1, <1>6, <1>7, <1>9, <1>10, <2>2 DEF OnItsWay, Handling, redisVars, clientVars
<1>11. CASE u.topic # s
  <2>1. ~(handler'.topic = s /\ c \in handler'.to)
    BY <1>4, <1>11
  <2> QED
    BY <1>1, <1>6, <1>7, <1>9, <1>11, <2>1 DEF OnItsWay, Handling, redisVars, clientVars
<1> QED
  BY <1>10, <1>11

\* The handler's steps between the queue and the clients.
LEMMA HandlerDelivers ==
  ASSUME IInv, Delivery, Expand \/ FetchMembers \/ FailFetch \/ Collect
  PROVE  Delivery'
<1>1. /\ UNCHANGED <<redisVars, queueVars, subs, conn, clientVars>>
      /\ handler.pc \in {"expand", "fetch", "collect"}
  BY DEF Expand, FetchMembers, FailFetch, Collect
<1>2. handler'.pc = "idle" => handler'.to = {}
  <2>1. CASE Expand
    <3>1. handler'.pc = "fetch"
      BY <2>1 DEF Expand, IInv, Wiring
    <3> QED
      BY <3>1
  <2>2. CASE FetchMembers \/ FailFetch
    <3>1. handler' = Idle \/ handler'.pc = "collect"
      BY <2>2 DEF FetchMembers, FailFetch, IInv, Wiring
    <3> QED
      BY <3>1 DEF Idle
  <2>3. CASE Collect
    <3>1. handler' = Idle \/ handler'.pc = "send"
      BY <2>3 DEF Collect, IInv, Wiring
    <3> QED
      BY <3>1 DEF Idle
  <2> QED
    BY <2>1, <2>2, <2>3
<1>3. ASSUME NEW c \in Clients, NEW s \in Singles, Live(c)
      PROVE  /\ Handling(c, s)' <=> Handling(c, s)
             /\ Handling(c, s) => handler'.value = handler.value
  <2>1. s \notin Multis /\ s # None
    BY SubscriptionsAssumption DEF Topics
  <2>2. CASE Expand
    BY <2>2 DEF Expand, Handling, IInv, Wiring
  <2>3. CASE FetchMembers \/ FailFetch
    <3>1. handler.topic # s
      BY <2>1, <2>3 DEF FetchMembers, FailFetch, IInv, Busy
    <3>2. handler'.topic # s
      BY <2>1, <2>3, <3>1 DEF FetchMembers, FailFetch, Idle, IInv, Wiring
    <3> QED
      BY <3>1, <3>2 DEF Handling
  <2>4. CASE Collect
    <3> DEFINE found == {d \in handler.to : conn[d].pc # "gone"}
    <3>1. c \in found <=> c \in handler.to
      BY <1>3 DEF Live
    <3>2. handler' = IF found = {} THEN Idle ELSE [handler EXCEPT !.pc = "send", !.to = found]
      BY <2>4 DEF Collect
    <3> HIDE DEF found
    <3> QED
      BY <2>1, <3>1, <3>2 DEF Handling, Idle, IInv, Wiring
  <2> QED
    BY <2>2, <2>3, <2>4
<1> SUFFICES ASSUME NEW c \in Clients, NEW s \in Singles, <<c, s>> \in renewed,
                    Live(c), ~lagged
             PROVE  OnItsWay(c, s)'
  BY <1>1, <1>2 DEF Delivery, clientVars, queueVars, Live
<1>4. OnItsWay(c, s)
  BY DEF Delivery
<1> QED
  BY <1>1, <1>3, <1>4 DEF OnItsWay, redisVars, queueVars, clientVars

LEMMA SendToDelivers ==
  ASSUME IInv, Bounds, Delivery, NEW d \in Clients, SendTo(d)
  PROVE  Delivery'
<1> DEFINE t     == handler.topic
           first == AddSources(subs[d], t, handler.added)
           table == RemoveSources(first, t, handler.removed)
           last  == IF table[t].direct THEN [table EXCEPT ![t].new = FALSE] ELSE table
<1>1. /\ t \in Topics /\ handler.value \in Values /\ subs[d] \in Tables
      /\ handler.added \in SUBSET Singles /\ handler.removed \in SUBSET Singles
      /\ t \notin Multis => handler.added = {}
      /\ handler.pc = "send" /\ d \in handler.to
  BY DEF SendTo, IInv, Wiring, Busy
<1>2. /\ first \in Tables /\ \A x \in Topics : first[x].direct = subs[d][x].direct
  <2>1. CASE t \in Multis
    BY <1>1, <2>1, AddSourcesKeeps
  <2>2. CASE t \notin Multis
    <3>1. first = [x \in Topics |-> subs[d][x]]
      BY <1>1, <2>2 DEF AddSources
    <3> QED
      BY <1>1, <3>1 DEF Tables
  <2> QED
    BY <2>1, <2>2
<1>3. /\ table \in Tables /\ \A x \in Topics : table[x].direct = subs[d][x].direct
  <2> HIDE DEF first
  <2> QED
    BY <1>1, <1>2, RemoveSourcesKeeps
<1>4. /\ UNCHANGED <<redisVars, queueVars, conn, renewed>>
      /\ subs' = [subs EXCEPT ![d] = last]
      /\ told' = IF Live(d) /\ table[t].direct /\ t \in Singles
                   THEN [told EXCEPT ![d][t] = handler.value] ELSE told
      /\ handler' = IF handler.to = {d} THEN Idle ELSE [handler EXCEPT !.to = @ \ {d}]
  BY DEF SendTo
<1> HIDE DEF first, table
<1>5. \A x \in Topics : last[x].direct = subs[d][x].direct
  BY <1>1, <1>3 DEF Tables, SubType
<1> HIDE DEF last
<1>6. \A c \in Clients, s \in Singles : subs'[c][s].direct = subs[c][s].direct
  BY <1>4, <1>5 DEF IInv, Wiring, Topics
<1>7. /\ handler'.pc = "idle" => handler'.to = {}
      /\ handler'.to = handler.to \ {d}
      /\ handler'.to # {} => handler'.topic = t /\ handler'.value = handler.value
  BY <1>1, <1>4 DEF Idle, IInv, Wiring
<1> SUFFICES ASSUME NEW c \in Clients, NEW s \in Singles, <<c, s>> \in renewed,
                    Live(c), ~lagged
             PROVE  OnItsWay(c, s)'
  BY <1>4, <1>6, <1>7 DEF Delivery, queueVars, Live
<1>8. OnItsWay(c, s) /\ subs[c][s].direct /\ s \in Topics
  BY DEF Delivery, Live, Topics
<1>9. CASE c = d /\ s = t
  <2>1. told'[c][s] = handler.value
    BY <1>3, <1>4, <1>8, <1>9 DEF Bounds, IInv, Wiring
  <2>2. Handling(c, s) /\ c \notin handler'.to
    BY <1>1, <1>7, <1>9 DEF Handling
  <2> QED
    BY <1>4, <1>8, <2>1, <2>2 DEF OnItsWay, Handling, redisVars, queueVars
<1>10. CASE ~(c = d /\ s = t)
  <2>1. told'[c][s] = told[c][s]
    BY <1>4, <1>10
  <2>2. /\ Handling(c, s)' <=> Handling(c, s)
        /\ Handling(c, s) => handler'.value = handler.value
    BY <1>7, <1>10 DEF Handling
  <2> QED
    BY <1>4, <1>8, <2>1, <2>2 DEF OnItsWay, redisVars, queueVars
<1> QED
  BY <1>9, <1>10

LEMMA RegisterDelivers ==
  ASSUME IInv, Bounds, Delivery, NEW c \in Clients, RegisterWithValue(c) \/ RegisterAsNew(c)
  PROVE  Delivery'
<1> DEFINE t == conn[c].topic
           v == conn[c].value
<1>1. /\ conn[c].pc = "register" /\ t \in Topics /\ v \in Values \cup {None}
      /\ subs[c] \in Tables
  BY DEF RegisterWithValue, RegisterAsNew, IInv, Wiring, Busy, ConnType
<1>2. /\ UNCHANGED <<redisVars, queueVars, handler>> /\ renewed' = renewed \ {<<c, t>>}
      /\ conn' = [conn EXCEPT ![c].pc = "key"]
      /\ told' = told \/ (t \in Singles /\ told' = [told EXCEPT ![c][t] = v])
  BY DEF RegisterWithValue, RegisterAsNew
<1>3. \A x \in Topics : subs[c][x].direct => subs'[c][x].direct
  <2>1. CASE RegisterAsNew(c)
    BY <1>1, <2>1 DEF RegisterAsNew, IInv, Wiring, Tables, SubType
  <2>2. CASE RegisterWithValue(c)
    <3> DEFINE table == [subs[c] EXCEPT ![t].direct = TRUE]
    <3>1. table \in Tables /\ \A x \in Topics : subs[c][x].direct => table[x].direct
      BY <1>1 DEF Tables, SubType
    <3>2. \/ subs' = [subs EXCEPT ![c] = table]
          \/ t \in Multis /\ subs' = [subs EXCEPT ![c] = AddSources(table, t, v.list)]
      BY <2>2 DEF RegisterWithValue
    <3>3. v.list \in SUBSET Singles
      BY <1>1, <2>2 DEF RegisterWithValue, Values
    <3> HIDE DEF table
    <3>4. t \in Multis => \A x \in Topics : AddSources(table, t, v.list)[x].direct = table[x].direct
      BY <3>1, <3>3, AddSourcesKeeps
    <3> QED
      BY <3>1, <3>2, <3>4 DEF IInv, Wiring
  <2> QED
    BY <2>1, <2>2
<1>4. \A d \in Clients \ {c} : subs'[d] = subs[d] /\ conn'[d] = conn[d]
  BY <1>2 DEF RegisterWithValue, RegisterAsNew, IInv, Wiring
<1>5. \A d \in Clients, s \in Singles : <<d, s>> \in renewed' => told'[d][s] = told[d][s]
  BY <1>2 DEF Bounds
<1>6. conn'[c].pc = "key"
  BY <1>2 DEF IInv, Wiring, ConnType
<1>7. renewed' \subseteq renewed
  BY <1>2
<1>8. Singles \subseteq Topics
  BY DEF Topics
<1> QED
  BY <1>1, <1>2, <1>3, <1>4, <1>5, <1>6, <1>7, <1>8, DeliveryKept DEF Live

LEMMA UnsubscribeDelivers ==
  ASSUME IInv, Delivery, NEW c \in Clients, NEW t \in Topics, Unsubscribe(c, t)
  PROVE  Delivery'
<1> DEFINE ss    == IF t \in Multis THEN info[t].subtopics ELSE {}
           table == RemoveDirect(subs[c], t)
           last  == RemoveSources(table, t, ss)
<1>1. /\ UNCHANGED <<redisVars, queueVars, handler, conn, told>>
      /\ renewed' = renewed \ {<<c, t>>}
      /\ subs' = [subs EXCEPT ![c] = last] \/ subs' = subs
      /\ subs[c] \in Tables /\ ss \in SUBSET Singles
  BY DEF Unsubscribe, IInv, Wiring, Maps, InfoType
<1>2. table \in Tables /\ \A x \in Topics \ {t} : table[x] = subs[c][x]
  BY <1>1, RemoveDirectRemoves
<1> HIDE DEF ss
<1>3. \A x \in Topics : last[x].direct = table[x].direct
  <2> HIDE DEF table
  <2> QED
    BY <1>1, <1>2, RemoveSourcesKeeps
<1> HIDE DEF table, last
<1>4. ASSUME NEW d \in Clients, NEW s \in Singles, <<d, s>> \in renewed'
      PROVE  subs'[d][s].direct = subs[d][s].direct
  <2>1. s \in Topics
    BY DEF Topics
  <2>2. CASE d = c
    <3>1. s # t
      BY <1>1, <1>4, <2>2
    <3> QED
      BY <1>1, <1>2, <1>3, <2>1, <2>2, <3>1 DEF IInv, Wiring
  <2>3. CASE d # c
    BY <1>1, <2>3 DEF IInv, Wiring
  <2> QED
    BY <2>2, <2>3
<1>5. renewed' \subseteq renewed /\ \A d \in Clients : Live(d)' = Live(d)
  BY <1>1 DEF Live
<1> QED
  BY <1>1, <1>4, <1>5, DeliveryKept

\* The task of a connection moves on, starts or ends.
LEMMA MovesDeliver ==
  ASSUME IInv, Delivery, NEW c \in Clients,
         \/ Connect(c) \/ Disconnect(c) \/ (\E t \in Topics : Subscribe(c, t))
         \/ ReadKey(c) \/ ReadMembers(c) \/ AlreadySubscribed(c) \/ WriteKey(c) \/ Leave(c)
  PROVE  Delivery'
<1>1. /\ UNCHANGED <<redisVars, queueVars, handler, subs, told, renewed>>
      /\ \A d \in Clients \ {c} : conn'[d] = conn[d]
  <2>1. UNCHANGED <<redisVars, queueVars, handler, subs, told, renewed>>
    BY DEF Connect, Disconnect, Subscribe, ReadKey, ReadMembers, AlreadySubscribed, WriteKey,
       Leave, clientVars
  <2>2. \/ \E k : conn' = [conn EXCEPT ![c] = k]
        \/ conn' = [conn EXCEPT ![c].pc = "register"]
    BY DEF Connect, Disconnect, Subscribe, ReadKey, ReadMembers, AlreadySubscribed, WriteKey,
       Leave
  <2>3. conn \in [Clients -> ConnType]
    BY DEF IInv, Wiring
  <2> QED
    BY <2>1, <2>2, <2>3
<1>2. /\ conn[c].pc \in {"leaving", "gone"} => conn'[c].pc \in {"leaving", "gone"}
      /\ Live(c)' => Live(c) \/ conn[c].pc = "off"
  <2>1. CASE Connect(c)
    BY <2>1 DEF Connect
  <2>2. CASE Disconnect(c) \/ Leave(c)
    BY <2>2 DEF Disconnect, Leave, At, Live, IInv, Wiring
  <2>3. CASE ReadKey(c) \/ ReadMembers(c) \/ AlreadySubscribed(c) \/ WriteKey(c)
             \/ \E t \in Topics : Subscribe(c, t)
    BY <2>3 DEF ReadKey, ReadMembers, AlreadySubscribed, WriteKey, Subscribe, Live
  <2> QED
    BY <2>1, <2>2, <2>3
<1>3. conn[c].pc = "off" => \A s \in Singles : ~subs[c][s].direct
  BY DEF IInv, Agreement, Topics
<1>4. \A d \in Clients \ {c} : Live(d)' = Live(d)
  BY <1>1 DEF Live
<1> QED
  BY <1>1, <1>2, <1>3, <1>4, DeliveryKept

LEMMA NextDelivers ==
  ASSUME IInv, Bounds, Delivery, [Next]_vars
  PROVE  Delivery'
<1>1. CASE Writer
  BY <1>1, SetKeyDelivers, PublishDelivers DEF Writer, SetSingle, SetMulti, Topics
<1>2. CASE Forward
  BY <1>2, ForwardDelivers
<1>3. CASE Handler
  BY <1>3, TakeUpdateDelivers, HandlerDelivers, SendToDelivers DEF Handler
<1>4. CASE \E c \in Clients : Client(c) \/ Connection(c)
  BY <1>4, MovesDeliver, RegisterDelivers, UnsubscribeDelivers DEF Client, Connection
<1>5. CASE UNCHANGED vars
  BY <1>5, DeliveryKept DEF vars, clientVars, Live
<1> QED
  BY <1>1, <1>2, <1>3, <1>4, <1>5 DEF Next

LEMMA InitDelivery == Init => Delivery
BY DEF Init, Delivery, Idle

\* A subscriber ends with the last value written since it registered: no order
\* of writes, publications, broadcasts, unsubscriptions and new connections
\* leaves an older one, or none, with it, unless the buffer of the Redis
\* subscriber overflowed (updater.rs, updates_handler of websocket.rs).
THEOREM SubscribersEndCurrent == Spec => []SubscribersCurrent
<1>1. Init => IInv /\ Bounds /\ Delivery
  BY InitIInv, InitBounds, InitDelivery
<1>2. IInv /\ Bounds /\ Delivery /\ [Next]_vars => Bounds' /\ Delivery'
  BY NextKeepsBounds, NextDelivers
<1>3. Delivery => SubscribersCurrent
  <2> SUFFICES ASSUME Delivery, Quiet, ~lagged, NEW c \in Clients, NEW s \in Singles,
                      Live(c), <<c, s>> \in renewed
               PROVE  told[c][s] = redis[s]
    BY DEF SubscribersCurrent
  <2>1. OnItsWay(c, s) /\ handler.to = {} /\ unpublished = {}
    BY DEF Delivery, Quiet
  <2>2. \A v : ~EndsWith(<< >>, s, v)
    BY DEF EndsWith
  <2> QED
    BY <2>1, <2>2 DEF OnItsWay, Quiet, Handling
<1> QED
  BY <1>1, <1>2, <1>3, Invariant, PTL DEF Spec
============================================================================
