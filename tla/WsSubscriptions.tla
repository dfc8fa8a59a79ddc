------------------------- MODULE WsSubscriptions -------------------------
(***************************************************************************)
(* The subscriptions of websocket-api: the shared map from topics to       *)
(* clients, each client's own table, the connection tasks that change both *)
(* while they handle subscribe and unsubscribe, and the single task that   *)
(* takes Redis publications and sends them to the subscribed clients.      *)
(*                                                                         *)
(* A section of code that holds the topics lock, a client lock or both has *)
(* no other suspension point and takes them in one order, so it is one     *)
(* action; what happens between two sections is another.  Redis and its    *)
(* writers are external: a writer SETs a key and then PUBLISHes it.  A     *)
(* multi-topic's value is the list of its subtopics.                       *)
(***************************************************************************)
EXTENDS Naturals, Sequences, FiniteSets

CONSTANTS
  Clients,      \* connections, each with its own identifier from Redis
  Singles,      \* concrete topics
  Multis,       \* state multi-topics
  None,         \* a key Redis does not hold
  BufferSize,   \* messages the Redis subscriber keeps for the updater
  ChannelSize,  \* messages between the updater and the updates handler
  MaxWrites,    \* bound: SETs
  MaxErrors     \* bound: failed reads of subtopic values

Topics == Singles \cup Multis

\* A value is a version of a data entry or a list of subtopics.
Values == [version : Nat, list : SUBSET Singles]
Entry(n) == [version |-> n, list |-> {}]
List(ss) == [version |-> 0, list |-> ss]

\* The value of a deleted entry.
Null == Entry(0)

ASSUME SubscriptionsAssumption ==
  /\ Singles \cap Multis = {}
  /\ None \notin Topics \cup Values
  /\ {BufferSize, ChannelSize} \subseteq Nat \ {0}
  /\ {MaxWrites, MaxErrors} \subseteq Nat

VARIABLES
  redis,        \* the value of each topic's key
  unpublished,  \* topics that are SET and not yet PUBLISHed
  buffer,       \* publications the updater has not taken yet
  channel,      \* publications the updates handler has not taken yet
  lagged,       \* the buffer has overflowed
  info,         \* Topics: the KeyInfo of each topic
  subs,         \* Client.subscriptions of each client
  conn,         \* where each connection task is
  handler,      \* where the updates handler is
  heard,        \* topics the last message told the client it is subscribed to
  told,         \* the last value sent to a client for a concrete topic
  renewed,      \* <<client, topic>>: the topic was SET after the client registered
  writes, errors

redisVars == <<redis, unpublished>>
queueVars == <<buffer, channel, lagged>>
clientVars == <<heard, told, renewed>>
vars == <<redisVars, queueVars, info, subs, conn, handler, clientVars, writes, errors>>

Messages == [topic : Topics, value : Values]

\* An absent entry of the topics map and an absent subscription.
NoInfo == [direct |-> {}, indirect |-> [c \in Clients |-> {}], subtopics |-> {}]
NoSub  == [direct |-> FALSE, new |-> FALSE, sources |-> {}]

Idle == [pc |-> "idle", topic |-> None, value |-> None, to |-> {}, added |-> {}, removed |-> {}]
At(pc, t, v, vs) == [pc |-> pc, topic |-> t, value |-> v, leaving |-> vs]
Off == At("off", None, None, {})
Open == At("open", None, None, {})

ConnStates    == {"off", "open", "read", "members", "register", "key", "leaving", "gone"}
HandlerStates == {"idle", "expand", "fetch", "collect", "send"}

TypeOK ==
  /\ redis \in [Topics -> Values \cup {None}] /\ unpublished \subseteq Topics
  /\ buffer \in Seq(Messages) /\ Len(buffer) <= BufferSize
  /\ channel \in Seq(Messages) /\ Len(channel) <= ChannelSize
  /\ lagged \in BOOLEAN
  /\ info \in [Topics -> [direct : SUBSET Clients, indirect : [Clients -> SUBSET Multis],
                          subtopics : SUBSET Singles]]
  /\ subs \in [Clients -> [Topics -> [direct : BOOLEAN, new : BOOLEAN, sources : SUBSET Multis]]]
  /\ conn \in [Clients -> [pc : ConnStates, topic : Topics \cup {None}, value : Values \cup {None},
                           leaving : SUBSET Topics]]
  /\ handler \in [pc : HandlerStates, topic : Topics \cup {None}, value : Values \cup {None},
                  to : SUBSET Clients, added : SUBSET Singles, removed : SUBSET Singles]
  /\ heard \in [Clients -> SUBSET Topics]
  /\ told \in [Clients -> [Singles -> Values \cup {None}]]
  /\ renewed \subseteq Clients \X Singles
  /\ writes \in 0..MaxWrites /\ errors \in 0..MaxErrors

Init ==
  /\ redis = [t \in Topics |-> None] /\ unpublished = {}
  /\ buffer = << >> /\ channel = << >> /\ lagged = FALSE
  /\ info = [t \in Topics |-> NoInfo]
  /\ subs = [c \in Clients |-> [t \in Topics |-> NoSub]]
  /\ conn = [c \in Clients |-> Off]
  /\ handler = Idle
  /\ heard = [c \in Clients |-> {}]
  /\ told = [c \in Clients |-> [s \in Singles |-> None]]
  /\ renewed = {}
  /\ writes = 0 /\ errors = 0

----------------------------------------------------------------------------
(* The topics map.                                                         *)

\* An entry without clients is removed.
Pruned(i) == IF i.direct = {} /\ \A c \in Clients : i.indirect[c] = {} THEN NoInfo ELSE i

\* Two faulty versions, each of which forgets the map.
AddNothing(map, t, c) == map
RemoveNothing(map, t, c) == map

AddSubscription(map, t, c) == [map EXCEPT ![t].direct = @ \cup {c}]

RemoveSubscription(map, t, c) ==
  [map EXCEPT ![t] = Pruned([map[t] EXCEPT !.direct = @ \ {c}])]

\* update_indirect_subscriptions for the added and for the removed subtopics.
AddIndirect(map, m, ss, cs) ==
  [t \in Topics |->
     IF t \in ss
       THEN [map[t] EXCEPT !.indirect =
               [c \in Clients |-> IF c \in cs THEN @[c] \cup {m} ELSE @[c]]]
       ELSE map[t]]

DropIndirect(map, m, ss, cs) ==
  [t \in Topics |->
     IF t \in ss
       THEN Pruned([map[t] EXCEPT !.indirect =
                      [c \in Clients |-> IF c \in cs THEN @[c] \ {m} ELSE @[c]]])
       ELSE map[t]]

SubscribedClients(t) == info[t].direct \cup {c \in Clients : info[t].indirect[c] # {}}

----------------------------------------------------------------------------
(* A client's own table.                                                   *)

Present(d) == d.direct \/ d.sources # {}

\* A subscription that is neither direct nor indirect is removed.
Kept(d) == IF Present(d) THEN d ELSE NoSub

RemoveDirect(table, t) == [table EXCEPT ![t] = Kept([table[t] EXCEPT !.direct = FALSE])]

AddSources(table, m, ss) ==
  [t \in Topics |-> IF t \in ss THEN [table[t] EXCEPT !.sources = @ \cup {m}] ELSE table[t]]

RemoveSources(table, m, ss) ==
  [t \in Topics |->
     IF t \in ss THEN Kept([table[t] EXCEPT !.sources = @ \ {m}]) ELSE table[t]]

----------------------------------------------------------------------------
(* Writers of topic keys.                                                  *)

SetKey(t, v) ==
  /\ writes < MaxWrites
  /\ t \notin unpublished
  /\ redis' = [redis EXCEPT ![t] = v]
  /\ unpublished' = unpublished \cup {t}
  /\ renewed' = renewed \cup (info[t].direct \X ({t} \cap Singles))
  /\ writes' = writes + 1
  /\ UNCHANGED <<queueVars, info, subs, conn, handler, heard, told, errors>>

SetSingle == \E s \in Singles, v \in {Null, Entry(writes + 1)} : SetKey(s, v)
SetMulti == \E m \in Multis, ss \in SUBSET Singles : SetKey(m, List(ss))

\* A faulty publication into an unbounded buffer.
PublishUnbounded(t) ==
  /\ t \in unpublished
  /\ buffer' = Append(buffer, [topic |-> t, value |-> redis[t]])
  /\ unpublished' = unpublished \ {t}
  /\ UNCHANGED <<redis, channel, lagged, info, subs, conn, handler, clientVars, writes, errors>>

\* A full buffer loses its oldest message.
Publish(t) ==
  /\ t \in unpublished
  /\ LET rest == IF Len(buffer) = BufferSize THEN Tail(buffer) ELSE buffer
     IN  buffer' = Append(rest, [topic |-> t, value |-> redis[t]])
  /\ lagged' = (lagged \/ Len(buffer) = BufferSize)
  /\ unpublished' = unpublished \ {t}
  /\ UNCHANGED <<redis, channel, info, subs, conn, handler, clientVars, writes, errors>>

\* The updater task.
Forward ==
  /\ buffer # << >> /\ Len(channel) < ChannelSize
  /\ channel' = Append(channel, Head(buffer))
  /\ buffer' = Tail(buffer)
  /\ UNCHANGED <<redisVars, lagged, info, subs, conn, handler, clientVars, writes, errors>>

----------------------------------------------------------------------------
(* A connection task handles one message of its client at a time.          *)

Live(c) == conn[c].pc \notin {"off", "leaving", "gone"}

Connect(c) ==
  /\ conn[c].pc = "off"
  /\ conn' = [conn EXCEPT ![c] = Open]
  /\ UNCHANGED <<redisVars, queueVars, info, subs, handler, clientVars, writes, errors>>

\* Phase 1; a client that has the subscription gets an error instead.
Subscribe(c, t) ==
  /\ conn[c].pc = "open"
  /\ ~Present(subs[c][t])
  /\ conn' = [conn EXCEPT ![c] = At("read", t, None, {})]
  /\ UNCHANGED <<redisVars, queueVars, info, subs, handler, clientVars, writes, errors>>

\* Phase 2: GET, and for a multi-topic that has a value the GETs of its
\* subtopics, whose values go into the message to the client.
ReadKey(c) ==
  LET t == conn[c].topic
      v == redis[t]
  IN  /\ conn[c].pc = "read"
      /\ conn' = [conn EXCEPT ![c] =
                    At(IF t \in Multis /\ v # None THEN "members" ELSE "register", t, v, {})]
      /\ UNCHANGED <<redisVars, queueVars, info, subs, handler, clientVars, writes, errors>>

ReadMembers(c) ==
  /\ conn[c].pc = "members"
  /\ conn' = [conn EXCEPT ![c].pc = "register"]
  /\ UNCHANGED <<redisVars, queueVars, info, subs, handler, clientVars, writes, errors>>

\* Phase 3 for a topic whose key has a value: the client is told at once.
RegisterWithValue(c) ==
  LET t == conn[c].topic
      v == conn[c].value
  IN  /\ conn[c].pc = "register" /\ v # None
      /\ ~Present(subs[c][t])
      /\ LET table == [subs[c] EXCEPT ![t].direct = TRUE]
             map   == AddSubscription(info, t, c)
         IN  IF t \in Multis
               THEN /\ subs' = [subs EXCEPT ![c] = AddSources(table, t, v.list)]
                    /\ info' = AddIndirect([map EXCEPT ![t].subtopics = v.list], t, v.list, {c})
               ELSE subs' = [subs EXCEPT ![c] = table] /\ info' = map
      /\ heard' = [heard EXCEPT ![c] = @ \cup {t}]
      /\ told' = IF t \in Singles THEN [told EXCEPT ![c][t] = v] ELSE told
      /\ renewed' = renewed \ {<<c, t>>}
      /\ conn' = [conn EXCEPT ![c].pc = "key"]
      /\ UNCHANGED <<redisVars, queueVars, handler, writes, errors>>

\* A faulty registration that forgets that the client has no value yet.
RegisterUnmarked(c) ==
  LET t == conn[c].topic
  IN  /\ conn[c].pc = "register" /\ conn[c].value = None
      /\ ~Present(subs[c][t])
      /\ subs' = [subs EXCEPT ![c][t].direct = TRUE]
      /\ info' = AddSubscription(info, t, c)
      /\ renewed' = renewed \ {<<c, t>>}
      /\ conn' = [conn EXCEPT ![c].pc = "key"]
      /\ UNCHANGED <<redisVars, queueVars, handler, heard, told, writes, errors>>

\* Phase 3 without a value: the first update will be the answer.
RegisterAsNew(c) ==
  LET t == conn[c].topic
  IN  /\ conn[c].pc = "register" /\ conn[c].value = None
      /\ ~Present(subs[c][t])
      /\ subs' = [subs EXCEPT ![c][t].direct = TRUE, ![c][t].new = TRUE]
      /\ info' = AddSubscription(info, t, c)
      /\ renewed' = renewed \ {<<c, t>>}
      /\ conn' = [conn EXCEPT ![c].pc = "key"]
      /\ UNCHANGED <<redisVars, queueVars, handler, heard, told, writes, errors>>

\* The check is repeated under the locks.
AlreadySubscribed(c) ==
  /\ conn[c].pc = "register"
  /\ Present(subs[c][conn[c].topic])
  /\ conn' = [conn EXCEPT ![c] = Open]
  /\ UNCHANGED <<redisVars, queueVars, info, subs, handler, clientVars, writes, errors>>

\* Phase 4 writes the topic's "sub:" key; the keys are the refresher's concern.
WriteKey(c) ==
  /\ conn[c].pc = "key"
  /\ conn' = [conn EXCEPT ![c] = Open]
  /\ UNCHANGED <<redisVars, queueVars, info, subs, handler, clientVars, writes, errors>>

Unsubscribe(c, t) ==
  /\ conn[c].pc = "open"
  /\ IF Present(subs[c][t])
       THEN LET ss    == IF t \in Multis THEN info[t].subtopics ELSE {}
                table == RemoveDirect(subs[c], t)
            IN  /\ subs' = [subs EXCEPT ![c] = RemoveSources(table, t, ss)]
                /\ info' = RemoveSubscription(DropIndirect(info, t, ss, {c}), t, c)
       ELSE UNCHANGED <<info, subs>>
  /\ heard' = [heard EXCEPT ![c] = @ \ {t}]
  /\ renewed' = renewed \ {<<c, t>>}
  /\ UNCHANGED <<redisVars, queueVars, conn, handler, told, writes, errors>>

\* A faulty end of a connection that collects nothing.
DisconnectUncollected(c) ==
  /\ Live(c)
  /\ conn' = [conn EXCEPT ![c] = At("leaving", None, None, {})]
  /\ UNCHANGED <<redisVars, queueVars, info, subs, handler, clientVars, writes, errors>>

\* The connection ends: closed by the client, failed, or dropped at any
\* suspension point by a shutdown.  Its topics are collected ...
Disconnect(c) ==
  /\ Live(c)
  /\ conn' = [conn EXCEPT ![c] =
                At("leaving", None, None, {t \in Topics : Present(subs[c][t])})]
  /\ UNCHANGED <<redisVars, queueVars, info, subs, handler, clientVars, writes, errors>>

\* ... and removed from the map, and the client from the registry.
Leave(c) ==
  /\ conn[c].pc = "leaving"
  /\ LET gone    == conn[c].leaving
         direct  == {t \in gone : subs[c][t].direct}
         via     == [s \in Topics |-> {m \in gone \cap Multis : s \in info[m].subtopics}]
         without == [t \in Topics |->
                       [direct |-> IF t \in direct THEN info[t].direct \ {c} ELSE info[t].direct,
                        indirect |-> [info[t].indirect EXCEPT ![c] = @ \ via[t]],
                        subtopics |-> info[t].subtopics]]
     IN  info' = [t \in Topics |->
                    IF t \in direct \/ via[t] # {} THEN Pruned(without[t]) ELSE info[t]]
  /\ conn' = [conn EXCEPT ![c] = At("gone", None, None, {})]
  /\ UNCHANGED <<redisVars, queueVars, subs, handler, clientVars, writes, errors>>

----------------------------------------------------------------------------
(* The updates handler.                                                    *)

\* Takes a publication and notes who is subscribed, under the read lock.
TakeUpdate ==
  /\ handler.pc = "idle" /\ channel # << >>
  /\ channel' = Tail(channel)
  /\ LET u  == Head(channel)
         to == SubscribedClients(u.topic)
     IN  handler' = IF to = {} THEN Idle
                    ELSE [Idle EXCEPT !.pc = IF u.topic \in Multis THEN "expand" ELSE "collect",
                                      !.topic = u.topic, !.value = u.value, !.to = to]
  /\ UNCHANGED <<redisVars, buffer, lagged, info, subs, conn, clientVars, writes, errors>>

\* The new list of subtopics enters the map, under the write lock.
Expand ==
  /\ handler.pc = "expand"
  /\ LET m       == handler.topic
         list    == handler.value.list
         added   == list \ info[m].subtopics
         removed == info[m].subtopics \ list
         listed  == [info EXCEPT ![m].subtopics = list]
     IN  /\ info' = DropIndirect(AddIndirect(listed, m, added, handler.to),
                                 m, removed, handler.to)
         /\ handler' = [handler EXCEPT !.pc = "fetch", !.added = added, !.removed = removed]
  /\ UNCHANGED <<redisVars, queueVars, subs, conn, clientVars, writes, errors>>

\* The values of the added subtopics are read; removed subtopics count as
\* deleted entries.  An update without any entry is dropped, unless the list
\* itself is empty.
FetchMembers ==
  /\ handler.pc = "fetch"
  /\ handler' = IF \/ handler.value.list = {} \/ handler.removed # {}
                   \/ \E s \in handler.added : redis[s] \notin {None, Null}
                  THEN [handler EXCEPT !.pc = "collect"] ELSE Idle
  /\ UNCHANGED <<redisVars, queueVars, info, subs, conn, clientVars, writes, errors>>

FailFetch ==
  /\ handler.pc = "fetch" /\ errors < MaxErrors
  /\ handler' = Idle
  /\ errors' = errors + 1
  /\ UNCHANGED <<redisVars, queueVars, info, subs, conn, clientVars, writes>>

\* The clients still in the registry.
Collect ==
  /\ handler.pc = "collect"
  /\ LET found == {c \in handler.to : conn[c].pc # "gone"}
     IN  handler' = IF found = {} THEN Idle ELSE [handler EXCEPT !.pc = "send", !.to = found]
  /\ UNCHANGED <<redisVars, queueVars, info, subs, conn, clientVars, writes, errors>>

\* A faulty broadcast that ends with the first client.
SendToFirst(c) ==
  LET t == handler.topic
      table == RemoveSources(AddSources(subs[c], t, handler.added), t, handler.removed)
      d == table[t]
  IN  /\ handler.pc = "send" /\ c \in handler.to
      /\ subs' = [subs EXCEPT ![c] = IF d.direct THEN [table EXCEPT ![t].new = FALSE] ELSE table]
      /\ heard' = IF Live(c) /\ d.direct /\ d.new THEN [heard EXCEPT ![c] = @ \cup {t}] ELSE heard
      /\ told' = IF Live(c) /\ d.direct /\ t \in Singles
                   THEN [told EXCEPT ![c][t] = handler.value] ELSE told
      /\ handler' = Idle
      /\ UNCHANGED <<redisVars, queueVars, info, conn, renewed, writes, errors>>

\* One client under its lock: its indirect subscriptions, then send_update.
SendTo(c) ==
  LET t == handler.topic
      table == RemoveSources(AddSources(subs[c], t, handler.added), t, handler.removed)
      d == table[t]
  IN  /\ handler.pc = "send" /\ c \in handler.to
      /\ subs' = [subs EXCEPT ![c] = IF d.direct THEN [table EXCEPT ![t].new = FALSE] ELSE table]
      /\ heard' = IF Live(c) /\ d.direct /\ d.new THEN [heard EXCEPT ![c] = @ \cup {t}] ELSE heard
      /\ told' = IF Live(c) /\ d.direct /\ t \in Singles
                   THEN [told EXCEPT ![c][t] = handler.value] ELSE told
      /\ handler' = IF handler.to = {c} THEN Idle ELSE [handler EXCEPT !.to = @ \ {c}]
      /\ UNCHANGED <<redisVars, queueVars, info, conn, renewed, writes, errors>>

----------------------------------------------------------------------------
Writer == SetSingle \/ SetMulti \/ \E t \in Topics : Publish(t)

Connection(c) ==
  \/ ReadKey(c) \/ ReadMembers(c) \/ RegisterWithValue(c) \/ RegisterAsNew(c)
  \/ AlreadySubscribed(c) \/ WriteKey(c) \/ Leave(c)

Client(c) ==
  \/ Connect(c) \/ Disconnect(c)
  \/ \E t \in Topics : Subscribe(c, t) \/ Unsubscribe(c, t)

Handler ==
  \/ TakeUpdate \/ Expand \/ FetchMembers \/ FailFetch \/ Collect
  \/ \E c \in Clients : SendTo(c)

Next == Writer \/ Forward \/ Handler \/ \E c \in Clients : Client(c) \/ Connection(c)

Spec == Init /\ [][Next]_vars

----------------------------------------------------------------------------
(* Properties.                                                             *)

\* The map and the client's own table agree on direct subscriptions, although
\* each is written by several tasks and no lock covers both for good.
DirectAgrees ==
  \A c \in Clients : Live(c) =>
    \A t \in Topics : c \in info[t].direct <=> subs[c][t].direct

\* A connection that has left is in nobody's list of direct subscribers.
GoneIsForgotten ==
  \A c \in Clients : conn[c].pc \in {"off", "gone"} =>
    \A t \in Topics : c \notin info[t].direct

\* A client that was told it is subscribed is registered until it is told
\* otherwise.
HeardIsRegistered ==
  \A c \in Clients : Live(c) => \A t \in heard[c] : c \in info[t].direct

\* A live client gets the updates of a topic it subscribed to directly (those
\* send_update sends because of is_direct) only while it was told it is
\* subscribed: its answer comes before the first of them, and none follows the
\* answer to unsubscribe.  It says nothing of updates sent on account of a
\* multi-topic's list: those go on under the multi-topic's key when the
\* broadcast adds sources to a client that has unsubscribed in between.
DirectUpdatesAnswered ==
  \A c \in Clients : Live(c) =>
    \A t \in Topics : subs[c][t].direct /\ ~subs[c][t].new => t \in heard[c]

Quiet ==
  /\ unpublished = {} /\ buffer = << >> /\ channel = << >> /\ handler.pc = "idle"

\* A value written after the client registered is the one it has, once the
\* queues are empty and unless the subscriber buffer overflowed.
SubscribersCurrent ==
  Quiet /\ ~lagged =>
    \A c \in Clients, s \in Singles :
      Live(c) /\ <<c, s>> \in renewed => told[c][s] = redis[s]
============================================================================
