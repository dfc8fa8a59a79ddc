------------------------- MODULE BrowserBusProofs -------------------------
(* Proofs about BrowserBus: its types, that every pending promise can be     *)
(* reached, and that it implements RemoteCall. The invariant of the last     *)
(* follows an action message from the request that posts it to its one run:  *)
(* it is in one queue at one place, its handler has not run yet, and an      *)
(* answer that reports success is only on its way once it has.               *)
EXTENDS BrowserBus, TLAPS

---------------------------------------------------------------------------
(* Types.                                                                    *)

LEMMA SideFacts ==
  /\ \A s \in Sides : Peer(s) \in Sides /\ Peer(s) # s /\ Peer(Peer(s)) = s
  /\ \A s, t \in Sides : t # s => t = Peer(s)
  /\ \A r \in Requests : CallerOf(r) \in Sides /\ ServerOf(r) \in Sides /\ ServerOf(r) = Peer(CallerOf(r))
  BY DEF Sides, Peer, CallerOf, ServerOf

LEMMA MessageFacts ==
  /\ Event \in Messages
  /\ \A r \in Requests :
       /\ Action(r) \in Messages /\ Action(r).type = "action" /\ Action(r).id = r
       /\ \A t \in {"success", "error"} :
            Response(r, t) \in Messages /\ Response(r, t).type = t /\ Response(r, t).id = r
  BY DEF Messages, Calls, Event, Action, Response

\* the queues after each kind of step
LEMMA TakenMeans ==
  ASSUME Types, NEW s \in Sides, net[s] # << >>, Taken(s)
  PROVE  /\ net' \in [Sides -> Seq(Messages)]
         /\ net'[s] = Tail(net[s])
         /\ \A t \in Sides \ {s} : net'[t] = net[t]
  BY DEF Types, Taken

LEMMA AnsweringMeans ==
  ASSUME Types, NEW s \in Sides, net[s] # << >>, NEW m \in Messages, TakenAnswering(s, m)
  PROVE  /\ net' \in [Sides -> Seq(Messages)]
         /\ net'[s] = Tail(net[s])
         /\ net'[Peer(s)] = Append(net[Peer(s)], m)
  <1>1. Peer(s) \in Sides /\ Peer(s) # s
    BY SideFacts
  <1>2. net[s] \in Seq(Messages) /\ net[Peer(s)] \in Seq(Messages)
    BY <1>1 DEF Types
  <1>3. Tail(net[s]) \in Seq(Messages) /\ Append(net[Peer(s)], m) \in Seq(Messages)
    BY <1>2
  <1>4. net' = [net EXCEPT ![s] = Tail(net[s]), ![Peer(s)] = Append(net[Peer(s)], m)]
    BY <1>1 DEF TakenAnswering, Types
  <1> QED
    BY <1>1, <1>3, <1>4 DEF Types

LEMMA SendMeans ==
  ASSUME Types, NEW s \in Sides, NEW m \in Messages, Send(s, m)
  PROVE  /\ net' \in [Sides -> Seq(Messages)]
         /\ net'[s] = net[s]
         /\ net'[Peer(s)] = IF stage[s] = "up" THEN Append(net[Peer(s)], m) ELSE net[Peer(s)]
  <1>1. Peer(s) \in Sides /\ Peer(s) # s
    BY SideFacts
  <1>2. Append(net[Peer(s)], m) \in Seq(Messages)
    BY <1>1 DEF Types
  <1> QED
    BY <1>1, <1>2 DEF Types, Send

LEMMA SettleMeans ==
  ASSUME Types, NEW S, NEW v \in Promises, Settle(S, v)
  PROVE  /\ promise' \in [Requests -> Promises]
         /\ \A r \in Requests :
              promise'[r] = IF r \in S /\ promise[r] = "pending" THEN v ELSE promise[r]
  BY DEF Types, Settle

LEMMA TypeInit == Init => Types
  BY BusAssumption DEF Init, Types, Sides, Stages, Promises

LEMMA TypeSides ==
  ASSUME Types, NEW s \in Sides,
         \/ Open(s) \/ Destroy(s)
         \/ RegisterRequestHandler(s) \/ UnregisterHandler(s)
         \/ Miss(s) \/ Keep(s) \/ Fire(s) \/ DispatchEvent(s)
  PROVE  Types'
  <1>1. CASE Open(s)
    BY <1>1 DEF Types, Open, Stages, requests, events
  <1>2. CASE Destroy(s)
    <2>1. promise' \in [Requests -> Promises]
      BY <1>2, SettleMeans DEF Destroy, Promises
    <2> QED
      BY <1>2, <2>1 DEF Types, Destroy, Forget, Stages, events
  <1>3. CASE RegisterRequestHandler(s) \/ UnregisterHandler(s)
    BY <1>3 DEF Types, RegisterRequestHandler, UnregisterHandler, requests, events
  <1>4. CASE Miss(s)
    <2>1. net' \in [Sides -> Seq(Messages)]
      BY <1>4, TakenMeans DEF Miss
    <2> QED
      BY <1>4, <2>1 DEF Types, Miss, requests, events
  <1>5. CASE Keep(s)
    <2>1. net' \in [Sides -> Seq(Messages)]
      BY <1>5, TakenMeans DEF Keep
    <2>2. Head(net[s]) \in Messages
      BY <1>5 DEF Keep, Types
    <2>3. early' \in [Sides -> Seq(Messages)]
      BY <1>5, <2>2 DEF Keep, Types
    <2>4. arrived' \in [Sides -> Nat]
      BY <1>5 DEF Keep, Types
    <2> QED
      BY <1>5, <2>1, <2>3, <2>4 DEF Types, Keep, requests
  <1>6. CASE Fire(s)
    <2>1. net' \in [Sides -> Seq(Messages)]
      BY <1>6, TakenMeans DEF Fire, Comes
    <2>2. arrived' \in [Sides -> Nat] /\ heard' \in [Sides -> Nat]
      BY <1>6 DEF Fire, Types
    <2> QED
      BY <1>6, <2>1, <2>2 DEF Types, Fire, requests
  <1>7. CASE DispatchEvent(s)
    <2>1. net' \in [Sides -> Seq(Messages)]
      BY <1>7, SendMeans, MessageFacts DEF DispatchEvent
    <2>2. sent' \in [Sides -> 0..MaxEvents]
      BY <1>7, BusAssumption DEF DispatchEvent, Types
    <2> QED
      BY <1>7, <2>1, <2>2 DEF Types, DispatchEvent, requests
  <1> QED
    BY <1>1, <1>2, <1>3, <1>4, <1>5, <1>6, <1>7

LEMMA TypeFrame ==
  ASSUME Types, Start \/ Load \/ Reload
  PROVE  Types'
  <1>1. CASE Start
    BY <1>1 DEF Types, Start, Stages, requests, events
  <1>2. CASE Load
    BY <1>2 DEF Types, Load, Stages, Sides, requests, events
  <1>3. CASE Reload
    <2>1. promise' \in [Requests -> Promises]
      BY <1>3, SettleMeans DEF Reload, Promises
    <2>2. reloads' \in 0..MaxReloads
      BY <1>3, BusAssumption DEF Reload, Types
    <2>3. << >> \in Seq(Messages)
      OBVIOUS
    <2>4. net' \in [Sides -> Seq(Messages)]
      BY <1>3, <2>3 DEF Reload, Types
    <2> QED
      BY <1>3, <2>1, <2>2, <2>4 DEF Types, Reload, Forget, Stages, events
  <1> QED
    BY <1>1, <1>2, <1>3

LEMMA TypeRequests ==
  ASSUME Types, NEW r \in Requests,
         \/ Request(r) \/ RequestThrows(r) \/ Timeout(r)
         \/ Refuse(r) \/ ServeLater(r) \/ ServeEndsUnsent(r)
         \/ \E status \in {"success", "error"} :
              Serve(r, status) \/ ServeEnds(r, status) \/ EndAction(r, status)
  PROVE  Types'
  <1>1. CASE Request(r)
    <2>1. net' \in [Sides -> Seq(Messages)]
      BY <1>1, SendMeans, SideFacts, MessageFacts DEF Request
    <2> QED
      BY <1>1, <2>1 DEF Types, Request, Arm, Promises, events
  <1>2. CASE RequestThrows(r)
    BY <1>2 DEF Types, RequestThrows, Arm, Promises, events
  <1>3. CASE Timeout(r)
    <2>1. promise' \in [Requests -> Promises]
      BY <1>3, SettleMeans DEF Timeout, Promises
    <2> QED
      BY <1>3, <2>1 DEF Types, Timeout, Forget, events
  <1>4. CASE Refuse(r)
    <2>1. net' \in [Sides -> Seq(Messages)]
      BY <1>4, AnsweringMeans, SideFacts, MessageFacts DEF Refuse, Comes
    <2> QED
      BY <1>4, <2>1 DEF Types, Refuse, requests, events
  <1>5. CASE ServeLater(r)
    <2>1. net' \in [Sides -> Seq(Messages)]
      BY <1>5, TakenMeans, SideFacts DEF ServeLater, Comes
    <2>2. ran' \in [Requests -> Nat]
      BY <1>5 DEF ServeLater, Types
    <2> QED
      BY <1>5, <2>1, <2>2 DEF Types, ServeLater, events
  <1>6. CASE ServeEndsUnsent(r)
    BY <1>6 DEF Types, ServeEndsUnsent, events
  <1>7. ASSUME NEW status \in {"success", "error"}, Serve(r, status)
        PROVE  Types'
    <2>1. net' \in [Sides -> Seq(Messages)]
      BY <1>7, AnsweringMeans, SideFacts, MessageFacts DEF Serve, Comes
    <2>2. ran' \in [Requests -> Nat]
      BY <1>7 DEF Serve, Types
    <2> QED
      BY <1>7, <2>1, <2>2 DEF Types, Serve, events
  <1>8. ASSUME NEW status \in {"success", "error"}, ServeEnds(r, status)
        PROVE  Types'
    <2>1. net' \in [Sides -> Seq(Messages)]
      BY <1>8, SendMeans, SideFacts, MessageFacts DEF ServeEnds
    <2> QED
      BY <1>8, <2>1 DEF Types, ServeEnds, events
  <1>9. ASSUME NEW status \in {"success", "error"}, EndAction(r, status)
        PROVE  Types'
    <2>1. net' \in [Sides -> Seq(Messages)]
      BY <1>9, TakenMeans, SideFacts DEF EndAction, Comes
    <2>2. promise' \in [Requests -> Promises] /\ active' \subseteq Requests /\ timers' \subseteq Requests
      BY <1>9, SettleMeans DEF EndAction, Promises, Types, Forget
    <2> QED
      BY <1>9, <2>1, <2>2 DEF Types, EndAction, events
  <1> QED
    BY <1>1, <1>2, <1>3, <1>4, <1>5, <1>6, <1>7, <1>8, <1>9

LEMMA TypeStep == Types /\ [Next]_vars => Types'
  <1> SUFFICES ASSUME Types, [Next]_vars PROVE Types'
    OBVIOUS
  <1>1. CASE Next
    BY <1>1, TypeSides, TypeFrame, TypeRequests DEF Next
  <1>2. CASE UNCHANGED vars
    BY <1>2 DEF Types, vars, requests, events
  <1> QED
    BY <1>1, <1>2

---------------------------------------------------------------------------
(* The hash.                                                                 *)

LEMMA ReachableInit == Init => PendingIsReachable
  BY DEF Init, PendingIsReachable

LEMMA ReachableStep ==
  Types /\ PendingIsReachable /\ [Next]_vars => PendingIsReachable'
  <1> SUFFICES ASSUME Types, PendingIsReachable, [Next]_vars PROVE PendingIsReachable'
    OBVIOUS
  <1>1. ASSUME UNCHANGED <<active, timers, promise>>
        PROVE  PendingIsReachable'
    BY <1>1 DEF PendingIsReachable
  \* entries are removed and their promises settled
  <1>2. ASSUME NEW S, NEW v \in Promises \ {"pending"}, Forget(S), Settle(S, v)
        PROVE  PendingIsReachable'
    <2>1. \A r \in Requests : promise'[r] = IF r \in S /\ promise[r] = "pending" THEN v ELSE promise[r]
      BY <1>2, SettleMeans
    <2>2. active' = active \ S /\ timers' = timers \ S /\ active \subseteq Requests
      BY <1>2 DEF Forget, Types
    <2> QED
      BY <1>2, <2>1, <2>2 DEF PendingIsReachable
  <1>3. CASE UNCHANGED vars
    BY <1>1, <1>3 DEF vars, requests
  <1>4. CASE Start \/ Load
    BY <1>1, <1>4 DEF Start, Load, requests
  <1>5. CASE Reload
    BY <1>2, <1>5 DEF Reload, Promises
  <1>6. ASSUME NEW s \in Sides, Destroy(s)
        PROVE  PendingIsReachable'
    BY <1>2, <1>6 DEF Destroy, Promises
  <1>7. ASSUME NEW s \in Sides,
               \/ Open(s) \/ RegisterRequestHandler(s) \/ UnregisterHandler(s)
               \/ Miss(s) \/ Keep(s) \/ Fire(s) \/ DispatchEvent(s)
        PROVE  PendingIsReachable'
    BY <1>1, <1>7 DEF Open, RegisterRequestHandler, UnregisterHandler, Miss, Keep, Fire,
                      DispatchEvent, requests
  <1>8. ASSUME NEW r \in Requests, Request(r) \/ RequestThrows(r)
        PROVE  PendingIsReachable'
    <2>1. r \notin active
      BY <1>8 DEF PendingIsReachable, Request, RequestThrows
    <2>2. \A q \in Requests \ {r} : promise'[q] = promise[q]
      BY <1>8 DEF Types, Request, RequestThrows
    <2>3. promise'[r] \in {"pending", "thrown"}
      BY <1>8 DEF Types, Request, RequestThrows
    <2>4. active' = active \cup {r} /\ timers' = timers \cup ({r} \ Untimed) /\ active \subseteq Requests
      BY <1>8 DEF Types, Request, RequestThrows, Arm
    <2> QED
      BY <2>1, <2>2, <2>3, <2>4 DEF PendingIsReachable
  <1>9. ASSUME NEW r \in Requests, Timeout(r)
        PROVE  PendingIsReachable'
    BY <1>2, <1>9 DEF Timeout, Promises
  <1>10. ASSUME NEW r \in Requests, NEW status \in {"success", "error"}, EndAction(r, status)
         PROVE  PendingIsReachable'
    <2>1. CASE r \in active
      BY <1>2, <1>10, <2>1 DEF EndAction, Promises
    <2>2. CASE r \notin active
      BY <1>1, <1>10, <2>2 DEF EndAction
    <2> QED
      BY <2>1, <2>2
  <1>11. ASSUME NEW r \in Requests, NEW status \in {"success", "error"},
                \/ Refuse(r) \/ ServeLater(r) \/ ServeEndsUnsent(r)
                \/ Serve(r, status) \/ ServeEnds(r, status)
         PROVE  PendingIsReachable'
    BY <1>1, <1>11 DEF Refuse, ServeLater, ServeEndsUnsent, Serve, ServeEnds, requests
  <1> QED
    BY <1>3, <1>4, <1>5, <1>6, <1>7, <1>8, <1>9, <1>10, <1>11 DEF Next

\* No request of any number of requests is forgotten while its caller waits,
\* and no entry outlives its promise but that of a message that was not posted.
THEOREM Reachable == Spec => []PendingIsReachable
  <1> QED
    BY TypeInit, TypeStep, ReachableInit, ReachableStep, PTL DEF Spec

---------------------------------------------------------------------------
(* Messages.                                                                 *)

\* what the message at place i of the queue q of window s tells, when the
\* promises are p and the handlers have run k times
Fits(q, i, s, p, k) ==
  /\ q[i].type = "action" =>
       /\ ServerOf(q[i].id) = s /\ p[q[i].id] # "none" /\ k[q[i].id] = 0
       /\ \A j \in 1..Len(q) : q[j] = q[i] => j = i
  /\ q[i].type = "success" => CallerOf(q[i].id) = s /\ k[q[i].id] = 1
  /\ q[i].type = "error" => CallerOf(q[i].id) = s

Fitting(q, s, p, k) == \A i \in 1..Len(q) : Fits(q, i, s, p, k)

Has(q, m) == \E i \in 1..Len(q) : q[i] = m

RunsOnce ==
  \A r \in Requests :
    /\ ran[r] \in {0, 1}
    /\ promise[r] = "none" => ran[r] = 0
    /\ r \in running => ran[r] = 1

MessageInv == (\A s \in Sides : Fitting(net[s], s, promise, ran)) /\ RunsOnce

LEMMA TailFits ==
  ASSUME NEW q \in Seq(Messages), q # << >>, NEW s, NEW p, NEW k, Fitting(q, s, p, k)
  PROVE  /\ Fitting(Tail(q), s, p, k)
         /\ Head(q).type = "action" => ~Has(Tail(q), Head(q))
         /\ Fits(q, 1, s, p, k) /\ Head(q) = q[1]
  <1>1. /\ Len(Tail(q)) = Len(q) - 1 /\ Len(q) \in Nat \ {0} /\ Head(q) = q[1]
        /\ \A i \in 1..Len(Tail(q)) : Tail(q)[i] = q[i + 1] /\ i + 1 \in 1..Len(q)
    OBVIOUS
  <1>2. ASSUME NEW i \in 1..Len(Tail(q))
        PROVE  Fits(Tail(q), i, s, p, k)
    <2>1. Fits(q, i + 1, s, p, k)
      BY <1>1, <1>2 DEF Fitting
    <2>2. ASSUME q[i + 1].type = "action", NEW j \in 1..Len(Tail(q)), Tail(q)[j] = Tail(q)[i]
          PROVE  j = i
      <3>1. j + 1 \in 1..Len(q) /\ q[j + 1] = q[i + 1]
        BY <1>1, <2>2
      <3>2. j + 1 = i + 1
        BY <2>1, <2>2, <3>1 DEF Fits
      <3> QED
        BY <3>2, <1>1
    <2> QED
      BY <1>1, <2>1, <2>2 DEF Fits
  <1>3. 1 \in 1..Len(q)
    BY <1>1
  <1>4. ASSUME Head(q).type = "action", NEW i \in 1..Len(Tail(q))
        PROVE  Tail(q)[i] # Head(q)
    <2>1. i + 1 \in 1..Len(q) /\ Tail(q)[i] = q[i + 1] /\ i + 1 # 1
      BY <1>1, <1>4
    <2>2. Fits(q, 1, s, p, k)
      BY <1>3 DEF Fitting
    <2> QED
      BY <1>1, <1>4, <2>1, <2>2 DEF Fits
  <1> QED
    BY <1>1, <1>2, <1>3, <1>4 DEF Fitting, Has

LEMMA AppendFits ==
  ASSUME NEW q \in Seq(Messages), NEW m \in Messages, NEW s, NEW p, NEW k, Fitting(q, s, p, k),
         m.type = "action" => /\ ServerOf(m.id) = s /\ p[m.id] # "none" /\ k[m.id] = 0
                              /\ ~Has(q, m),
         m.type = "success" => CallerOf(m.id) = s /\ k[m.id] = 1,
         m.type = "error" => CallerOf(m.id) = s
  PROVE  Fitting(Append(q, m), s, p, k)
  <1> DEFINE a == Append(q, m)
  <1>1. /\ Len(q) \in Nat /\ Len(a) = Len(q) + 1 /\ a[Len(q) + 1] = m
        /\ \A i \in 1..Len(q) : a[i] = q[i]
    OBVIOUS
  <1> HIDE DEF a
  <1>2. ASSUME NEW i \in 1..Len(q)
        PROVE  Fits(a, i, s, p, k)
    <2>1. Fits(q, i, s, p, k) /\ a[i] = q[i]
      BY <1>1 DEF Fitting
    <2>2. ASSUME q[i].type = "action", NEW j \in 1..Len(a), a[j] = a[i]
          PROVE  j = i
      <3>1. CASE j \in 1..Len(q)
        BY <1>1, <2>1, <2>2, <3>1 DEF Fits
      <3>2. CASE j \notin 1..Len(q)
        <4>1. j = Len(q) + 1
          BY <1>1, <3>2
        <4>2. m = q[i] /\ Has(q, m)
          BY <1>1, <2>1, <2>2, <4>1 DEF Has
        <4> QED
          BY <2>2, <4>2
      <3> QED
        BY <3>1, <3>2
    <2> QED
      BY <2>1, <2>2 DEF Fits
  <1>3. Fits(a, Len(q) + 1, s, p, k)
    <2>1. ASSUME m.type = "action", NEW j \in 1..Len(a), a[j] = m
          PROVE  j = Len(q) + 1
      <3>1. j \notin 1..Len(q)
        BY <1>1, <2>1 DEF Has
      <3> QED
        BY <1>1, <3>1
    <2> QED
      BY <1>1, <2>1 DEF Fits
  <1>4. \A i \in 1..Len(a) : i \in 1..Len(q) \/ i = Len(q) + 1
    BY <1>1
  <1> QED
    BY <1>2, <1>3, <1>4 DEF Fitting, a

\* promises and runs move on, but not those of the actions in the queue
LEMMA LaterFits ==
  ASSUME NEW q \in Seq(Messages), NEW s, NEW p, NEW k, Fitting(q, s, p, k), NEW pp, NEW kk,
         \A m \in Messages : Has(q, m) /\ m.type = "action" =>
           (p[m.id] # "none" => pp[m.id] # "none") /\ kk[m.id] = k[m.id],
         \A m \in Messages : Has(q, m) /\ m.type = "success" => (k[m.id] = 1 => kk[m.id] = 1)
  PROVE  Fitting(q, s, pp, kk)
  <1> SUFFICES ASSUME NEW i \in 1..Len(q) PROVE Fits(q, i, s, pp, kk)
    BY DEF Fitting
  <1>1. Fits(q, i, s, p, k)
    BY DEF Fitting
  <1>2. q[i] \in Messages /\ Has(q, q[i])
    BY DEF Has
  <1> QED
    BY <1>1, <1>2 DEF Fits

LEMMA KnownMessages ==
  \A m \in Messages :
    /\ m.type = "action" => m.id \in Requests /\ m = Action(m.id)
    /\ m.type = "success" => m.id \in Requests
  BY DEF Messages, Calls, Action

LEMMA EmptyFits == \A s, p, k : Fitting(<< >>, s, p, k)
  BY DEF Fitting

LEMMA MessageInit == Init => MessageInv
  <1> SUFFICES ASSUME Init PROVE MessageInv
    OBVIOUS
  <1>1. \A s \in Sides : Fitting(net[s], s, promise, ran)
    BY EmptyFits DEF Init
  <1> QED
    BY <1>1 DEF Init, MessageInv, RunsOnce

\* no handler starts: the queues fit what they told before
LEMMA NoRun ==
  ASSUME Types, MessageInv, net' \in [Sides -> Seq(Messages)],
         UNCHANGED ran, running' \subseteq running,
         \A r \in Requests : promise[r] # "none" => promise'[r] # "none",
         \A s \in Sides : Fitting(net'[s], s, promise, ran) \/ Fitting(net'[s], s, promise', ran)
  PROVE  MessageInv'
  <1>1. ASSUME NEW s \in Sides
        PROVE  Fitting(net'[s], s, promise', ran')
    <2>1. net'[s] \in Seq(Messages)
      OBVIOUS
    <2>2. CASE Fitting(net'[s], s, promise, ran)
      BY <2>1, <2>2, LaterFits, KnownMessages
    <2> QED
      BY <2>2
  <1>2. RunsOnce'
    BY DEF MessageInv, RunsOnce
  <1> QED
    BY <1>1, <1>2 DEF MessageInv

LEMMA QuietKeeps ==
  ASSUME Types, MessageInv, UNCHANGED <<net, ran>>, running' \subseteq running,
         \A r \in Requests : promise[r] # "none" => promise'[r] # "none"
  PROVE  MessageInv'
  BY NoRun DEF MessageInv, Types

LEMMA TakenKeeps ==
  ASSUME Types, MessageInv, NEW s \in Sides, net[s] # << >>, Taken(s),
         UNCHANGED <<ran, running>>,
         \A r \in Requests : promise[r] # "none" => promise'[r] # "none"
  PROVE  MessageInv'
  <1>1. net[s] \in Seq(Messages)
    BY DEF Types
  <1>2. \A t \in Sides : Fitting(net[t], t, promise, ran)
    BY DEF MessageInv
  <1>3. Fitting(Tail(net[s]), s, promise, ran)
    BY <1>1, <1>2, TailFits
  <1>4. \A t \in Sides : Fitting(net'[t], t, promise, ran)
    BY <1>2, <1>3, TakenMeans
  <1> QED
    BY <1>4, TakenMeans, NoRun

\* a message that tells nothing, or what is so
LEMMA SendKeeps ==
  ASSUME Types, MessageInv, NEW s \in Sides, NEW m \in Messages, Send(s, m),
         UNCHANGED ran, running' \subseteq running,
         \A r \in Requests : promise[r] # "none" => promise'[r] # "none",
         m.type = "action" => /\ ServerOf(m.id) = Peer(s) /\ promise'[m.id] # "none"
                              /\ promise[m.id] = "none",
         m.type = "success" => CallerOf(m.id) = Peer(s) /\ ran[m.id] = 1,
         m.type = "error" => CallerOf(m.id) = Peer(s)
  PROVE  MessageInv'
  <1> DEFINE t == Peer(s)
  <1>1. t \in Sides /\ t # s /\ \A u \in Sides : u = s \/ u = t
    BY SideFacts
  <1>2. net[t] \in Seq(Messages) /\ Fitting(net[t], t, promise, ran) /\ Fitting(net[s], s, promise, ran)
    BY <1>1 DEF Types, MessageInv
  <1>3. Fitting(net[t], t, promise', ran)
    BY <1>2, LaterFits, KnownMessages
  <1>4. m.type = "action" => ran[m.id] = 0
    BY KnownMessages DEF MessageInv, RunsOnce
  <1>5. m.type = "action" => ~Has(net[t], m)
    <2> SUFFICES ASSUME m.type = "action", NEW i \in 1..Len(net[t]), net[t][i] = m
                 PROVE  FALSE
      BY DEF Has
    <2>1. Fits(net[t], i, t, promise, ran)
      BY <1>2 DEF Fitting
    <2> QED
      BY <2>1 DEF Fits
  <1>6. Fitting(Append(net[t], m), t, promise', ran)
    BY <1>2, <1>3, <1>4, <1>5, AppendFits
  <1>7. \A u \in Sides : Fitting(net'[u], u, promise, ran) \/ Fitting(net'[u], u, promise', ran)
    BY <1>1, <1>2, <1>6, SendMeans
  <1> QED
    BY <1>7, SendMeans, NoRun

\* the action at the head of a queue has not run, and is nowhere else
LEMMA ServeFacts ==
  ASSUME Types, MessageInv, NEW r \in Requests, Comes(ServerOf(r), Action(r))
  PROVE  /\ ran[r] = 0 /\ promise[r] # "none" /\ r \notin running
         /\ net[ServerOf(r)] \in Seq(Messages) /\ net[CallerOf(r)] \in Seq(Messages)
         /\ Fitting(Tail(net[ServerOf(r)]), ServerOf(r), promise, [ran EXCEPT ![r] = @ + 1])
         /\ Fitting(net[CallerOf(r)], CallerOf(r), promise, [ran EXCEPT ![r] = @ + 1])
  <1> DEFINE s == ServerOf(r)
             c == CallerOf(r)
             k == [ran EXCEPT ![r] = @ + 1]
  <1>1. s \in Sides /\ c \in Sides /\ s # c
    BY SideFacts
  <1>2. /\ net[s] \in Seq(Messages) /\ net[c] \in Seq(Messages)
        /\ net[s] # << >> /\ Head(net[s]) = Action(r)
        /\ Fitting(net[s], s, promise, ran) /\ Fitting(net[c], c, promise, ran)
    BY <1>1 DEF Types, MessageInv, Comes
  <1>3. Action(r).type = "action" /\ Action(r).id = r
    BY MessageFacts
  <1>4. /\ Fitting(Tail(net[s]), s, promise, ran) /\ ~Has(Tail(net[s]), Action(r))
        /\ ran[r] = 0 /\ promise[r] # "none"
    <2>1. /\ Fitting(Tail(net[s]), s, promise, ran) /\ ~Has(Tail(net[s]), Action(r))
          /\ Fits(net[s], 1, s, promise, ran) /\ net[s][1] = Action(r)
      BY <1>2, <1>3, TailFits
    <2> QED
      BY <1>3, <2>1 DEF Fits
  <1>5. k[r] = 1 /\ \A q \in Requests \ {r} : k[q] = ran[q]
    BY <1>4 DEF Types
  <1>6. Tail(net[s]) \in Seq(Messages)
    BY <1>2
  <1>7. \A m \in Messages : Has(Tail(net[s]), m) /\ m.type = "action" => m.id # r
    BY <1>4, KnownMessages
  <1>8. \A m \in Messages : Has(net[c], m) /\ m.type = "action" => m.id # r
    <2> SUFFICES ASSUME NEW m \in Messages, NEW i \in 1..Len(net[c]), net[c][i] = m,
                        m.type = "action", m.id = r
                 PROVE  FALSE
      BY DEF Has
    <2>1. Fits(net[c], i, c, promise, ran)
      BY <1>2 DEF Fitting
    <2> QED
      BY <1>1, <2>1 DEF Fits
  <1> HIDE DEF k
  <1>9. \A m \in Messages : m.type = "success" => (ran[m.id] = 1 => k[m.id] = 1)
    BY <1>5, KnownMessages
  <1>10. Fitting(Tail(net[s]), s, promise, k)
    <2>1. \A m \in Messages : Has(Tail(net[s]), m) /\ m.type = "action" =>
            (promise[m.id] # "none" => promise[m.id] # "none") /\ k[m.id] = ran[m.id]
      BY <1>5, <1>7, KnownMessages
    <2> QED
      BY <1>4, <1>6, <1>9, <2>1, LaterFits
  <1>11. Fitting(net[c], c, promise, k)
    <2>1. \A m \in Messages : Has(net[c], m) /\ m.type = "action" =>
            (promise[m.id] # "none" => promise[m.id] # "none") /\ k[m.id] = ran[m.id]
      BY <1>5, <1>8, KnownMessages
    <2> QED
      BY <1>2, <1>9, <2>1, LaterFits
  <1>12. r \notin running
    BY <1>4 DEF MessageInv, RunsOnce
  <1> QED
    BY <1>2, <1>4, <1>10, <1>11, <1>12 DEF k

LEMMA MessageRequests ==
  ASSUME Types, MessageInv, NEW r \in Requests,
         \/ Request(r) \/ RequestThrows(r) \/ Timeout(r)
         \/ Refuse(r) \/ ServeLater(r) \/ ServeEndsUnsent(r)
         \/ \E status \in {"success", "error"} :
              Serve(r, status) \/ ServeEnds(r, status) \/ EndAction(r, status)
  PROVE  MessageInv'
  <1> DEFINE s == ServerOf(r)
             c == CallerOf(r)
  <1>s. /\ s \in Sides /\ c \in Sides /\ s # c /\ Peer(s) = c /\ Peer(c) = s
        /\ \A u \in Sides : u = s \/ u = c
    BY SideFacts
  <1>1. CASE Request(r)
    <2>1. /\ promise[r] = "none" /\ promise' = [promise EXCEPT ![r] = "pending"]
          /\ Send(c, Action(r)) /\ UNCHANGED <<ran, running>>
      BY <1>1 DEF Request
    <2>2. /\ promise'[r] # "none"
          /\ \A q \in Requests : promise[q] # "none" => promise'[q] # "none"
      BY <2>1 DEF Types
    <2> QED
      BY <1>s, <2>1, <2>2, MessageFacts, SendKeeps
  <1>2. CASE RequestThrows(r)
    <2>1. \A q \in Requests : promise[q] # "none" => promise'[q] # "none"
      BY <1>2 DEF RequestThrows, Types
    <2> QED
      BY <1>2, <2>1, QuietKeeps DEF RequestThrows
  <1>3. CASE Timeout(r)
    <2>1. \A q \in Requests : promise[q] # "none" => promise'[q] # "none"
      BY <1>3, SettleMeans DEF Timeout, Promises
    <2> QED
      BY <1>3, <2>1, QuietKeeps DEF Timeout
  <1>4. CASE Refuse(r)
    <2> DEFINE m == Response(r, "error")
    <2>1. m \in Messages /\ m.type = "error" /\ CallerOf(m.id) = c
      BY MessageFacts
    <2>2. TakenAnswering(s, m) /\ Comes(s, Action(r)) /\ UNCHANGED <<promise, ran, running>>
      BY <1>4 DEF Refuse, requests
    <2>3. /\ net[s] # << >> /\ net[s] \in Seq(Messages) /\ net[c] \in Seq(Messages)
          /\ Fitting(net[s], s, promise, ran) /\ Fitting(net[c], c, promise, ran)
      BY <1>s, <2>2 DEF Comes, Types, MessageInv
    <2> HIDE DEF m
    <2>4. Fitting(Tail(net[s]), s, promise, ran)
      BY <2>3, TailFits
    <2>5. Fitting(Append(net[c], m), c, promise, ran)
      BY <2>1, <2>3, AppendFits
    <2>6. /\ net' \in [Sides -> Seq(Messages)]
          /\ net'[s] = Tail(net[s]) /\ net'[c] = Append(net[c], m)
      BY <1>s, <2>1, <2>2, <2>3, AnsweringMeans
    <2>7. \A u \in Sides : Fitting(net'[u], u, promise, ran)
      BY <1>s, <2>4, <2>5, <2>6
    <2> QED
      BY <2>2, <2>6, <2>7, NoRun
  <1>5. CASE ServeLater(r)
    <2>1. /\ Taken(s) /\ Comes(s, Action(r)) /\ UNCHANGED promise /\ net[s] # << >>
          /\ ran' = [ran EXCEPT ![r] = @ + 1] /\ running' = running \cup {r}
      BY <1>5 DEF ServeLater, Comes
    <2>2. \A u \in Sides : Fitting(net'[u], u, promise', ran')
      <3>1. /\ Fitting(Tail(net[s]), s, promise', ran') /\ Fitting(net[c], c, promise', ran')
        BY <2>1, ServeFacts
      <3>2. net'[s] = Tail(net[s]) /\ net'[c] = net[c]
        BY <1>s, <2>1, TakenMeans
      <3> QED
        BY <1>s, <3>1, <3>2
    <2>3. RunsOnce'
      <3>1. ran'[r] = 1 /\ promise[r] # "none" /\ \A q \in Requests \ {r} : ran'[q] = ran[q]
        BY <2>1, ServeFacts DEF Types
      <3> QED
        BY <2>1, <3>1 DEF RunsOnce, MessageInv
    <2> QED
      BY <2>2, <2>3 DEF MessageInv
  <1>6. CASE ServeEndsUnsent(r)
    BY <1>6, QuietKeeps DEF ServeEndsUnsent
  <1>7. ASSUME NEW status \in {"success", "error"}, Serve(r, status)
        PROVE  MessageInv'
    <2> DEFINE m == Response(r, status)
    <2>1. m \in Messages /\ m.type = status /\ m.id = r
      BY MessageFacts
    <2>2. /\ TakenAnswering(s, m) /\ Comes(s, Action(r)) /\ net[s] # << >>
          /\ UNCHANGED <<promise, running>> /\ ran' = [ran EXCEPT ![r] = @ + 1]
      BY <1>7 DEF Serve, Comes
    <2> HIDE DEF m
    <2>3. ran'[r] = 1 /\ promise[r] # "none" /\ \A q \in Requests \ {r} : ran'[q] = ran[q]
      <3>1. ran[r] = 0 /\ promise[r] # "none"
        BY <2>2, ServeFacts
      <3> QED
        BY <2>2, <3>1 DEF Types
    <2>4. /\ net[c] \in Seq(Messages)
          /\ Fitting(Tail(net[s]), s, promise, ran') /\ Fitting(net[c], c, promise, ran')
      BY <2>2, ServeFacts
    <2>5. Fitting(Append(net[c], m), c, promise, ran')
      BY <2>1, <2>3, <2>4, AppendFits
    <2>6. net'[s] = Tail(net[s]) /\ net'[c] = Append(net[c], m)
      BY <1>s, <2>1, <2>2, AnsweringMeans
    <2>7. \A u \in Sides : Fitting(net'[u], u, promise', ran')
      BY <1>s, <2>2, <2>4, <2>5, <2>6
    <2>8. RunsOnce'
      BY <2>2, <2>3 DEF RunsOnce, MessageInv
    <2> QED
      BY <2>7, <2>8 DEF MessageInv
  <1>8. ASSUME NEW status \in {"success", "error"}, ServeEnds(r, status)
        PROVE  MessageInv'
    <2>1. /\ Send(s, Response(r, status)) /\ UNCHANGED <<promise, ran>>
          /\ running' \subseteq running /\ r \in running
      BY <1>8 DEF ServeEnds
    <2>2. ran[r] = 1
      BY <2>1 DEF MessageInv, RunsOnce
    <2>3. /\ Response(r, status) \in Messages
          /\ Response(r, status).type = status /\ Response(r, status).id = r
      BY MessageFacts
    <2> QED
      BY <1>s, <2>1, <2>2, <2>3, SendKeeps
  <1>9. ASSUME NEW status \in {"success", "error"}, EndAction(r, status)
        PROVE  MessageInv'
    <2>1. \A q \in Requests : promise[q] # "none" => promise'[q] # "none"
      BY <1>9, SettleMeans DEF EndAction, Promises
    <2> QED
      BY <1>s, <1>9, <2>1, TakenKeeps DEF EndAction, Comes
  <1> QED
    BY <1>1, <1>2, <1>3, <1>4, <1>5, <1>6, <1>7, <1>8, <1>9

LEMMA MessageOthers ==
  ASSUME Types, MessageInv,
         \/ Start \/ Load \/ Reload
         \/ \E s \in Sides :
              \/ Open(s) \/ Destroy(s)
              \/ RegisterRequestHandler(s) \/ UnregisterHandler(s)
              \/ Miss(s) \/ Keep(s) \/ Fire(s) \/ DispatchEvent(s)
  PROVE  MessageInv'
  <1>1. CASE Start \/ Load
    BY <1>1, QuietKeeps DEF Start, Load, requests
  <1>2. CASE Reload
    <2>1. \A q \in Requests : promise[q] # "none" => promise'[q] # "none"
      BY <1>2, SettleMeans DEF Reload, Promises
    <2>2. << >> \in Seq(Messages)
      OBVIOUS
    <2>3. net' \in [Sides -> Seq(Messages)]
      BY <1>2, <2>2 DEF Reload, Types
    <2>4. \A u \in Sides : Fitting(net'[u], u, promise, ran)
      BY <1>2, EmptyFits DEF Reload, Types, MessageInv
    <2> QED
      BY <1>2, <2>1, <2>3, <2>4, NoRun DEF Reload
  <1>3. ASSUME NEW s \in Sides, Open(s) \/ RegisterRequestHandler(s) \/ UnregisterHandler(s)
        PROVE  MessageInv'
    BY <1>3, QuietKeeps DEF Open, RegisterRequestHandler, UnregisterHandler, requests
  <1>4. ASSUME NEW s \in Sides, Destroy(s)
        PROVE  MessageInv'
    <2>1. \A q \in Requests : promise[q] # "none" => promise'[q] # "none"
      BY <1>4, SettleMeans DEF Destroy, Promises
    <2> QED
      BY <1>4, <2>1, QuietKeeps DEF Destroy
  <1>5. ASSUME NEW s \in Sides, Miss(s) \/ Keep(s) \/ Fire(s)
        PROVE  MessageInv'
    BY <1>5, TakenKeeps DEF Miss, Keep, Fire, Comes, requests
  <1>6. ASSUME NEW s \in Sides, DispatchEvent(s)
        PROVE  MessageInv'
    <2>1. Event \in Messages /\ Event.type = "event"
      BY MessageFacts DEF Event
    <2> QED
      BY <1>6, <2>1, SendKeeps DEF DispatchEvent, requests
  <1> QED
    BY <1>1, <1>2, <1>3, <1>4, <1>5, <1>6

LEMMA MessageStep == Types /\ MessageInv /\ [Next]_vars => MessageInv'
  <1> SUFFICES ASSUME Types, MessageInv, [Next]_vars PROVE MessageInv'
    OBVIOUS
  <1>1. CASE Next
    BY <1>1, MessageRequests, MessageOthers DEF Next
  <1>2. CASE UNCHANGED vars
    BY <1>2, QuietKeeps DEF vars, requests
  <1> QED
    BY <1>1, <1>2

\* A message is on its way to the window it is meant for.
LEMMA AddressedToSide ==
  ASSUME Types, MessageInv, NEW s \in Sides
  PROVE  net[s] \in Seq(MessagesTo(s))
  <1>1. net[s] \in Seq(Messages)
    BY DEF Types
  <1>2. ASSUME NEW i \in 1..Len(net[s])
        PROVE  net[s][i] \in MessagesTo(s)
    <2>1. net[s][i] \in Messages /\ Fits(net[s], i, s, promise, ran)
      BY <1>1 DEF MessageInv, Fitting
    <2> QED
      BY <2>1, SideFacts DEF Fits, Messages, Calls, MessagesTo, OfSide
  <1> QED
    BY <1>1, <1>2

\* The windows, queues, hashes, timers and promises keep their types for any
\* requests of the two applications and any bounds.
THEOREM TypeCorrect == Spec => []TypeOK
  <1>1. Types /\ MessageInv => TypeOK
    BY AddressedToSide DEF TypeOK
  <1> QED
    BY <1>1, TypeInit, TypeStep, MessageInit, MessageStep, PTL DEF Spec

---------------------------------------------------------------------------
(* The promise of the application.                                           *)

LEMMA OutcomeMeans ==
  /\ Outcome("none") = "none" /\ Outcome("pending") = "waiting" /\ Outcome("ok") = "ok"
  /\ \A v \in Promises \ {"none", "pending", "ok"} : Outcome(v) = "failed"
  BY DEF Outcome, Promises

LEMMA RefinesInit == Init => Remote!RInit
  BY OutcomeMeans DEF Init, Remote!RInit

\* Some calls fail, and nothing else is seen.
LEMMA OnlyFails ==
  ASSUME UNCHANGED ran,
         \A r \in Requests :
           \/ promise'[r] = promise[r]
           \/ promise[r] \in {"none", "pending"} /\ promise'[r] \in {"error", "thrown", "gone"}
  PROVE  Remote!RNext
  <1> DEFINE S == {r \in Requests : promise'[r] # promise[r]}
  <1>1. \A r \in S : /\ Outcome(promise[r]) \in {"none", "waiting"}
                     /\ Outcome(promise'[r]) = "failed"
    BY OutcomeMeans DEF Promises
  <1>2. [r \in Requests |-> Outcome(promise[r])]' =
          [r \in Requests |-> IF r \in S THEN "failed" ELSE [q \in Requests |-> Outcome(promise[q])][r]]
    BY <1>1
  <1>3. \A r \in S : [q \in Requests |-> Outcome(promise[q])][r] \in {"none", "waiting"}
    BY <1>1
  <1>4. S \in SUBSET Requests
    OBVIOUS
  <1> HIDE DEF S
  <1>5. Remote!Fail(S)
    BY <1>2, <1>3 DEF Remote!Fail
  <1> QED
    BY <1>4, <1>5 DEF Remote!RNext

LEMMA SettleFails ==
  ASSUME Types, UNCHANGED ran, NEW S, NEW v \in {"error", "gone"}, Settle(S, v)
  PROVE  Remote!RNext
  BY SettleMeans, OnlyFails DEF Promises

LEMMA StepRuns ==
  ASSUME Types, MessageInv, NEW r \in Requests, Comes(ServerOf(r), Action(r)),
         UNCHANGED promise, ran' = [ran EXCEPT ![r] = @ + 1]
  PROVE  Remote!RNext
  <1>1. ran[r] = 0 /\ promise[r] # "none" /\ promise[r] \in Promises
    BY ServeFacts DEF Types
  <1>2. ran' = [ran EXCEPT ![r] = 1]
    BY <1>1 DEF Types
  <1>3. [q \in Requests |-> Outcome(promise[q])][r] # "none"
    BY <1>1, OutcomeMeans
  <1>4. [q \in Requests |-> Outcome(promise[q])]' = [q \in Requests |-> Outcome(promise[q])]
    OBVIOUS
  <1>5. Remote!Run(r)
    BY <1>1, <1>2, <1>3, <1>4 DEF Remote!Run
  <1> QED
    BY <1>5 DEF Remote!RNext

LEMMA StepRequests ==
  ASSUME Types, MessageInv, NEW r \in Requests,
         \/ Request(r) \/ RequestThrows(r) \/ Timeout(r)
         \/ Refuse(r) \/ ServeLater(r) \/ ServeEndsUnsent(r)
         \/ \E status \in {"success", "error"} :
              Serve(r, status) \/ ServeEnds(r, status) \/ EndAction(r, status)
  PROVE  Remote!RNext
  <1> DEFINE out == [q \in Requests |-> Outcome(promise[q])]
  <1>1. CASE Request(r)
    <2>1. promise[r] = "none" /\ promise' = [promise EXCEPT ![r] = "pending"] /\ UNCHANGED ran
      BY <1>1 DEF Request
    <2>2. \A q \in Requests : promise'[q] = IF q = r THEN "pending" ELSE promise[q]
      BY <2>1 DEF Types
    <2>3. out[r] = "none" /\ out' = [out EXCEPT ![r] = "waiting"]
      <3>1. \A q \in Requests : Outcome(promise'[q]) = IF q = r THEN "waiting" ELSE Outcome(promise[q])
        BY <2>2, OutcomeMeans
      <3> QED
        BY <2>1, <3>1, OutcomeMeans
    <2>4. Remote!Call(r)
      BY <2>1, <2>3 DEF Remote!Call
    <2> QED
      BY <2>4 DEF Remote!RNext
  <1>2. CASE RequestThrows(r)
    BY <1>2, OnlyFails DEF RequestThrows, Types
  <1>3. CASE Timeout(r)
    BY <1>3, SettleFails DEF Timeout
  <1>4. CASE Refuse(r) \/ ServeEndsUnsent(r)
    BY <1>4, OnlyFails DEF Refuse, ServeEndsUnsent, requests
  <1>5. CASE ServeLater(r)
    BY <1>5, StepRuns DEF ServeLater
  <1>6. ASSUME NEW status \in {"success", "error"}, Serve(r, status)
        PROVE  Remote!RNext
    BY <1>6, StepRuns DEF Serve
  <1>7. ASSUME NEW status \in {"success", "error"}, ServeEnds(r, status)
        PROVE  Remote!RNext
    BY <1>7, OnlyFails DEF ServeEnds
  <1>8. ASSUME NEW status \in {"success", "error"}, EndAction(r, status)
        PROVE  Remote!RNext
    <2> DEFINE c == CallerOf(r)
    <2>1. UNCHANGED ran
      BY <1>8 DEF EndAction
    <2>2. CASE promise' = promise
      BY <2>1, <2>2, OnlyFails
    <2>3. CASE status = "error" /\ promise' # promise
      BY <1>8, <2>1, <2>3, SettleFails DEF EndAction
    <2>4. CASE status = "success" /\ promise' # promise
      <3>1. /\ net[c] # << >> /\ Head(net[c]) = Response(r, "success")
            /\ Settle({r}, "ok") /\ c \in Sides
        BY <1>8, <2>4, SideFacts DEF EndAction, Comes
      <3>2. net[c] \in Seq(Messages) /\ Fitting(net[c], c, promise, ran)
        BY <3>1 DEF Types, MessageInv
      <3>3. ran[r] = 1
        BY <3>1, <3>2, TailFits, MessageFacts DEF Fits
      <3>4. \A q \in Requests : promise'[q] = IF q = r /\ promise[q] = "pending" THEN "ok" ELSE promise[q]
        BY <3>1, SettleMeans DEF Promises
      <3>5. promise[r] = "pending"
        <4>1. promise[r] # "pending" => \A q \in Requests : promise'[q] = promise[q]
          BY <3>4
        <4>2. promise' \in [Requests -> Promises]
          BY <3>1, SettleMeans DEF Promises
        <4> QED
          BY <2>4, <4>1, <4>2 DEF Types
      <3>6. out[r] = "waiting" /\ out' = [out EXCEPT ![r] = "ok"]
        BY <3>4, <3>5, OutcomeMeans
      <3>7. Remote!Fulfil(r)
        BY <2>1, <3>3, <3>6 DEF Remote!Fulfil
      <3> QED
        BY <3>7 DEF Remote!RNext
    <2> QED
      BY <2>2, <2>3, <2>4
  <1> QED
    BY <1>1, <1>2, <1>3, <1>4, <1>5, <1>6, <1>7, <1>8

LEMMA StepOthers ==
  ASSUME Types,
         \/ Start \/ Load \/ Reload
         \/ \E s \in Sides :
              \/ Open(s) \/ Destroy(s)
              \/ RegisterRequestHandler(s) \/ UnregisterHandler(s)
              \/ Miss(s) \/ Keep(s) \/ Fire(s) \/ DispatchEvent(s)
  PROVE  Remote!RNext
  <1>1. CASE Start \/ Load
    BY <1>1, OnlyFails DEF Start, Load, requests
  <1>2. CASE Reload
    BY <1>2, SettleFails DEF Reload
  <1>3. ASSUME NEW s \in Sides, Destroy(s)
        PROVE  Remote!RNext
    BY <1>3, SettleFails DEF Destroy
  <1>4. ASSUME NEW s \in Sides,
               \/ Open(s) \/ RegisterRequestHandler(s) \/ UnregisterHandler(s)
               \/ Miss(s) \/ Keep(s) \/ Fire(s) \/ DispatchEvent(s)
        PROVE  Remote!RNext
    BY <1>4, OnlyFails DEF Open, RegisterRequestHandler, UnregisterHandler, Miss, Keep, Fire,
                           DispatchEvent, requests
  <1> QED
    BY <1>1, <1>2, <1>3, <1>4

LEMMA RefinesNext ==
  Types /\ MessageInv /\ [Next]_vars => [Remote!RNext]_(Remote!rvars)
  <1> SUFFICES ASSUME Types, MessageInv, [Next]_vars
               PROVE  Remote!RNext \/ UNCHANGED Remote!rvars
    OBVIOUS
  <1>1. CASE UNCHANGED vars
    BY <1>1, OnlyFails DEF vars, requests
  <1> QED
    BY <1>1, StepRequests, StepOthers DEF Next

\* For any requests and any bounds, two buses whose windows start, reload and
\* end at any time implement RemoteCall.
THEOREM Remotes == Spec => CallsAreRemote
  <1>1. Init => Types /\ MessageInv /\ Remote!RInit
    BY TypeInit, MessageInit, RefinesInit
  <1> QED
    BY <1>1, TypeStep, MessageStep, RefinesNext, PTL DEF Spec, CallsAreRemote, Remote!Calls
============================================================================
