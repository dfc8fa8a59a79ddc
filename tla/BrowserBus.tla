---------------------------- MODULE BrowserBus ----------------------------
(* The buses of two windows, a page and the frame it embeds (Bus,            *)
(* WindowAdapter, WindowProtocol): requests with timers, the handlers that   *)
(* answer them, events, and the ends of a bus. JavaScript runs one task at a *)
(* time: a message, a timer or a call of the application is one action with  *)
(* the continuations it wakes. postMessage keeps the order of the messages   *)
(* and loses those for which the window has no listener.                     *)
(*                                                                           *)
(* All requests of a window have one name, which its peer serves or not. The *)
(* checks of origin, channel and format pass, as the two windows are meant   *)
(* for each other. The lists of event handlers and changeAdapter, which      *)
(* makes another bus, are left out.                                          *)
EXTENDS Naturals, Sequences

CONSTANTS
  Requests,    \* requests of the two applications, each made at most once
  FromParent,  \* those the page makes
  Untimed,     \* those with timeout -1
  MaxEvents,   \* bound: events of each window
  MaxReloads   \* bound: reloads of the frame

ASSUME BusAssumption ==
  /\ FromParent \subseteq Requests
  /\ Untimed \subseteq Requests
  /\ MaxEvents \in Nat /\ MaxReloads \in Nat

VARIABLES
  stage,    \* how far each window has come
  net,      \* messages on their way to each window
  early,    \* messages createSimpleWindowAdapter keeps while it waits
  serves,   \* the window has a handler for requests
  running,  \* requests whose handler returned a promise that is open
  active,   \* the requests in _activeRequestHash
  timers,   \* the requests whose timer is armed
  promise,  \* what the caller of each request has
  ran,      \* history: runs of the handler for each request
  sent,     \* events dispatched by each window
  arrived,  \* history: events that came to each window while it listened
  heard,    \* history: those of them its bus has fired
  reloads   \* reloads of the frame so far

requests == <<running, active, timers, promise, ran>>
events == <<sent, arrived, heard>>
vars == <<stage, net, early, serves, requests, events, reloads>>

Sides == {"parent", "frame"}
Peer(s) == IF s = "parent" THEN "frame" ELSE "parent"
CallerOf(r) == IF r \in FromParent THEN "parent" ELSE "frame"
ServerOf(r) == Peer(CallerOf(r))
OfSide(s) == {r \in Requests : CallerOf(r) = s}

Stages == {"absent", "starting", "up", "down"}
\* "thrown": the message could not be posted; "gone": with its window
Promises == {"none", "pending", "ok", "error", "thrown", "gone"}

\* EventType and, of a response, ResponseStatus
Calls == [type : {"action", "success", "error"}, id : Requests]
Messages == Calls \cup [type : {"event"}]

Action(r) == [type |-> "action", id |-> r]
Response(r, t) == [type |-> t, id |-> r]
Event == [type |-> "event"]

Types ==
  /\ stage \in [Sides -> Stages]
  /\ net \in [Sides -> Seq(Messages)]
  /\ early \in [Sides -> Seq(Messages)]
  /\ serves \in [Sides -> BOOLEAN]
  /\ running \subseteq Requests
  /\ active \subseteq Requests /\ timers \subseteq Requests
  /\ promise \in [Requests -> Promises]
  /\ ran \in [Requests -> Nat]
  /\ sent \in [Sides -> 0..MaxEvents]
  /\ arrived \in [Sides -> Nat] /\ heard \in [Sides -> Nat]
  /\ reloads \in 0..MaxReloads

\* what may be on its way to a window: the calls of its peer, the answers to
\* its own, events
MessagesTo(s) ==
  [type : {"action"}, id : OfSide(Peer(s))] \cup [type : {"success", "error"}, id : OfSide(s)]
  \cup [type : {"event"}]

\* The types; and every message is on its way to the window it is meant for.
TypeOK == Types /\ \A s \in Sides : net[s] \in Seq(MessagesTo(s))

Init ==
  /\ stage = [s \in Sides |-> "absent"]
  /\ net = [s \in Sides |-> << >>]
  /\ early = [s \in Sides |-> << >>]
  /\ serves = [s \in Sides |-> FALSE]
  /\ running = {} /\ active = {} /\ timers = {}
  /\ promise = [r \in Requests |-> "none"]
  /\ ran = [r \in Requests |-> 0]
  /\ sent = [s \in Sides |-> 0]
  /\ arrived = [s \in Sides |-> 0]
  /\ heard = [s \in Sides |-> 0]
  /\ reloads = 0

---------------------------------------------------------------------------
(* The adapters.                                                             *)

\* createSimpleWindowAdapter for a frame that is still loading: the page keeps
\* what comes in the meantime
Start ==
  /\ stage["parent"] = "absent"
  /\ stage' = [stage EXCEPT !["parent"] = "starting"]
  /\ UNCHANGED <<net, early, serves, requests, events, reloads>>

\* the frame is loaded: what was kept goes to the callbacks of the adapter, of
\* which there are none, and then the application gets it and makes its bus
Load ==
  /\ stage["parent"] = "starting"
  /\ stage' = [stage EXCEPT !["parent"] = "up"]
  /\ early' = [early EXCEPT !["parent"] = << >>]
  /\ UNCHANGED <<net, serves, requests, events, reloads>>

\* an adapter made by its constructor, or by createSimpleWindowAdapter for a
\* window that is there, has its bus in the same task
Open(s) ==
  /\ stage[s] = "absent"
  /\ stage' = [stage EXCEPT ![s] = "up"]
  /\ UNCHANGED <<net, early, serves, requests, events, reloads>>

\* WindowAdapter.send; a destroyed protocol posts to a fake window
Send(s, m) ==
  net' = IF stage[s] = "up" THEN [net EXCEPT ![Peer(s)] = Append(@, m)] ELSE net

---------------------------------------------------------------------------
(* Requests: a promise keeps the first value it is settled with.             *)

Settle(S, v) ==
  promise' = [r \in Requests |-> IF r \in S /\ promise[r] = "pending" THEN v ELSE promise[r]]

\* the entries S leave the hash, and their timers are cleared
Forget(S) == active' = active \ S /\ timers' = timers \ S

Arm(r) == active' = active \cup {r} /\ timers' = timers \cup ({r} \ Untimed)

Request(r) ==
  /\ promise[r] = "none"
  /\ stage[CallerOf(r)] \in {"up", "down"}
  /\ promise' = [promise EXCEPT ![r] = "pending"]
  /\ Arm(r)
  /\ Send(CallerOf(r), Action(r))
  /\ UNCHANGED <<stage, early, serves, running, ran, events, reloads>>

\* the data cannot be cloned: send throws, the entry and its timer stay
RequestThrows(r) ==
  /\ promise[r] = "none"
  /\ stage[CallerOf(r)] = "up"
  /\ promise' = [promise EXCEPT ![r] = "thrown"]
  /\ Arm(r)
  /\ UNCHANGED <<stage, net, early, serves, running, ran, events, reloads>>

\* A faulty timer that leaves the entry in the hash.
TimeoutKept(r) ==
  /\ r \in timers
  /\ timers' = timers \ {r}
  /\ Settle({r}, "error")
  /\ UNCHANGED <<active, stage, net, early, serves, running, ran, events, reloads>>

Timeout(r) ==
  /\ r \in timers
  /\ Forget({r})
  /\ Settle({r}, "error")
  /\ UNCHANGED <<stage, net, early, serves, running, ran, events, reloads>>

\* A faulty destroy that clears the timers and rejects nothing.
DestroySilent(s) ==
  /\ stage[s] \in {"up", "down"}
  /\ stage' = [stage EXCEPT ![s] = "down"]
  /\ timers' = timers \ OfSide(s)
  /\ UNCHANGED <<active, promise, net, early, serves, running, ran, events, reloads>>

\* every pending request is rejected, and the adapter stops listening; a second
\* call rejects what was requested since
Destroy(s) ==
  /\ stage[s] \in {"up", "down"}
  /\ stage' = [stage EXCEPT ![s] = "down"]
  /\ Forget(OfSide(s))
  /\ Settle(OfSide(s), "error")
  /\ UNCHANGED <<net, early, serves, running, ran, events, reloads>>

RegisterRequestHandler(s) ==
  /\ stage[s] = "up" /\ ~serves[s]
  /\ serves' = [serves EXCEPT ![s] = TRUE]
  /\ UNCHANGED <<stage, net, early, requests, events, reloads>>

UnregisterHandler(s) ==
  /\ serves[s]
  /\ serves' = [serves EXCEPT ![s] = FALSE]
  /\ UNCHANGED <<stage, net, early, requests, events, reloads>>

---------------------------------------------------------------------------
(* Messages.                                                                 *)

Comes(s, m) == net[s] # << >> /\ m = Head(net[s])

\* the message is taken, and perhaps answered
Taken(s) == net' = [net EXCEPT ![s] = Tail(@)]

\* A faulty answer, posted to the window that gives it.
TakenAnsweringItself(s, m) ==
  net' = [net EXCEPT ![s] = Append(Tail(@), m)]

TakenAnswering(s, m) ==
  net' = [net EXCEPT ![s] = Tail(@), ![Peer(s)] = Append(@, m)]

\* nobody listens
Miss(s) ==
  /\ net[s] # << >> /\ stage[s] \in {"absent", "down"}
  /\ Taken(s)
  /\ UNCHANGED <<stage, early, serves, requests, events, reloads>>

Keep(s) ==
  /\ net[s] # << >> /\ stage[s] = "starting"
  /\ early' = [early EXCEPT ![s] = Append(@, Head(net[s]))]
  /\ arrived' = [arrived EXCEPT ![s] = IF Head(net[s]) = Event THEN @ + 1 ELSE @]
  /\ Taken(s)
  /\ UNCHANGED <<stage, serves, requests, sent, heard, reloads>>

\* _fireEvent
Fire(s) ==
  /\ stage[s] = "up" /\ Comes(s, Event)
  /\ arrived' = [arrived EXCEPT ![s] = @ + 1]
  /\ heard' = [heard EXCEPT ![s] = @ + 1]
  /\ Taken(s)
  /\ UNCHANGED <<stage, early, serves, requests, sent, reloads>>

\* _createResponse without a handler
Refuse(r) ==
  LET s == ServerOf(r) IN
  /\ stage[s] = "up" /\ Comes(s, Action(r)) /\ ~serves[s]
  /\ TakenAnswering(s, Response(r, "error"))
  /\ UNCHANGED <<stage, early, serves, requests, events, reloads>>

\* the handler runs, and returns, throws, or returns what cannot be cloned
Serve(r, status) ==
  LET s == ServerOf(r) IN
  /\ stage[s] = "up" /\ Comes(s, Action(r)) /\ serves[s]
  /\ status \in {"success", "error"}
  /\ ran' = [ran EXCEPT ![r] = @ + 1]
  /\ TakenAnswering(s, Response(r, status))
  /\ UNCHANGED <<stage, early, serves, running, active, timers, promise, events, reloads>>

\* the handler returns a promise
ServeLater(r) ==
  LET s == ServerOf(r) IN
  /\ stage[s] = "up" /\ Comes(s, Action(r)) /\ serves[s]
  /\ ran' = [ran EXCEPT ![r] = @ + 1]
  /\ running' = running \cup {r}
  /\ Taken(s)
  /\ UNCHANGED <<stage, early, serves, active, timers, promise, events, reloads>>

\* the promise of the handler is settled
ServeEnds(r, status) ==
  /\ r \in running
  /\ status \in {"success", "error"}
  /\ running' = running \ {r}
  /\ Send(ServerOf(r), Response(r, status))
  /\ UNCHANGED <<stage, early, serves, active, timers, promise, ran, events, reloads>>

\* with a value that cannot be cloned: the answer is never sent
ServeEndsUnsent(r) ==
  /\ r \in running
  /\ stage[ServerOf(r)] = "up"
  /\ running' = running \ {r}
  /\ UNCHANGED <<stage, net, early, serves, active, timers, promise, ran, events, reloads>>

\* A faulty end that takes every answer for a success.
EndActionFulfilling(r, status) ==
  LET s == CallerOf(r) IN
  /\ stage[s] = "up" /\ Comes(s, Response(r, status))
  /\ IF r \in active
     THEN Settle({r}, "ok") /\ Forget({r})
     ELSE UNCHANGED <<promise, active, timers>>
  /\ Taken(s)
  /\ UNCHANGED <<stage, early, serves, running, ran, events, reloads>>

\* _fireEndAction; a late answer finds no entry
EndAction(r, status) ==
  LET s == CallerOf(r) IN
  /\ stage[s] = "up" /\ Comes(s, Response(r, status))
  /\ IF r \in active
     THEN Settle({r}, IF status = "success" THEN "ok" ELSE "error") /\ Forget({r})
     ELSE UNCHANGED <<promise, active, timers>>
  /\ Taken(s)
  /\ UNCHANGED <<stage, early, serves, running, ran, events, reloads>>

DispatchEvent(s) ==
  /\ stage[s] = "up" /\ sent[s] < MaxEvents
  /\ sent' = [sent EXCEPT ![s] = @ + 1]
  /\ Send(s, Event)
  /\ UNCHANGED <<stage, early, serves, requests, arrived, heard, reloads>>

\* the frame is loaded anew: its bus, its handlers, its requests and the
\* messages for it are gone
Reload ==
  LET mine == OfSide("frame") IN
  /\ stage["frame"] # "absent" /\ reloads < MaxReloads
  /\ reloads' = reloads + 1
  /\ stage' = [stage EXCEPT !["frame"] = "absent"]
  /\ net' = [net EXCEPT !["frame"] = << >>]
  /\ serves' = [serves EXCEPT !["frame"] = FALSE]
  /\ running' = running \ OfSide("parent")
  /\ Forget(mine)
  /\ Settle(mine, "gone")
  /\ UNCHANGED <<early, ran, events>>

---------------------------------------------------------------------------
Next ==
  \/ Start \/ Load \/ Reload
  \/ \E s \in Sides :
       \/ Open(s) \/ Destroy(s)
       \/ RegisterRequestHandler(s) \/ UnregisterHandler(s)
       \/ Miss(s) \/ Keep(s) \/ Fire(s) \/ DispatchEvent(s)
  \/ \E r \in Requests :
       \/ Request(r) \/ RequestThrows(r) \/ Timeout(r)
       \/ Refuse(r) \/ ServeLater(r) \/ ServeEndsUnsent(r)
       \/ \E status \in {"success", "error"} :
            Serve(r, status) \/ ServeEnds(r, status) \/ EndAction(r, status)

Spec == Init /\ [][Next]_vars

\* The browser fires timers. It is owed nothing by the other window, whose
\* handlers may never end.
FairSpec == Spec /\ \A r \in Requests : WF_vars(Timeout(r))

---------------------------------------------------------------------------
(* Properties.                                                               *)

\* A promise that is pending can be reached by an answer, its timer or destroy:
\* its entry is in the hash, with a timer unless it has none. No other entry
\* stays, except that of a request whose message could not be posted.
PendingIsReachable ==
  /\ \A r \in Requests : promise[r] = "pending" => r \in active
  /\ \A r \in active : promise[r] \in {"pending", "thrown"}
  /\ timers = active \ Untimed

\* What the application of a window can tell of its request.
Outcome(v) ==
  CASE v = "none" -> "none"
    [] v = "pending" -> "waiting"
    [] v = "ok" -> "ok"
    [] OTHER -> "failed"

Remote == INSTANCE RemoteCall WITH
  outcome <- [r \in Requests |-> Outcome(promise[r])]

\* Whatever timers, late answers, destroyed buses and reloads do, a request is
\* settled once, its handler runs at most once, and it is only fulfilled if its
\* handler has run.
CallsAreRemote == Remote!Calls

\* Every request with a timeout is settled, also one that is lost while the
\* other window starts, reloads or ends, or made on a destroyed bus.
Settled ==
  \A r \in Requests \ Untimed : promise[r] = "pending" ~> promise[r] # "pending"

\* readme.md: the page that waits for its frame gets the event the frame sends:
\* what comes while the adapter is made is handed to the bus.
EarlyEventsHeard == \A s \in Sides : stage[s] = "up" => heard[s] = arrived[s]
============================================================================
