------------------------- MODULE ConnectRequests -------------------------
(* The request pipeline of the Cubensis Connect extension: a page calls the  *)
(* API, the extension asks its user to trust the site (an "auth" message),   *)
(* builds a message for the request (a "tx" message), lets a window or an    *)
(* auto-sign permission approve it, signs and broadcasts it, and answers the *)
(* page (MessageController, PermissionsController, BackgroundService).       *)
(* JavaScript runs one task at a time: an action is the code between two     *)
(* awaits, with the continuations (microtasks) it wakes.                     *)
EXTENDS Naturals, FiniteSets

CONSTANTS
  Origins,    \* sites
  Requests,   \* API calls of pages, each made at most once
  OriginOf,   \* the site of a request
  Conns,      \* ports between a page and the extension
  ConnOf,     \* the port a request comes through
  Windows,    \* open user interfaces: popup, notification window, tab
  Payable,    \* the requests for a single transaction: their fee can change
  Publish,    \* the requests whose result is broadcast
  Listed,     \* sites that a whitelist may name
  MaxFee,     \* bound: fee changes of one message
  MaxOutside, \* bound: settings, vault, port and browser events, stale windows
  None        \* no request

ASSUME ConnectAssumption ==
  /\ OriginOf \in [Requests -> Origins]
  /\ ConnOf \in [Requests -> Conns]
  /\ Payable \subseteq Requests
  /\ Publish \subseteq Requests
  /\ Listed \subseteq Origins
  /\ MaxFee \in Nat
  /\ MaxOutside \in Nat
  /\ None \notin Requests
  /\ "auto" \notin Windows

VARIABLES
  whitelist,  \* the sites the configuration of this build lists
  vault,      \* "unlocked", "locked" or "empty" (no account)
  perms,      \* the permissions of each site
  inPending,  \* the request whose auth message a site waits for
  status,     \* of every message; "absent" when not in the store
  version,    \* which build of a tx message is in the store
  made,       \* fee changes of a tx message so far
  approvals,  \* running approve() calls of tx messages
  feeing,     \* tx messages a fee change is rebuilding
  phase,      \* where the handler of each request is
  asked,      \* the request whose auth message the handler waits for
  open,       \* ports that are connected
  outside,    \* events counted against MaxOutside so far
  granted,    \* history: sites the user has trusted
  blocked,    \* history: sites the user has blocked and not trusted since
  confirmed,  \* history: <<request, version>> the user or auto-sign has approved
  published,  \* history: <<request, version>> the node has accepted
  told,       \* history: the version whose result a page was given
  refitted,   \* history: tx messages built again after an approval of them began
  undone,     \* history: denied tx messages an approval was, or went, to work on
  cleared     \* history: messages dropped while their callers may wait

store == <<status, version, made>>
settings == <<perms, inPending>>
calls == <<phase, asked>>
trust == <<granted, blocked>>
consents == <<confirmed, published, told, refitted, undone>>
history == <<trust, consents, cleared>>
vars == <<whitelist, vault, settings, store, approvals, feeing, calls, open, outside, history>>

Auth(r) == <<"auth", r>>
Tx(r) == <<"tx", r>>
Ids == {"auth", "tx"} \X Requests

Permissions == {"approved", "rejected", "autosign", "all"}
Statuses == {"absent", "unapproved", "signed", "published", "rejected",
             "rejected_forever", "failed"}
Waiting == {"allowing", "waiting"}
Busy == Waiting \cup {"building"}
Answers == {"result", "denied", "failed", "blocked", "no_account", "lost"}

Approval == [by : Windows \cup {"auto"}, req : Requests, version : 0..MaxFee,
             step : {"signing", "broadcasting"}]

TypeOK ==
  /\ whitelist \subseteq Listed
  /\ vault \in {"unlocked", "locked", "empty"}
  /\ perms \in [Origins -> SUBSET Permissions]
  /\ inPending \in [Origins -> Requests \cup {None}]
  /\ status \in [Ids -> Statuses]
  /\ version \in [Requests -> 0..MaxFee]
  /\ made \in [Requests -> 0..MaxFee]
  /\ approvals \subseteq Approval
  /\ feeing \subseteq Requests
  /\ phase \in [Requests -> {"idle"} \cup Busy \cup Answers]
  /\ asked \in [Requests -> Requests \cup {None}]
  /\ open \in [Conns -> BOOLEAN]
  /\ outside \in 0..MaxOutside
  /\ granted \subseteq Origins
  /\ blocked \subseteq Origins
  /\ confirmed \subseteq Requests \X (0..MaxFee)
  /\ published \subseteq Requests \X (0..MaxFee)
  /\ told \in [Requests -> 0..MaxFee]
  /\ refitted \subseteq Requests
  /\ undone \subseteq Requests
  /\ cleared \subseteq Ids

Init ==
  /\ whitelist \in SUBSET Listed
  /\ vault \in {"unlocked", "locked", "empty"}
  /\ perms = [o \in Origins |-> {}]
  /\ inPending = [o \in Origins |-> None]
  /\ status = [id \in Ids |-> "absent"]
  /\ version = [r \in Requests |-> 0]
  /\ made = [r \in Requests |-> 0]
  /\ approvals = {}
  /\ feeing = {}
  /\ phase = [r \in Requests |-> "idle"]
  /\ asked = [r \in Requests |-> None]
  /\ open = [c \in Conns |-> TRUE]
  /\ outside = 0
  /\ granted = {} /\ blocked = {} /\ confirmed = {} /\ published = {}
  /\ told = [r \in Requests |-> 0]
  /\ refitted = {} /\ undone = {} /\ cleared = {}

---------------------------------------------------------------------------
(* Permissions: what PermissionsController does with its two tables.         *)

\* getPermissions: a site of the whitelist holds ALL, whatever the user decides
Held(o) == perms[o] \cup (IF o \in whitelist THEN {"all"} ELSE {})

\* hasPermission: a rejection hides every other permission of the set S
Has(S, p) ==
  IF "rejected" \in S THEN p = "rejected" ELSE "all" \in S \/ p \in S

Allowed(o) == Has(Held(o), "approved")

NonePending == [o \in Origins |-> None]

\* setPermissions: zustand merges only the top level of its argument, so the
\* tables that were there are replaced by ones with a single site.
Only(o, S) == [p \in Origins |-> IF p = o THEN S ELSE {}]

SetPermissions(o, S) ==
  /\ perms' = Only(o, S)
  /\ inPending' = NonePending

\* setPermission adds nothing when the site has it already
With(S, p) == IF Has(S, p) THEN S ELSE S \cup {p}

SetPermission(o, p) ==
  IF Has(Held(o), p) THEN UNCHANGED settings ELSE SetPermissions(o, Held(o) \cup {p})

---------------------------------------------------------------------------
(* Messages: what the end of a message does to the handlers that wait.       *)

Present(id) == status[id] # "absent"
Unapproved == {id \in Ids : status[id] = "unapproved"}

\* the message a handler waits for
Awaited(r) == IF phase[r] = "allowing" THEN Auth(asked[r]) ELSE Tx(r)

Woken(F) == {r \in Requests : phase[r] \in Waiting /\ Awaited(r) \in F}

\* A faulty caller that builds the message however its question ended.
OutcomeUnchecked(ph, st) ==
  CASE ph = "allowing" /\ st \notin {"rejected", "rejected_forever"} -> "building"
    [] st \in {"signed", "published"} -> "result"
    [] st \in {"rejected", "rejected_forever"} -> "denied"
    [] OTHER -> "failed"

\* A faulty caller that hands the status of a message on as its answer.
OutcomeRaw(ph, st) ==
  IF st \in {"signed", "published"}
  THEN IF ph = "allowing" THEN "building" ELSE "result"
  ELSE st

\* getMessageResult, and what its caller does next
Outcome(ph, st) ==
  CASE st \in {"signed", "published"} -> IF ph = "allowing" THEN "building" ELSE "result"
    [] st \in {"rejected", "rejected_forever"} -> "denied"
    [] OTHER -> "failed"

\* A faulty event that reaches one listener only.
WakeFirst(F, st) ==
  IF Woken(F) = {} THEN UNCHANGED phase
  ELSE LET r == CHOOSE q \in Woken(F) : TRUE
       IN  phase' = [phase EXCEPT ![r] = Outcome(phase[r], st)]

\* the finished events of the messages F, all with status st
Wake(F, st) ==
  phase' = [r \in Requests |-> IF r \in Woken(F) THEN Outcome(phase[r], st) ELSE phase[r]]

AllowingWoken(F) == \E r \in Woken(F) : phase[r] = "allowing"

\* a caller of validatePermission forgets its auth message when it is rejected;
\* setMessageIdAccess forgets those of the other sites with it
ForgetPending(F) == inPending' = IF AllowingWoken(F) THEN NonePending ELSE inPending

SetStatus(F, st) == status' = [id \in Ids |-> IF id \in F THEN st ELSE status[id]]

\* requests denied while one of the approvals A works on their message
Overtaken(F, A) == {r \in Requests : Tx(r) \in F /\ \E a \in A : a.req = r}

\* reject(id) for every id of F, in one task
RejectAll(F) ==
  /\ SetStatus(F, "rejected")
  /\ Wake(F, "rejected")
  /\ undone' = undone \cup Overtaken(F, approvals)

---------------------------------------------------------------------------
(* The page's calls.                                                         *)

HasQuestion(o) == inPending[o] # None /\ Present(Auth(inPending[o]))

\* the message of the site that another request has already put to the user
JoinQuestion(r, o) ==
  LET a == inPending[o]
      st == status[Auth(a)] IN
  /\ HasQuestion(o)
  /\ asked' = [asked EXCEPT ![r] = a]
  /\ phase' = [phase EXCEPT ![r] =
                 IF st = "unapproved" THEN "allowing" ELSE Outcome("allowing", st)]
  /\ \/ st = "signed" /\ SetPermission(o, "approved")
     \/ st = "rejected_forever" /\ SetPermission(o, "rejected")
     \/ st = "rejected" /\ inPending' = NonePending /\ UNCHANGED perms
     \/ st \in {"unapproved", "failed"} /\ UNCHANGED settings
  /\ UNCHANGED status

\* a new authOrigin message, and setMessageIdAccess
AskQuestion(r, o) ==
  /\ ~HasQuestion(o)
  /\ status' = [status EXCEPT ![Auth(r)] = "unapproved"]
  /\ inPending' = [NonePending EXCEPT ![o] = r]
  /\ asked' = [asked EXCEPT ![r] = r]
  /\ phase' = [phase EXCEPT ![r] = "allowing"]
  /\ UNCHANGED perms

\* the calls that need no question
CallAnswer(o) ==
  CASE vault = "empty" -> "no_account"
    [] Allowed(o) -> "building"
    [] OTHER -> "blocked"

\* a request arrives: validatePermission
Call(r) ==
  LET o == OriginOf[r] IN
  /\ phase[r] = "idle" /\ open[ConnOf[r]]
  /\ IF vault # "empty" /\ Held(o) = {}
     THEN JoinQuestion(r, o) \/ AskQuestion(r, o)
     ELSE /\ phase' = [phase EXCEPT ![r] = CallAnswer(o)]
          /\ UNCHANGED <<settings, status, asked>>
  /\ UNCHANGED <<whitelist, vault, version, made, approvals, feeing, open, outside,
                 history>>

\* newMessage has built the message; auto-sign may take it without the user.
\* canAutoSign sees a copy of `locked` that lags, and saves its budget through
\* setPermissions whatever becomes of the approval.
BuildDone(r, auto) ==
  LET o == OriginOf[r] IN
  /\ phase[r] = "building"
  /\ auto => "autosign" \in perms[o]
  /\ IF auto THEN SetPermissions(o, Held(o)) ELSE UNCHANGED settings
  /\ IF auto /\ vault # "unlocked"
     THEN /\ status' = [status EXCEPT ![Tx(r)] = "failed"]
          /\ phase' = [phase EXCEPT ![r] = "failed"]
     ELSE /\ status' = [status EXCEPT ![Tx(r)] = "unapproved"]
          /\ phase' = [phase EXCEPT ![r] = "waiting"]
  /\ IF auto /\ vault = "unlocked"
     THEN /\ approvals' = approvals \cup
               {[by |-> "auto", req |-> r, version |-> 0, step |-> "signing"]}
          /\ confirmed' = confirmed \cup {<<r, 0>>}
     ELSE UNCHANGED <<approvals, confirmed>>
  /\ UNCHANGED <<whitelist, vault, version, made, feeing, asked, open, outside,
                 trust, published, told, refitted, undone, cleared>>

\* the message cannot be built: bad data, or the node does not answer
BuildFail(r) ==
  /\ phase[r] = "building"
  /\ phase' = [phase EXCEPT ![r] = "failed"]
  /\ UNCHANGED <<whitelist, vault, settings, store, approvals, feeing, asked, open,
                 outside, history>>

---------------------------------------------------------------------------
(* Windows: approve, reject, change the fee. None of them looks at the       *)
(* status: a window may still show a message that is over.                   *)

\* the events counted against MaxOutside
Outside == outside < MaxOutside /\ outside' = outside + 1

\* getMessageById finds the message; what a window does to one that is over counts
Found(id) ==
  /\ Present(id)
  /\ IF status[id] = "unapproved" THEN UNCHANGED outside ELSE Outside

\* approve of an auth message; getWallet throws unless the vault is unlocked
ApproveAuth(r) ==
  LET o == OriginOf[r]
      st == IF vault = "unlocked" THEN "signed" ELSE "failed" IN
  /\ Found(Auth(r))
  /\ SetStatus({Auth(r)}, st)
  /\ Wake({Auth(r)}, st)
  /\ IF vault = "unlocked"
     THEN /\ SetPermission(o, "approved")
          /\ granted' = granted \cup {o}
          /\ blocked' = blocked \ {o}
     ELSE UNCHANGED <<settings, trust>>
  /\ UNCHANGED <<whitelist, vault, version, made, approvals, feeing, asked, open,
                 consents, cleared>>

\* approve of a tx message: the wallet starts to sign the build it finds
StartApproval(w, r) ==
  /\ Found(Tx(r))
  /\ ~\E a \in approvals : a.by = w /\ a.req = r
  /\ IF vault = "unlocked"
     THEN /\ approvals' = approvals \cup
               {[by |-> w, req |-> r, version |-> version[r], step |-> "signing"]}
          /\ confirmed' = confirmed \cup {<<r, version[r]>>}
          /\ undone' = IF phase[r] = "denied" THEN undone \cup {r} ELSE undone
          /\ UNCHANGED <<status, phase>>
     ELSE /\ SetStatus({Tx(r)}, "failed")
          /\ Wake({Tx(r)}, "failed")
          /\ UNCHANGED <<approvals, confirmed, undone>>
  /\ UNCHANGED <<whitelist, vault, settings, version, made, feeing, asked, open,
                 trust, published, told, refitted, cleared>>

\* approve writes its own copy of the message back (into no element when the
\* message has left the store) and reports it finished
Complete(a, st) ==
  /\ approvals' = approvals \ {a}
  /\ IF Present(Tx(a.req))
     THEN SetStatus({Tx(a.req)}, st) /\ version' = [version EXCEPT ![a.req] = a.version]
     ELSE UNCHANGED <<status, version>>
  /\ Wake({Tx(a.req)}, st)
  /\ told' = IF a.req \in Woken({Tx(a.req)}) THEN [told EXCEPT ![a.req] = a.version]
             ELSE told
  /\ UNCHANGED <<whitelist, vault, settings, made, feeing, asked, open, outside,
                 trust, confirmed, published, refitted, undone, cleared>>

\* A faulty approval that answers a broadcast request once it is signed.
SignOkUnsent(a) == a.step = "signing" /\ Complete(a, "signed")

\* A faulty approval that looks the message up again and sends what it finds.
SignOkFresh(a) ==
  /\ a.step = "signing"
  /\ IF a.req \in Publish
     THEN /\ approvals' = (approvals \ {a}) \cup
               {[a EXCEPT !.step = "broadcasting", !.version = version[a.req]]}
          /\ UNCHANGED <<whitelist, vault, settings, store, feeing, calls, open,
                         outside, history>>
     ELSE Complete(a, "signed")

SignOk(a) ==
  /\ a.step = "signing"
  /\ IF a.req \in Publish
     THEN /\ approvals' = (approvals \ {a}) \cup {[a EXCEPT !.step = "broadcasting"]}
          /\ UNCHANGED <<whitelist, vault, settings, store, feeing, calls, open,
                         outside, history>>
     ELSE Complete(a, "signed")

SignFail(a) == a.step = "signing" /\ Complete(a, "failed")

\* the user refuses on the device: reject(id), which throws without a message
LedgerReject(a) ==
  LET F == {Tx(a.req)} IN
  /\ a.step = "signing"
  /\ approvals' = approvals \ {a}
  /\ IF Present(Tx(a.req))
     THEN SetStatus(F, "rejected") /\ Wake(F, "rejected")
     ELSE UNCHANGED <<status, phase>>
  /\ undone' = undone \cup Overtaken(F, approvals \ {a})
  /\ UNCHANGED <<whitelist, vault, settings, version, made, feeing, asked, open,
                 outside, trust, confirmed, published, told, refitted, cleared>>

\* the node takes the transaction; its answer may still be lost
NodeAccepts(a) ==
  /\ a.step = "broadcasting"
  /\ published' = published \cup {<<a.req, a.version>>}
  /\ UNCHANGED <<whitelist, vault, settings, store, approvals, feeing, calls, open,
                 outside, trust, confirmed, told, refitted, undone, cleared>>

\* A faulty approval that does not wait for the answer of the node.
BroadcastOkUnheard(a) == a.step = "broadcasting" /\ Complete(a, "published")

BroadcastOk(a) ==
  /\ a.step = "broadcasting" /\ <<a.req, a.version>> \in published
  /\ Complete(a, "published")

\* A faulty end of a failed broadcast that denies the request to its page.
BroadcastFailDenied(a) == a.step = "broadcasting" /\ Complete(a, "rejected")

BroadcastFail(a) == a.step = "broadcasting" /\ Complete(a, "failed")

\* the user rejects a message; "forever" is offered for auth messages
Reject(id) ==
  /\ Found(id)
  /\ RejectAll({id})
  /\ ForgetPending({id})
  /\ UNCHANGED <<whitelist, vault, perms, version, made, approvals, feeing, asked, open,
                 trust, confirmed, published, told, refitted, cleared>>

RejectForever(r) ==
  LET o == OriginOf[r] IN
  /\ Found(Auth(r))
  /\ SetStatus({Auth(r)}, "rejected_forever")
  /\ Wake({Auth(r)}, "rejected_forever")
  /\ IF AllowingWoken({Auth(r)})
     THEN SetPermission(o, "rejected") /\ blocked' = blocked \cup {o}
     ELSE UNCHANGED <<settings, blocked>>
  /\ UNCHANGED <<whitelist, vault, version, made, approvals, feeing, asked, open,
                 granted, consents, cleared>>

\* updateTransactionFee: the message is built again, and put back whatever has
\* become of it meanwhile
StartFee(r) ==
  /\ r \in Payable \ feeing
  /\ Found(Tx(r)) /\ made[r] < MaxFee
  /\ feeing' = feeing \cup {r}
  /\ made' = [made EXCEPT ![r] = @ + 1]
  /\ UNCHANGED <<whitelist, vault, settings, status, version, approvals, calls, open,
                 history>>

FinishFee(r) ==
  /\ r \in feeing
  /\ feeing' = feeing \ {r}
  /\ IF Present(Tx(r))
     THEN /\ SetStatus({Tx(r)}, "unapproved")
          /\ version' = [version EXCEPT ![r] = made[r]]
          /\ refitted' = IF \E c \in confirmed : c[1] = r THEN refitted \cup {r}
                         ELSE refitted
     ELSE UNCHANGED <<status, version, refitted>>
  /\ UNCHANGED <<whitelist, vault, settings, made, approvals, calls, open, outside,
                 trust, confirmed, published, told, undone, cleared>>

FailFee(r) ==
  /\ r \in feeing
  /\ feeing' = feeing \ {r}
  /\ UNCHANGED <<whitelist, vault, settings, store, approvals, calls, open, outside,
                 history>>

---------------------------------------------------------------------------
(* The settings page.                                                        *)

\* allowOrigin: reject the site's messages of every status, trust the site
AllowOrigin(o) ==
  LET F == {id \in Ids : Present(id) /\ OriginOf[id[2]] = o} IN
  /\ Outside
  /\ RejectAll(F)
  /\ SetPermissions(o, With(Held(o) \ {"rejected"}, "approved"))
  /\ granted' = granted \cup {o}
  /\ blocked' = blocked \ {o}
  /\ UNCHANGED <<whitelist, vault, version, made, approvals, feeing, asked, open,
                 confirmed, published, told, refitted, cleared>>

\* disableOrigin: a site of the whitelist has REJECTED already, and is not blocked
DisableOrigin(o) ==
  /\ Outside
  /\ SetPermissions(o, With(Held(o) \ {"approved"}, "rejected"))
  /\ blocked' = blocked \cup {o}
  /\ UNCHANGED <<whitelist, vault, store, approvals, feeing, calls, open,
                 granted, consents, cleared>>

\* deletePermissions keeps the other sites, and the pending message
DeleteOrigin(o) ==
  /\ Outside
  /\ o \notin whitelist
  /\ perms' = [perms EXCEPT ![o] = {}]
  /\ blocked' = blocked \ {o}
  /\ UNCHANGED <<whitelist, vault, inPending, store, approvals, feeing, calls, open,
                 granted, consents, cleared>>

SetAutoSign(o, on) ==
  /\ Outside
  /\ SetPermissions(o, IF on THEN Held(o) \cup {"autosign"} ELSE Held(o) \ {"autosign"})
  /\ UNCHANGED <<whitelist, vault, store, approvals, feeing, calls, open, history>>

---------------------------------------------------------------------------
(* The vault, the clock, the ports and the browser.                          *)

\* the vault store reports `locked`: every message is rejected, finished or not
Lock ==
  LET F == {id \in Ids : Present(id)} IN
  /\ Outside
  /\ vault' = IF vault = "empty" THEN "empty" ELSE "locked"
  /\ RejectAll(F)
  /\ ForgetPending(F)
  /\ UNCHANGED <<whitelist, perms, version, made, approvals, feeing, asked, open,
                 trust, confirmed, published, told, refitted, cleared>>

\* unlock, or a new vault with its first account
Unlock ==
  /\ Outside
  /\ vault # "unlocked"
  /\ vault' = "unlocked"
  /\ UNCHANGED <<whitelist, settings, store, approvals, feeing, calls, open, history>>

\* clearMessages: the store is emptied, and nobody is woken
Clear ==
  LET F == {id \in Ids : Present(id)} IN
  /\ SetStatus(F, "absent")
  /\ cleared' = cleared \cup F
  /\ UNCHANGED <<whitelist, settings, version, made, approvals, feeing, calls, open,
                 trust, consents>>

ClearMessages ==
  /\ Outside
  /\ Clear
  /\ UNCHANGED vault

\* deleteVault clears the messages first; the lock that follows finds none
DeleteVault ==
  /\ Outside
  /\ vault # "empty"
  /\ vault' = "empty"
  /\ Clear

\* the alarm finds the messages S expired
Expire(S) ==
  /\ S # {}
  /\ RejectAll(S)
  /\ ForgetPending(S)
  /\ UNCHANGED <<whitelist, vault, perms, version, made, approvals, feeing, asked, open,
                 outside, trust, confirmed, published, told, refitted, cleared>>

\* A faulty disconnection that removes the messages without rejecting them.
DisconnectSilent(c) ==
  LET F == {id \in Ids : Present(id) /\ ConnOf[id[2]] = c} IN
  /\ Outside
  /\ open[c]
  /\ open' = [open EXCEPT ![c] = FALSE]
  /\ SetStatus(F, "absent")
  /\ UNCHANGED <<whitelist, vault, settings, version, made, approvals, feeing, calls,
                 history>>

\* the page goes away: its messages are rejected and removed, its handlers run on
Disconnect(c) ==
  LET F == {id \in Ids : Present(id) /\ ConnOf[id[2]] = c} IN
  /\ Outside
  /\ open[c]
  /\ open' = [open EXCEPT ![c] = FALSE]
  /\ SetStatus(F, "absent")
  /\ Wake(F, "rejected")
  /\ ForgetPending(F)
  /\ undone' = undone \cup Overtaken(F, approvals)
  /\ UNCHANGED <<whitelist, vault, perms, version, made, approvals, feeing, asked,
                 trust, confirmed, published, told, refitted, cleared>>

\* the service worker or the browser restarts: the messages are cleared, what
\* was running is gone, the tables of the permissions are kept
Restart ==
  /\ Outside
  /\ vault' \in (IF vault = "empty" THEN {"empty"} ELSE {vault, "locked"})
  /\ status' = [id \in Ids |-> "absent"]
  /\ approvals' = {} /\ feeing' = {} /\ cleared' = {}
  /\ phase' = [r \in Requests |-> IF phase[r] \in Busy THEN "lost" ELSE phase[r]]
  /\ open' = [c \in Conns |-> TRUE]
  /\ UNCHANGED <<whitelist, settings, version, made, asked, trust, consents>>

---------------------------------------------------------------------------
ApprovalStep(a) ==
  \/ SignOk(a) \/ SignFail(a) \/ LedgerReject(a)
  \/ NodeAccepts(a) \/ BroadcastOk(a) \/ BroadcastFail(a)

Next ==
  \/ \E r \in Requests :
       \/ Call(r) \/ BuildFail(r) \/ ApproveAuth(r) \/ RejectForever(r)
       \/ StartFee(r) \/ FinishFee(r) \/ FailFee(r)
       \/ \E auto \in BOOLEAN : BuildDone(r, auto)
       \/ \E w \in Windows : StartApproval(w, r)
  \/ \E a \in approvals : ApprovalStep(a)
  \/ \E id \in Ids : Reject(id)
  \/ \E o \in Origins :
       \/ AllowOrigin(o) \/ DisableOrigin(o) \/ DeleteOrigin(o)
       \/ \E on \in BOOLEAN : SetAutoSign(o, on)
  \/ \E S \in SUBSET Unapproved : Expire(S)
  \/ \E c \in Conns : Disconnect(c)
  \/ Lock \/ Unlock \/ ClearMessages \/ DeleteVault \/ Restart

\* What is built ends, and the alarm comes back until no old message is left.
Fairness ==
  /\ \A r \in Requests : WF_vars(BuildFail(r) \/ \E auto \in BOOLEAN : BuildDone(r, auto))
  /\ \A id \in Ids : WF_vars(\E S \in SUBSET Unapproved : id \in S /\ Expire(S))

Spec == Init /\ [][Next]_vars
LiveSpec == Spec /\ Fairness

---------------------------------------------------------------------------
(* Properties.                                                               *)

\* A handler waits only for a message that is still to be decided: whatever
\* ends or removes a message wakes those who wait for it. Only the messages
\* that clearMessages drops, for its caller or for deleteVault, leave theirs.
NoLostWakeup ==
  \A r \in Requests : phase[r] \in Waiting =>
    status[Awaited(r)] = "unapproved" \/ Awaited(r) \in cleared

\* A page gets a result only for a request of its own that the user, or the
\* auto-sign he set up, has approved, the result is of the build he approved,
\* and a broadcast one comes only once the node has that very build.
ResultHasConsent ==
  \A r \in Requests : phase[r] = "result" =>
    /\ <<r, told[r]>> \in confirmed
    /\ r \in Publish => <<r, told[r]>> \in published

\* Nothing is built or signed for a site that the user has never trusted and
\* the whitelist does not name, however the site's requests share their
\* question and its answers are mixed up.
ServedOnlyIfAllowed ==
  \A r \in Requests :
    (phase[r] \in {"building", "waiting", "result"} \/ \E c \in confirmed : c[1] = r) =>
      OriginOf[r] \in granted \cup whitelist

\* What comes to the chain was approved as it is, and a request puts a second
\* transaction there only when its message was built again, with another fee,
\* after an approval of it began: neither two windows, nor a window that
\* approves what is over, nor a fee change that fails does.
SecondOnlyByFee ==
  /\ published \subseteq confirmed
  /\ \A p, q \in published : p[1] = q[1] /\ p # q => p[1] \in refitted

\* A page that was told its request was denied finds a transaction of it on the
\* chain only if an approval was running when it was denied, or began after it.
DeniedUnlessApproved ==
  \A r \in Requests : phase[r] = "denied" /\ r \notin undone =>
    \A v \in 0..MaxFee : <<r, v>> \notin published

\* The page sees SigningService: what it cannot see are the questions, the
\* builds and the messages behind one pending request.
Seen(ph) ==
  CASE ph = "idle" -> "none"
    [] ph \in Busy -> "pending"
    [] ph = "result" -> "served"
    [] OTHER -> "refused"

Signer == INSTANCE SigningService WITH
  answer <- [r \in Requests |-> Seen(phase[r])],
  consent <- {c[1] : c \in confirmed},
  chain <- {p[1] : p \in published}

\* Each page is answered once, is served only with its user's consent, and its
\* transaction reaches the chain only with it, whatever windows, settings, the
\* vault and the clock do in between.
ServesLikeSigner == Signer!Service

\* Every call is answered, at the latest when the alarm finds its message
\* expired, unless the message it waits for was dropped by clearMessages.
Answered ==
  \A r \in Requests :
    phase[r] \in Busy ~> phase[r] \in Answers \/ Awaited(r) \in cleared

\* README.md of the extension: a site that is not trusted "is blocked ... To
\* grant access, the user has to mark the website as trusted".
BlockedStaysBlocked == \A o \in blocked : "rejected" \in perms[o]
============================================================================
