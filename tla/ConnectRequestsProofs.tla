---------------------- MODULE ConnectRequestsProofs ----------------------
(***************************************************************************)
(* Who is served, who is woken and what reaches the chain, for any number  *)
(* of sites, requests, ports and windows.                                  *)
(***************************************************************************)
EXTENDS ConnectRequests, TLAPS

Phases == {"idle"} \cup Busy \cup Answers

----------------------------------------------------------------------------
(* The operators on permissions and on the handlers that wait.             *)

\* setPermissions keeps the tables tables.
LEMMA SetPermissionsType ==
  ASSUME TypeOK, NEW o \in Origins, NEW S \in SUBSET Permissions,
         SetPermissions(o, S)
  PROVE  /\ perms' \in [Origins -> SUBSET Permissions]
         /\ inPending' \in [Origins -> Requests \cup {None}]
BY DEF TypeOK, SetPermissions, Only, NonePending

\* What a site holds are permissions.
LEMMA HeldType ==
  ASSUME TypeOK, NEW o \in Origins
  PROVE  Held(o) \in SUBSET Permissions
BY DEF TypeOK, Held, Permissions

\* setPermission keeps the tables tables, too.
LEMMA SetPermissionType ==
  ASSUME TypeOK, NEW o \in Origins, NEW p \in Permissions, SetPermission(o, p)
  PROVE  /\ perms' \in [Origins -> SUBSET Permissions]
         /\ inPending' \in [Origins -> Requests \cup {None}]
<1>1. Held(o) \cup {p} \in SUBSET Permissions
  BY HeldType
<1> QED
  BY <1>1, SetPermissionsType DEF TypeOK, SetPermission, settings

\* A handler goes on in a known phase.
LEMMA OutcomeType ==
  ASSUME NEW ph \in Waiting, NEW st \in Statuses
  PROVE  Outcome(ph, st) \in {"building", "result", "denied", "failed"}
BY DEF Outcome, Waiting

LEMMA WakeType ==
  ASSUME TypeOK, NEW F \in SUBSET Ids, NEW st \in Statuses, Wake(F, st)
  PROVE  phase' \in [Requests -> Phases]
<1>1. \A r \in Woken(F) : Outcome(phase[r], st) \in Phases
  BY OutcomeType DEF Woken, Phases, Busy, Answers
<1> QED
  BY <1>1 DEF TypeOK, Wake, Phases

LEMMA SetStatusType ==
  ASSUME TypeOK, NEW F \in SUBSET Ids, NEW st \in Statuses, SetStatus(F, st)
  PROVE  status' \in [Ids -> Statuses]
BY DEF TypeOK, SetStatus

\* The messages of a request.
LEMMA IdsOfRequests ==
  /\ \A r \in Requests : {Auth(r), Tx(r)} \subseteq Ids /\ Auth(r) # Tx(r)
  /\ \A r, q \in Requests : /\ Auth(r) # Tx(q)
                            /\ Auth(r) = Auth(q) => r = q
                            /\ Tx(r) = Tx(q) => r = q
BY DEF Ids, Auth, Tx

\* reject(id) keeps the types of what it writes.
LEMMA RejectAllType ==
  ASSUME TypeOK, NEW F \in SUBSET Ids, RejectAll(F)
  PROVE  /\ status' \in [Ids -> Statuses]
         /\ phase' \in [Requests -> Phases]
         /\ undone' \subseteq Requests
<1>1. "rejected" \in Statuses
  BY DEF Statuses
<1> QED
  BY <1>1, WakeType, SetStatusType DEF TypeOK, RejectAll, Overtaken

LEMMA ForgetPendingType ==
  ASSUME TypeOK, NEW F, ForgetPending(F)
  PROVE  inPending' \in [Origins -> Requests \cup {None}]
BY DEF TypeOK, ForgetPending, NonePending

\* The end of an approval keeps the types.
LEMMA CompleteType ==
  ASSUME TypeOK, NEW a \in approvals, NEW st \in Statuses, Complete(a, st)
  PROVE  TypeOK'
<1>1. a.req \in Requests /\ a.version \in 0..MaxFee
  BY DEF TypeOK, Approval
<1>2. {Tx(a.req)} \in SUBSET Ids
  BY <1>1, IdsOfRequests
<1>3. phase' \in [Requests -> Phases]
  BY <1>2, WakeType DEF Complete
<1>4. status' \in [Ids -> Statuses]
  BY <1>2, SetStatusType DEF Complete, TypeOK
<1>5. /\ version' \in [Requests -> 0..MaxFee]
      /\ told' \in [Requests -> 0..MaxFee]
  BY <1>1 DEF Complete, TypeOK
<1> QED
  BY <1>3, <1>4, <1>5 DEF Complete, TypeOK, Phases, settings, history, trust, consents

----------------------------------------------------------------------------
(* Types.                                                                  *)

\* The count of the events from outside keeps its bound.
LEMMA OutsideType ==
  ASSUME TypeOK
  PROVE  /\ Outside => outside' \in 0..MaxOutside
         /\ \A id : Found(id) => outside' \in 0..MaxOutside
BY ConnectAssumption DEF TypeOK, Found, Outside

LEMMA TypeInit == Init => TypeOK
BY ConnectAssumption DEF Init, TypeOK, Statuses

LEMMA TypeCall ==
  ASSUME TypeOK, NEW r \in Requests, Call(r)
  PROVE  TypeOK'
<1> DEFINE o == OriginOf[r]
           a == inPending[o]
           st == status[Auth(a)]
<1>1. o \in Origins /\ a \in Requests \cup {None}
  BY ConnectAssumption DEF TypeOK
<1>2. CASE ~(vault # "empty" /\ Held(o) = {})
  <2>1. CallAnswer(o) \in Phases
    BY DEF CallAnswer, Phases, Busy, Answers
  <2> QED
    BY <1>2, <2>1 DEF Call, TypeOK, settings, history, Phases, trust, consents
<1>3. CASE vault # "empty" /\ Held(o) = {} /\ JoinQuestion(r, o)
  <2>1. a \in Requests /\ st \in Statuses
    BY <1>1, <1>3, IdsOfRequests DEF TypeOK, JoinQuestion, HasQuestion
  <2>2. Outcome("allowing", st) \in Phases
    BY <2>1, OutcomeType DEF Waiting, Phases, Busy, Answers
  <2>3. phase' \in [Requests -> Phases] /\ asked' \in [Requests -> Requests \cup {None}]
    BY <1>3, <2>1, <2>2 DEF JoinQuestion, TypeOK, Phases, Busy, Waiting
  <2>4. /\ perms' \in [Origins -> SUBSET Permissions]
        /\ inPending' \in [Origins -> Requests \cup {None}]
    <3>1. "approved" \in Permissions /\ "rejected" \in Permissions
      BY DEF Permissions
    <3>2. CASE SetPermission(o, "approved") \/ SetPermission(o, "rejected")
      BY <1>1, <3>1, <3>2, SetPermissionType
    <3>3. CASE ~(SetPermission(o, "approved") \/ SetPermission(o, "rejected"))
      BY <1>3, <3>3 DEF JoinQuestion, TypeOK, settings, NonePending
    <3> QED
      BY <3>2, <3>3
  <2> QED
    BY <1>3, <2>3, <2>4 DEF Call, JoinQuestion, TypeOK, Phases, history, trust, consents
<1>4. CASE vault # "empty" /\ Held(o) = {} /\ AskQuestion(r, o)
  BY <1>1, <1>4, IdsOfRequests
     DEF Call, AskQuestion, TypeOK, history, NonePending, Statuses, Busy, Waiting, trust,
     consents
<1> QED
  BY <1>2, <1>3, <1>4 DEF Call

LEMMA TypeBuildDone ==
  ASSUME TypeOK, NEW r \in Requests, NEW auto \in BOOLEAN, BuildDone(r, auto)
  PROVE  TypeOK'
<1>1. OriginOf[r] \in Origins /\ Held(OriginOf[r]) \in SUBSET Permissions
  BY ConnectAssumption, HeldType
<1>2. /\ perms' \in [Origins -> SUBSET Permissions]
      /\ inPending' \in [Origins -> Requests \cup {None}]
  BY <1>1, SetPermissionsType DEF BuildDone, settings, TypeOK
<1>3. [by |-> "auto", req |-> r, version |-> 0, step |-> "signing"] \in Approval
  BY ConnectAssumption DEF Approval
<1>4. approvals' \subseteq Approval /\ confirmed' \subseteq Requests \X (0..MaxFee)
  BY <1>3, ConnectAssumption DEF BuildDone, TypeOK
<1>5. status' \in [Ids -> Statuses] /\ phase' \in [Requests -> Phases]
  BY IdsOfRequests DEF BuildDone, TypeOK, Statuses, Phases, Busy, Waiting, Answers
<1> QED
  BY <1>2, <1>4, <1>5 DEF BuildDone, TypeOK, Phases, trust

LEMMA TypeWindows ==
  ASSUME TypeOK, NEW r \in Requests,
         \/ ApproveAuth(r) \/ RejectForever(r)
         \/ \E w \in Windows : StartApproval(w, r)
  PROVE  TypeOK'
<1>1. /\ OriginOf[r] \in Origins
      /\ {"signed", "failed", "rejected_forever"} \subseteq Statuses
      /\ {"approved", "rejected"} \subseteq Permissions
  BY ConnectAssumption DEF Statuses, Permissions
<1>2. {Auth(r)} \in SUBSET Ids /\ {Tx(r)} \in SUBSET Ids
  BY IdsOfRequests
<1>3. CASE ApproveAuth(r)
  <2> DEFINE st == IF vault = "unlocked" THEN "signed" ELSE "failed"
  <2>1. status' \in [Ids -> Statuses] /\ phase' \in [Requests -> Phases]
    <3>1. SetStatus({Auth(r)}, st) /\ Wake({Auth(r)}, st) /\ st \in Statuses
      BY <1>1, <1>3 DEF ApproveAuth
    <3> QED
      BY <1>2, <3>1, SetStatusType, WakeType
  <2>2. /\ perms' \in [Origins -> SUBSET Permissions]
        /\ inPending' \in [Origins -> Requests \cup {None}]
        /\ granted' \subseteq Origins /\ blocked' \subseteq Origins
    BY <1>1, <1>3, SetPermissionType DEF ApproveAuth, settings, TypeOK, trust
  <2> QED
    BY <1>3, <2>1, <2>2, OutsideType DEF ApproveAuth, TypeOK, Phases, consents
<1>4. CASE RejectForever(r)
  <2>1. status' \in [Ids -> Statuses] /\ phase' \in [Requests -> Phases]
    BY <1>1, <1>2, <1>4, SetStatusType, WakeType DEF RejectForever
  <2>2. /\ perms' \in [Origins -> SUBSET Permissions]
        /\ inPending' \in [Origins -> Requests \cup {None}]
        /\ blocked' \subseteq Origins
    BY <1>1, <1>4, SetPermissionType DEF RejectForever, settings, TypeOK
  <2> QED
    BY <1>4, <2>1, <2>2, OutsideType DEF RejectForever, TypeOK, Phases, consents
<1>5. ASSUME NEW w \in Windows, StartApproval(w, r)
      PROVE  TypeOK'
  <2>1. CASE vault = "unlocked"
    <3>1. [by |-> w, req |-> r, version |-> version[r], step |-> "signing"] \in Approval
      BY DEF Approval, TypeOK
    <3> QED
      BY <1>5, <2>1, <3>1, OutsideType DEF StartApproval, TypeOK, settings, trust
  <2>2. CASE vault # "unlocked"
    <3>1. status' \in [Ids -> Statuses] /\ phase' \in [Requests -> Phases]
      BY <1>1, <1>2, <1>5, <2>2, SetStatusType, WakeType DEF StartApproval
    <3> QED
      BY <1>5, <2>2, <3>1, OutsideType DEF StartApproval, TypeOK, settings, Phases, trust
  <2> QED
    BY <2>1, <2>2
<1> QED
  BY <1>3, <1>4, <1>5

LEMMA TypeApproval ==
  ASSUME TypeOK, NEW a \in approvals, ApprovalStep(a)
  PROVE  TypeOK'
<1>1. /\ a \in Approval /\ a.req \in Requests /\ a.version \in 0..MaxFee
      /\ {"signed", "failed", "published", "rejected"} \subseteq Statuses
  BY DEF TypeOK, Approval, Statuses
<1>2. {Tx(a.req)} \in SUBSET Ids
  BY <1>1, IdsOfRequests
<1>3. CASE \E st \in {"signed", "failed", "published"} : Complete(a, st)
  BY <1>1, <1>3, CompleteType
<1>4. CASE SignOk(a) /\ a.req \in Publish
  <2> DEFINE b == [a EXCEPT !.step = "broadcasting"]
  <2>1. b \in Approval
    BY <1>1 DEF Approval
  <2>2. /\ approvals' = (approvals \ {a}) \cup {b}
        /\ UNCHANGED <<whitelist, vault, settings, store, feeing, calls, open, outside, history>>
    BY <1>4 DEF SignOk
  <2>3. approvals' \subseteq Approval
    BY <2>1, <2>2 DEF TypeOK
  <2> QED
    BY <2>2, <2>3 DEF TypeOK, settings, store, calls, history, trust, consents
<1>5. CASE LedgerReject(a)
  <2>1. status' \in [Ids -> Statuses] /\ phase' \in [Requests -> Phases]
    BY <1>1, <1>2, <1>5, SetStatusType, WakeType DEF LedgerReject, TypeOK, Phases
  <2>2. approvals' \subseteq Approval /\ undone' \subseteq Requests
    BY <1>5 DEF LedgerReject, Overtaken, TypeOK
  <2> QED
    BY <1>5, <2>1, <2>2 DEF LedgerReject, TypeOK, Phases, settings, trust
<1>6. CASE NodeAccepts(a)
  BY <1>1, <1>6 DEF NodeAccepts, TypeOK, settings, store, calls, trust
<1> QED
  BY <1>3, <1>4, <1>5, <1>6 DEF ApprovalStep, SignOk, SignFail, BroadcastOk, BroadcastFail

LEMMA TypeFee ==
  ASSUME TypeOK, NEW r \in Requests, StartFee(r) \/ FinishFee(r) \/ FailFee(r)
  PROVE  TypeOK'
<1>1. {Tx(r)} \in SUBSET Ids /\ "unapproved" \in Statuses
  BY IdsOfRequests DEF Statuses
<1>2. CASE StartFee(r)
  <2>1. made[r] + 1 \in 0..MaxFee
    BY <1>2, ConnectAssumption DEF StartFee, TypeOK
  <2> QED
    BY <1>2, <2>1, OutsideType DEF StartFee, TypeOK, settings, calls, history, trust, consents
<1>3. CASE FinishFee(r)
  <2>1. status' \in [Ids -> Statuses]
    BY <1>1, <1>3, SetStatusType DEF FinishFee, TypeOK
  <2> QED
    BY <1>3, <2>1 DEF FinishFee, TypeOK, settings, calls, history, trust, consents
<1>4. CASE FailFee(r)
  BY <1>4 DEF FailFee, TypeOK, settings, store, calls, history, trust, consents
<1> QED
  BY <1>2, <1>3, <1>4

LEMMA TypeSettings ==
  ASSUME TypeOK, NEW o \in Origins,
         \/ AllowOrigin(o) \/ DisableOrigin(o) \/ DeleteOrigin(o)
         \/ \E on \in BOOLEAN : SetAutoSign(o, on)
  PROVE  TypeOK'
<1>1. /\ Held(o) \in SUBSET Permissions
      /\ {"approved", "rejected", "autosign"} \subseteq Permissions
  BY HeldType DEF Permissions
<1>2. Outside => outside' \in 0..MaxOutside
  BY OutsideType
<1>3. CASE AllowOrigin(o)
  <2> DEFINE F == {id \in Ids : Present(id) /\ OriginOf[id[2]] = o}
  <2>1. F \in SUBSET Ids /\ RejectAll(F)
    BY <1>3 DEF AllowOrigin
  <2>2. /\ perms' \in [Origins -> SUBSET Permissions]
        /\ inPending' \in [Origins -> Requests \cup {None}]
    BY <1>1, <1>3, SetPermissionsType DEF AllowOrigin, With
  <2> QED
    BY <1>2, <1>3, <2>1, <2>2, RejectAllType DEF AllowOrigin, TypeOK, Phases
<1>4. CASE DisableOrigin(o)
  <2>1. /\ perms' \in [Origins -> SUBSET Permissions]
        /\ inPending' \in [Origins -> Requests \cup {None}]
    BY <1>1, <1>4, SetPermissionsType DEF DisableOrigin, With
  <2> QED
    BY <1>2, <1>4, <2>1 DEF DisableOrigin, TypeOK, store, calls, consents
<1>5. CASE DeleteOrigin(o)
  BY <1>2, <1>5 DEF DeleteOrigin, TypeOK, store, calls, consents
<1>6. ASSUME NEW on \in BOOLEAN, SetAutoSign(o, on)
      PROVE  TypeOK'
  <2>1. /\ perms' \in [Origins -> SUBSET Permissions]
        /\ inPending' \in [Origins -> Requests \cup {None}]
    BY <1>1, <1>6, SetPermissionsType DEF SetAutoSign
  <2> QED
    BY <1>2, <1>6, <2>1 DEF SetAutoSign, TypeOK, store, calls, history, trust, consents
<1> QED
  BY <1>3, <1>4, <1>5, <1>6

LEMMA TypeEvents ==
  ASSUME TypeOK,
         \/ Lock \/ Unlock \/ ClearMessages \/ DeleteVault \/ Restart
         \/ \E c \in Conns : Disconnect(c)
         \/ \E S \in SUBSET Unapproved : Expire(S)
         \/ \E id \in Ids : Reject(id)
  PROVE  TypeOK'
<1>1. Outside => outside' \in 0..MaxOutside
  BY OutsideType
<1>2. /\ {id \in Ids : Present(id)} \in SUBSET Ids
      /\ SUBSET Unapproved \subseteq SUBSET Ids
      /\ {"absent", "rejected"} \subseteq Statuses
  BY DEF Unapproved, Statuses
<1>3. CASE Lock
  BY <1>1, <1>2, <1>3, RejectAllType, ForgetPendingType DEF Lock, TypeOK, Phases, trust
<1>4. CASE Unlock
  BY <1>1, <1>4 DEF Unlock, TypeOK, settings, store, calls, history, trust, consents
<1>5. CASE ClearMessages \/ DeleteVault
  BY <1>1, <1>2, <1>5, SetStatusType DEF ClearMessages, DeleteVault, Clear, TypeOK, settings,
     calls, trust, consents
<1>6. CASE Restart
  BY <1>1, <1>2, <1>6 DEF Restart, TypeOK, settings, Answers, trust, consents
<1>7. ASSUME NEW c \in Conns, Disconnect(c)
      PROVE  TypeOK'
  <2> DEFINE F == {id \in Ids : Present(id) /\ ConnOf[id[2]] = c}
  <2>1. status' \in [Ids -> Statuses] /\ phase' \in [Requests -> Phases]
    BY <1>2, <1>7, SetStatusType, WakeType DEF Disconnect
  <2>2. inPending' \in [Origins -> Requests \cup {None}]
    BY <1>7, ForgetPendingType DEF Disconnect
  <2> QED
    BY <1>1, <1>7, <2>1, <2>2 DEF Disconnect, TypeOK, Phases, Overtaken, trust
<1>8. ASSUME NEW S \in SUBSET Unapproved, Expire(S)
      PROVE  TypeOK'
  BY <1>2, <1>8, RejectAllType, ForgetPendingType DEF Expire, TypeOK, Phases, trust
<1>9. ASSUME NEW id \in Ids, Reject(id)
      PROVE  TypeOK'
  BY <1>9, RejectAllType, ForgetPendingType, OutsideType DEF Reject, TypeOK, Phases, trust
<1> QED
  BY <1>3, <1>4, <1>5, <1>6, <1>7, <1>8, <1>9

LEMMA TypeNext == TypeOK /\ [Next]_vars => TypeOK'
<1> SUFFICES ASSUME TypeOK, [Next]_vars
             PROVE  TypeOK'
  OBVIOUS
<1>1. ASSUME NEW r \in Requests, BuildFail(r)
      PROVE  TypeOK'
  BY <1>1 DEF BuildFail, TypeOK, settings, store, history, Answers, trust, consents
<1>2. CASE UNCHANGED vars
  BY <1>2 DEF TypeOK, vars, settings, store, calls, history, trust, consents
<1> QED
  BY <1>1, <1>2, TypeCall, TypeBuildDone, TypeWindows, TypeApproval, TypeFee,
     TypeSettings, TypeEvents DEF Next

\* Every variable keeps its type: no handler leaves a table, a message or a
\* waiting call in a form the others do not know (message.ts, permissions.ts).
THEOREM TypeCorrect == Spec => []TypeOK
<1>1. Init => TypeOK
  BY TypeInit
<1> QED
  BY <1>1, TypeNext, PTL DEF Spec

----------------------------------------------------------------------------
(* Trust: the question of a site is answered for that site only.           *)

Served == {"building", "waiting", "result"}

\* A permission to be served is the user's, or the whitelist's.
PermsSound ==
  \A o \in Origins : /\ "approved" \in perms[o] => o \in granted
                     /\ "all" \in perms[o] => o \in whitelist

\* The questions a site waits for are its own, and what is built, in the store
\* or confirmed for a site was preceded by the user's trust in it, or the site is
\* one of the whitelist.
TrustInv ==
  /\ \A o \in Origins : inPending[o] # None => OriginOf[inPending[o]] = o
  /\ PermsSound
  /\ \A r \in Requests : asked[r] # None => OriginOf[asked[r]] = OriginOf[r]
  /\ \A r \in Requests : phase[r] = "allowing" => asked[r] # None
  /\ \A r \in Requests : status[Auth(r)] \in {"signed", "published"} => OriginOf[r] \in granted
  /\ \A r \in Requests : Present(Tx(r)) => OriginOf[r] \in granted \cup whitelist
  /\ ServedOnlyIfAllowed

\* Consent: what is signed, on its way to the node or served was confirmed.
ConsentInv ==
  /\ \A a \in approvals : /\ <<a.req, a.version>> \in confirmed
                          /\ a.step = "broadcasting" => a.req \in Publish
  /\ published \subseteq confirmed
  /\ ResultHasConsent

\* What a finished event makes of a handler.
LEMMA WakeMeans ==
  ASSUME TypeOK, NEW F, NEW st \in Statuses, Wake(F, st), NEW r \in Requests
  PROVE  /\ phase'[r] \in Waiting => phase'[r] = phase[r] /\ Awaited(r) \notin F
         /\ phase'[r] = "building" /\ phase[r] # "building" =>
              phase[r] = "allowing" /\ Auth(asked[r]) \in F /\ st \in {"signed", "published"}
         /\ phase'[r] = "result" /\ phase[r] # "result" =>
              phase[r] = "waiting" /\ Tx(r) \in F /\ st \in {"signed", "published"}
<1>1. phase'[r] = IF r \in Woken(F) THEN Outcome(phase[r], st) ELSE phase[r]
  BY DEF Wake
<1>2. CASE r \in Woken(F)
  BY <1>1, <1>2 DEF Woken, Waiting, Awaited, Outcome
<1>3. CASE r \notin Woken(F)
  BY <1>1, <1>3 DEF Woken, Waiting
<1> QED
  BY <1>2, <1>3

\* A rejection, or a failure, makes nobody served.
LEMMA WakeServesNobody ==
  ASSUME TypeOK, NEW F, NEW st \in Statuses \ {"signed", "published"}, Wake(F, st),
         NEW r \in Requests, phase'[r] \in Served \cup {"allowing"}
  PROVE  phase'[r] = phase[r]
BY WakeMeans DEF Served, Waiting

\* Writing the permissions of a site: what it holds, and what it is given.
LEMMA SetPermissionsTrust ==
  ASSUME TypeOK, PermsSound, whitelist' = whitelist, granted \subseteq granted',
         NEW o \in Origins, NEW S, SetPermissions(o, S),
         S \subseteq Held(o) \cup {"approved", "rejected", "autosign"},
         "approved" \in S => "approved" \in Held(o) \/ o \in granted'
  PROVE  /\ PermsSound'
         /\ \A q \in Origins : inPending'[q] \in {inPending[q], None}
<1>1. \A q \in Origins : inPending'[q] = None /\ perms'[q] = IF q = o THEN S ELSE {}
  BY DEF SetPermissions, Only, NonePending
<1>2. /\ "approved" \in Held(o) => o \in granted
      /\ "all" \in Held(o) => o \in whitelist
  BY DEF Held, PermsSound
<1>3. "all" \in S => "all" \in Held(o)
  OBVIOUS
<1> QED
  BY <1>1, <1>2, <1>3 DEF PermsSound

LEMMA SetPermissionTrust ==
  ASSUME TypeOK, PermsSound, whitelist' = whitelist, granted \subseteq granted',
         NEW o \in Origins, NEW p \in {"approved", "rejected"}, SetPermission(o, p),
         p = "approved" => o \in granted'
  PROVE  /\ PermsSound'
         /\ \A q \in Origins : inPending'[q] \in {inPending[q], None}
<1>1. CASE UNCHANGED settings
  BY <1>1 DEF PermsSound, settings
<1>2. CASE SetPermissions(o, Held(o) \cup {p})
  BY <1>2, SetPermissionsTrust
<1> QED
  BY <1>1, <1>2 DEF SetPermission

LEMMA TrustInit == Init => TrustInv
BY ConnectAssumption, IdsOfRequests
   DEF Init, TrustInv, PermsSound, ServedOnlyIfAllowed, Present, Permissions

LEMMA TrustCall ==
  ASSUME TypeOK, TrustInv, whitelist' = whitelist, NEW r \in Requests, Call(r)
  PROVE  TrustInv'
<1> DEFINE o == OriginOf[r]
           a == inPending[o]
           st == status[Auth(a)]
<1>1. o \in Origins /\ a \in Requests \cup {None} /\ {"approved", "rejected"} \subseteq Permissions
  BY ConnectAssumption DEF TypeOK, Permissions
<1>2. CASE ~(vault # "empty" /\ Held(o) = {})
  <2>1. /\ CallAnswer(o) \notin {"allowing", "waiting", "result"}
        /\ CallAnswer(o) = "building" => o \in granted \cup whitelist
    BY <1>1 DEF CallAnswer, Allowed, Held, Has, TrustInv, PermsSound
  <2> QED
    BY <1>2, <2>1 DEF Call, TypeOK, TrustInv, PermsSound, ServedOnlyIfAllowed, Present,
       settings, history, trust, consents
<1> granted' = granted
  BY DEF Call, history, trust
<1>3. CASE vault # "empty" /\ Held(o) = {} /\ JoinQuestion(r, o)
  <2>1. a \in Requests /\ a # None /\ st \in Statuses /\ OriginOf[a] = o
    BY <1>1, <1>3, IdsOfRequests, ConnectAssumption DEF TypeOK, JoinQuestion, HasQuestion,
       TrustInv, PermsSound
  <2>2. /\ phase'[r] \notin {"waiting", "result"}
        /\ phase'[r] = "building" => o \in granted
    BY <1>3, <2>1 DEF JoinQuestion, Outcome, TypeOK, TrustInv, PermsSound
  <2>3. /\ PermsSound'
        /\ \A q \in Origins : inPending'[q] \in {inPending[q], None}
    <3>1. CASE st = "signed" /\ SetPermission(o, "approved")
      <4>1. o \in granted
        BY <2>1, <3>1 DEF TrustInv
      <4> QED
        BY <1>1, <3>1, <4>1, SetPermissionTrust DEF TrustInv
    <3>2. CASE SetPermission(o, "rejected")
      BY <1>1, <3>2, SetPermissionTrust DEF TrustInv
    <3>3. CASE (inPending' = NonePending /\ UNCHANGED perms) \/ UNCHANGED settings
      BY <3>3 DEF NonePending, TrustInv, PermsSound, settings
    <3> QED
      BY <1>3, <3>1, <3>2, <3>3 DEF JoinQuestion
  <2> QED
    BY <1>3, <2>1, <2>2, <2>3 DEF Call, JoinQuestion, TypeOK, TrustInv, PermsSound,
       ServedOnlyIfAllowed,
       Present, history, trust, consents
<1>4. CASE vault # "empty" /\ Held(o) = {} /\ AskQuestion(r, o)
  BY <1>1, <1>4, IdsOfRequests, ConnectAssumption
     DEF Call, AskQuestion, TypeOK, TrustInv, PermsSound, ServedOnlyIfAllowed, Present,
     NonePending, history, trust, consents
<1> QED
  BY <1>2, <1>3, <1>4 DEF Call

LEMMA TrustBuild ==
  ASSUME TypeOK, TrustInv, whitelist' = whitelist, NEW r \in Requests,
         BuildFail(r) \/ \E auto \in BOOLEAN : BuildDone(r, auto)
  PROVE  TrustInv'
<1>1. OriginOf[r] \in Origins
  BY ConnectAssumption
<1>2. CASE BuildFail(r)
  BY <1>2 DEF BuildFail, TypeOK, TrustInv, PermsSound, ServedOnlyIfAllowed, Present, settings,
     store, history, trust, consents
<1>3. ASSUME NEW auto \in BOOLEAN, BuildDone(r, auto)
      PROVE  TrustInv'
  <2>1. OriginOf[r] \in granted \cup whitelist
    BY <1>3 DEF BuildDone, TrustInv, PermsSound, ServedOnlyIfAllowed
  <2>2. /\ PermsSound'
        /\ \A q \in Origins : inPending'[q] \in {inPending[q], None}
    <3>1. UNCHANGED granted
      BY <1>3 DEF BuildDone, trust
    <3>2. CASE auto
      <4>1. SetPermissions(OriginOf[r], Held(OriginOf[r]))
        BY <1>3, <3>2 DEF BuildDone
      <4> QED
        BY <1>1, <3>1, <4>1, SetPermissionsTrust DEF TrustInv
    <3>3. CASE ~auto
      BY <1>3, <3>1, <3>3 DEF BuildDone, TrustInv, PermsSound, settings
    <3> QED
      BY <3>2, <3>3
  <2>3. /\ \A q \in Requests : status'[Auth(q)] = status[Auth(q)]
        /\ \A q \in Requests : q # r => status'[Tx(q)] = status[Tx(q)] /\ phase'[q] = phase[q]
        /\ phase'[r] # "allowing" 
        /\ \A c \in confirmed' : c \in confirmed \/ c[1] = r
    BY <1>3, IdsOfRequests DEF BuildDone, TypeOK
  <2>4. UNCHANGED <<asked, granted>>
    BY <1>3 DEF BuildDone, trust
  <2> QED
    BY <2>1, <2>2, <2>3, <2>4 DEF TrustInv, PermsSound, ServedOnlyIfAllowed, Present
<1> QED
  BY <1>2, <1>3

\* What setting the status of some messages does.
LEMMA SetStatusMeans ==
  ASSUME TypeOK, NEW F, NEW st, SetStatus(F, st), NEW id \in Ids
  PROVE  status'[id] = IF id \in F THEN st ELSE status[id]
BY DEF SetStatus

LEMMA TrustWindows ==
  ASSUME TypeOK, TrustInv, whitelist' = whitelist, NEW r \in Requests,
         \/ ApproveAuth(r) \/ RejectForever(r)
         \/ \E w \in Windows : StartApproval(w, r)
  PROVE  TrustInv'
<1>1. /\ OriginOf[r] \in Origins
      /\ {"signed", "failed", "rejected_forever"} \subseteq Statuses
      /\ {"approved", "rejected"} \subseteq Permissions
  BY ConnectAssumption DEF Statuses, Permissions
<1>2. CASE ApproveAuth(r)
  <2> DEFINE st == IF vault = "unlocked" THEN "signed" ELSE "failed"
  <2>1. st \in Statuses /\ Wake({Auth(r)}, st) /\ SetStatus({Auth(r)}, st)
    BY <1>1, <1>2 DEF ApproveAuth
  <2>2. /\ granted \subseteq granted'
        /\ st = "signed" => OriginOf[r] \in granted'
        /\ PermsSound'
        /\ \A q \in Origins : inPending'[q] \in {inPending[q], None}
    <3>1. CASE vault = "unlocked"
      <4>1. /\ SetPermission(OriginOf[r], "approved")
            /\ granted' = granted \cup {OriginOf[r]}
        BY <1>2, <3>1 DEF ApproveAuth
      <4> QED
        BY <1>1, <3>1, <4>1, SetPermissionTrust DEF TrustInv
    <3>2. CASE vault # "unlocked"
      BY <1>2, <3>2 DEF ApproveAuth, TrustInv, PermsSound, settings, trust, consents
    <3> QED
      BY <3>1, <3>2
  <2>3. \A q \in Requests :
          /\ status'[Auth(q)] \in {"signed", "published"} => OriginOf[q] \in granted'
          /\ status'[Tx(q)] = status[Tx(q)]
    BY <2>1, <2>2, IdsOfRequests, SetStatusMeans DEF TrustInv, PermsSound
  <2>4. \A q \in Requests :
          /\ phase'[q] = "allowing" => phase[q] = "allowing"
          /\ phase'[q] \in Served => OriginOf[q] \in granted' \cup whitelist
    <3> SUFFICES ASSUME NEW q \in Requests
                 PROVE  /\ phase'[q] = "allowing" => phase[q] = "allowing"
                        /\ phase'[q] \in Served => OriginOf[q] \in granted' \cup whitelist
      OBVIOUS
    <3>1. phase'[q] = "allowing" => phase[q] = "allowing"
      BY <2>1, WakeMeans DEF Waiting
    <3>2. CASE phase'[q] \in Served /\ phase[q] \in Served
      BY <2>2, <3>2 DEF TrustInv, PermsSound, ServedOnlyIfAllowed, Served
    <3>3. CASE phase'[q] \in Served /\ phase[q] \notin Served
      <4>1. phase[q] = "allowing" /\ Auth(asked[q]) = Auth(r) /\ st = "signed"
        BY <2>1, <3>3, WakeMeans, IdsOfRequests DEF Served, Waiting
      <4>2. asked[q] \in Requests /\ OriginOf[asked[q]] = OriginOf[q]
        BY <4>1 DEF TrustInv, PermsSound, TypeOK
      <4> QED
        BY <2>2, <4>1, <4>2, IdsOfRequests
    <3> QED
      BY <3>1, <3>2, <3>3
  <2>5. UNCHANGED <<asked, confirmed>>
    BY <1>2 DEF ApproveAuth, trust, consents
  <2> QED
    BY <2>2, <2>3, <2>4, <2>5 DEF TrustInv, PermsSound, ServedOnlyIfAllowed, Present, Served
<1>3. CASE RejectForever(r)
  <2>1. /\ SetStatus({Auth(r)}, "rejected_forever") /\ Wake({Auth(r)}, "rejected_forever")
        /\ UNCHANGED <<asked, granted, confirmed>>
    BY <1>3 DEF RejectForever, consents
  <2>2. /\ PermsSound'
        /\ \A q \in Origins : inPending'[q] \in {inPending[q], None}
    <3>1. CASE SetPermission(OriginOf[r], "rejected")
      BY <1>1, <2>1, <3>1, SetPermissionTrust DEF TrustInv
    <3>2. CASE UNCHANGED settings
      BY <2>1, <3>2 DEF TrustInv, PermsSound, settings
    <3> QED
      BY <1>3, <3>1, <3>2 DEF RejectForever, settings
  <2>3. \A q \in Requests : phase'[q] \in Served \cup {"allowing"} => phase'[q] = phase[q]
    BY <1>1, <2>1, WakeServesNobody
  <2>4. \A q \in Requests :
          /\ status'[Auth(q)] \in {"signed", "published"} => status'[Auth(q)] = status[Auth(q)]
          /\ status'[Tx(q)] = status[Tx(q)]
    BY <2>1, IdsOfRequests, SetStatusMeans
  <2> QED
    BY <2>1, <2>2, <2>3, <2>4 DEF TrustInv, PermsSound, ServedOnlyIfAllowed, Present, Served
<1>4. ASSUME NEW w \in Windows, StartApproval(w, r)
      PROVE  TrustInv'
  <2>1. OriginOf[r] \in granted \cup whitelist /\ Present(Tx(r))
    BY <1>4 DEF StartApproval, Found, TrustInv, PermsSound, Present
  <2>2. \A q \in Requests :
          /\ status'[Auth(q)] = status[Auth(q)]
          /\ status'[Tx(q)] # "absent" => Present(Tx(q))
          /\ phase'[q] \in Served \cup {"allowing"} => phase'[q] = phase[q]
    <3>1. CASE vault = "unlocked"
      BY <1>4, <3>1 DEF StartApproval, Present
    <3>2. CASE vault # "unlocked"
      BY <1>1, <1>4, <2>1, <3>2, WakeServesNobody, SetStatusMeans, IdsOfRequests
         DEF StartApproval, Present
    <3> QED
      BY <3>1, <3>2
  <2>3. /\ UNCHANGED <<perms, inPending, asked, granted>>
        /\ \A c \in confirmed' : c \in confirmed \/ c[1] = r
    BY <1>4 DEF StartApproval, settings, trust
  <2> QED
    BY <2>1, <2>2, <2>3 DEF TrustInv, PermsSound, ServedOnlyIfAllowed, Present, Served
<1> QED
  BY <1>2, <1>3, <1>4

LEMMA TrustApproval ==
  ASSUME TypeOK, TrustInv, whitelist' = whitelist, NEW a \in approvals, ApprovalStep(a)
  PROVE  TrustInv'
<1>1. a.req \in Requests /\ {"signed", "failed", "published", "rejected"} \subseteq Statuses
  BY DEF TypeOK, Approval, Statuses
<1>2. ASSUME NEW st \in {"signed", "failed", "published"}, Complete(a, st)
      PROVE  TrustInv'
  <2>1. \A q \in Requests :
          /\ status'[Auth(q)] = status[Auth(q)]
          /\ status'[Tx(q)] # "absent" => Present(Tx(q))
    BY <1>1, <1>2, IdsOfRequests, SetStatusMeans DEF Complete, Present
  <2>2. \A q \in Requests :
          /\ phase'[q] = "allowing" => phase[q] = "allowing"
          /\ phase'[q] \in Served => phase[q] \in Served
    <3>1. Wake({Tx(a.req)}, st) /\ st \in Statuses
      BY <1>1, <1>2 DEF Complete
    <3>2. \A q \in Requests : Auth(asked[q]) \notin {Tx(a.req)}
      BY <1>1 DEF Auth, Tx
    <3> QED
      BY <3>1, <3>2, WakeMeans DEF Served, Waiting
  <2>3. UNCHANGED <<perms, inPending, asked, granted, confirmed>>
    BY <1>2 DEF Complete, settings, history, trust, consents
  <2> QED
    BY <2>1, <2>2, <2>3 DEF TrustInv, PermsSound, ServedOnlyIfAllowed, Present, Served
<1>3. CASE SignOk(a) /\ a.req \in Publish
  BY <1>3 DEF SignOk, TrustInv, PermsSound, ServedOnlyIfAllowed, Present, settings, store,
     calls, history, trust, consents
<1>4. CASE NodeAccepts(a)
  BY <1>4 DEF NodeAccepts, TrustInv, PermsSound, ServedOnlyIfAllowed, Present, settings,
     store, calls, trust
<1>5. CASE LedgerReject(a)
  <2>1. \A q \in Requests :
          /\ status'[Auth(q)] = status[Auth(q)]
          /\ status'[Tx(q)] # "absent" => Present(Tx(q))
          /\ phase'[q] \in Served \cup {"allowing"} => phase'[q] = phase[q]
    <3>1. CASE Present(Tx(a.req))
      BY <1>1, <1>5, <3>1, IdsOfRequests, SetStatusMeans, WakeServesNobody
         DEF LedgerReject, Present
    <3>2. CASE ~Present(Tx(a.req))
      BY <1>5, <3>2 DEF LedgerReject, Present
    <3> QED
      BY <3>1, <3>2
  <2>2. UNCHANGED <<perms, inPending, asked, granted, confirmed>>
    BY <1>5 DEF LedgerReject, settings, trust
  <2> QED
    BY <2>1, <2>2 DEF TrustInv, PermsSound, ServedOnlyIfAllowed, Present, Served
<1> QED
  BY <1>2, <1>3, <1>4, <1>5 DEF ApprovalStep, SignOk, SignFail, BroadcastOk, BroadcastFail

LEMMA TrustFee ==
  ASSUME TypeOK, TrustInv, whitelist' = whitelist, NEW r \in Requests, StartFee(r) \/ FinishFee(r) \/ FailFee(r)
  PROVE  TrustInv'
<1>1. CASE FinishFee(r)
  <2>1. \A q \in Requests :
          /\ status'[Auth(q)] = status[Auth(q)]
          /\ status'[Tx(q)] # "absent" => Present(Tx(q))
    BY <1>1, IdsOfRequests, SetStatusMeans DEF FinishFee, Present
  <2> QED
    BY <1>1, <2>1 DEF FinishFee, TrustInv, PermsSound, ServedOnlyIfAllowed, Present, settings,
       calls, history, trust, consents
<1>2. CASE StartFee(r) \/ FailFee(r)
  BY <1>2 DEF StartFee, FailFee, TrustInv, PermsSound, ServedOnlyIfAllowed, Present, settings,
     store,
     calls, history, trust, consents
<1> QED
  BY <1>1, <1>2

\* Rejecting, or dropping, messages takes no site's trust for granted.
LEMMA TrustRejected ==
  ASSUME TypeOK, TrustInv, whitelist' = whitelist, NEW F \in SUBSET Ids,
         NEW st \in {"absent", "rejected"}, SetStatus(F, st), F \subseteq {id \in Ids : Present(id)},
         Wake(F, "rejected") \/ UNCHANGED phase,
         UNCHANGED <<asked, confirmed>>, granted \subseteq granted',
         PermsSound',
         \A o \in Origins : inPending'[o] \in {inPending[o], None}
  PROVE  TrustInv'
<1>1. \A q \in Requests :
        /\ status'[Auth(q)] \in {"signed", "published"} => status'[Auth(q)] = status[Auth(q)]
        /\ status'[Tx(q)] # "absent" => Present(Tx(q))
  BY IdsOfRequests, SetStatusMeans DEF Present
<1>2. \A q \in Requests : phase'[q] \in Served \cup {"allowing"} => phase'[q] = phase[q]
  <2>1. "rejected" \in Statuses \ {"signed", "published"}
    BY DEF Statuses
  <2> QED
    BY <2>1, WakeServesNobody
<1> QED
  BY <1>1, <1>2 DEF TrustInv, PermsSound, ServedOnlyIfAllowed, Present, Served

LEMMA TrustSettings ==
  ASSUME TypeOK, TrustInv, whitelist' = whitelist, NEW o \in Origins,
         \/ AllowOrigin(o) \/ DisableOrigin(o) \/ DeleteOrigin(o)
         \/ \E on \in BOOLEAN : SetAutoSign(o, on)
  PROVE  TrustInv'
<1>1. CASE AllowOrigin(o)
  <2> DEFINE F == {id \in Ids : Present(id) /\ OriginOf[id[2]] = o}
  <2>1. /\ F \in SUBSET Ids /\ F \subseteq {id \in Ids : Present(id)}
        /\ SetStatus(F, "rejected") /\ Wake(F, "rejected")
        /\ UNCHANGED <<asked, confirmed>> /\ granted' = granted \cup {o}
    BY <1>1 DEF AllowOrigin, RejectAll
  <2>2. /\ PermsSound'
        /\ \A p \in Origins : inPending'[p] \in {inPending[p], None}
    <3>1. SetPermissions(o, With(Held(o) \ {"rejected"}, "approved"))
      BY <1>1 DEF AllowOrigin
    <3> QED
      BY <2>1, <3>1, SetPermissionsTrust DEF TrustInv, With
  <2> HIDE DEF F
  <2> QED
    BY <2>1, <2>2, TrustRejected
<1>2. CASE DisableOrigin(o) \/ DeleteOrigin(o) \/ \E on \in BOOLEAN : SetAutoSign(o, on)
  <2>1. /\ PermsSound'
        /\ \A p \in Origins : inPending'[p] \in {inPending[p], None}
    <3>1. UNCHANGED granted
      BY <1>2 DEF DisableOrigin, DeleteOrigin, SetAutoSign, history, trust
    <3>2. CASE DisableOrigin(o)
      <4>1. SetPermissions(o, With(Held(o) \ {"approved"}, "rejected"))
        BY <3>2 DEF DisableOrigin
      <4> QED
        BY <3>1, <4>1, SetPermissionsTrust DEF TrustInv, With
    <3>3. CASE DeleteOrigin(o)
      BY <3>1, <3>3 DEF DeleteOrigin, TypeOK, TrustInv, PermsSound
    <3>4. ASSUME NEW on \in BOOLEAN, SetAutoSign(o, on)
          PROVE  PermsSound' /\ \A p \in Origins : inPending'[p] \in {inPending[p], None}
      <4>1. SetPermissions(o, IF on THEN Held(o) \cup {"autosign"} ELSE Held(o) \ {"autosign"})
        BY <3>4 DEF SetAutoSign
      <4> QED
        BY <3>1, <4>1, SetPermissionsTrust DEF TrustInv
    <3> QED
      BY <1>2, <3>2, <3>3, <3>4
  <2>2. UNCHANGED <<status, phase, asked, granted, confirmed>>
    BY <1>2 DEF DisableOrigin, DeleteOrigin, SetAutoSign, store, calls, history, consents, trust
  <2> QED
    BY <2>1, <2>2 DEF TrustInv, PermsSound, ServedOnlyIfAllowed, Present
<1> QED
  BY <1>1, <1>2

\* The configuration of a build stays.
LEMMA WhitelistKept == [Next]_vars => whitelist' = whitelist
BY DEF Next, Call, BuildFail, ApproveAuth, RejectForever, StartFee, FinishFee, FailFee,
   BuildDone, StartApproval, ApprovalStep, SignOk, SignFail, LedgerReject, NodeAccepts,
   BroadcastOk, BroadcastFail, Complete, Reject, AllowOrigin, DisableOrigin, DeleteOrigin,
   SetAutoSign, Expire, Disconnect, Lock, Unlock, ClearMessages, DeleteVault, Clear, Restart,
   vars

LEMMA TrustEvents ==
  ASSUME TypeOK, TrustInv, whitelist' = whitelist,
         \/ Lock \/ Unlock \/ ClearMessages \/ DeleteVault \/ Restart
         \/ \E c \in Conns : Disconnect(c)
         \/ \E S \in SUBSET Unapproved : Expire(S)
         \/ \E id \in Ids : Reject(id)
  PROVE  TrustInv'
<1> DEFINE All == {id \in Ids : Present(id)}
<1>1. /\ Unapproved \subseteq All /\ All \in SUBSET Ids
      /\ PermsSound
  BY DEF Unapproved, Present, TrustInv, PermsSound
<1>2. \A F : ForgetPending(F) => \A o \in Origins : inPending'[o] \in {inPending[o], None}
  BY DEF ForgetPending, NonePending
<1> HIDE DEF All
<1> UNCHANGED <<perms, granted>> => PermsSound'
  BY <1>1 DEF PermsSound
<1>3. CASE Lock
  <2>1. SetStatus(All, "rejected") /\ Wake(All, "rejected") /\ ForgetPending(All)
    BY <1>3 DEF Lock, RejectAll, All
  <2>2. UNCHANGED <<perms, asked, granted, confirmed>>
    BY <1>3 DEF Lock, trust
  <2> QED
    BY <1>1, <1>2, <2>1, <2>2, TrustRejected DEF All
<1>4. CASE Unlock
  BY <1>4 DEF Unlock, TrustInv, PermsSound, ServedOnlyIfAllowed, Present, settings, store,
     calls, history, trust, consents
<1>5. CASE ClearMessages \/ DeleteVault
  <2>1. Clear
    BY <1>5 DEF ClearMessages, DeleteVault
  <2>2. /\ SetStatus(All, "absent") /\ UNCHANGED phase
        /\ UNCHANGED <<perms, inPending, asked, granted, confirmed>>
    BY <2>1 DEF Clear, calls, settings, trust, consents, All
  <2>3. PermsSound'
    BY <1>1, <2>2 DEF PermsSound
  <2> QED
    BY <1>1, <2>2, <2>3, TrustRejected DEF All
<1>6. CASE Restart
  <2>1. \A q \in Requests : phase'[q] \in Served \cup {"allowing"} => phase'[q] = phase[q]
    BY <1>6 DEF Restart, Served
  <2> QED
    BY <1>6, <2>1, IdsOfRequests
       DEF Restart, TrustInv, PermsSound, ServedOnlyIfAllowed, Present, settings, Served,
       trust, consents
<1>7. ASSUME NEW c \in Conns, Disconnect(c)
      PROVE  TrustInv'
  <2> DEFINE F == {id \in Ids : Present(id) /\ ConnOf[id[2]] = c}
  <2>1. /\ SetStatus(F, "absent") /\ Wake(F, "rejected") /\ ForgetPending(F)
        /\ F \in SUBSET Ids /\ F \subseteq All
        /\ UNCHANGED <<perms, asked, granted, confirmed>>
    BY <1>7 DEF Disconnect, All, trust
  <2> HIDE DEF F
  <2> QED
    BY <1>1, <1>2, <2>1, TrustRejected DEF All
<1>8. ASSUME NEW S \in SUBSET Unapproved, Expire(S)
      PROVE  TrustInv'
  <2>1. /\ SetStatus(S, "rejected") /\ Wake(S, "rejected") /\ ForgetPending(S)
        /\ UNCHANGED <<perms, asked, granted, confirmed>>
    BY <1>8 DEF Expire, RejectAll, trust
  <2> QED
    BY <1>1, <1>2, <2>1, TrustRejected DEF All
<1>9. ASSUME NEW id \in Ids, Reject(id)
      PROVE  TrustInv'
  <2>1. /\ SetStatus({id}, "rejected") /\ Wake({id}, "rejected") /\ ForgetPending({id})
        /\ UNCHANGED <<perms, asked, granted, confirmed>> /\ {id} \subseteq All
    BY <1>9 DEF Reject, Found, RejectAll, Present, All, trust
  <2> QED
    BY <1>1, <1>2, <2>1, TrustRejected DEF All
<1> QED
  BY <1>3, <1>4, <1>5, <1>6, <1>7, <1>8, <1>9

LEMMA TrustNext == TypeOK /\ TrustInv /\ [Next]_vars => TrustInv'
<1> SUFFICES ASSUME TypeOK, TrustInv, [Next]_vars
             PROVE  TrustInv'
  OBVIOUS
<1>1. CASE UNCHANGED vars
  BY <1>1 DEF TrustInv, PermsSound, ServedOnlyIfAllowed, Present, vars, settings, store,
     calls, history, trust, consents
<1> QED
  BY <1>1, WhitelistKept, TrustCall, TrustBuild, TrustWindows, TrustApproval, TrustFee,
     TrustSettings,
     TrustEvents DEF Next

\* No request of a site is built, put to the user, signed or served unless the
\* user has trusted that site (validatePermission and its shared question).
THEOREM TrustFirst == Spec => []ServedOnlyIfAllowed
<1>1. Init => TypeOK /\ TrustInv
  BY TypeInit, TrustInit
<1>2. TrustInv => ServedOnlyIfAllowed
  BY DEF TrustInv, PermsSound
<1> QED
  BY <1>1, <1>2, TypeNext, TrustNext, PTL DEF Spec

----------------------------------------------------------------------------
(* Wake-ups: nobody waits for a message that is over.                      *)

\* Whoever waits, waits for a message.
LEMMA AwaitedIsId ==
  ASSUME TypeOK, TrustInv, NEW r \in Requests, phase[r] \in Waiting
  PROVE  Awaited(r) \in Ids
BY IdsOfRequests DEF TypeOK, TrustInv, Awaited, Waiting

\* Ending messages and waking those who wait for them leaves nobody waiting.
LEMMA WakeKeeps ==
  ASSUME TypeOK, TrustInv, NoLostWakeup, NEW F \in SUBSET Ids, NEW st, NEW ev \in Statuses,
         SetStatus(F, st), Wake(F, ev), UNCHANGED asked, cleared \subseteq cleared'
  PROVE  NoLostWakeup'
<1> SUFFICES ASSUME NEW r \in Requests, phase'[r] \in Waiting
             PROVE  status'[Awaited(r)'] = "unapproved" \/ Awaited(r)' \in cleared'
  BY DEF NoLostWakeup
<1>1. phase'[r] = phase[r] /\ Awaited(r) \notin F /\ phase[r] \in Waiting
  BY WakeMeans
<1>2. Awaited(r)' = Awaited(r) /\ Awaited(r) \in Ids
  BY <1>1, AwaitedIsId DEF Awaited
<1>3. status'[Awaited(r)] = status[Awaited(r)]
  BY <1>1, <1>2, SetStatusMeans
<1> QED
  BY <1>1, <1>2, <1>3 DEF NoLostWakeup

\* What leaves the undecided messages undecided and makes no handler wait.
LEMMA QuietKeeps ==
  ASSUME TypeOK, TrustInv, NoLostWakeup, UNCHANGED asked, cleared \subseteq cleared',
         \A r \in Requests : phase'[r] \in Waiting => phase'[r] = phase[r],
         \A id \in Ids : status[id] = "unapproved" => status'[id] = "unapproved"
  PROVE  NoLostWakeup'
<1> SUFFICES ASSUME NEW r \in Requests, phase'[r] \in Waiting
             PROVE  status'[Awaited(r)'] = "unapproved" \/ Awaited(r)' \in cleared'
  BY DEF NoLostWakeup
<1>1. phase[r] \in Waiting /\ Awaited(r)' = Awaited(r) /\ Awaited(r) \in Ids
  BY AwaitedIsId DEF Awaited
<1> QED
  BY <1>1 DEF NoLostWakeup

LEMMA WakeupCall ==
  ASSUME TypeOK, TrustInv, NoLostWakeup, NEW r \in Requests, Call(r)
  PROVE  NoLostWakeup'
<1> DEFINE o == OriginOf[r]
<1>1. UNCHANGED cleared /\ phase[r] = "idle"
  BY DEF Call, history
<1> SUFFICES ASSUME NEW q \in Requests, phase'[q] \in Waiting
             PROVE  status'[Awaited(q)'] = "unapproved" \/ Awaited(q)' \in cleared
  BY <1>1 DEF NoLostWakeup
<1>2. CASE q # r
  <2>1. /\ phase'[q] = phase[q] /\ asked'[q] = asked[q]
        /\ \A id \in Ids : status[id] = "unapproved" => status'[id] = "unapproved"
    BY <1>2 DEF Call, JoinQuestion, AskQuestion, TypeOK
  <2>2. Awaited(q)' = Awaited(q) /\ Awaited(q) \in Ids
    BY <2>1, AwaitedIsId DEF Awaited
  <2> QED
    BY <2>1, <2>2 DEF NoLostWakeup
<1>3. CASE q = r /\ ~(vault # "empty" /\ Held(o) = {})
  BY <1>3 DEF Call, CallAnswer, TypeOK, Waiting
<1>4. CASE q = r /\ vault # "empty" /\ Held(o) = {} /\ JoinQuestion(r, o)
  <2>1. /\ phase'[r] \in Waiting => /\ phase'[r] = "allowing"
                                    /\ status[Auth(inPending[o])] = "unapproved"
        /\ asked'[r] = inPending[o] /\ UNCHANGED status
    BY <1>4 DEF JoinQuestion, Outcome, Waiting, TypeOK
  <2> QED
    BY <1>4, <2>1 DEF Awaited
<1>5. CASE q = r /\ vault # "empty" /\ Held(o) = {} /\ AskQuestion(r, o)
  <2>1. phase'[r] = "allowing" /\ asked'[r] = r /\ status'[Auth(r)] = "unapproved"
    BY <1>5, IdsOfRequests DEF AskQuestion, TypeOK
  <2> QED
    BY <1>5, <2>1 DEF Awaited
<1> QED
  BY <1>2, <1>3, <1>4, <1>5 DEF Call

LEMMA WakeupBuild ==
  ASSUME TypeOK, TrustInv, NoLostWakeup, NEW r \in Requests,
         BuildFail(r) \/ \E auto \in BOOLEAN : BuildDone(r, auto)
  PROVE  NoLostWakeup'
<1>1. CASE BuildFail(r)
  BY <1>1, QuietKeeps DEF BuildFail, TypeOK, Waiting, store, history
<1>2. ASSUME NEW auto \in BOOLEAN, BuildDone(r, auto)
      PROVE  NoLostWakeup'
  <2>1. /\ UNCHANGED <<asked, cleared>> /\ phase[r] = "building"
        /\ \A id \in Ids : id # Tx(r) => status'[id] = status[id]
        /\ phase'[r] \in Waiting => phase'[r] = "waiting" /\ status'[Tx(r)] = "unapproved"
        /\ \A q \in Requests : q # r => phase'[q] = phase[q]
    BY <1>2, IdsOfRequests DEF BuildDone, TypeOK, Waiting
  <2> SUFFICES ASSUME NEW q \in Requests, phase'[q] \in Waiting
               PROVE  status'[Awaited(q)'] = "unapproved" \/ Awaited(q)' \in cleared
    BY <2>1 DEF NoLostWakeup
  <2>2. CASE q = r
    BY <2>1, <2>2 DEF Awaited
  <2>3. CASE q # r
    <3>1. Awaited(q)' = Awaited(q) /\ Awaited(q) \in Ids /\ Awaited(q) # Tx(r)
      BY <2>1, <2>3, AwaitedIsId, IdsOfRequests DEF Awaited, TypeOK, TrustInv, Waiting
    <3> QED
      BY <2>1, <2>3, <3>1 DEF NoLostWakeup
  <2> QED
    BY <2>2, <2>3
<1> QED
  BY <1>1, <1>2

LEMMA WakeupWindows ==
  ASSUME TypeOK, TrustInv, NoLostWakeup, NEW r \in Requests,
         \/ ApproveAuth(r) \/ RejectForever(r)
         \/ \E w \in Windows : StartApproval(w, r)
         \/ StartFee(r) \/ FinishFee(r) \/ FailFee(r)
  PROVE  NoLostWakeup'
<1>1. /\ {Auth(r)} \in SUBSET Ids /\ {Tx(r)} \in SUBSET Ids
      /\ {"signed", "failed", "rejected_forever"} \subseteq Statuses
  BY IdsOfRequests DEF Statuses
<1>2. CASE ApproveAuth(r)
  <2> DEFINE st == IF vault = "unlocked" THEN "signed" ELSE "failed"
  <2>1. /\ SetStatus({Auth(r)}, st) /\ Wake({Auth(r)}, st) /\ st \in Statuses
        /\ UNCHANGED <<asked, cleared>>
    BY <1>1, <1>2 DEF ApproveAuth
  <2> QED
    BY <1>1, <2>1, WakeKeeps
<1>3. CASE RejectForever(r)
  BY <1>1, <1>3, WakeKeeps DEF RejectForever
<1>4. ASSUME NEW w \in Windows, StartApproval(w, r)
      PROVE  NoLostWakeup'
  <2>1. CASE vault = "unlocked"
    BY <1>4, <2>1, QuietKeeps DEF StartApproval
  <2>2. CASE vault # "unlocked"
    BY <1>1, <1>4, <2>2, WakeKeeps DEF StartApproval
  <2> QED
    BY <2>1, <2>2
<1>5. CASE StartFee(r) \/ FailFee(r)
  BY <1>5, QuietKeeps DEF StartFee, FailFee, store, calls, history
<1>6. CASE FinishFee(r)
  BY <1>6, QuietKeeps DEF FinishFee, SetStatus, calls, history
<1> QED
  BY <1>2, <1>3, <1>4, <1>5, <1>6

LEMMA WakeupApproval ==
  ASSUME TypeOK, TrustInv, NoLostWakeup, NEW a \in approvals, ApprovalStep(a)
  PROVE  NoLostWakeup'
<1>1. /\ a.req \in Requests /\ {Tx(a.req)} \in SUBSET Ids
      /\ {"signed", "failed", "published", "rejected"} \subseteq Statuses
  BY IdsOfRequests DEF TypeOK, Approval, Statuses
<1>2. ASSUME NEW st \in {"signed", "failed", "published"}, Complete(a, st)
      PROVE  NoLostWakeup'
  <2>1. UNCHANGED <<asked, cleared>> /\ Wake({Tx(a.req)}, st) /\ st \in Statuses
    BY <1>1, <1>2 DEF Complete, history
  <2>2. CASE Present(Tx(a.req))
    BY <1>1, <1>2, <2>1, <2>2, WakeKeeps DEF Complete
  <2>3. CASE ~Present(Tx(a.req))
    BY <1>2, <2>1, <2>3, QuietKeeps, WakeMeans DEF Complete
  <2> QED
    BY <2>2, <2>3
<1>3. CASE SignOk(a) /\ a.req \in Publish
  BY <1>3, QuietKeeps DEF SignOk, store, calls, history
<1>4. CASE NodeAccepts(a)
  BY <1>4, QuietKeeps DEF NodeAccepts, store, calls
<1>5. CASE LedgerReject(a)
  <2>1. CASE Present(Tx(a.req))
    BY <1>1, <1>5, <2>1, WakeKeeps DEF LedgerReject
  <2>2. CASE ~Present(Tx(a.req))
    BY <1>5, <2>2, QuietKeeps DEF LedgerReject
  <2> QED
    BY <2>1, <2>2
<1> QED
  BY <1>2, <1>3, <1>4, <1>5 DEF ApprovalStep, SignOk, SignFail, BroadcastOk, BroadcastFail

LEMMA WakeupSettings ==
  ASSUME TypeOK, TrustInv, NoLostWakeup, NEW o \in Origins,
         \/ AllowOrigin(o) \/ DisableOrigin(o) \/ DeleteOrigin(o)
         \/ \E on \in BOOLEAN : SetAutoSign(o, on)
  PROVE  NoLostWakeup'
<1>1. CASE AllowOrigin(o)
  <2> DEFINE F == {id \in Ids : Present(id) /\ OriginOf[id[2]] = o}
  <2>1. /\ F \in SUBSET Ids /\ SetStatus(F, "rejected") /\ Wake(F, "rejected")
        /\ UNCHANGED <<asked, cleared>> /\ "rejected" \in Statuses
    BY <1>1 DEF AllowOrigin, RejectAll, Statuses
  <2> HIDE DEF F
  <2> QED
    BY <2>1, WakeKeeps
<1>2. CASE DisableOrigin(o) \/ DeleteOrigin(o) \/ \E on \in BOOLEAN : SetAutoSign(o, on)
  BY <1>2, QuietKeeps DEF DisableOrigin, DeleteOrigin, SetAutoSign, store, calls, history
<1> QED
  BY <1>1, <1>2

LEMMA WakeupEvents ==
  ASSUME TypeOK, TrustInv, NoLostWakeup,
         \/ Lock \/ Unlock \/ ClearMessages \/ DeleteVault \/ Restart
         \/ \E c \in Conns : Disconnect(c)
         \/ \E S \in SUBSET Unapproved : Expire(S)
         \/ \E id \in Ids : Reject(id)
  PROVE  NoLostWakeup'
<1>1. {id \in Ids : Present(id)} \in SUBSET Ids /\ "rejected" \in Statuses
  BY DEF Statuses
<1>2. CASE Lock
  BY <1>1, <1>2, WakeKeeps DEF Lock, RejectAll
<1>3. CASE Unlock
  BY <1>3, QuietKeeps DEF Unlock, store, calls, history
<1>4. CASE ClearMessages \/ DeleteVault
  <2> SUFFICES ASSUME NEW r \in Requests, phase'[r] \in Waiting
               PROVE  Awaited(r)' \in cleared'
    BY DEF NoLostWakeup
  <2>1. phase[r] \in Waiting /\ Awaited(r)' = Awaited(r)
    BY <1>4 DEF ClearMessages, DeleteVault, Clear, calls, Awaited
  <2>2. Awaited(r) \in Ids /\ (Awaited(r) \in cleared \/ Present(Awaited(r)))
    BY <2>1, AwaitedIsId DEF NoLostWakeup, Present
  <2> QED
    BY <1>4, <2>1, <2>2 DEF ClearMessages, DeleteVault, Clear
<1>5. CASE Restart
  BY <1>5 DEF Restart, NoLostWakeup, TypeOK, Waiting, Busy
<1>6. ASSUME NEW c \in Conns, Disconnect(c)
      PROVE  NoLostWakeup'
  <2> DEFINE F == {id \in Ids : Present(id) /\ ConnOf[id[2]] = c}
  <2>1. /\ SetStatus(F, "absent") /\ Wake(F, "rejected") /\ F \in SUBSET Ids
        /\ UNCHANGED <<asked, cleared>>
    BY <1>6 DEF Disconnect
  <2> HIDE DEF F
  <2> QED
    BY <1>1, <2>1, WakeKeeps
<1>7. ASSUME NEW S \in SUBSET Unapproved, Expire(S)
      PROVE  NoLostWakeup'
  <2>1. S \in SUBSET Ids
    BY <1>7 DEF Unapproved
  <2> QED
    BY <1>1, <1>7, <2>1, WakeKeeps DEF Expire, RejectAll
<1>8. ASSUME NEW id \in Ids, Reject(id)
      PROVE  NoLostWakeup'
  BY <1>1, <1>8, WakeKeeps DEF Reject, RejectAll
<1> QED
  BY <1>2, <1>3, <1>4, <1>5, <1>6, <1>7, <1>8

LEMMA WakeupNext == TypeOK /\ TrustInv /\ NoLostWakeup /\ [Next]_vars => NoLostWakeup'
<1> SUFFICES ASSUME TypeOK, TrustInv, NoLostWakeup, [Next]_vars
             PROVE  NoLostWakeup'
  OBVIOUS
<1>1. CASE UNCHANGED vars
  BY <1>1 DEF NoLostWakeup, Awaited, vars, store, calls, history
<1> QED
  BY <1>1, WakeupCall, WakeupBuild, WakeupWindows, WakeupApproval, WakeupSettings,
     WakeupEvents DEF Next

\* No caller misses the end of its message, however the message ends: by its
\* user, an error, the clock, a closed port or the lock (getMessageResult).
THEOREM NobodyIsForgotten == Spec => []NoLostWakeup
<1>1. Init => TypeOK /\ TrustInv /\ NoLostWakeup
  BY TypeInit, TrustInit DEF Init, NoLostWakeup, Waiting
<1> QED
  BY <1>1, TypeNext, TrustNext, WakeupNext, PTL DEF Spec

----------------------------------------------------------------------------
(* Consent: results, and transactions, come from approvals.                *)

\* What confirms nothing away and neither signs nor serves keeps the consents.
LEMMA ConsentKept ==
  ASSUME ConsentInv, approvals' \subseteq approvals,
         confirmed \subseteq confirmed', published' = published,
         \A r \in Requests : phase'[r] = "result" => phase[r] = "result" /\ told'[r] = told[r]
  PROVE  ConsentInv'
BY DEF ConsentInv, ResultHasConsent

LEMMA ConsentCallBuild ==
  ASSUME TypeOK, ConsentInv, NEW r \in Requests,
         \/ Call(r) \/ BuildFail(r) \/ \E auto \in BOOLEAN : BuildDone(r, auto)
  PROVE  ConsentInv'
<1>1. CASE Call(r)
  <2>1. \A q \in Requests : phase'[q] = "result" => phase[q] = "result"
    BY <1>1 DEF Call, JoinQuestion, AskQuestion, CallAnswer, Outcome, TypeOK
  <2> QED
    BY <1>1, <2>1, ConsentKept DEF Call, history, trust, consents
<1>2. CASE BuildFail(r)
  BY <1>2, ConsentKept DEF BuildFail, TypeOK, store, history, trust, consents
<1>3. ASSUME NEW auto \in BOOLEAN, BuildDone(r, auto)
      PROVE  ConsentInv'
  <2>1. /\ \A q \in Requests : phase'[q] = "result" => phase[q] = "result"
        /\ confirmed \subseteq confirmed' /\ UNCHANGED <<published, told>>
    BY <1>3 DEF BuildDone, TypeOK
  <2>2. \A a \in approvals' : /\ <<a.req, a.version>> \in confirmed'
                              /\ a.step = "broadcasting" => a.req \in Publish
    <3>1. CASE auto /\ vault = "unlocked"
      <4> DEFINE b == [by |-> "auto", req |-> r, version |-> 0, step |-> "signing"]
      <4>1. approvals' = approvals \cup {b} /\ confirmed' = confirmed \cup {<<r, 0>>}
        BY <1>3, <3>1 DEF BuildDone
      <4>2. b.req = r /\ b.version = 0 /\ b.step = "signing"
        OBVIOUS
      <4> HIDE DEF b
      <4> QED
        BY <4>1, <4>2 DEF ConsentInv
    <3>2. CASE ~(auto /\ vault = "unlocked")
      <4>1. UNCHANGED <<approvals, confirmed>>
        BY <1>3, <3>2 DEF BuildDone
      <4> QED
        BY <4>1 DEF ConsentInv
    <3> QED
      BY <3>1, <3>2
  <2> QED
    BY <2>1, <2>2 DEF ConsentInv, ResultHasConsent
<1> QED
  BY <1>1, <1>2, <1>3

LEMMA ConsentWindows ==
  ASSUME TypeOK, TrustInv, ConsentInv, NEW r \in Requests,
         \/ ApproveAuth(r) \/ RejectForever(r)
         \/ \E w \in Windows : StartApproval(w, r)
         \/ StartFee(r) \/ FinishFee(r) \/ FailFee(r)
  PROVE  ConsentInv'
<1>1. {"signed", "failed", "rejected_forever"} \subseteq Statuses
  BY DEF Statuses
<1>2. ASSUME NEW st \in Statuses, Wake({Auth(r)}, st), NEW q \in Requests, phase'[q] = "result"
      PROVE  phase[q] = "result"
  BY <1>2, WakeMeans, IdsOfRequests
<1>3. CASE ApproveAuth(r)
  <2> DEFINE st == IF vault = "unlocked" THEN "signed" ELSE "failed"
  <2>1. /\ SetStatus({Auth(r)}, st) /\ Wake({Auth(r)}, st) /\ st \in Statuses
        /\ UNCHANGED <<approvals, confirmed, published, told>>
    BY <1>1, <1>3 DEF ApproveAuth, trust, consents
  <2> HIDE DEF st
  <2> QED
    BY <1>2, <2>1, ConsentKept
<1>4. CASE RejectForever(r)
  <2>1. /\ SetStatus({Auth(r)}, "rejected_forever") /\ Wake({Auth(r)}, "rejected_forever")
        /\ UNCHANGED <<approvals, confirmed, published, told>>
    BY <1>4 DEF RejectForever, consents
  <2> QED
    BY <1>1, <1>2, <2>1, ConsentKept
<1>5. ASSUME NEW w \in Windows, StartApproval(w, r)
      PROVE  ConsentInv'
  <2>1. CASE vault = "unlocked"
    <3>1. \A a \in approvals' : /\ <<a.req, a.version>> \in confirmed'
                                /\ a.step = "broadcasting" => a.req \in Publish
      <4> DEFINE b == [by |-> w, req |-> r, version |-> version[r], step |-> "signing"]
      <4>1. approvals' = approvals \cup {b} /\ confirmed' = confirmed \cup {<<r, version[r]>>}
        BY <1>5, <2>1 DEF StartApproval
      <4>2. b.req = r /\ b.version = version[r] /\ b.step = "signing"
        OBVIOUS
      <4> HIDE DEF b
      <4> QED
        BY <4>1, <4>2 DEF ConsentInv
    <3> QED
      BY <1>5, <2>1, <3>1 DEF StartApproval, ConsentInv, ResultHasConsent
  <2>2. CASE vault # "unlocked"
    <3>1. /\ SetStatus({Tx(r)}, "failed") /\ Wake({Tx(r)}, "failed")
          /\ UNCHANGED <<approvals, confirmed, published, told>>
      BY <1>5, <2>2 DEF StartApproval
    <3>2. \A q \in Requests : phase'[q] = "result" => phase[q] = "result"
      BY <1>1, <3>1, WakeMeans
    <3> QED
      BY <3>1, <3>2, ConsentKept
  <2> QED
    BY <2>1, <2>2
<1>6. CASE StartFee(r) \/ FinishFee(r) \/ FailFee(r)
  BY <1>6, ConsentKept DEF StartFee, FinishFee, FailFee, calls, history, trust, consents
<1> QED
  BY <1>3, <1>4, <1>5, <1>6

LEMMA ConsentApproval ==
  ASSUME TypeOK, ConsentInv, NEW a \in approvals, ApprovalStep(a)
  PROVE  ConsentInv'
<1>1. /\ a.req \in Requests /\ a.version \in 0..MaxFee /\ <<a.req, a.version>> \in confirmed
      /\ a \in Approval
      /\ {"signed", "failed", "published", "rejected"} \subseteq Statuses
  <2>1. a \in Approval /\ <<a.req, a.version>> \in confirmed
    BY DEF TypeOK, ConsentInv
  <2> QED
    BY <2>1 DEF Approval, Statuses
<1>2. ASSUME NEW st \in {"signed", "failed", "published"}, Complete(a, st),
             st \in {"signed", "published"} /\ a.req \in Publish => <<a.req, a.version>> \in published
      PROVE  ConsentInv'
  <2>1. approvals' \subseteq approvals /\ UNCHANGED <<confirmed, published>>
    BY <1>2 DEF Complete, history
  <2>2. \A q \in Requests : phase'[q] = "result" =>
          \/ phase[q] = "result" /\ told'[q] = told[q]
          \/ q = a.req /\ st \in {"signed", "published"} /\ told'[q] = a.version
    <3> SUFFICES ASSUME NEW q \in Requests, phase'[q] = "result"
                 PROVE  \/ phase[q] = "result" /\ told'[q] = told[q]
                        \/ q = a.req /\ st \in {"signed", "published"} /\ told'[q] = a.version
      OBVIOUS
    <3>1. Wake({Tx(a.req)}, st) /\ st \in Statuses
      BY <1>1, <1>2 DEF Complete
    <3>2. CASE phase[q] = "result"
      BY <1>1, <1>2, <3>2 DEF Complete, Woken, Waiting, TypeOK
    <3>3. CASE phase[q] # "result"
      <4>1. phase[q] = "waiting" /\ Tx(q) \in {Tx(a.req)} /\ st \in {"signed", "published"}
        BY <3>1, <3>3, WakeMeans
      <4>2. q = a.req
        BY <4>1 DEF Tx
      <4>3. q \in Woken({Tx(a.req)})
        BY <4>1 DEF Woken, Waiting, Awaited
      <4> QED
        BY <1>1, <1>2, <4>1, <4>2, <4>3 DEF Complete, TypeOK
    <3> QED
      BY <3>2, <3>3
  <2> QED
    BY <1>1, <1>2, <2>1, <2>2 DEF ConsentInv, ResultHasConsent
<1>3. CASE SignOk(a) /\ a.req \in Publish
  <2> DEFINE b == [a EXCEPT !.step = "broadcasting"]
  <2>1. b.req = a.req /\ b.version = a.version
    BY <1>1 DEF Approval
  <2>2. /\ approvals' = (approvals \ {a}) \cup {b}
        /\ UNCHANGED <<phase, confirmed, published, told>>
    BY <1>3 DEF SignOk, store, calls, history, trust, consents
  <2> HIDE DEF b
  <2> QED
    BY <1>1, <1>3, <2>1, <2>2 DEF ConsentInv, ResultHasConsent
<1>4. CASE NodeAccepts(a)
  <2>1. /\ published' = published \cup {<<a.req, a.version>>}
        /\ UNCHANGED <<approvals, phase, confirmed, told>>
    BY <1>4 DEF NodeAccepts, calls
  <2> QED
    BY <1>1, <2>1 DEF ConsentInv, ResultHasConsent
<1>5. CASE LedgerReject(a)
  <2>1. CASE Present(Tx(a.req))
    <3>1. /\ SetStatus({Tx(a.req)}, "rejected") /\ Wake({Tx(a.req)}, "rejected")
          /\ UNCHANGED <<confirmed, published, told>> /\ approvals' \subseteq approvals
      BY <1>5, <2>1 DEF LedgerReject
    <3>2. \A q \in Requests : phase'[q] = "result" => phase[q] = "result"
      BY <1>1, <3>1, WakeMeans
    <3> QED
      BY <3>1, <3>2, ConsentKept
  <2>2. CASE ~Present(Tx(a.req))
    BY <1>5, <2>2, ConsentKept DEF LedgerReject
  <2> QED
    BY <2>1, <2>2
<1> QED
  BY <1>2, <1>3, <1>4, <1>5 DEF ApprovalStep, SignOk, SignFail, BroadcastOk, BroadcastFail

\* Rejecting or dropping messages signs nothing.
LEMMA ConsentRejected ==
  ASSUME TypeOK, ConsentInv, NEW F \in SUBSET Ids, NEW st \in {"absent", "rejected"},
         SetStatus(F, st), Wake(F, "rejected") \/ UNCHANGED phase,
         UNCHANGED <<approvals, confirmed, published, told>>
  PROVE  ConsentInv'
<1>1. \A q \in Requests : phase'[q] = "result" => phase[q] = "result"
  <2>1. "rejected" \in Statuses
    BY DEF Statuses
  <2> QED
    BY <2>1, WakeMeans
<1> QED
  BY <1>1, ConsentKept

LEMMA ConsentOthers ==
  ASSUME TypeOK, ConsentInv,
         \/ Lock \/ Unlock \/ ClearMessages \/ DeleteVault \/ Restart
         \/ \E o \in Origins : \/ AllowOrigin(o) \/ DisableOrigin(o) \/ DeleteOrigin(o)
                               \/ \E on \in BOOLEAN : SetAutoSign(o, on)
         \/ \E c \in Conns : Disconnect(c)
         \/ \E S \in SUBSET Unapproved : Expire(S)
         \/ \E id \in Ids : Reject(id)
  PROVE  ConsentInv'
<1> DEFINE All == {id \in Ids : Present(id)}
<1>1. All \in SUBSET Ids /\ SUBSET Unapproved \subseteq SUBSET Ids
  BY DEF Unapproved
<1>2. CASE Lock
  BY <1>1, <1>2, ConsentRejected DEF Lock, RejectAll
<1>3. CASE Unlock
  BY <1>3, ConsentKept DEF Unlock, store, calls, history, trust, consents
<1>4. CASE ClearMessages \/ DeleteVault
  BY <1>1, <1>4, ConsentRejected DEF ClearMessages, DeleteVault, Clear, calls, consents
<1>5. CASE Restart
  BY <1>5, ConsentKept, IdsOfRequests DEF Restart, Busy, Waiting, TypeOK, trust, consents
<1>6. ASSUME NEW o \in Origins, AllowOrigin(o)
      PROVE  ConsentInv'
  <2> DEFINE F == {id \in Ids : Present(id) /\ OriginOf[id[2]] = o}
  <2>1. F \in SUBSET Ids /\ RejectAll(F) /\ UNCHANGED <<approvals, confirmed, published, told>>
    BY <1>6 DEF AllowOrigin
  <2> HIDE DEF F
  <2> QED
    BY <2>1, ConsentRejected DEF RejectAll
<1>7. ASSUME NEW o \in Origins,
             DisableOrigin(o) \/ DeleteOrigin(o) \/ \E on \in BOOLEAN : SetAutoSign(o, on)
      PROVE  ConsentInv'
  BY <1>7, ConsentKept DEF DisableOrigin, DeleteOrigin, SetAutoSign, store, calls, history,
     consents, trust
<1>8. ASSUME NEW c \in Conns, Disconnect(c)
      PROVE  ConsentInv'
  <2> DEFINE F == {id \in Ids : Present(id) /\ ConnOf[id[2]] = c}
  <2>1. /\ F \in SUBSET Ids /\ SetStatus(F, "absent") /\ Wake(F, "rejected")
        /\ UNCHANGED <<approvals, confirmed, published, told>>
    BY <1>8 DEF Disconnect
  <2> HIDE DEF F
  <2> QED
    BY <2>1, ConsentRejected
<1>9. ASSUME NEW S \in SUBSET Unapproved, Expire(S)
      PROVE  ConsentInv'
  BY <1>1, <1>9, ConsentRejected DEF Expire, RejectAll
<1>10. ASSUME NEW id \in Ids, Reject(id)
       PROVE  ConsentInv'
  BY <1>10, ConsentRejected DEF Reject, RejectAll
<1> QED
  BY <1>2, <1>3, <1>4, <1>5, <1>6, <1>7, <1>8, <1>9, <1>10

LEMMA ConsentNext == TypeOK /\ TrustInv /\ ConsentInv /\ [Next]_vars => ConsentInv'
<1> SUFFICES ASSUME TypeOK, TrustInv, ConsentInv, [Next]_vars
             PROVE  ConsentInv'
  OBVIOUS
<1>1. CASE UNCHANGED vars
  BY <1>1, ConsentKept DEF vars, store, calls, history, trust, consents
<1> QED
  BY <1>1, ConsentCallBuild, ConsentWindows, ConsentApproval, ConsentOthers DEF Next

LEMMA ConsentInit == Init => ConsentInv
BY IdsOfRequests DEF Init, ConsentInv, ResultHasConsent

\* A page is served only what was approved, and, when it asked to publish, only
\* what the node has accepted (approve, getMessageResult).
THEOREM ServedByConsent == Spec => []ResultHasConsent
<1>1. Init => TypeOK /\ TrustInv /\ ConsentInv
  BY TypeInit, TrustInit, ConsentInit
<1>2. ConsentInv => ResultHasConsent
  BY DEF ConsentInv
<1> QED
  BY <1>1, <1>2, TypeNext, TrustNext, ConsentNext, PTL DEF Spec

----------------------------------------------------------------------------
(* The chain: what the approvals of one request put there.                 *)

Running(r) == {a \in approvals : a.req = r}
Consents(r) == {v \in 0..MaxFee : <<r, v>> \in confirmed}
OnChain(r) == {v \in 0..MaxFee : <<r, v>> \in published}

\* The handler has not put a tx message to the user yet.
Early == {"idle", "allowing", "building"}

\* Nothing has happened to a message that is still to be built.
Fresh(r) ==
  phase[r] \in Early =>
    /\ version[r] = 0 /\ ~Present(Tx(r)) /\ r \notin feeing
    /\ Running(r) = {} /\ OnChain(r) = {}

\* All approvals are of the build in the store, unless it was built again
\* after an approval began.
Fits(r) == r \notin refitted => Consents(r) \subseteq {version[r]}

\* While a page waits, what is on the chain is being reported to it; once it was
\* denied, with no approval at work, nothing is, and nothing will be.
Denies(r) ==
  /\ phase[r] = "waiting" /\ OnChain(r) # {} =>
       \E a \in Running(r) : a.step = "broadcasting"
  /\ phase[r] = "denied" /\ r \notin undone => Running(r) = {} /\ OnChain(r) = {}

Sound(r) == Fresh(r) /\ Fits(r) /\ Denies(r)

ChainInv == \A r \in Requests : Sound(r)

\* A request of which nothing is confirmed, built again or published meanwhile,
\* and whose page is denied only when no approval works on its message.
LEMMA SoundKept ==
  ASSUME NEW r \in Requests, Sound(r),
         Consents(r)' = Consents(r), OnChain(r)' = OnChain(r),
         r \in refitted => r \in refitted', r \in undone => r \in undone',
         version'[r] = version[r] \/ (r \in refitted /\ phase[r] \notin Early),
         Running(r)' \subseteq Running(r),
         \A a \in Running(r) : a.step = "broadcasting" /\ phase'[r] = "waiting" =>
           a \in Running(r)',
         r \in feeing' => r \in feeing \/ Present(Tx(r)),
         Present(Tx(r))' => Present(Tx(r)),
         phase'[r] \in Early => phase[r] \in Early,
         phase'[r] = "waiting" => phase[r] = "waiting",
         phase'[r] = "denied" =>
           \/ phase[r] = "denied" \/ phase[r] \in Early \/ r \in undone'
           \/ /\ phase[r] = "waiting" /\ Running(r)' = {}
              /\ \A a \in Running(r) : a.step # "broadcasting"
  PROVE  Sound(r)'
<1>1. Fresh(r)'
  BY DEF Sound, Fresh
<1>2. Fits(r)'
  BY DEF Sound, Fits
<1>3. phase'[r] = "waiting" /\ OnChain(r)' # {} => \E a \in Running(r)' : a.step = "broadcasting"
  BY DEF Sound, Denies
<1>4. phase'[r] = "denied" /\ r \notin undone' => Running(r)' = {} /\ OnChain(r)' = {}
  BY DEF Sound, Denies, Fresh
<1> QED
  BY <1>1, <1>2, <1>3, <1>4 DEF Sound, Denies

\* The actions of which that can be said of all requests.
LEMMA ChainKept ==
  ASSUME ChainInv, UNCHANGED <<version, approvals, confirmed, published, refitted>>,
         undone \subseteq undone',
         \A r \in Requests :
           /\ r \in feeing' => r \in feeing \/ Present(Tx(r))
           /\ Present(Tx(r))' => Present(Tx(r))
           /\ phase'[r] \in Early => phase[r] \in Early
           /\ phase'[r] = "waiting" => phase[r] = "waiting"
           /\ phase'[r] = "denied" =>
                \/ phase[r] = "denied" \/ phase[r] \in Early \/ r \in undone'
                \/ phase[r] = "waiting" /\ Running(r) = {}
  PROVE  ChainInv'
<1> SUFFICES ASSUME NEW r \in Requests
             PROVE  Sound(r)'
  BY DEF ChainInv
<1>1. /\ Running(r)' = Running(r) /\ Consents(r)' = Consents(r) /\ OnChain(r)' = OnChain(r)
      /\ Sound(r)
  BY DEF ChainInv, Running, Consents, OnChain
<1> QED
  BY <1>1, SoundKept

\* How the handlers of one message, or of several, go on.
LEMMA WakeGoesOn ==
  ASSUME TypeOK, NEW F, NEW st \in Statuses, Wake(F, st), NEW r \in Requests
  PROVE  /\ phase'[r] \in Early => phase[r] \in Early
         /\ phase'[r] = "waiting" => phase[r] = "waiting"
         /\ phase'[r] = "denied" /\ phase[r] \notin Early \cup {"denied"} =>
              phase[r] = "waiting" /\ Tx(r) \in F /\ st \in {"rejected", "rejected_forever"}
<1>1. phase'[r] = IF r \in Woken(F) THEN Outcome(phase[r], st) ELSE phase[r]
  BY DEF Wake
<1>2. CASE r \in Woken(F)
  BY <1>1, <1>2 DEF Woken, Waiting, Awaited, Outcome, Early
<1>3. CASE r \notin Woken(F)
  BY <1>1, <1>3
<1> QED
  BY <1>2, <1>3

\* An auth message that ends: its handlers build, are denied or have failed.
LEMMA ChainAuth ==
  ASSUME TypeOK, ChainInv, NEW q \in Requests, NEW st \in Statuses,
         SetStatus({Auth(q)}, st), Wake({Auth(q)}, st),
         UNCHANGED <<version, approvals, feeing, confirmed, published, refitted, undone>>
  PROVE  ChainInv'
<1>1. \A r \in Requests : Tx(r) \in Ids /\ Tx(r) \notin {Auth(q)}
  BY IdsOfRequests
<1>2. \A r \in Requests : Present(Tx(r))' => Present(Tx(r))
  BY <1>1, SetStatusMeans DEF Present
<1> QED
  BY <1>1, <1>2, WakeGoesOn, ChainKept

\* Messages that are rejected, or rejected and dropped.
LEMMA ChainRejected ==
  ASSUME TypeOK, ChainInv, NEW F \in SUBSET Ids, NEW st \in {"absent", "rejected"},
         \A id \in F : Present(id), SetStatus(F, st), Wake(F, "rejected"),
         undone' = undone \cup Overtaken(F, approvals),
         UNCHANGED <<version, approvals, feeing, confirmed, published, refitted>>
  PROVE  ChainInv'
<1>1. \A r \in Requests : Present(Tx(r))' => Present(Tx(r))
  BY IdsOfRequests, SetStatusMeans DEF Present
<1>2. \A r \in Requests : Tx(r) \in F => r \in undone' \/ Running(r) = {}
  BY DEF Overtaken, Running
<1>3. "rejected" \in Statuses
  BY DEF Statuses
<1> QED
  BY <1>1, <1>2, <1>3, WakeGoesOn, ChainKept

LEMMA ChainCallBuild ==
  ASSUME TypeOK, ChainInv, NEW r \in Requests,
         \/ Call(r) \/ BuildFail(r) \/ \E auto \in BOOLEAN : BuildDone(r, auto)
  PROVE  ChainInv'
<1>1. CASE Call(r)
  <2>1. phase[r] = "idle" /\ \A q \in Requests : q # r => phase'[q] = phase[q]
    BY <1>1 DEF Call, JoinQuestion, AskQuestion, TypeOK
  <2>2. phase'[r] # "waiting"
    BY <1>1 DEF Call, JoinQuestion, AskQuestion, CallAnswer, Outcome, TypeOK
  <2>3. \A q \in Requests : status'[Tx(q)] = status[Tx(q)]
    BY <1>1, IdsOfRequests DEF Call, JoinQuestion, AskQuestion, TypeOK
  <2>4. UNCHANGED <<version, approvals, feeing, confirmed, published, refitted, undone>>
    BY <1>1 DEF Call, history, consents
  <2> QED
    BY <2>1, <2>2, <2>3, <2>4, ChainKept DEF Present, Early
<1>2. CASE BuildFail(r)
  <2>1. /\ \A q \in Requests : phase'[q] = phase[q] \/ phase'[q] = "failed"
        /\ UNCHANGED <<status, version, approvals, feeing, confirmed, published, refitted, undone>>
    BY <1>2 DEF BuildFail, TypeOK, store, history, consents
  <2> QED
    BY <2>1, ChainKept DEF Present, Early
<1>3. ASSUME NEW auto \in BOOLEAN, BuildDone(r, auto)
      PROVE  ChainInv'
  <2>1. /\ phase[r] = "building" /\ phase'[r] \in {"waiting", "failed"}
        /\ UNCHANGED <<version, feeing, published, refitted, undone>>
    BY <1>3 DEF BuildDone, TypeOK
  <2>2. /\ confirmed' \subseteq confirmed \cup {<<r, 0>>} /\ confirmed \subseteq confirmed'
        /\ \A a \in approvals' : a \in approvals \/ a.req = r
        /\ approvals \subseteq approvals'
    <3>1. CASE auto /\ vault = "unlocked"
      BY <1>3, <3>1 DEF BuildDone
    <3>2. CASE ~(auto /\ vault = "unlocked")
      BY <1>3, <3>2 DEF BuildDone
    <3> QED
      BY <3>1, <3>2
  <2>3. \A q \in Requests : q # r => status'[Tx(q)] = status[Tx(q)] /\ phase'[q] = phase[q]
    BY <1>3, IdsOfRequests DEF BuildDone, TypeOK
  <2>4. Fresh(r) /\ Fits(r) /\ version[r] = 0 /\ OnChain(r) = {}
    BY <2>1 DEF ChainInv, Sound, Fresh, Early
  <2>5. Sound(r)'
    <3>1. Fits(r)' /\ OnChain(r)' = {}
      BY <2>1, <2>2, <2>4 DEF Fits, Consents, OnChain
    <3> QED
      BY <2>1, <3>1 DEF Sound, Fresh, Denies, Early
  <2>6. ASSUME NEW q \in Requests, q # r
        PROVE  Sound(q)'
    <3>1. Running(q)' = Running(q) /\ Consents(q)' = Consents(q) /\ OnChain(q)' = OnChain(q)
      BY <2>1, <2>2, <2>6 DEF Running, Consents, OnChain
    <3>2. Sound(q)
      BY DEF ChainInv
    <3> QED
      BY <2>1, <2>3, <2>6, <3>1, <3>2, SoundKept DEF Present
  <2> QED
    BY <2>5, <2>6 DEF ChainInv
<1> QED
  BY <1>1, <1>2, <1>3

LEMMA ChainWindows ==
  ASSUME TypeOK, ChainInv, NEW r \in Requests,
         \/ ApproveAuth(r) \/ RejectForever(r)
         \/ \E w \in Windows : StartApproval(w, r)
         \/ StartFee(r) \/ FinishFee(r) \/ FailFee(r)
  PROVE  ChainInv'
<1>1. {"signed", "failed", "rejected_forever"} \subseteq Statuses
  BY DEF Statuses
<1>2. CASE ApproveAuth(r)
  <2> DEFINE st == IF vault = "unlocked" THEN "signed" ELSE "failed"
  <2>1. /\ SetStatus({Auth(r)}, st) /\ Wake({Auth(r)}, st) /\ st \in Statuses
        /\ UNCHANGED <<version, approvals, feeing, confirmed, published, refitted, undone>>
    BY <1>1, <1>2 DEF ApproveAuth, consents
  <2> HIDE DEF st
  <2> QED
    BY <2>1, ChainAuth
<1>3. CASE RejectForever(r)
  <2>1. /\ SetStatus({Auth(r)}, "rejected_forever") /\ Wake({Auth(r)}, "rejected_forever")
        /\ UNCHANGED <<version, approvals, feeing, confirmed, published, refitted, undone>>
    BY <1>3 DEF RejectForever, consents
  <2> QED
    BY <1>1, <2>1, ChainAuth
<1>4. ASSUME NEW w \in Windows, StartApproval(w, r)
      PROVE  ChainInv'
  <2>1. Present(Tx(r)) /\ UNCHANGED <<version, feeing, published, refitted>>
    BY <1>4 DEF StartApproval, Found
  <2>2. CASE vault = "unlocked"
    <3>1. /\ confirmed' = confirmed \cup {<<r, version[r]>>}
          /\ undone' = IF phase[r] = "denied" THEN undone \cup {r} ELSE undone
          /\ UNCHANGED <<status, phase>>
      BY <1>4, <2>2 DEF StartApproval
    <3>2. /\ \A a \in approvals' : a \in approvals \/ a.req = r
          /\ approvals \subseteq approvals'
      BY <1>4, <2>2 DEF StartApproval
    <3>3. Sound(r)'
      <4>1. Sound(r) /\ phase[r] \notin Early
        BY <2>1 DEF ChainInv, Sound, Fresh
      <4>2. Fits(r)'
        BY <2>1, <3>1, <4>1 DEF Sound, Fits, Consents
      <4>3. Running(r) \subseteq Running(r)' /\ OnChain(r)' = OnChain(r)
        BY <2>1, <3>2 DEF Running, OnChain
      <4> QED
        BY <3>1, <4>1, <4>2, <4>3 DEF Sound, Fresh, Denies, Early
    <3>4. ASSUME NEW q \in Requests, q # r
          PROVE  Sound(q)'
      <4>1. Running(q)' = Running(q) /\ Consents(q)' = Consents(q) /\ OnChain(q)' = OnChain(q)
        BY <2>1, <3>1, <3>2, <3>4 DEF Running, Consents, OnChain
      <4>2. Sound(q)
        BY DEF ChainInv
      <4> QED
        BY <2>1, <3>1, <4>1, <4>2, SoundKept DEF Present
    <3> QED
      BY <3>3, <3>4 DEF ChainInv
  <2>3. CASE vault # "unlocked"
    <3>1. /\ SetStatus({Tx(r)}, "failed") /\ Wake({Tx(r)}, "failed")
          /\ UNCHANGED <<approvals, confirmed, undone>>
      BY <1>4, <2>3 DEF StartApproval
    <3>2. \A q \in Requests : Present(Tx(q))' => Present(Tx(q))
      BY <2>1, <3>1, SetStatusMeans, IdsOfRequests DEF Present
    <3> QED
      BY <1>1, <2>1, <3>1, <3>2, WakeGoesOn, ChainKept
  <2> QED
    BY <2>2, <2>3
<1>5. CASE StartFee(r)
  <2>1. /\ feeing' = feeing \cup {r} /\ Present(Tx(r))
        /\ UNCHANGED <<status, phase, version, approvals, confirmed, published, refitted, undone>>
    BY <1>5 DEF StartFee, Found, calls, history, consents
  <2> QED
    BY <2>1, ChainKept DEF Present
<1>6. CASE FailFee(r)
  <2>1. /\ feeing' \subseteq feeing
        /\ UNCHANGED <<status, phase, version, approvals, confirmed, published, refitted, undone>>
    BY <1>6 DEF FailFee, store, calls, history, consents
  <2> QED
    BY <2>1, ChainKept DEF Present
<1>7. CASE FinishFee(r)
  <2>1. /\ r \in feeing /\ feeing' \subseteq feeing /\ refitted \subseteq refitted'
        /\ UNCHANGED <<phase, approvals, confirmed, published, undone>>
    BY <1>7 DEF FinishFee, calls
  <2>2. \A q \in Requests : Present(Tx(q))' => Present(Tx(q))
    BY <1>7, SetStatusMeans, IdsOfRequests DEF FinishFee, Present
  <2>3. \A q \in Requests : /\ Running(q)' = Running(q) /\ Consents(q)' = Consents(q)
                            /\ OnChain(q)' = OnChain(q) /\ Sound(q)
    BY <2>1 DEF Running, Consents, OnChain, ChainInv
  <2>4. \A q \in Requests : q # r => version'[q] = version[q]
    BY <1>7 DEF FinishFee, TypeOK
  <2>5. Sound(r)'
    <3>1. phase[r] \notin Early
      BY <2>1, <2>3 DEF Sound, Fresh
    <3>2. Fits(r)'
      <4>1. CASE Present(Tx(r))
        BY <1>7, <2>3, <4>1 DEF FinishFee, Fits, Consents
      <4>2. CASE ~Present(Tx(r))
        BY <1>7, <2>3, <4>2 DEF FinishFee, Sound, Fits
      <4> QED
        BY <4>1, <4>2
    <3> QED
      BY <2>1, <2>3, <3>1, <3>2 DEF Sound, Fresh, Denies
  <2>6. ASSUME NEW q \in Requests, q # r
        PROVE  Sound(q)'
    BY <2>1, <2>2, <2>3, <2>4, <2>6, SoundKept
  <2> QED
    BY <2>5, <2>6 DEF ChainInv
<1> QED
  BY <1>2, <1>3, <1>4, <1>5, <1>6, <1>7

\* The approval a ends, and reports st.
LEMMA ChainComplete ==
  ASSUME TypeOK, ConsentInv, ChainInv, NEW a \in approvals,
         NEW st \in {"signed", "failed", "published"}, Complete(a, st)
  PROVE  ChainInv'
<1>1. /\ a.req \in Requests /\ a.version \in 0..MaxFee /\ <<a.req, a.version>> \in confirmed
      /\ st \in Statuses
  BY DEF TypeOK, Approval, ConsentInv, Statuses
<1>2. /\ approvals' = approvals \ {a} /\ Wake({Tx(a.req)}, st)
      /\ UNCHANGED <<feeing, confirmed, published, refitted, undone>>
  BY DEF Complete
<1> SUFFICES ASSUME NEW r \in Requests
             PROVE  Sound(r)'
  BY DEF ChainInv
<1>3. Sound(r) /\ Consents(r)' = Consents(r) /\ OnChain(r)' = OnChain(r)
  BY <1>2 DEF ChainInv, Consents, OnChain
<1>4. Present(Tx(r))' => Present(Tx(r))
  BY <1>1, SetStatusMeans, IdsOfRequests DEF Complete, Present
<1>5. /\ phase'[r] \in Early => phase[r] \in Early
      /\ phase'[r] = "waiting" => phase[r] = "waiting" /\ r # a.req
      /\ phase'[r] = "denied" => phase[r] \in Early \cup {"denied"}
  <2>1. phase'[r] = "waiting" => phase[r] = "waiting" /\ Awaited(r) \notin {Tx(a.req)}
    BY <1>1, <1>2, WakeMeans, WakeGoesOn DEF Waiting
  <2>2. phase[r] = "waiting" => Awaited(r) = Tx(r)
    BY DEF Awaited
  <2> QED
    BY <1>1, <1>2, <2>1, <2>2, WakeGoesOn
<1>6. Running(r)' \subseteq Running(r) /\ (r # a.req => Running(r)' = Running(r))
  BY <1>2 DEF Running
<1>7. version'[r] = version[r] \/ (r \in refitted /\ phase[r] \notin Early)
  <2>1. CASE r = a.req
    <3>1. phase[r] \notin Early
      BY <1>3, <2>1 DEF Sound, Fresh, Running
    <3>2. r \notin refitted => a.version = version[r]
      BY <1>1, <1>3, <2>1 DEF Sound, Fits, Consents
    <3> QED
      BY <1>1, <2>1, <3>1, <3>2 DEF Complete, TypeOK
  <2>2. CASE r # a.req
    BY <1>1, <2>2 DEF Complete, TypeOK
  <2> QED
    BY <2>1, <2>2
<1> QED
  BY <1>2, <1>3, <1>4, <1>5, <1>6, <1>7, SoundKept

LEMMA ChainApproval ==
  ASSUME TypeOK, ConsentInv, ChainInv, NEW a \in approvals, ApprovalStep(a)
  PROVE  ChainInv'
<1>1. a.req \in Requests /\ a.version \in 0..MaxFee /\ a \in Approval
  <2>1. a \in Approval
    BY DEF TypeOK
  <2> QED
    BY <2>1 DEF Approval
<1>2. \A r \in Requests : Sound(r)
  BY DEF ChainInv
<1>3. CASE \E st \in {"signed", "failed", "published"} : Complete(a, st)
  BY <1>3, ChainComplete
<1>4. CASE SignOk(a) /\ a.req \in Publish
  <2> DEFINE b == [a EXCEPT !.step = "broadcasting"]
  <2>1. b.req = a.req /\ b.step = "broadcasting"
    BY <1>1 DEF Approval
  <2>2. /\ approvals' = (approvals \ {a}) \cup {b} /\ a.step = "signing"
        /\ UNCHANGED <<status, version, phase, feeing, confirmed, published, refitted, undone>>
    BY <1>4 DEF SignOk, store, calls, history, consents
  <2> HIDE DEF b
  <2> SUFFICES ASSUME NEW r \in Requests
               PROVE  Sound(r)'
    BY DEF ChainInv
  <2>3. Consents(r)' = Consents(r) /\ OnChain(r)' = OnChain(r)
    BY <2>2 DEF Consents, OnChain
  <2>4. CASE r # a.req
    <3>1. Running(r)' = Running(r)
      BY <2>1, <2>2, <2>4 DEF Running
    <3> QED
      BY <1>2, <2>2, <2>3, <3>1, SoundKept DEF Present
  <2>5. CASE r = a.req
    <3>1. a \in Running(r) /\ b \in Running(r)'
      BY <2>1, <2>2, <2>5 DEF Running
    <3>2. phase[r] \notin Early /\ (phase[r] = "denied" => r \in undone)
      BY <1>2, <3>1 DEF Sound, Fresh, Denies
    <3> QED
      BY <1>2, <2>1, <2>2, <2>3, <3>1, <3>2 DEF Sound, Fresh, Fits, Denies
  <2> QED
    BY <2>4, <2>5
<1>5. CASE NodeAccepts(a)
  <2>1. /\ a.step = "broadcasting" /\ published' = published \cup {<<a.req, a.version>>}
        /\ UNCHANGED <<status, version, phase, approvals, feeing, confirmed, refitted, undone>>
    BY <1>5 DEF NodeAccepts, store, calls
  <2> SUFFICES ASSUME NEW r \in Requests
               PROVE  Sound(r)'
    BY DEF ChainInv
  <2>2. Consents(r)' = Consents(r) /\ Running(r)' = Running(r)
    BY <2>1 DEF Consents, Running
  <2>3. CASE r # a.req
    <3>1. OnChain(r)' = OnChain(r)
      BY <2>1, <2>3 DEF OnChain
    <3> QED
      BY <1>2, <2>1, <2>2, <3>1, SoundKept DEF Present
  <2>4. CASE r = a.req
    <3>1. a \in Running(r)
      BY <2>4 DEF Running
    <3>2. phase[r] \notin Early /\ (phase[r] = "denied" => r \in undone)
      BY <1>2, <3>1 DEF Sound, Fresh, Denies
    <3> QED
      BY <1>2, <2>1, <2>2, <3>1, <3>2 DEF Sound, Fresh, Fits, Denies
  <2> QED
    BY <2>3, <2>4
<1>6. CASE LedgerReject(a)
  <2> DEFINE F == {Tx(a.req)}
  <2>1. /\ a.step = "signing" /\ approvals' = approvals \ {a}
        /\ undone' = undone \cup Overtaken(F, approvals')
        /\ UNCHANGED <<version, feeing, confirmed, published, refitted>>
    BY <1>6 DEF LedgerReject
  <2> SUFFICES ASSUME NEW r \in Requests
               PROVE  Sound(r)'
    BY DEF ChainInv
  <2>2. /\ Consents(r)' = Consents(r) /\ OnChain(r)' = OnChain(r)
        /\ Running(r)' \subseteq Running(r)
        /\ \A c \in Running(r) : c = a \/ c \in Running(r)'
    BY <2>1 DEF Consents, OnChain, Running
  <2>3. Tx(r) \in F => r \in undone' \/ Running(r)' = {}
    BY <2>1 DEF Overtaken, Running
  <2>4. CASE Present(Tx(a.req))
    <3>1. SetStatus(F, "rejected") /\ Wake(F, "rejected") /\ "rejected" \in Statuses
      BY <1>6, <2>4 DEF LedgerReject, Statuses
    <3>2. Present(Tx(r))' => Present(Tx(r))
      BY <2>4, <3>1, SetStatusMeans, IdsOfRequests DEF Present
    <3>3. /\ phase'[r] \in Early => phase[r] \in Early
          /\ phase'[r] = "waiting" => phase[r] = "waiting"
          /\ phase'[r] = "denied" /\ phase[r] \notin Early \cup {"denied"} =>
               phase[r] = "waiting" /\ Tx(r) \in F
      BY <3>1, WakeGoesOn
    <3>4. (\A c \in Running(r) : c.step # "broadcasting") \/ Running(r)' # {}
      BY <2>1, <2>2
    <3> HIDE DEF F
    <3> QED
      BY <1>2, <2>1, <2>2, <2>3, <3>2, <3>3, <3>4, SoundKept
  <2>5. CASE ~Present(Tx(a.req))
    <3>1. UNCHANGED <<status, phase>>
      BY <1>6, <2>5 DEF LedgerReject
    <3> QED
      BY <1>2, <2>1, <2>2, <3>1, SoundKept DEF Present
  <2> QED
    BY <2>4, <2>5
<1> QED
  BY <1>3, <1>4, <1>5, <1>6 DEF ApprovalStep, SignOk, SignFail, BroadcastOk, BroadcastFail

LEMMA ChainOthers ==
  ASSUME TypeOK, ChainInv,
         \/ Lock \/ Unlock \/ ClearMessages \/ DeleteVault \/ Restart
         \/ \E o \in Origins : \/ AllowOrigin(o) \/ DisableOrigin(o) \/ DeleteOrigin(o)
                               \/ \E on \in BOOLEAN : SetAutoSign(o, on)
         \/ \E c \in Conns : Disconnect(c)
         \/ \E S \in SUBSET Unapproved : Expire(S)
         \/ \E id \in Ids : Reject(id)
  PROVE  ChainInv'
<1>1. CASE Lock
  <2> DEFINE F == {id \in Ids : Present(id)}
  <2>1. F \in SUBSET Ids /\ RejectAll(F) /\ \A id \in F : Present(id)
    BY <1>1 DEF Lock
  <2>2. UNCHANGED <<version, approvals, feeing, confirmed, published, refitted>>
    BY <1>1 DEF Lock
  <2> HIDE DEF F
  <2> QED
    BY <2>1, <2>2, ChainRejected DEF RejectAll
<1>2. CASE Unlock
  BY <1>2, ChainKept DEF Unlock, store, calls, history, consents, Present
<1>3. CASE ClearMessages \/ DeleteVault
  <2>1. /\ SetStatus({id \in Ids : Present(id)}, "absent")
        /\ UNCHANGED <<phase, version, approvals, feeing, confirmed, published, refitted, undone>>
    BY <1>3 DEF ClearMessages, DeleteVault, Clear, calls, consents
  <2>2. \A r \in Requests : Present(Tx(r))' => Present(Tx(r))
    BY <2>1, SetStatusMeans, IdsOfRequests DEF Present
  <2> QED
    BY <2>1, <2>2, ChainKept
<1>4. CASE Restart
  <2>1. /\ approvals' = {} /\ feeing' = {}
        /\ UNCHANGED <<version, confirmed, published, refitted, undone>>
        /\ \A r \in Requests :
             /\ phase'[r] = phase[r] \/ phase'[r] = "lost"
             /\ phase'[r] # "waiting" /\ ~Present(Tx(r))'
    BY <1>4, IdsOfRequests DEF Restart, Busy, Waiting, Present, TypeOK, consents
  <2> SUFFICES ASSUME NEW r \in Requests
               PROVE  Sound(r)'
    BY DEF ChainInv
  <2>2. /\ Consents(r)' = Consents(r) /\ OnChain(r)' = OnChain(r) /\ Running(r)' = {}
        /\ Sound(r)
    BY <2>1 DEF Consents, OnChain, Running, ChainInv
  <2> QED
    BY <2>1, <2>2, SoundKept DEF Early
<1>5. ASSUME NEW o \in Origins, AllowOrigin(o)
      PROVE  ChainInv'
  <2> DEFINE F == {id \in Ids : Present(id) /\ OriginOf[id[2]] = o}
  <2>1. F \in SUBSET Ids /\ RejectAll(F) /\ \A id \in F : Present(id)
    BY <1>5 DEF AllowOrigin
  <2>2. UNCHANGED <<version, approvals, feeing, confirmed, published, refitted>>
    BY <1>5 DEF AllowOrigin
  <2> HIDE DEF F
  <2> QED
    BY <2>1, <2>2, ChainRejected DEF RejectAll
<1>6. ASSUME NEW o \in Origins,
             DisableOrigin(o) \/ DeleteOrigin(o) \/ \E on \in BOOLEAN : SetAutoSign(o, on)
      PROVE  ChainInv'
  BY <1>6, ChainKept DEF DisableOrigin, DeleteOrigin, SetAutoSign, store, calls, history,
     consents, Present
<1>7. ASSUME NEW c \in Conns, Disconnect(c)
      PROVE  ChainInv'
  <2> DEFINE F == {id \in Ids : Present(id) /\ ConnOf[id[2]] = c}
  <2>1. /\ F \in SUBSET Ids /\ SetStatus(F, "absent") /\ Wake(F, "rejected")
        /\ \A id \in F : Present(id)
        /\ undone' = undone \cup Overtaken(F, approvals)
    BY <1>7 DEF Disconnect
  <2>2. UNCHANGED <<version, approvals, feeing, confirmed, published, refitted>>
    BY <1>7 DEF Disconnect
  <2> HIDE DEF F
  <2> QED
    BY <2>1, <2>2, ChainRejected
<1>8. ASSUME NEW S \in SUBSET Unapproved, Expire(S)
      PROVE  ChainInv'
  <2>1. S \in SUBSET Ids /\ RejectAll(S) /\ \A id \in S : Present(id)
    BY <1>8 DEF Expire, Unapproved, Present
  <2>2. UNCHANGED <<version, approvals, feeing, confirmed, published, refitted>>
    BY <1>8 DEF Expire
  <2> QED
    BY <2>1, <2>2, ChainRejected DEF RejectAll
<1>9. ASSUME NEW id \in Ids, Reject(id)
      PROVE  ChainInv'
  <2>1. {id} \in SUBSET Ids /\ RejectAll({id}) /\ Present(id)
    BY <1>9 DEF Reject, Found
  <2>2. UNCHANGED <<version, approvals, feeing, confirmed, published, refitted>>
    BY <1>9 DEF Reject
  <2> QED
    BY <2>1, <2>2, ChainRejected DEF RejectAll
<1> QED
  BY <1>1, <1>2, <1>3, <1>4, <1>5, <1>6, <1>7, <1>8, <1>9

LEMMA ChainNext == TypeOK /\ ConsentInv /\ ChainInv /\ [Next]_vars => ChainInv'
<1> SUFFICES ASSUME TypeOK, ConsentInv, ChainInv, [Next]_vars
             PROVE  ChainInv'
  OBVIOUS
<1>1. CASE UNCHANGED vars
  BY <1>1, ChainKept DEF vars, store, calls, history, consents, Present
<1> QED
  BY <1>1, ChainCallBuild, ChainWindows, ChainApproval, ChainOthers DEF Next

LEMMA ChainInit == Init => ChainInv
BY IdsOfRequests DEF Init, ChainInv, Sound, Fresh, Fits, Denies, Consents, OnChain, Running,
   Present

LEMMA ChainAlways == Spec => [](TypeOK /\ TrustInv /\ ConsentInv /\ ChainInv)
<1>1. Init => TypeOK /\ TrustInv /\ ConsentInv /\ ChainInv
  BY TypeInit, TrustInit, ConsentInit, ChainInit
<1> QED
  BY <1>1, TypeNext, TrustNext, ConsentNext, ChainNext, PTL DEF Spec

\* Whatever windows, also ones that show a message that is over, approve, refuse
\* or change: a request puts a second transaction on the chain only when its
\* message was built again after an approval of it began (approve,
\* updateTransactionFee).
THEOREM SecondByFee == Spec => []SecondOnlyByFee
<1>1. TypeOK /\ ConsentInv /\ ChainInv => SecondOnlyByFee
  <2> SUFFICES ASSUME TypeOK, ConsentInv, ChainInv,
                      NEW p \in published, NEW q \in published, p[1] = q[1], p # q,
                      p[1] \notin refitted
               PROVE  FALSE
    BY DEF SecondOnlyByFee, ConsentInv
  <2>1. /\ p \in Requests \X (0..MaxFee) /\ q \in Requests \X (0..MaxFee)
        /\ p \in confirmed /\ q \in confirmed
    BY DEF TypeOK, ConsentInv
  <2>2. p = <<p[1], p[2]>> /\ q = <<p[1], q[2]>> /\ p[1] \in Requests
    BY <2>1
  <2>3. {p[2], q[2]} \subseteq Consents(p[1])
    BY <2>1, <2>2 DEF Consents
  <2>4. Consents(p[1]) \subseteq {version[p[1]]}
    BY <2>2 DEF ChainInv, Sound, Fits
  <2> QED
    BY <2>2, <2>3, <2>4
<1> QED
  BY <1>1, ChainAlways, PTL

\* A page that was told "denied" while no approval worked on its message, and
\* nobody approves the message afterwards, finds nothing of it on the chain
\* (approve, reject, the expiration of messages).
THEOREM DenialHolds == Spec => []DeniedUnlessApproved
<1>1. ChainInv => DeniedUnlessApproved
  BY DEF ChainInv, Sound, Denies, OnChain, DeniedUnlessApproved
<1> QED
  BY <1>1, ChainAlways, PTL

----------------------------------------------------------------------------
(* The pipeline is a SigningService: a step of it is a step of the         *)
(* service, or nothing the service shows.                                  *)

\* Phases as the service shows them.
LEMMA SeenMeans ==
  /\ Seen("idle") = "none" /\ Seen("result") = "served"
  /\ \A ph \in Busy : Seen(ph) = "pending"
  /\ \A ph \in Answers \ {"result"} : Seen(ph) = "refused"
BY DEF Seen, Busy, Waiting, Answers

\* One more pair, one more request.
LEMMA FirstOfPairs ==
  ASSUME NEW S, NEW r, NEW v
  PROVE  {p[1] : p \in S \cup {<<r, v>>}} = {p[1] : p \in S} \cup {r}
<1>1. <<r, v>>[1] = r
  OBVIOUS
<1>2. \A x : x \in {p[1] : p \in S \cup {<<r, v>>}} <=> x \in {p[1] : p \in S} \/ x = r
  BY <1>1, Zenon
<1> QED
  BY <1>2

\* Some calls are refused, the others stay what they were for the service.
LEMMA OnlyRefuses ==
  ASSUME UNCHANGED <<confirmed, published>>,
         \A r \in Requests : \/ Seen(phase'[r]) = Seen(phase[r])
                             \/ /\ Seen(phase[r]) \in {"none", "pending"}
                                /\ Seen(phase'[r]) = "refused"
  PROVE  Signer!SNext
<1> DEFINE S == {r \in Requests : Seen(phase'[r]) # Seen(phase[r])}
<1>1. [r \in Requests |-> Seen(phase[r])]' =
        [r \in Requests |-> IF r \in S THEN "refused" ELSE [q \in Requests |-> Seen(phase[q])][r]]
  OBVIOUS
<1>2. \A r \in S : [q \in Requests |-> Seen(phase[q])][r] \in {"none", "pending"}
  OBVIOUS
<1>3. /\ {p[1] : p \in published}' = {p[1] : p \in published}
      /\ {c[1] : c \in confirmed}' = {c[1] : c \in confirmed}
  OBVIOUS
<1>4. S \in SUBSET Requests
  OBVIOUS
<1> HIDE DEF S
<1>5. Signer!Refuse(S)
  BY <1>1, <1>2, <1>3 DEF Signer!Refuse
<1> QED
  BY <1>4, <1>5 DEF Signer!SNext

\* A rejected or failed message refuses the calls that wait for it.
LEMMA WakeRefuses ==
  ASSUME TypeOK, NEW F, NEW st \in {"rejected", "rejected_forever", "failed"}, Wake(F, st),
         UNCHANGED <<confirmed, published>>
  PROVE  Signer!SNext
<1> SUFFICES ASSUME NEW r \in Requests
             PROVE  \/ Seen(phase'[r]) = Seen(phase[r])
                    \/ /\ Seen(phase[r]) \in {"none", "pending"}
                       /\ Seen(phase'[r]) = "refused"
  BY OnlyRefuses
<1>1. CASE r \in Woken(F)
  <2>1. phase[r] \in Busy /\ phase'[r] \in {"denied", "failed"}
    BY <1>1 DEF Woken, Busy, Wake, Outcome
  <2> QED
    BY <2>1, SeenMeans DEF Answers
<1>2. CASE r \notin Woken(F)
  BY <1>2 DEF Wake
<1> QED
  BY <1>1, <1>2

LEMMA RefinesInit == Init => Signer!SInit
BY SeenMeans DEF Init, Signer!SInit

\* A call is asked, or refused on arrival.
LEMMA RefinesCall ==
  ASSUME TypeOK, NEW r \in Requests, Call(r)
  PROVE  Signer!SNext
<1>1. /\ phase[r] = "idle" /\ phase'[r] \in Busy \cup (Answers \ {"result"})
      /\ \A q \in Requests : q # r => phase'[q] = phase[q]
      /\ UNCHANGED <<confirmed, published>>
  <2>1. phase[r] = "idle" /\ UNCHANGED <<confirmed, published>>
    BY DEF Call, history, trust, consents
  <2>2. \E ph \in Busy \cup (Answers \ {"result"}) : phase' = [phase EXCEPT ![r] = ph]
    <3>1. CallAnswer(OriginOf[r]) \in Busy \cup (Answers \ {"result"})
      BY DEF CallAnswer, Busy, Answers
    <3>2. \A st : /\ "allowing" \in Busy
                  /\ Outcome("allowing", st) \in Busy \cup (Answers \ {"result"})
      BY DEF Outcome, Busy, Waiting, Answers
    <3> QED
      BY <3>1, <3>2 DEF Call, JoinQuestion, AskQuestion
  <2> QED
    BY <2>1, <2>2 DEF TypeOK
<1>2. CASE phase'[r] \in Answers \ {"result"}
  BY <1>1, <1>2, OnlyRefuses, SeenMeans
<1>3. CASE phase'[r] \in Busy
  <2>1. [q \in Requests |-> Seen(phase[q])]' =
          [[q \in Requests |-> Seen(phase[q])] EXCEPT ![r] = "pending"]
    BY <1>1, <1>3, SeenMeans
  <2>2. Signer!Ask(r)
    BY <1>1, <2>1, SeenMeans DEF Signer!Ask
  <2> QED
    BY <2>2 DEF Signer!SNext
<1> QED
  BY <1>1, <1>2, <1>3

\* Building ends pending, perhaps with the consent of auto-sign, or refused.
LEMMA RefinesBuild ==
  ASSUME TypeOK, NEW r \in Requests,
         BuildFail(r) \/ \E auto \in BOOLEAN : BuildDone(r, auto)
  PROVE  Signer!SNext
<1>1. CASE BuildFail(r)
  <2>1. /\ \A q \in Requests : phase'[q] = phase[q] \/ (q = r /\ phase'[q] = "failed")
        /\ phase[r] \in Busy /\ UNCHANGED <<confirmed, published>>
    BY <1>1 DEF BuildFail, TypeOK, Busy, history, trust, consents
  <2> QED
    BY <2>1, OnlyRefuses, SeenMeans DEF Answers
<1>2. ASSUME NEW auto \in BOOLEAN, BuildDone(r, auto)
      PROVE  Signer!SNext
  <2>1. /\ \A q \in Requests : phase'[q] = phase[q] \/ (q = r /\ phase'[q] \in {"failed", "waiting"})
        /\ phase[r] \in Busy /\ "waiting" \in Busy /\ UNCHANGED published
    BY <1>2 DEF BuildDone, TypeOK, Busy, Waiting
  <2>2. CASE ~(auto /\ vault = "unlocked")
    <3>1. UNCHANGED confirmed
      BY <1>2, <2>2 DEF BuildDone
    <3> QED
      BY <2>1, <3>1, OnlyRefuses, SeenMeans DEF Answers
  <2>3. CASE auto /\ vault = "unlocked"
    <3>1. phase'[r] \in Busy /\ confirmed' = confirmed \cup {<<r, 0>>}
      BY <1>2, <2>3 DEF BuildDone, TypeOK, Busy, Waiting
    <3>2. [q \in Requests |-> Seen(phase[q])]' = [q \in Requests |-> Seen(phase[q])]
      BY <2>1, <3>1, SeenMeans
    <3>3. Signer!Consent(r)
      BY <2>1, <3>1, <3>2, FirstOfPairs DEF Signer!Consent
    <3> QED
      BY <3>3 DEF Signer!SNext
  <2> QED
    BY <2>2, <2>3
<1> QED
  BY <1>1, <1>2

LEMMA RefinesWindows ==
  ASSUME TypeOK, NEW r \in Requests,
         \/ ApproveAuth(r) \/ RejectForever(r)
         \/ \E w \in Windows : StartApproval(w, r)
         \/ StartFee(r) \/ FinishFee(r) \/ FailFee(r)
  PROVE  Signer!SNext
<1>1. CASE ApproveAuth(r)
  <2>1. UNCHANGED <<confirmed, published>>
    BY <1>1 DEF ApproveAuth, trust, consents
  <2>2. CASE vault # "unlocked"
    BY <1>1, <2>1, <2>2, WakeRefuses DEF ApproveAuth
  <2>3. CASE vault = "unlocked"
    <3>1. \A q \in Requests : phase'[q] = phase[q] \/ (phase[q] \in Busy /\ phase'[q] \in Busy)
      <4>1. \A q \in Woken({Auth(r)}) : phase[q] = "allowing"
        BY IdsOfRequests DEF Woken, Awaited, Waiting
      <4> QED
        BY <1>1, <2>3, <4>1 DEF ApproveAuth, Wake, Outcome, Busy, Waiting
    <3> QED
      BY <2>1, <3>1, OnlyRefuses, SeenMeans
  <2> QED
    BY <2>2, <2>3
<1>2. CASE RejectForever(r)
  BY <1>2, WakeRefuses DEF RejectForever, consents
<1>3. ASSUME NEW w \in Windows, StartApproval(w, r)
      PROVE  Signer!SNext
  <2>1. CASE vault = "unlocked"
    <3>1. UNCHANGED <<phase, published>> /\ confirmed' = confirmed \cup {<<r, version[r]>>}
      BY <1>3, <2>1 DEF StartApproval
    <3>2. Signer!Consent(r)
      BY <3>1, FirstOfPairs DEF Signer!Consent
    <3> QED
      BY <3>2 DEF Signer!SNext
  <2>2. CASE vault # "unlocked"
    BY <1>3, <2>2, WakeRefuses DEF StartApproval
  <2> QED
    BY <2>1, <2>2
<1>4. CASE StartFee(r) \/ FinishFee(r) \/ FailFee(r)
  BY <1>4, OnlyRefuses DEF StartFee, FinishFee, FailFee, calls, history, trust, consents
<1> QED
  BY <1>1, <1>2, <1>3, <1>4

\* The end of an approval serves or refuses one call; the node's acceptance is
\* the broadcast.
LEMMA RefinesApproval ==
  ASSUME TypeOK, ConsentInv, NEW a \in approvals, ApprovalStep(a)
  PROVE  Signer!SNext
<1>1. /\ a.req \in Requests /\ a.req \in {c[1] : c \in confirmed}
      /\ {"signed", "published"} \subseteq Statuses
  <2>1. a \in Approval /\ <<a.req, a.version>> \in confirmed
    BY DEF TypeOK, ConsentInv
  <2> QED
    BY <2>1 DEF Approval, Statuses
<1>2. ASSUME NEW st \in {"signed", "published"}, Complete(a, st),
             a.req \in Publish => <<a.req, a.version>> \in published
      PROVE  Signer!SNext
  <2>1. UNCHANGED <<confirmed, published>> /\ Wake({Tx(a.req)}, st)
    BY <1>2 DEF Complete, history
  <2>2. \A q \in Requests : phase'[q] = phase[q] \/ (q = a.req /\ phase[q] \in Busy /\ phase'[q] = "result")
    <3>1. ASSUME NEW q \in Woken({Tx(a.req)})
          PROVE  q = a.req /\ phase[q] = "waiting"
      <4>1. phase[q] \in Waiting /\ Awaited(q) = Tx(a.req) /\ q \in Requests
        BY <3>1 DEF Woken
      <4>2. phase[q] # "allowing"
        BY <4>1 DEF Awaited, Auth, Tx
      <4>3. Tx(q) = Tx(a.req)
        BY <4>1, <4>2 DEF Awaited
      <4> QED
        BY <4>1, <4>2, <4>3 DEF Waiting, Tx
    <3>2. Outcome("waiting", st) = "result"
      BY <1>2 DEF Outcome
    <3>3. phase' = [q \in Requests |-> IF q \in Woken({Tx(a.req)}) THEN Outcome(phase[q],
       st) ELSE phase[q]]
      BY <2>1 DEF Wake
    <3> QED
      BY <3>1, <3>2, <3>3 DEF Busy, Waiting
  <2>3. CASE phase'[a.req] = phase[a.req]
    BY <2>1, <2>2, <2>3, OnlyRefuses
  <2>4. CASE phase'[a.req] # phase[a.req]
    <3>1. [q \in Requests |-> Seen(phase[q])]' =
            [[q \in Requests |-> Seen(phase[q])] EXCEPT ![a.req] = "served"]
      BY <1>1, <2>2, <2>4, SeenMeans
    <3>2. Seen(phase[a.req]) = "pending"
      BY <1>1, <2>2, <2>4, SeenMeans
    <3>3. a.req \in Publish => a.req \in {p[1] : p \in published}
      BY <1>2
    <3>4. Signer!Serve(a.req)
      BY <1>1, <2>1, <3>1, <3>2, <3>3 DEF Signer!Serve
    <3> QED
      BY <1>1, <3>4 DEF Signer!SNext
  <2> QED
    BY <2>3, <2>4
<1>3. CASE Complete(a, "failed")
  BY <1>3, WakeRefuses DEF Complete, history
<1>4. CASE SignOk(a) /\ a.req \in Publish
  BY <1>4, OnlyRefuses DEF SignOk, calls, history, trust, consents
<1>5. CASE NodeAccepts(a)
  <2>1. a.req \in Publish /\ UNCHANGED <<phase, confirmed>>
    <3>1. a.step = "broadcasting" /\ UNCHANGED <<phase, confirmed>>
      BY <1>5 DEF NodeAccepts, calls
    <3>2. a.step = "broadcasting" => a.req \in Publish
      BY DEF ConsentInv
    <3> QED
      BY <3>1, <3>2
  <2>2. {p[1] : p \in published}' = {p[1] : p \in published} \cup {a.req}
    <3>1. published' = published \cup {<<a.req, a.version>>}
      BY <1>5 DEF NodeAccepts
    <3> QED
      BY <3>1, FirstOfPairs
  <2>3. Signer!Broadcast(a.req)
    BY <1>1, <2>1, <2>2 DEF Signer!Broadcast
  <2> QED
    BY <1>1, <2>3 DEF Signer!SNext
<1>6. CASE LedgerReject(a)
  <2>1. CASE Present(Tx(a.req))
    BY <1>6, <2>1, WakeRefuses DEF LedgerReject
  <2>2. CASE ~Present(Tx(a.req))
    BY <1>6, <2>2, OnlyRefuses DEF LedgerReject
  <2> QED
    BY <2>1, <2>2
<1> QED
  BY <1>2, <1>3, <1>4, <1>5, <1>6 DEF ApprovalStep, SignOk, SignFail, BroadcastOk, BroadcastFail

LEMMA RefinesOthers ==
  ASSUME TypeOK,
         \/ Lock \/ Unlock \/ ClearMessages \/ DeleteVault \/ Restart
         \/ \E o \in Origins : \/ AllowOrigin(o) \/ DisableOrigin(o) \/ DeleteOrigin(o)
                               \/ \E on \in BOOLEAN : SetAutoSign(o, on)
         \/ \E c \in Conns : Disconnect(c)
         \/ \E S \in SUBSET Unapproved : Expire(S)
         \/ \E id \in Ids : Reject(id)
  PROVE  Signer!SNext
<1>1. CASE Lock
  BY <1>1, WakeRefuses DEF Lock, RejectAll
<1>2. CASE Unlock \/ ClearMessages \/ DeleteVault
  BY <1>2, OnlyRefuses DEF Unlock, ClearMessages, DeleteVault, Clear, calls, history, trust,
     consents
<1>3. CASE Restart
  <2>1. \A r \in Requests : phase'[r] = phase[r] \/ (phase[r] \in Busy /\ phase'[r] = "lost")
    BY <1>3 DEF Restart
  <2> QED
    BY <1>3, <2>1, OnlyRefuses, SeenMeans DEF Restart, Answers, trust, consents
<1>4. ASSUME NEW o \in Origins, AllowOrigin(o)
      PROVE  Signer!SNext
  BY <1>4, WakeRefuses DEF AllowOrigin, RejectAll
<1>5. ASSUME NEW o \in Origins,
             DisableOrigin(o) \/ DeleteOrigin(o) \/ \E on \in BOOLEAN : SetAutoSign(o, on)
      PROVE  Signer!SNext
  BY <1>5, OnlyRefuses DEF DisableOrigin, DeleteOrigin, SetAutoSign, calls, history, consents,
     trust
<1>6. ASSUME NEW c \in Conns, Disconnect(c)
      PROVE  Signer!SNext
  BY <1>6, WakeRefuses DEF Disconnect
<1>7. ASSUME NEW S \in SUBSET Unapproved, Expire(S)
      PROVE  Signer!SNext
  BY <1>7, WakeRefuses DEF Expire, RejectAll
<1>8. ASSUME NEW id \in Ids, Reject(id)
      PROVE  Signer!SNext
  BY <1>8, WakeRefuses DEF Reject, RejectAll
<1> QED
  BY <1>1, <1>2, <1>3, <1>4, <1>5, <1>6, <1>7, <1>8

LEMMA RefinesNext ==
  TypeOK /\ ConsentInv /\ [Next]_vars => [Signer!SNext]_(Signer!svars)
<1> SUFFICES ASSUME TypeOK, ConsentInv, [Next]_vars
             PROVE  Signer!SNext \/ UNCHANGED Signer!svars
  OBVIOUS
<1>1. CASE UNCHANGED vars
  BY <1>1, OnlyRefuses DEF vars, calls, history, trust, consents
<1> QED
  BY <1>1, RefinesCall, RefinesBuild, RefinesWindows, RefinesApproval, RefinesOthers DEF Next

\* Whatever windows, ports, settings, the vault and restarts do, the page sees
\* a service that serves only with consent and answers each request at most
\* once (background.ts, message.ts, permissions.ts).
THEOREM Serves == Spec => ServesLikeSigner
<1>1. Init => TypeOK /\ TrustInv /\ ConsentInv /\ Signer!SInit
  BY TypeInit, TrustInit, ConsentInit, RefinesInit
<1> QED
  BY <1>1, TypeNext, TrustNext, ConsentNext, RefinesNext, PTL
     DEF Spec, ServesLikeSigner, Signer!Service
============================================================================
