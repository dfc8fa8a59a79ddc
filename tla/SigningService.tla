-------------------------- MODULE SigningService --------------------------
(* What a wallet that signs for web pages promises: each request is answered *)
(* at most once, is served only with its user's consent, and reaches the     *)
(* chain only with it.                                                       *)
CONSTANTS Requests, Publish

VARIABLES
  answer,  \* "none", "pending", "served" or "refused" for each request
  consent, \* requests the user has consented to
  chain    \* requests of which the chain has a transaction

svars == <<answer, consent, chain>>

SInit ==
  /\ answer = [r \in Requests |-> "none"]
  /\ consent = {}
  /\ chain = {}

\* requests are accepted
Ask(r) ==
  /\ answer[r] = "none"
  /\ answer' = [answer EXCEPT ![r] = "pending"]
  /\ UNCHANGED <<consent, chain>>

\* several requests may be turned down at once, some on arrival
Refuse(S) ==
  /\ \A r \in S : answer[r] \in {"none", "pending"}
  /\ answer' = [r \in Requests |-> IF r \in S THEN "refused" ELSE answer[r]]
  /\ UNCHANGED <<consent, chain>>

Consent(r) ==
  /\ consent' = consent \cup {r}
  /\ UNCHANGED <<answer, chain>>

\* only a broadcast request that has consent comes to the chain, perhaps after
\* its page was told otherwise
Broadcast(r) ==
  /\ r \in consent \cap Publish
  /\ chain' = chain \cup {r}
  /\ UNCHANGED <<answer, consent>>

Serve(r) ==
  /\ answer[r] = "pending" /\ r \in consent
  /\ r \in Publish => r \in chain
  /\ answer' = [answer EXCEPT ![r] = "served"]
  /\ UNCHANGED <<consent, chain>>

SNext ==
  \/ \E r \in Requests : Ask(r) \/ Consent(r) \/ Broadcast(r) \/ Serve(r)
  \/ \E S \in SUBSET Requests : Refuse(S)

Service == SInit /\ [][SNext]_svars
============================================================================
