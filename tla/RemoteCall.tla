---------------------------- MODULE RemoteCall ----------------------------
(* What a request to another window promises: its handler runs at most once, *)
(* its promise is settled at most once, and it is fulfilled only if the      *)
(* handler has run. A handler may still run when its caller has given up.    *)
EXTENDS Naturals

CONSTANTS Requests

VARIABLES
  outcome,  \* "none", "waiting", "ok" or "failed" for each request
  ran       \* how often the handler of each request has run

rvars == <<outcome, ran>>

RInit ==
  /\ outcome = [r \in Requests |-> "none"]
  /\ ran = [r \in Requests |-> 0]

Call(r) ==
  /\ outcome[r] = "none"
  /\ outcome' = [outcome EXCEPT ![r] = "waiting"]
  /\ UNCHANGED ran

Run(r) ==
  /\ outcome[r] # "none" /\ ran[r] = 0
  /\ ran' = [ran EXCEPT ![r] = 1]
  /\ UNCHANGED outcome

Fulfil(r) ==
  /\ outcome[r] = "waiting" /\ ran[r] = 1
  /\ outcome' = [outcome EXCEPT ![r] = "ok"]
  /\ UNCHANGED ran

\* several calls may fail at once, some when they are made
Fail(S) ==
  /\ \A r \in S : outcome[r] \in {"none", "waiting"}
  /\ outcome' = [r \in Requests |-> IF r \in S THEN "failed" ELSE outcome[r]]
  /\ UNCHANGED ran

RNext ==
  \/ \E r \in Requests : Call(r) \/ Run(r) \/ Fulfil(r)
  \/ \E S \in SUBSET Requests : Fail(S)

Calls == RInit /\ [][RNext]_rvars
============================================================================
