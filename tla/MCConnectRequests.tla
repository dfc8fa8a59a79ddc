------------------------ MODULE MCConnectRequests ------------------------
(* Model-checking instances of ConnectRequests: two requests of one site,    *)
(* through two ports, and one of another site.                               *)
EXTENDS ConnectRequests

CONSTANTS o1, o2, r1, r2, r3, c1, c2, c3, w1

MCOriginOf == [r \in Requests |-> IF r = r3 THEN o2 ELSE o1]
MCConnOf == [r \in Requests |-> CASE r = r1 -> c1 [] r = r2 -> c2 [] OTHER -> c3]
MCConns == {MCConnOf[r] : r \in Requests}
============================================================================
