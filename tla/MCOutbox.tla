------------------------------ MODULE MCOutbox ------------------------------
(* Two replicas, each with its recovery loop, and one request handler or,  *)
(* where requests race, one on each replica.                               *)
EXTENDS Outbox

CONSTANTS s1, s2, h1, h2, t1, t2

MCHostOf == [h \in Handlers |-> IF h = h1 THEN s1 ELSE s2]
=============================================================================
