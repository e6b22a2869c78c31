---------------------------- MODULE MCWorkerPool ----------------------------
(* Two workers and one task, with one message, or with two when each of    *)
(* two recovery loops created an event for a row that had none.            *)
EXTENDS WorkerPool

CONSTANTS w1, w2, r1, r2, t1, m1, m2

MCTaskOf == [m \in Messages |-> t1]
=============================================================================
