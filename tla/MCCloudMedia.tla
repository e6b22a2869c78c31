--------------------------- MODULE MCCloudMedia ---------------------------
(* One task with one event; one replica with a handler, one worker. *)
EXTENDS CloudMedia

CONSTANTS s1, h1, w1, t1

MCHostOf == [h \in Handlers |-> s1]
MCTaskOf == [e \in Events |-> t1]
===========================================================================
