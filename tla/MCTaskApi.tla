----------------------------- MODULE MCTaskApi -----------------------------
(* Two clients who may choose the same id, or may submit twice; pages of  *)
(* one or two.  Clients are interchangeable, and so are generated ids.    *)
EXTENDS TaskApi, TLC

CONSTANTS c1, c2, named, u1, u2, clip

MCSymmetry == Permutations({c1, c2}) \cup Permutations({u1, u2})
=============================================================================
