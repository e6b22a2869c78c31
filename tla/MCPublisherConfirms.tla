------------------------ MODULE MCPublisherConfirms ------------------------
(* Instances of PublisherConfirms for TLC. *)
EXTENDS PublisherConfirms, TLC

Interchangeable == Permutations(Publishers)
=============================================================================
