-------------------------- MODULE MCEmbeddingJobs --------------------------
(* Model-checking instances of EmbeddingJobs. *)
EXTENDS EmbeddingJobs, TLC

(* A new provider format, and an exclusion of the drive under the old one.    *)
TwoSettings == {[format |-> 2, excluded |-> "no"], [format |-> 1, excluded |-> "yes"]}

Symmetry == Permutations(Clients)
=============================================================================
