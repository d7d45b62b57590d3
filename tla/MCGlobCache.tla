---------------------------- MODULE MCGlobCache ----------------------------
(* Instances of GlobCache for TLC. *)
EXTENDS GlobCache, TLC

CONSTANTS d1, d2, k1, k2, k3

(* Two prefixes of one drive and one of another. *)
ThreeKeys == (k1 :> d1) @@ (k2 :> d1) @@ (k3 :> d2)

Symmetry == Permutations(Readers)
=============================================================================
