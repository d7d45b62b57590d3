---------------------------- MODULE MCIdentity ----------------------------
(* Instances of Identity for TLC. *)
EXTENDS Identity, TLC

CONSTANTS f, a, A

(* Two accounts that differ in letter case only. *)
CaseVariants == (f :> f) @@ (a :> a) @@ (A :> a)

Symmetry == Permutations(Invites) \cup Permutations(Keys)
=============================================================================
