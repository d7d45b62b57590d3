------------------------------ MODULE MCShares ------------------------------
(* Instances of Shares for TLC. *)
EXTENDS Shares, TLC

CONSTANTS img, page, doc, dir

OneOfEach == (img :> "embed") @@ (page :> "html") @@ (doc :> "text") @@ (dir :> "folder")

Symmetry == Permutations(Visitors) \cup Permutations(Links)
=============================================================================
