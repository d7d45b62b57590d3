---------------------------- MODULE MCFuseMount ----------------------------
(* Two mounts, one on the socket and one remote; each file in its directory. *)
EXTENDS FuseMount, TLC

CONSTANTS f, g, d, e

OneEach == (f :> d) @@ (g :> e)
Single == f :> d

SwapData == Permutations(Data)
=============================================================================
