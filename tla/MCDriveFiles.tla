---- MODULE MCDriveFiles ----
(* Instances of DriveFiles for TLC. *)
EXTENDS DriveFiles, TLC

Symmetry == Permutations(Clients) \cup Permutations(Chunks)
====
