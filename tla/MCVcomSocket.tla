---------------------------- MODULE MCVcomSocket ----------------------------
(* Instances of VcomSocket for TLC. *)
EXTENDS VcomSocket, TLC

MCSym == Permutations(Fds) \cup Permutations(Sids) \cup Permutations(Items)
=============================================================================
