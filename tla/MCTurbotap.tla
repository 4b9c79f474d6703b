----------------------------- MODULE MCTurbotap -----------------------------
(* Instances of Turbotap for TLC. *)
EXTENDS Turbotap, TLC

MCSym == Permutations(Names) \cup Permutations(SwIfs)
=============================================================================
