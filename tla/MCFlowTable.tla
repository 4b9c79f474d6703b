---------------------------- MODULE MCFlowTable ----------------------------
(* Instances of FlowTable for TLC. *)
EXTENDS FlowTable, TLC

\* Keys are only compared.
MCSym == Permutations(Keys)
=============================================================================
