---------------------------- MODULE MCTapInject ----------------------------
(* Instances of TapInject for TLC: see the .cfg files for the bounds. *)
EXTENDS TapInject
=============================================================================
