------------------------------ MODULE MCVcomIo ------------------------------
(* Instances of VcomIo for TLC. *)
EXTENDS VcomIo

MCIovs == {<<1>>, <<2>>, <<1, 1>>, <<2, 1>>}
=============================================================================
