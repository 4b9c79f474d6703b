------------------------------ MODULE MCMapper ------------------------------
(* Instances of Mapper for TLC. *)
EXTENDS Mapper

CONSTANTS x1, x2, r1, r2, r3

MCOif == [r \in Routes |-> IF r = r2 THEN x2 ELSE x1]
=============================================================================
