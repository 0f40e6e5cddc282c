------------------------------ MODULE MCRegisters ------------------------------
(* Registers with banks of eight, of which five are general and four are in the *)
(* low half.                                                                     *)
EXTENDS Registers

MCArgCounts == {1, 2}
=============================================================================
