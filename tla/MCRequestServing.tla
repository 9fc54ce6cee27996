-------------------------- MODULE MCRequestServing --------------------------
(***************************************************************************)
(* Small instances of RequestServing for TLC.                              *)
(***************************************************************************)
EXTENDS RequestServing

CONSTANTS r1, r2, r3, r4
=============================================================================
