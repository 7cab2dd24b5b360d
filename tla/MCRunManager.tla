------------------------------ MODULE MCRunManager ------------------------------
(***************************************************************************)
(* Instances of RunManager for TLC.                                        *)
(***************************************************************************)
EXTENDS RunManager
CONSTANTS k1, k2, f1, g1
=============================================================================
