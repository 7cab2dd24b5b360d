------------------------------ MODULE MCBookEngine ------------------------------
(***************************************************************************)
(* Instances of BookEngine for TLC.                                        *)
(***************************************************************************)
EXTENDS BookEngine
CONSTANT r1
=============================================================================
