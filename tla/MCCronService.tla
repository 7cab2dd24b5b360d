----------------------------- MODULE MCCronService -----------------------------
(***************************************************************************)
(* Instance of CronService for TLC.                                        *)
(***************************************************************************)
EXTENDS CronService
=============================================================================
