------------------------------ MODULE MCMemoryDoc ------------------------------
(***************************************************************************)
(* Instances of MemoryDoc for TLC.                                         *)
(***************************************************************************)
EXTENDS MemoryDoc

\* An update with its automatic merge, and a dedup or audit alone.
TwoPlans == {<<"update", "merge">>, <<"edit">>}
=============================================================================
