----------------------------- MODULE MCTurnStream -----------------------------
(***************************************************************************)
(* Instances of TurnStream for TLC: one turn, one subscriber.             *)
(***************************************************************************)
EXTENDS TurnStream, TLC

CONSTANTS c1, m1

OneManager == [c \in Clients |-> m1]
Only(kinds) == [d \in Disturbances |-> IF d \in kinds THEN 1 ELSE 0]
StreamBudget == Only({"cancel", "restart", "fail", "drop", "delete", "rename"})
=============================================================================
