---------------------------- MODULE MCTurnRuntime ----------------------------
(***************************************************************************)
(* Instances of TurnRuntime for TLC: one or two managers, two clients, and *)
(* a budget of disturbances per run.                                       *)
(***************************************************************************)
EXTENDS TurnRuntime, TLC

CONSTANTS c1, c2, m1, m2

OneManager == [c \in Clients |-> m1]
TwoManagers == [c \in Clients |-> IF c = c1 THEN m1 ELSE m2]

\* Callers of one manager are interchangeable; used for safety only.
AnyCaller == Permutations(Clients)

Only(kinds) == [d \in Disturbances |-> IF d \in kinds THEN 1 ELSE 0]
CoreBudget == Only({"cancel", "restart", "fail", "regenerate", "delete", "rename"})
DeleteBudget == Only({"delete", "cancel", "reply", "fail"})
FaultBudget == Only({"cancel", "fail"})
TitleBudget == Only({"rename"})
NoBudget == Only({})
=============================================================================
