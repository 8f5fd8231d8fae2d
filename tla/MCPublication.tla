--------------------------- MODULE MCPublication ---------------------------
(***************************************************************************)
(* An origin that authors, and two relays that only import.                *)
(***************************************************************************)
EXTENDS Publication, TLC

CONSTANTS nodeO, nodeR, nodeS, endpoint1, endpoint2

TwoRelays == {nodeO, nodeR, nodeS}
OneEvent == [n \in Nodes |-> IF n = nodeO THEN 1 ELSE 0]
TwoEvents == [n \in Nodes |-> IF n = nodeO THEN 2 ELSE 0]
NoLosses == [n \in Nodes |-> 0]
AllLose == [n \in Nodes |-> 1]
=============================================================================
