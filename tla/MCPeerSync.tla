---------------------------- MODULE MCPeerSync ----------------------------
(***************************************************************************)
(* Two instances.  Mutual: two nodes that pull from each other, one of     *)
(* which is also pushed to.  Relay: an origin that may lose its database,  *)
(* a replica that pulls it, and a reader that reaches it only through the  *)
(* replica.                                                                *)
(***************************************************************************)
EXTENDS PeerSync, TLC

CONSTANTS nodeA, nodeB, nodeC

Direct(n, o) == [puller |-> n, server |-> o, origin |-> o]

MutualNodes == {nodeA, nodeB}
MutualContent == nodeA :> 2 @@ nodeB :> 1
MutualLives == nodeA :> 0 @@ nodeB :> 0
MutualRoutes == {Direct(nodeA, nodeB), Direct(nodeB, nodeA)}
MutualPushes == {[to |-> nodeB, origin |-> nodeA]}

RelayNodes == {nodeA, nodeB, nodeC}
RelayContent == nodeA :> 2 @@ nodeB :> 0 @@ nodeC :> 0
RelayLives == nodeA :> 1 @@ nodeB :> 0 @@ nodeC :> 0
RelayRoutes == {Direct(nodeB, nodeA), [puller |-> nodeC, server |-> nodeB, origin |-> nodeA]}
RelayPushes == {[to |-> nodeB, origin |-> nodeA]}
=============================================================================
