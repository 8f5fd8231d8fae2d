--------------------------- MODULE MCFederation ---------------------------
(***************************************************************************)
(* Two nodes that import each other.  One may lose its database and author *)
(* anew; both chains stay in circulation.                                  *)
(***************************************************************************)
EXTENDS Federation, TLC

CONSTANTS nodeA, nodeB

MCNodes == {nodeA, nodeB}
MCMaxContent == nodeA :> 3 @@ nodeB :> 0
MCMaxLives == nodeA :> 1 @@ nodeB :> 0
=============================================================================
