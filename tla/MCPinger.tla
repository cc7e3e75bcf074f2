------------------------------- MODULE MCPinger -------------------------------
(* Small instances of Pinger.                                              *)
EXTENDS Pinger, TLC

CONSTANTS e1, e2, e3, n1, n2

\* All nodes are in the cluster of e2.
AllAtE2 == [n \in Nodes |-> e2]
\* The configuration lists the edge nodes in this order.
InOrder == e1 :> 1 @@ e2 :> 2 @@ e3 :> 3
=============================================================================
