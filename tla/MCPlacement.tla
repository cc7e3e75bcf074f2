----------------------------- MODULE MCPlacement -----------------------------
(* Small instances of Placement.                                           *)
EXTENDS Placement

CONSTANTS n1, n2, n3, e1, e2

\* The scores in one order, as all else but the third node is alike: it may
\* be near enough or not, and roomy or not.
Starts == {[score |-> s, eligible |-> Nodes, roomy |-> ro,
             latency |-> [e \in Edges |-> [n \in Nodes |-> IF n = n3 THEN l ELSE 1]]] :
               s \in {t \in [Nodes -> Scores] : t[n1] <= t[n2]},
               ro \in {Nodes, {n1, n2}}, l \in {1, 9}}
=============================================================================
