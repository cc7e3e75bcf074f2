---------------------------- MODULE MCScoresWorker ----------------------------
(* Small instances of ScoresWorker.                                        *)
EXTENDS ScoresWorker

CONSTANTS w1, w2, e1, e2, n1, n2

\* The edges e1 and e2 see the nodes n1 and n2 at these latencies, and each
\* other farther away than any node.
Far == 9
View(a, b, c, d) == [e \in Edges |-> [t \in Targets |->
  IF t \in Edges THEN Far ELSE
  IF e = e1 THEN (IF t = n1 THEN a ELSE b) ELSE (IF t = n1 THEN c ELSE d)]]

\* The edges agree; they disagree; each node has one edge that sees it; only
\* one node is measured; nothing is.
Views == {View(1, 2, 2, 4), View(1, 4, 4, 2), View(1, None, None, 4),
          View(1, 4, None, 2), View(None, None, None, 4), NoPings}
AllWorlds == {[pings |-> v, requests |-> r] : v \in Views, r \in {{}, {e1}, {e1, e2}}}
=============================================================================
