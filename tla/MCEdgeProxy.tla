----------------------------- MODULE MCEdgeProxy -----------------------------
(* Small instances of EdgeProxy: two clusters with a proxy each.           *)
EXTENDS EdgeProxy

CONSTANTS x1, x2, c1, c2, p1, p2, p3, r1

LocalOf == [x \in {x1, x2} |-> IF x = x1 THEN c1 ELSE c2]
EdgeOf  == [c \in {c1, c2} |-> IF c = c1 THEN x1 ELSE x2]
PodsIn  == [p \in {p1, p2, p3} |-> IF p = p3 THEN c2 ELSE c1]
PodEach == [p \in {p1, p2} |-> IF p = p2 THEN c2 ELSE c1]
=============================================================================
