----------------------------- MODULE MCScheduler -----------------------------
(* Small instances of Scheduler.                                           *)
EXTENDS Scheduler, TLC

CONSTANTS s1, s2, c1, c2, n1, n2, a1

\* One scheduler; its own cluster, or two clusters with one node each.
OneHome   == [s \in {s1} |-> c1]
OneNode   == [n \in {n1} |-> c1]
FarNode   == [n \in {n1, n2} |-> IF n = n1 THEN c1 ELSE c2]
\* Two schedulers, each at home in its own cluster.
TwoHomes  == [s \in {s1, s2} |-> IF s = s1 THEN c1 ELSE c2]

\* ... which may trade places, each with its cluster and its node.
Swapped   == [x \in {s1, s2, c1, c2, n1, n2} |->
  CASE x = s1 -> s2 [] x = s2 -> s1 [] x = c1 -> c2
    [] x = c2 -> c1 [] x = n1 -> n2 [] x = n2 -> n1]
Mirror    == {p \in Permutations(DOMAIN Swapped) : p = Swapped \/ \A x \in DOMAIN p : p[x] = x}

One       == [a \in {a1} |-> 1]

Chances(submit, fault, failure, loss, crash) ==
  [submit |-> submit, fault |-> fault, failure |-> failure, loss |-> loss, crash |-> crash]
Failing   == Chances(1, 0, 2, 0, 0)
Faulty    == Chances(1, 1, 0, 1, 0)
Crashing  == Chances(1, 1, 0, 0, 1)
Twice     == Chances(2, 0, 1, 0, 0)
=============================================================================
