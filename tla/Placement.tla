------------------------------ MODULE Placement ------------------------------
(***************************************************************************)
(* Where one pod goes: GetNodeScores, GetNodeIPForSchedule and the         *)
(* decision of handlePodReconciliation (proxima-scheduler/scheduler/       *)
(* scheduler.go, node_selector.go).  The caller's node scores are one      *)
(* snapshot, the latencies are another one for every selection, and the    *)
(* capacity of a node is asked anew in each of the two passes of a         *)
(* selection, so the world may change between any two reads.  A step is    *)
(* one read, or one turn of a loop.  The effect of a placement on the API  *)
(* servers is in Scheduler.                                                *)
(*                                                                         *)
(* Scores are integers standing for a float in (0, 1) on some fixed scale. *)
(***************************************************************************)
EXTENDS Naturals

CONSTANTS
  Nodes,     \* nodes of all clusters that are not edge nodes
  Edges,     \* EdgeProxies: the edges whose latencies count
  Scores, Latencies,
  Limited,   \* whether the pod carries max-latency-ms ...
  Limit,     \* ... and its value
  Worlds,    \* what the clusters and the database may hold at first
  Changes,   \* how often the world may change
  Faults,    \* how many reads may fail
  None

(* eligible: Ready and no NoSchedule taint; roomy: the allocatable cpu and *)
(* memory are at least the requests of this pod; latency[e][n]: the mean   *)
(* of the last 30s of pings, None if there is none.                        *)
World == [score : [Nodes -> Scores \cup {None}], eligible : SUBSET Nodes,
          roomy : SUBSET Nodes, latency : [Edges -> [Nodes -> Latencies \cup {None}]]]

ASSUME ConstantsAssumption ==
  /\ Scores \subseteq Nat \ {0} /\ Latencies \subseteq Nat /\ Limit \in Nat
  /\ Limited \in BOOLEAN
  /\ Changes \in Nat /\ Faults \in Nat
  /\ None \notin Nodes \cup Scores \cup Latencies
  /\ Worlds \subseteq World

VARIABLES
  world,     \* the clusters and the database
  node,      \* the node of the pod, None until it is placed
  dec,       \* locals of the decision that is being made
  changes, faults,
  calm       \* auxiliary: nothing changed or failed in this decision

vars == <<world, node, dec, changes, faults, calm>>

(* why: "place" in schedulePod; in handlePodReconciliation first "check",  *)
(* then "compare" for the selection that is compared with the current node *)
(* and "move" for the one of reschedulePod.                                *)
Decision ==
  [pc : {"idle", "scores", "edges", "best", "cands"},
   why : {"none", "place", "check", "compare", "move"},
   todo : SUBSET (Nodes \cup Edges),
   scores : [Nodes -> Scores \cup {None}],
   lats : [Edges -> [Nodes -> Latencies \cup {None}] \cup {None}],
   best : Nodes \cup {None}, cands : SUBSET Nodes]

NoScores == [n \in Nodes |-> None]
NoLats   == [e \in Edges |-> None]
Idle == [pc |-> "idle", why |-> "none", todo |-> {}, scores |-> NoScores,
         lats |-> NoLats, best |-> None, cands |-> {}]

TypeOK ==
  /\ world \in World
  /\ node \in Nodes \cup {None}
  /\ dec \in Decision
  /\ changes \in 0..Changes /\ faults \in 0..Faults /\ calm \in BOOLEAN

Init ==
  /\ world \in Worlds
  /\ node \in Nodes \cup {None}
  /\ dec = Idle
  /\ changes = Changes /\ faults = Faults /\ calm = TRUE

-----------------------------------------------------------------------------
(* The limit test: every edge that answered knows the node and is near     *)
(* enough; no edge at all is no objection.                                 *)
Meets(lats, n) == \A e \in Edges : lats[e] # None =>
                    lats[e][n] # None /\ lats[e][n] <= Limit
Qualifies(lats, n) == Limited => Meets(lats, n)

Known(scores) == {n \in Nodes : scores[n] # None}
ScoreOf(scores, n) == IF n \in Known(scores) THEN scores[n] ELSE 0

(* MUTANT of NearOptimal: epsilon is a half.                               *)
HalfOptimal(scores, best) == {n \in Known(scores) : 2 * scores[n] >= scores[best]}
(* score >= 0.9 * bestScore, and bestScore > currentScore * 1.2            *)
NearOptimal(scores, best) == {n \in Known(scores) : 10 * scores[n] >= 9 * scores[best]}
(* MUTANTS of MuchBetter: any better score will do; it must double.        *)
Better(new, current) == new > current
MuchBetter(new, current) == 5 * new > 6 * current

Selecting(why, scores) ==
  [Idle EXCEPT !.pc = "edges", !.why = why, !.todo = Edges, !.scores = scores]

Begins == calm' = TRUE /\ UNCHANGED <<world, changes, faults>>
Quiet == UNCHANGED <<world, changes, faults, calm>>
Fails == faults > 0 /\ faults' = faults - 1 /\ calm' = FALSE /\ UNCHANGED <<world, changes>>

(* schedulePod for a pod that has no node, a tick for one that has.        *)
Start ==
  /\ dec.pc = "idle"
  /\ dec' = [Idle EXCEPT !.pc = "scores", !.todo = Nodes,
                         !.why = IF node = None THEN "place" ELSE "check"]
  /\ UNCHANGED node /\ Begins

(* GetNodeScores passes over a node that is not ready or is tainted; one   *)
(* node without a score makes it fail.                                     *)
ReadScore(n) ==
  /\ dec.pc = "scores" /\ n \in dec.todo
  /\ dec' = IF n \notin world.eligible THEN [dec EXCEPT !.todo = @ \ {n}]
            ELSE IF world.score[n] = None THEN Idle
            ELSE [dec EXCEPT !.todo = @ \ {n}, !.scores[n] = world.score[n]]
  /\ UNCHANGED node /\ Quiet

ScoresRead ==
  /\ dec.pc = "scores" /\ dec.todo = {}
  /\ dec' = [dec EXCEPT !.pc = "edges", !.todo = Edges]
  /\ UNCHANGED node /\ Quiet

(* MUTANT of ReadEdge: a node without pings reads as zero.                 *)
ReadEdgeZero(e) ==
  /\ dec.pc = "edges" /\ e \in dec.todo
  /\ dec' = [dec EXCEPT !.todo = @ \ {e}, !.lats[e] =
       [n \in Nodes |-> IF world.latency[e][n] = None THEN 0 ELSE world.latency[e][n]]]
  /\ UNCHANGED node /\ Quiet

(* obtainEdgeNodeLatencies: an edge whose query fails is left out.         *)
ReadEdge(e) ==
  /\ dec.pc = "edges" /\ e \in dec.todo
  /\ \/ Quiet /\ dec' = [dec EXCEPT !.todo = @ \ {e}, !.lats[e] = world.latency[e]]
     \/ Fails /\ dec' = [dec EXCEPT !.todo = @ \ {e}]
  /\ UNCHANGED node

(* handlePodReconciliation: a pod over its limit is moved at once, any     *)
(* other one is compared with a node that would be chosen now.             *)
Check ==
  /\ dec.pc = "edges" /\ dec.todo = {} /\ dec.why = "check"
  /\ dec' = Selecting(IF Qualifies(dec.lats, node) THEN "compare" ELSE "move", dec.scores)
  /\ UNCHANGED node /\ Quiet

(* GetNodeIPForSchedule, first pass: the best node, in any order.          *)
EdgesRead ==
  /\ dec.pc = "edges" /\ dec.todo = {} /\ dec.why # "check"
  /\ dec' = [dec EXCEPT !.pc = "best", !.todo = Known(dec.scores)]
  /\ UNCHANGED node /\ Quiet

(* hasEnoughCapacity; a failed lookup counts as no.                        *)
HasEnoughCapacity(n, yes) == (Quiet /\ yes = (n \in world.roomy)) \/ (Fails /\ ~yes)

ConsiderBest(n) ==
  LET better == dec.best = None \/ ScoreOf(dec.scores, n) > ScoreOf(dec.scores, dec.best) IN
  /\ dec.pc = "best" /\ n \in dec.todo
  /\ \E fits \in BOOLEAN :
       /\ HasEnoughCapacity(n, fits)
       /\ dec' = [dec EXCEPT !.todo = @ \ {n},
                    !.best = IF fits /\ Qualifies(dec.lats, n) /\ better THEN n ELSE @]
  /\ UNCHANGED node

(* "no suitable node found", or on to the second pass over the nodes whose *)
(* score is within 10% of the best.                                        *)
BestFound ==
  /\ dec.pc = "best" /\ dec.todo = {}
  /\ dec' = IF dec.best = None THEN Idle
            ELSE [dec EXCEPT !.pc = "cands", !.todo = NearOptimal(dec.scores, dec.best)]
  /\ UNCHANGED node /\ Quiet

(* MUTANT of ConsiderCand: the latency limit is not tested again.          *)
ConsiderAnyCand(n) ==
  /\ dec.pc = "cands" /\ n \in dec.todo
  /\ \E fits \in BOOLEAN :
       /\ HasEnoughCapacity(n, fits)
       /\ dec' = [dec EXCEPT !.todo = @ \ {n}, !.cands = IF fits THEN @ \cup {n} ELSE @]
  /\ UNCHANGED node

ConsiderCand(n) ==
  /\ dec.pc = "cands" /\ n \in dec.todo
  /\ \E fits \in BOOLEAN :
       /\ HasEnoughCapacity(n, fits)
       /\ dec' = [dec EXCEPT !.todo = @ \ {n},
                    !.cands = IF fits /\ Qualifies(dec.lats, n) THEN @ \cup {n} ELSE @]
  /\ UNCHANGED node

NoCandidate ==
  /\ dec.pc = "cands" /\ dec.todo = {} /\ dec.cands = {}
  /\ dec' = Idle
  /\ UNCHANGED node /\ Quiet

Picks(n) == dec.pc = "cands" /\ dec.todo = {} /\ n \in dec.cands

(* pickWeightedByScore gives every candidate a positive weight.  The pick  *)
(* of "compare" only decides whether to select again, in reschedulePod.    *)
Compare(n) ==
  /\ Picks(n) /\ dec.why = "compare"
  /\ dec' = IF MuchBetter(dec.scores[n], ScoreOf(dec.scores, node))
            THEN Selecting("move", dec.scores) ELSE Idle
  /\ UNCHANGED node /\ Quiet

Place(n) ==
  /\ Picks(n) /\ dec.why \in {"place", "move"}
  /\ node' = n
  /\ dec' = Idle
  /\ Quiet

(* Any other call fails: a node list, a node lookup, the Create.           *)
GiveUp ==
  /\ dec.pc # "idle"
  /\ Fails
  /\ dec' = Idle
  /\ UNCHANGED node

-----------------------------------------------------------------------------
(* The score worker, the pingers and the clusters.                         *)
Change ==
  /\ changes > 0 /\ changes' = changes - 1 /\ calm' = FALSE
  /\ \E n \in Nodes :
       \/ \E v \in Scores \cup {None} : world' = [world EXCEPT !.score[n] = v]
       \/ \E e \in Edges, v \in Latencies \cup {None} :
            world' = [world EXCEPT !.latency[e][n] = v]
       \/ world' = [world EXCEPT !.eligible = (@ \ {n}) \cup ({n} \ @)]
       \/ world' = [world EXCEPT !.roomy = (@ \ {n}) \cup ({n} \ @)]
  /\ UNCHANGED <<node, dec, faults>>

Step ==
  \/ Start \/ ScoresRead \/ Check \/ EdgesRead \/ BestFound \/ NoCandidate
  \/ \E n \in Nodes : ReadScore(n) \/ ConsiderBest(n) \/ ConsiderCand(n)
                      \/ Compare(n) \/ Place(n)
  \/ \E e \in Edges : ReadEdge(e)

Next == Step \/ GiveUp \/ Change

Spec == Init /\ [][Next]_vars

(* The ticker calls ReconcilePods every ten seconds.                       *)
FairSpec == Spec /\ WF_vars(Step)

-----------------------------------------------------------------------------
(* Properties.                                                             *)

(* Whatever changes or fails meanwhile, a pod is put only on a node that   *)
(* met its limit for every edge that answered in that selection, and whose *)
(* score was within 10% of the best of the first pass; the first pass and  *)
(* the second repeat each other's tests (scheduler.go:666-692, :715-735).  *)
PickedQualifies == \A n \in Nodes : Picks(n) =>
  /\ Qualifies(dec.lats, n)
  /\ n \in NearOptimal(dec.scores, dec.best)

(* Of a decision during which nothing changes or fails: the selection that *)
(* decides to move a pod and the one that picks its new node are different *)
(* random picks (scheduler.go:475, :252), and yet a pod never moves for a  *)
(* worse node: it ends over its limit no more, or with a higher score.     *)
NowMeets(n) == Qualifies(world.latency, n)
NowScore(n) == IF n \in world.eligible /\ world.score[n] # None THEN world.score[n] ELSE 0
MoveImproves == [][ (calm /\ node # None /\ node' # node) =>
  /\ NowMeets(node')
  /\ NowMeets(node) => NowScore(node') > NowScore(node) ]_vars

(* The 10% within which a selection picks (:706) are less than the factor  *)
(* of 1.2 that a move takes (:475): whichever node is drawn, it is near    *)
(* the best of all that will do, and from there the pod is not moved until *)
(* something changes, so one undisturbed move is enough wherever it was;   *)
Suitable == {n \in world.eligible : n \in world.roomy /\ NowMeets(n)}
NearBest(n) == /\ n # None /\ NowMeets(n)
               /\ \A m \in Suitable : 10 * NowScore(n) >= 9 * NowScore(m)
MovesOnce == [][ calm => /\ node' # node => NearBest(node')
                         /\ NearBest(node) => node' = node ]_vars

(* ... the pod moves only finitely often, no ping-pong, if the world       *)
(* changes finitely often ...                                              *)
Settles == <>[][FALSE]_node

(* ... and if in the end some node will do it is on one that meets the     *)
(* limit with at least 0.9/1.2 = 3/4 of the best score, also when what was *)
(* read went stale, a read failed or its old node was drained.  One        *)
(* eligible node without a score prevents it, since GetNodeScores then     *)
(* fails (scheduler.go:592-595).                                           *)
AllScored == \A n \in world.eligible : world.score[n] # None
Content == /\ node # None
           /\ NowMeets(node)
           /\ \A n \in Suitable : 4 * NowScore(node) >= 3 * NowScore(n)
=============================================================================
