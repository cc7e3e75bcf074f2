----------------------------- MODULE ScoresWorker -----------------------------
(***************************************************************************)
(* The score workers of proxima-scheduler/scheduler/scoresworker.go, one   *)
(* in each scheduler process.  At every interval a worker reads the        *)
(* average latencies and the request rates from the database, moves the    *)
(* weights of the edges towards their share of the requests, scores the    *)
(* nodes by their weighted latency and saves its map of scores.  All       *)
(* workers save to the same series.                                        *)
(*                                                                         *)
(* A latency stands for its rank; weights are whole parts of Scale.  A     *)
(* score is 1 / (1 + exp(2x - 1)), where x is how far the weighted latency *)
(* is from the least to the greatest one: it is represented by the         *)
(* fraction x = far / range, and a smaller x is a better score.            *)
(***************************************************************************)
EXTENDS Integers, FiniteSets, FiniteSetsExt

CONSTANTS
  Workers,    \* score workers
  Edges,      \* edge nodes: sources of pings, and targets as well
  Nodes,      \* other nodes
  Latencies,  \* average latencies
  Worlds,     \* [pings, requests] the databases may hold
  Scale,      \* parts of a weight of one
  Hour,       \* how far GetNodeScore reaches back, in intervals (60m)
  Changes,    \* bound: how often the world changes, and workers restart
  Faults,     \* bound: queries that fail
  None

Targets == Edges \cup Nodes

ASSUME ConstantsAssumption ==
  /\ Latencies \subseteq Nat /\ None \notin Latencies
  /\ Worlds \subseteq [pings : [Edges -> [Targets -> Latencies \cup {None}]],
                       requests : SUBSET Edges]
  /\ Scale \in Nat \ {0} /\ Hour \in Nat /\ Changes \in Nat /\ Faults \in Nat
  /\ IsFiniteSet(Edges) /\ IsFiniteSet(Nodes) /\ Edges \cap Nodes = {}

VARIABLES
  world,     \* pings of the last two minutes; edges with a request rate
  weights,   \* EdgeWeights of a worker
  scores,    \* Scores of a worker
  round,     \* locals of scoreNodes
  due,       \* whether the ticker of a worker holds a tick
  saved,     \* node_scores in the database: the last point of a node
  changes, faults

vars == <<world, weights, scores, round, due, saved, changes, faults>>

NoPings == [e \in Edges |-> [d \in Targets |-> None]]
Score   == [far : Nat, range : Nat]
Round   == [pc : {"idle", "weigh", "score", "save"},
            pings : [Edges -> [Targets -> Latencies \cup {None}]]]
Idle    == [pc |-> "idle", pings |-> NoPings]
Never   == Hour + 1

TypeOK ==
  /\ world \in Worlds
  /\ weights \in [Workers -> [Edges -> 0..Scale]]
  /\ scores \in [Workers -> [Nodes -> Score \cup {None}]]
  /\ round \in [Workers -> Round]
  /\ due \in [Workers -> BOOLEAN]
  /\ saved \in [Nodes -> [age : 0..Never, score : Score \cup {None}]]
  /\ changes \in 0..Changes /\ faults \in 0..Faults

Init ==
  /\ world \in Worlds
  /\ weights = [w \in Workers |-> [e \in Edges |-> 0]]
  /\ scores = [w \in Workers |-> [n \in Nodes |-> None]]
  /\ round = [w \in Workers |-> Idle]
  /\ due = [w \in Workers |-> FALSE]
  /\ saved = [n \in Nodes |-> [age |-> Never, score |-> None]]
  /\ changes = Changes /\ faults = Faults

(* The queries of a round: average latencies, and edges with requests.     *)
GetAveragePingTimeByEdges   == world.pings
GetAggregatedRPMByEdgeProxy == world.requests

Answers == UNCHANGED faults
Fails   == faults > 0 /\ faults' = faults - 1

-----------------------------------------------------------------------------
(* scoreNodes: GetAveragePingTimeByEdges, or the round is over.            *)
ReadPings(w) ==
  /\ round[w].pc = "idle" /\ due[w]
  /\ due' = [due EXCEPT ![w] = FALSE]
  /\ \/ Answers /\ round' = [round EXCEPT ![w] = [pc |-> "weigh", pings |-> GetAveragePingTimeByEdges]]
     \/ Fails /\ UNCHANGED round
  /\ UNCHANGED <<world, weights, scores, saved, changes>>

(* The edges with a request rate get a weight between the old one and      *)
(* their share, which is never zero if one of the two is not; the others   *)
(* keep what they have.                                                    *)
Shares(requests) == {share \in [requests -> 1..Scale] :
  SumFunctionOnSet(share, requests) = Scale}
Between(old, share, new) ==
  /\ (old <= new /\ new <= share) \/ (share <= new /\ new <= old)
  /\ old + share > 0 => new > 0
Smoothed(old, requests) == {new \in [Edges -> 0..Scale] :
  \E share \in Shares(requests) : \A e \in Edges :
    IF e \in requests THEN Between(old[e], share[e], new[e]) ELSE new[e] = old[e]}

(* initializeEqualEdgeWeights, for the edges that measured anything.       *)
Measuring(pings) == {e \in Edges : \E d \in Targets : pings[e][d] # None}
Equal(old, measuring) == [e \in Edges |->
  IF e \in measuring THEN Scale \div Cardinality(measuring) ELSE old[e]]

Smooth(w, requests) ==
  /\ Answers /\ requests # {}
  /\ weights' \in {[weights EXCEPT ![w] = new] : new \in Smoothed(weights[w], requests)}
  /\ round' = [round EXCEPT ![w].pc = "score"]
GiveUp(w) == round' = [round EXCEPT ![w] = Idle] /\ UNCHANGED weights

(* MUTANT of ReadRequests: no rates is an error, as no edges are.          *)
ReadRequestsOrFail(w) ==
  /\ round[w].pc = "weigh"
  /\ \/ Smooth(w, GetAggregatedRPMByEdgeProxy)
     \/ (Fails \/ (Answers /\ GetAggregatedRPMByEdgeProxy = {})) /\ GiveUp(w)
  /\ UNCHANGED <<world, scores, due, saved, changes>>

(* calculateEdgeWeights: without an answer or rows the weights are made    *)
(* equal, and without edges the round is over.                             *)
ReadRequests(w) ==
  LET measuring == Measuring(round[w].pings) IN
  /\ round[w].pc = "weigh"
  /\ \/ Smooth(w, GetAggregatedRPMByEdgeProxy)
     \/ /\ Fails \/ (Answers /\ GetAggregatedRPMByEdgeProxy = {})
        /\ \/ measuring = {} /\ GiveUp(w)
           \/ /\ measuring # {}
              /\ weights' = [weights EXCEPT ![w] = Equal(@, measuring)]
              /\ round' = [round EXCEPT ![w].pc = "score"]
  /\ UNCHANGED <<world, scores, due, saved, changes>>

-----------------------------------------------------------------------------
(* The rest of scoreNodes, over the latencies to nodes; edge nodes among   *)
(* the targets are skipped.                                                *)
Seen(pings, n)    == {e \in Edges : pings[e][n] # None}
Measured(pings)   == {n \in Nodes : Seen(pings, n) # {}}
AllLatencies(pings) == {pings[e][n] : e \in Edges, n \in Nodes} \ {None}
Lmin(pings) == Min(AllLatencies(pings))
(* MUTANT of Lmax: it starts anew with each edge.                          *)
LmaxOfEdge(pings) ==
  LET e == CHOOSE e \in Edges : \E n \in Nodes : pings[e][n] # None IN
  Max({pings[e][n] : n \in Nodes} \ {None})
Lmax(pings) == Max(AllLatencies(pings))
(* With no latency at all Lmin is the greatest number and Lmax is zero.    *)
NoVariance(pings) == AllLatencies(pings) # {} /\ Lmin(pings) = Lmax(pings)

WeightSum(weight, pings, n) == SumFunctionOnSet(weight, Seen(pings, n))
WeightedLatency(weight, pings, n) ==
  SumFunction([e \in Seen(pings, n) |-> weight[e] * pings[e][n]])

(* MUTANT of ScoreOf: the sum is not divided by the weights of its edges.  *)
ScoreOfSum(weight, pings, n) ==
  [far   |-> WeightedLatency(weight, pings, n) - Scale * Lmin(pings),
   range |-> Scale * (Lmax(pings) - Lmin(pings))]
(* MUTANT of ScoreOf: the sign of the argument of exp is swapped.          *)
ScoreOfFar(weight, pings, n) ==
  LET sum == WeightSum(weight, pings, n) IN
  [far   |-> sum * Lmax(pings) - WeightedLatency(weight, pings, n),
   range |-> sum * (Lmax(pings) - Lmin(pings))]
(* Where all weights are zero, zero is divided by zero.                    *)
ScoreOf(weight, pings, n) ==
  LET sum == WeightSum(weight, pings, n) IN
  [far   |-> WeightedLatency(weight, pings, n) - sum * Lmin(pings),
   range |-> sum * (Lmax(pings) - Lmin(pings))]
IsNaN(score) == score.range = 0

ScoreNodes(w) ==
  LET pings == round[w].pings IN
  /\ round[w].pc = "score"
  /\ IF NoVariance(pings)
     THEN round' = [round EXCEPT ![w] = Idle] /\ UNCHANGED scores
     ELSE /\ scores' = [scores EXCEPT ![w] = [n \in Nodes |->
               IF n \in Measured(pings) THEN ScoreOf(weights[w], pings, n) ELSE @[n]]]
          /\ round' = [round EXCEPT ![w].pc = "save"]
  /\ UNCHANGED <<world, weights, due, saved, changes, faults>>

(* SaveNodeScores saves the whole map, also the scores of earlier rounds;  *)
(* the client refuses a point that is not a number.                        *)
SaveNodeScores(w) ==
  /\ round[w].pc = "save"
  /\ saved' = [n \in Nodes |->
       IF scores[w][n] = None \/ IsNaN(scores[w][n]) THEN saved[n]
       ELSE [age |-> 0, score |-> scores[w][n]]]
  /\ round' = [round EXCEPT ![w] = Idle]
  /\ UNCHANGED <<world, weights, scores, due, changes, faults>>

-----------------------------------------------------------------------------
(* The environment.                                                        *)
Older(row) == IF row.age >= Hour THEN [age |-> Never, score |-> None]
              ELSE [row EXCEPT !.age = @ + 1]

(* An interval passes; the rounds of the last one are over.                *)
Tick ==
  /\ \A w \in Workers : ~due[w] /\ round[w].pc = "idle"
  /\ due' = [w \in Workers |-> TRUE]
  /\ saved' = [n \in Nodes |-> Older(saved[n])]
  /\ UNCHANGED <<world, weights, scores, round, changes, faults>>

Change ==
  /\ changes > 0 /\ changes' = changes - 1
  /\ world' \in Worlds
  /\ UNCHANGED <<weights, scores, round, due, saved, faults>>

Restart(w) ==
  /\ changes > 0 /\ changes' = changes - 1
  /\ weights' = [weights EXCEPT ![w] = [e \in Edges |-> 0]]
  /\ scores' = [scores EXCEPT ![w] = [n \in Nodes |-> None]]
  /\ round' = [round EXCEPT ![w] = Idle]
  /\ due' = [due EXCEPT ![w] = FALSE]
  /\ UNCHANGED <<world, saved, faults>>

Step(w) == ReadPings(w) \/ ReadRequests(w) \/ ScoreNodes(w) \/ SaveNodeScores(w)

Next == (\E w \in Workers : Step(w) \/ Restart(w)) \/ Tick \/ Change
Spec == Init /\ [][Next]_vars
FairSpec == Spec /\ WF_vars(Tick) /\ \A w \in Workers : WF_vars(Step(w))

-----------------------------------------------------------------------------
(* Properties.                                                             *)

(* The weighted latency is a mean of latencies between Lmin and Lmax,      *)
(* whatever edges saw the node and whatever the weights have come to, so   *)
(* the argument of exp stays between -1 and 1 (scoresworker.go:133-139).   *)
ScoresInRange == \A w \in Workers, n \in Nodes :
  scores[w][n] # None => scores[w][n].far <= scores[w][n].range

NoWorse(a, b) == a.far * b.range <= b.far * a.range
(* No edge of es measured m to be farther away than an edge of fs did n.   *)
Closer(pings, es, fs, m, n) == \A e \in es, f \in fs : pings[e][m] <= pings[f][n]

(* A node that is closer scores no worse, although the two may have been   *)
(* seen by different edges whose weights do not add up to the same: either *)
(* every edge that counts saw it closer than any edge saw the other, or    *)
(* the same edges saw both and each saw it closer.  No score is missing,   *)
(* save for a node that was only seen by edges without weight.             *)
CloserScoresBetter == \A w \in Workers : round[w].pc = "save" =>
  LET pings == round[w].pings
      counting(n) == {e \in Seen(pings, n) : weights[w][e] > 0}
  IN \A m, n \in {k \in Measured(pings) : counting(k) # {}} :
       /\ ~IsNaN(scores[w][n])
       /\ \/ Closer(pings, counting(m), counting(n), m, n)
          \/ /\ Seen(pings, m) = Seen(pings, n)
             /\ \A e \in Seen(pings, m) : pings[e][m] <= pings[e][n]
          => NoWorse(scores[w][m], scores[w][n])

(* Once the world stays as it is, every node that an edge with requests    *)
(* sees has a score that GetNodeScore finds, unless all nodes are equally  *)
(* far (:127-130), and the scores in the database, which workers with      *)
(* different weights take turns to save, agree with the latencies.         *)
Busy == IF world.requests = {} THEN Edges ELSE world.requests
Scorable == {n \in Measured(world.pings) :
  Seen(world.pings, n) \cap Busy # {} /\ ~NoVariance(world.pings)}
ScoresFollow == <>[](\A m, n \in Scorable :
  /\ saved[n].age <= Hour
  /\ saved[m].age <= Hour
  /\ Closer(world.pings, Seen(world.pings, m), Seen(world.pings, n), m, n)
     => NoWorse(saved[m].score, saved[n].score))
=============================================================================
