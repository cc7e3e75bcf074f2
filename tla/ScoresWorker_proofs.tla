-------------------------- MODULE ScoresWorker_proofs --------------------------
(* What holds of ScoresWorker for all workers, edges, nodes and latencies. *)
EXTENDS ScoresWorker, Sums_proofs

Weights == [Edges -> 0..Scale]
Pings   == [Edges -> [Targets -> Latencies \cup {None}]]

(* A worker that is about to save has scored every node that was measured  *)
(* by the weights and latencies it still has.                              *)
Scored(w) == round[w].pc = "save" =>
  /\ ~NoVariance(round[w].pings)
  /\ \A n \in Measured(round[w].pings) :
       scores[w][n] = ScoreOf(weights[w], round[w].pings, n)
IInv == TypeOK /\ ScoresInRange /\ \A w \in Workers : Scored(w)

-----------------------------------------------------------------------------
(* Numbers.                                                                *)

(* A finite set of numbers has a greatest one.                             *)
LEMMA Greatest ==
  ASSUME NEW S \in SUBSET Nat, IsFiniteSet(S), S # {}
  PROVE  \E x \in S : \A y \in S : x >= y
<1> DEFINE G == {s \in SUBSET S : s # {} => \E x \in s : \A y \in s : x >= y}
<1>1. ASSUME NEW s \in SUBSET S, \A t \in SUBSET s : t # s => t \in G PROVE s \in G
  <2>1. SUFFICES ASSUME s # {} PROVE \E x \in s : \A y \in s : x >= y
    OBVIOUS
  <2>2. PICK z \in s : TRUE
    BY <2>1
  <2>3. s \ {z} \in G
    BY <1>1
  <2>4. CASE s \ {z} = {}
    BY <2>2, <2>4
  <2>5. CASE s \ {z} # {}
    <3>1. PICK x \in s \ {z} : \A y \in s \ {z} : x >= y
      BY <2>3, <2>5
    <3>2. \A y \in s : y \in Nat
      OBVIOUS
    <3>3. CASE x >= z
      BY <3>1, <3>2, <3>3
    <3>4. CASE z >= x
      BY <3>1, <3>2, <3>4
    <3> QED
      BY <3>1, <3>2, <3>3, <3>4
  <2> QED
    BY <2>4, <2>5
<1>2. S \in G
  <2> HIDE DEF G
  <2> QED
    BY <1>1, SubsetInduction
<1> QED
  BY <1>2

(* There are finitely many latencies in the answer of a query, so that     *)
(* Lmin and Lmax are among them.                                           *)
LEMMA LatencyBounds ==
  ASSUME NEW pings \in Pings, NEW e0 \in Edges, NEW n0 \in Nodes, pings[e0][n0] # None
  PROVE  /\ Lmin(pings) \in Nat /\ Lmax(pings) \in Nat /\ Lmin(pings) <= Lmax(pings)
         /\ \A e \in Edges, n \in Nodes : pings[e][n] # None =>
              pings[e][n] \in Nat /\ Lmin(pings) <= pings[e][n] /\ pings[e][n] <= Lmax(pings)
         /\ AllLatencies(pings) # {}
<1> DEFINE all == {pings[e][n] : e \in Edges, n \in Nodes}
           A == AllLatencies(pings)
<1>1. \A e \in Edges, n \in Nodes : pings[e][n] \in Latencies \cup {None}
  BY DEF Pings, Targets
<1>2. A = all \ {None} /\ A \subseteq Nat /\ pings[e0][n0] \in A
  <2>1. A = all \ {None}
    BY DEF AllLatencies
  <2>2. \A y \in all : y \in Latencies \cup {None}
    BY <1>1
  <2>3. pings[e0][n0] \in all
    OBVIOUS
  <2> HIDE DEF all, A
  <2> QED
    BY <2>1, <2>2, <2>3, ConstantsAssumption
<1>3. IsFiniteSet(A)
  <2> DEFINE f == [x \in Edges \X Nodes |-> pings[x[1]][x[2]]]
  <2>1. f \in [Edges \X Nodes -> all]
    OBVIOUS
  <2>2. ASSUME NEW y \in all PROVE \E x \in Edges \X Nodes : f[x] = y
    <3>1. PICK e \in Edges, n \in Nodes : y = pings[e][n]
      BY <2>2
    <3>2. <<e, n>> \in Edges \X Nodes /\ f[<<e, n>>] = y
      BY <3>1
    <3> QED
      BY <3>2
  <2>3. f \in Surjection(Edges \X Nodes, all)
    <3> HIDE DEF f, all
    <3> QED
      BY <2>1, <2>2 DEF Surjection
  <2>4. IsFiniteSet(Edges \X Nodes)
    BY ConstantsAssumption, FS_Product
  <2>5. IsFiniteSet(all)
    BY <2>3, <2>4, FS_Surjection
  <2> QED
    BY <1>2, <2>5, FS_Subset
<1> HIDE DEF A
<1>4. Lmin(pings) \in A /\ \A y \in A : Lmin(pings) <= y
  <2>1. \E x \in A : \A y \in A : x <= y
    BY <1>2, Least
  <2>2. PICK x : x = Lmin(pings)
    OBVIOUS
  <2>3. x = CHOOSE z \in A : \A y \in A : z <= y
    BY <2>2 DEF Lmin, Min, A
  <2> QED
    BY <2>1, <2>2, <2>3
<1>5. Lmax(pings) \in A /\ \A y \in A : Lmax(pings) >= y
  <2>1. \E x \in A : \A y \in A : x >= y
    BY <1>2, <1>3, Greatest
  <2>2. PICK x : x = Lmax(pings)
    OBVIOUS
  <2>3. x = CHOOSE z \in A : \A y \in A : z >= y
    BY <2>2 DEF Lmax, Max, A
  <2> QED
    BY <2>1, <2>2, <2>3
<1>6. \A e \in Edges, n \in Nodes : pings[e][n] # None => pings[e][n] \in A
  BY <1>2
<1>7. Lmin(pings) \in Nat /\ Lmax(pings) \in Nat /\ \A y \in A : y \in Nat /\ Lmax(pings) >= y
  BY <1>2, <1>4, <1>5
<1>8. \A y \in A : y <= Lmax(pings)
  BY <1>7
<1> QED
  BY <1>2, <1>4, <1>5, <1>6, <1>7, <1>8 DEF A

-----------------------------------------------------------------------------
(* Scores.                                                                 *)

Products(weight, pings, n) == [e \in Seen(pings, n) |-> weight[e] * pings[e][n]]

(* The sums that a score is made of are numbers.                           *)
LEMMA SumTypes ==
  ASSUME NEW weight \in Weights, NEW pings \in Pings, NEW n \in Nodes
  PROVE  /\ IsFiniteSet(Seen(pings, n)) /\ Seen(pings, n) \subseteq Edges
         /\ \A e \in Seen(pings, n) :
              /\ weight[e] \in Nat /\ pings[e][n] \in Nat
              /\ Products(weight, pings, n)[e] \in Nat
              /\ Products(weight, pings, n)[e] = weight[e] * pings[e][n]
         /\ WeightSum(weight, pings, n) \in Nat
         /\ WeightSum(weight, pings, n) = SumFunctionOnSet(weight, Seen(pings, n))
         /\ WeightedLatency(weight, pings, n) \in Nat
         /\ WeightedLatency(weight, pings, n)
              = SumFunctionOnSet(Products(weight, pings, n), Seen(pings, n))
<1>1. PICK S : S = Seen(pings, n)
  OBVIOUS
<1>2. IsFiniteSet(S) /\ S \subseteq Edges
  BY <1>1, ConstantsAssumption, FS_Subset DEF Seen
<1>3. \A e \in S : weight[e] \in Nat
  BY <1>2, ConstantsAssumption DEF Weights
<1>4. \A e \in S : pings[e][n] \in Nat
  <2>1. \A e \in S : pings[e][n] \in Latencies \cup {None} /\ pings[e][n] # None
    BY <1>1, <1>2 DEF Seen, Pings, Targets
  <2> QED
    BY <2>1, ConstantsAssumption
<1>5. PICK f : f = Products(weight, pings, n)
  OBVIOUS
<1>6. \A e \in S : f[e] = weight[e] * pings[e][n]
  BY <1>1, <1>5 DEF Products
<1>7. \A e \in S : f[e] \in Nat
  BY <1>3, <1>4, <1>6
<1>8. WeightSum(weight, pings, n) = SumFunctionOnSet(weight, S)
  BY <1>1 DEF WeightSum
<1>9. WeightedLatency(weight, pings, n) = SumFunctionOnSet(f, S)
  <2>1. DOMAIN f = S
    BY <1>1, <1>5 DEF Products
  <2> QED
    BY <1>5, <2>1 DEF WeightedLatency, SumFunction, Products
<1>10. SumFunctionOnSet(weight, S) \in Nat /\ SumFunctionOnSet(f, S) \in Nat
  BY <1>2, <1>3, <1>7, SumType
<1> QED
  BY <1>1, <1>2, <1>3, <1>4, <1>5, <1>6, <1>7, <1>8, <1>9, <1>10

(* A weighted latency is a mean: it lies between what the sum of the       *)
(* weights is times the least and the greatest latency of the edges that   *)
(* have a weight.                                                          *)
LEMMA MeanAtLeast ==
  ASSUME NEW weight \in Weights, NEW pings \in Pings, NEW n \in Nodes, NEW c \in Nat,
         \A e \in Seen(pings, n) : weight[e] > 0 => c <= pings[e][n]
  PROVE  c * WeightSum(weight, pings, n) <= WeightedLatency(weight, pings, n)
<1>1. PICK S, f : S = Seen(pings, n) /\ f = Products(weight, pings, n)
  OBVIOUS
<1>2. \A a, b, d \in Nat : (a > 0 => b <= d) => b * a <= a * d
  OBVIOUS
<1>3. \A e \in S : f[e] \in Nat /\ weight[e] \in Nat /\ c * weight[e] <= f[e]
  BY <1>1, <1>2, SumTypes
<1>4. c * SumFunctionOnSet(weight, S) <= SumFunctionOnSet(f, S)
  BY <1>1, <1>3, SumTypes, SumScaledBelow
<1> QED
  BY <1>1, <1>4, SumTypes

(* The other bound.                                                        *)
LEMMA MeanAtMost ==
  ASSUME NEW weight \in Weights, NEW pings \in Pings, NEW n \in Nodes, NEW c \in Nat,
         \A e \in Seen(pings, n) : weight[e] > 0 => pings[e][n] <= c
  PROVE  WeightedLatency(weight, pings, n) <= c * WeightSum(weight, pings, n)
<1>1. PICK S, f : S = Seen(pings, n) /\ f = Products(weight, pings, n)
  OBVIOUS
<1>2. \A a, b, d \in Nat : (a > 0 => d <= b) => a * d <= b * a
  OBVIOUS
<1>3. \A e \in S : f[e] \in Nat /\ weight[e] \in Nat /\ f[e] <= c * weight[e]
  BY <1>1, <1>2, SumTypes
<1>4. SumFunctionOnSet(f, S) <= c * SumFunctionOnSet(weight, S)
  BY <1>1, <1>3, SumTypes, SumScaled
<1> QED
  BY <1>1, <1>4, SumTypes

(* A score is a fraction between zero and one, or zero over zero.          *)
LEMMA ScoreBounds ==
  ASSUME NEW weight \in Weights, NEW pings \in Pings, NEW n \in Measured(pings)
  PROVE  LET score == ScoreOf(weight, pings, n)
             sum   == WeightSum(weight, pings, n)
         IN  /\ score \in Score /\ score.far <= score.range
             /\ score.far = WeightedLatency(weight, pings, n) - sum * Lmin(pings)
             /\ score.range = sum * (Lmax(pings) - Lmin(pings))
             /\ Lmin(pings) \in Nat /\ Lmax(pings) - Lmin(pings) \in Nat
<1>1. n \in Nodes
  BY DEF Measured
<1>2. PICK e0 \in Edges : pings[e0][n] # None
  BY DEF Measured, Seen
<1>3. PICK lo \in Nat, hi \in Nat : lo = Lmin(pings) /\ hi = Lmax(pings) /\ lo <= hi
  BY <1>1, <1>2, LatencyBounds
<1>4. \A e \in Seen(pings, n) : lo <= pings[e][n] /\ pings[e][n] <= hi
  BY <1>1, <1>2, <1>3, LatencyBounds DEF Seen
<1>5. PICK s \in Nat, t \in Nat : /\ s = WeightSum(weight, pings, n)
                                  /\ t = WeightedLatency(weight, pings, n)
  BY <1>1, SumTypes
<1>6. lo * s <= t /\ t <= hi * s
  BY <1>1, <1>4, <1>5, MeanAtLeast, MeanAtMost
<1>7. t - s * lo \in Nat /\ s * (hi - lo) \in Nat /\ t - s * lo <= s * (hi - lo)
  <2>1. s * (hi - lo) = hi * s - lo * s
    OBVIOUS
  <2>2. hi - lo \in Nat
    BY <1>3
  <2>3. s * (hi - lo) \in Nat
    BY <2>2
  <2>4. s * lo = lo * s /\ lo * s \in Nat /\ hi * s \in Nat
    OBVIOUS
  <2> QED
    BY <1>6, <2>1, <2>3, <2>4
<1>8. ScoreOf(weight, pings, n) = [far |-> t - s * lo, range |-> s * (hi - lo)]
  BY <1>3, <1>5 DEF ScoreOf
<1>9. hi - lo \in Nat
  BY <1>3
<1> QED
  BY <1>3, <1>5, <1>7, <1>8, <1>9 DEF Score

-----------------------------------------------------------------------------
(* The invariant.                                                          *)

(* The assumptions, as the provers need them.                              *)
LEMMA Constants ==
  /\ Scale \in Nat \ {0} /\ Hour \in Nat /\ Never \in Nat /\ Never = Hour + 1
  /\ Changes \in Nat /\ Faults \in Nat
  /\ \A v \in Worlds : v.pings \in Pings /\ v.requests \in SUBSET Edges
  /\ NoPings \in Pings /\ Idle \in Round
<1>1. NoPings \in Pings
  BY DEF NoPings, Pings
<1>2. Idle \in Round
  BY <1>1 DEF Idle, Round, Pings
<1>3. \A v \in Worlds : v.pings \in Pings /\ v.requests \in SUBSET Edges
  BY ConstantsAssumption DEF Pings
<1> QED
  BY <1>1, <1>2, <1>3, ConstantsAssumption DEF Never

(* No worker has scored anything at first.                                 *)
LEMMA InitInv == Init => IInv
<1> SUFFICES ASSUME Init PROVE IInv
  OBVIOUS
<1>1. TypeOK
  <2>1. /\ world \in Worlds
        /\ scores \in [Workers -> [Nodes -> Score \cup {None}]]
        /\ due \in [Workers -> BOOLEAN]
    BY DEF Init
  <2>2. weights \in [Workers -> [Edges -> 0..Scale]] /\ round \in [Workers -> Round]
        /\ changes \in 0..Changes /\ faults \in 0..Faults
    BY Constants DEF Init
  <2>3. saved \in [Nodes -> [age : 0..Never, score : Score \cup {None}]]
    BY Constants DEF Init
  <2> QED
    BY <2>1, <2>2, <2>3 DEF TypeOK
<1>2. ScoresInRange /\ \A w \in Workers : Scored(w)
  BY DEF Init, ScoresInRange, Scored, Idle
<1> QED
  BY <1>1, <1>2 DEF IInv

(* A round begins.                                                         *)
LEMMA ReadPingsInv == ASSUME IInv, NEW w \in Workers, ReadPings(w) PROVE IInv'
<1>1. /\ world \in Worlds /\ world.pings \in Pings
      /\ round \in [Workers -> Round] /\ due \in [Workers -> BOOLEAN] /\ faults \in 0..Faults
  BY Constants DEF IInv, TypeOK
<1>2. PICK r : r = [pc |-> "weigh", pings |-> world.pings]
  OBVIOUS
<1>3. r \in Round /\ r.pc = "weigh"
  BY <1>1, <1>2 DEF Round, Pings
<1>4. round' = [round EXCEPT ![w] = r] \/ round' = round
  BY <1>2 DEF ReadPings, GetAveragePingTimeByEdges
<1>5. round' \in [Workers -> Round]
  BY <1>1, <1>3, <1>4
<1>6. due' \in [Workers -> BOOLEAN] /\ UNCHANGED <<world, weights, scores, saved, changes>>
  BY <1>1 DEF ReadPings
<1>7. faults' \in 0..Faults
  <2>1. faults' = faults \/ (faults > 0 /\ faults' = faults - 1)
    BY DEF ReadPings, Answers, Fails
  <2> QED
    BY <1>1, <2>1, Constants
<1>8. \A v \in Workers : Scored(v)'
  BY <1>1, <1>3, <1>4, <1>6 DEF IInv, Scored
<1>9. ScoresInRange'
  BY <1>6 DEF IInv, ScoresInRange
<1> QED
  BY <1>5, <1>6, <1>7, <1>8, <1>9 DEF IInv, TypeOK

(* A part of a number.                                                     *)
LEMMA Part == ASSUME NEW x \in Nat, NEW d \in Nat \ {0} PROVE x \div d \in 0..x
  OBVIOUS

(* The weights are smoothed, or made equal.                                *)
LEMMA ReadRequestsInv == ASSUME IInv, NEW w \in Workers, ReadRequests(w) PROVE IInv'
<1>1. /\ weights \in [Workers -> Weights] /\ round \in [Workers -> Round] /\ faults \in 0..Faults
      /\ round[w].pc = "weigh" /\ round[w].pings \in Pings /\ weights[w] \in Weights
  BY DEF IInv, TypeOK, Weights, ReadRequests, Round, Pings
<1>2. PICK s, m : s = [round[w] EXCEPT !.pc = "score"] /\ m = Measuring(round[w].pings)
  OBVIOUS
<1>3. s \in Round /\ s.pc = "score"
  <2>1. round[w] \in Round
    BY <1>1
  <2> QED
    BY <1>2, <2>1 DEF Round
<1>4. m \subseteq Edges /\ IsFiniteSet(m)
  <2>1. m \subseteq Edges
    BY <1>2 DEF Measuring
  <2> QED
    BY <2>1, ConstantsAssumption, FS_Subset
<1>5. /\ \/ \E new \in Weights : weights' = [weights EXCEPT ![w] = new]
         \/ weights' = weights
      /\ \/ round' = [round EXCEPT ![w] = s]
         \/ round' = [round EXCEPT ![w] = Idle]
  <2>1. CASE Smooth(w, GetAggregatedRPMByEdgeProxy)
    BY <1>2, <2>1 DEF Smooth, Smoothed, Weights
  <2>2. CASE GiveUp(w)
    BY <2>2 DEF GiveUp
  <2>3. CASE /\ m # {} /\ weights' = [weights EXCEPT ![w] = Equal(@, m)]
             /\ round' = [round EXCEPT ![w].pc = "score"]
    <3>1. Cardinality(m) \in Nat \ {0}
      BY <1>4, <2>3, FS_CardinalityType, FS_EmptySet
    <3>2. Scale \div Cardinality(m) \in 0..Scale
      BY <3>1, Part, Constants
    <3>3. Equal(weights[w], m) \in Weights
      BY <1>1, <3>2 DEF Equal, Weights
    <3> QED
      BY <1>1, <1>2, <2>3, <3>3
  <2> QED
    BY <1>2, <2>1, <2>2, <2>3 DEF ReadRequests
<1>6. weights' \in [Workers -> Weights]
  BY <1>1, <1>5
<1>7. round' \in [Workers -> Round]
  BY <1>1, <1>3, <1>5, Constants
<1>8. UNCHANGED <<world, scores, due, saved, changes>>
  BY DEF ReadRequests
<1>9. faults' \in 0..Faults
  <2>1. faults' = faults \/ (faults > 0 /\ faults' = faults - 1)
    BY DEF ReadRequests, Smooth, Answers, Fails
  <2> QED
    BY <1>1, <2>1, Constants
<1>10. ASSUME NEW v \in Workers PROVE Scored(v)'
  <2>1. CASE v = w
    <3>1. round'[v].pc # "save"
      BY <1>1, <1>3, <1>5, <2>1 DEF Idle
    <3> QED
      BY <3>1 DEF Scored
  <2>2. CASE v # w
    <3>1. round'[v] = round[v] /\ weights'[v] = weights[v] /\ scores'[v] = scores[v]
      BY <1>1, <1>5, <1>8, <2>2
    <3> QED
      BY <3>1 DEF IInv, Scored
  <2> QED
    BY <2>1, <2>2
<1>11. ScoresInRange'
  BY <1>8 DEF IInv, ScoresInRange
<1> QED
  BY <1>6, <1>7, <1>8, <1>9, <1>10, <1>11 DEF IInv, TypeOK, Weights

(* The nodes are scored.                                                   *)
LEMMA ScoreNodesInv == ASSUME IInv, NEW w \in Workers, ScoreNodes(w) PROVE IInv'
<1>1. /\ scores \in [Workers -> [Nodes -> Score \cup {None}]] /\ round \in [Workers -> Round]
      /\ round[w].pings \in Pings /\ weights[w] \in Weights
      /\ UNCHANGED <<world, weights, due, saved, changes, faults>>
  BY DEF IInv, TypeOK, Weights, ScoreNodes, Round, Pings
<1>2. PICK pings \in Pings, weight \in Weights : pings = round[w].pings /\ weight = weights[w]
  BY <1>1
<1>3. CASE NoVariance(pings)
  <2>1. round' = [round EXCEPT ![w] = Idle] /\ scores' = scores
    BY <1>2, <1>3 DEF ScoreNodes
  <2>2. round' \in [Workers -> Round]
    BY <1>1, <2>1, Constants
  <2>3. ASSUME NEW v \in Workers PROVE Scored(v)'
    <3>1. CASE v = w
      BY <1>1, <2>1, <3>1 DEF Scored, Idle
    <3>2. CASE v # w
      BY <1>1, <2>1, <3>2 DEF IInv, Scored
    <3> QED
      BY <3>1, <3>2
  <2> QED
    BY <1>1, <2>1, <2>2, <2>3 DEF IInv, TypeOK, ScoresInRange
<1>4. CASE ~NoVariance(pings)
  <2>1. PICK new : new = [n \in Nodes |->
          IF n \in Measured(pings) THEN ScoreOf(weight, pings, n) ELSE scores[w][n]]
    OBVIOUS
  <2>2. PICK s : s = [round[w] EXCEPT !.pc = "save"]
    OBVIOUS
  <2>3. scores' = [scores EXCEPT ![w] = new] /\ round' = [round EXCEPT ![w] = s]
    BY <1>1, <1>2, <1>4, <2>1, <2>2 DEF ScoreNodes
  <2>4. s \in Round /\ s.pc = "save" /\ s.pings = pings
    <3>1. round[w] \in Round
      BY <1>1
    <3> QED
      BY <1>2, <2>2, <3>1 DEF Round
  <2>5. ASSUME NEW n \in Nodes
        PROVE  new[n] \in Score \cup {None} /\ (new[n] # None => new[n].far <= new[n].range)
    <3>1. CASE n \in Measured(pings)
      <4>1. new[n] = ScoreOf(weight, pings, n)
        BY <2>1, <3>1
      <4> QED
        BY <3>1, <4>1, ScoreBounds
    <3>2. CASE n \notin Measured(pings)
      <4>1. new[n] = scores[w][n]
        BY <2>1, <3>2
      <4> QED
        BY <1>1, <4>1 DEF IInv, ScoresInRange
    <3> QED
      BY <3>1, <3>2
  <2>6. new \in [Nodes -> Score \cup {None}]
    BY <2>1, <2>5
  <2>7. scores' \in [Workers -> [Nodes -> Score \cup {None}]] /\ round' \in [Workers -> Round]
    BY <1>1, <2>3, <2>4, <2>6
  <2>8. \A v \in Workers : scores'[v] = (IF v = w THEN new ELSE scores[v])
                           /\ round'[v] = (IF v = w THEN s ELSE round[v])
    BY <1>1, <2>3
  <2>9. ScoresInRange'
    BY <2>5, <2>8 DEF IInv, ScoresInRange
  <2>10. ASSUME NEW v \in Workers PROVE Scored(v)'
    <3>1. CASE v = w
      <4>1. \A n \in Measured(pings) : new[n] = ScoreOf(weight, pings, n)
        BY <2>1 DEF Measured
      <4> QED
        BY <1>1, <1>2, <1>4, <2>4, <2>8, <3>1, <4>1 DEF Scored
    <3>2. CASE v # w
      BY <1>1, <2>8, <3>2 DEF IInv, Scored
    <3> QED
      BY <3>1, <3>2
  <2> QED
    BY <1>1, <2>7, <2>9, <2>10 DEF IInv, TypeOK
<1> QED
  BY <1>3, <1>4

(* The scores are saved.                                                   *)
LEMMA SaveInv == ASSUME IInv, NEW w \in Workers, SaveNodeScores(w) PROVE IInv'
<1>1. /\ scores \in [Workers -> [Nodes -> Score \cup {None}]] /\ round \in [Workers -> Round]
      /\ saved \in [Nodes -> [age : 0..Never, score : Score \cup {None}]]
      /\ UNCHANGED <<world, weights, scores, due, changes, faults>>
      /\ round' = [round EXCEPT ![w] = Idle]
  BY DEF IInv, TypeOK, SaveNodeScores
<1>2. saved' \in [Nodes -> [age : 0..Never, score : Score \cup {None}]]
  <2>1. ASSUME NEW n \in Nodes
        PROVE  [age |-> 0, score |-> scores[w][n]] \in [age : 0..Never, score : Score \cup {None}]
    BY <1>1, Constants
  <2> QED
    BY <1>1, <2>1 DEF SaveNodeScores
<1>3. round' \in [Workers -> Round]
  BY <1>1, Constants
<1>4. ASSUME NEW v \in Workers PROVE Scored(v)'
  <2>1. CASE v = w
    BY <1>1, <2>1 DEF Scored, Idle
  <2>2. CASE v # w
    BY <1>1, <2>2 DEF IInv, Scored
  <2> QED
    BY <2>1, <2>2
<1> QED
  BY <1>1, <1>2, <1>3, <1>4 DEF IInv, TypeOK, ScoresInRange

(* An interval passes.                                                     *)
LEMMA TickInv == ASSUME IInv, Tick PROVE IInv'
<1>1. /\ saved \in [Nodes -> [age : 0..Never, score : Score \cup {None}]]
      /\ UNCHANGED <<world, weights, scores, round, changes, faults>>
      /\ due' \in [Workers -> BOOLEAN]
      /\ saved' = [n \in Nodes |-> Older(saved[n])]
  BY DEF IInv, TypeOK, Tick
<1>2. ASSUME NEW row \in [age : 0..Never, score : Score \cup {None}]
      PROVE  Older(row) \in [age : 0..Never, score : Score \cup {None}]
  <2>1. CASE row.age >= Hour
    BY <2>1, Constants DEF Older
  <2>2. CASE ~ (row.age >= Hour)
    <3>1. row.age + 1 \in 0..Never
      BY <2>2, Constants
    <3>2. Older(row) = [row EXCEPT !.age = row.age + 1]
      BY <2>2 DEF Older
    <3> QED
      BY <3>1, <3>2
  <2> QED
    BY <2>1, <2>2
<1>3. saved' \in [Nodes -> [age : 0..Never, score : Score \cup {None}]]
  BY <1>1, <1>2
<1> QED
  BY <1>1, <1>3 DEF IInv, TypeOK, ScoresInRange, Scored

(* The databases get another content.                                      *)
LEMMA ChangeInv == ASSUME IInv, Change PROVE IInv'
<1>1. changes' \in 0..Changes
  BY Constants DEF IInv, TypeOK, Change
<1> QED
  BY <1>1 DEF IInv, TypeOK, Change, ScoresInRange, Scored

(* A worker forgets all it knew.                                           *)
LEMMA RestartInv == ASSUME IInv, NEW w \in Workers, Restart(w) PROVE IInv'
<1>1. /\ weights \in [Workers -> Weights] /\ round \in [Workers -> Round]
      /\ scores \in [Workers -> [Nodes -> Score \cup {None}]] /\ due \in [Workers -> BOOLEAN]
      /\ changes \in 0..Changes
      /\ UNCHANGED <<world, saved, faults>>
  BY DEF IInv, TypeOK, Restart, Weights
<1>2. PICK none, zero : none = [n \in Nodes |-> None] /\ zero = [e \in Edges |-> 0]
  OBVIOUS
<1>3. none \in [Nodes -> Score \cup {None}] /\ zero \in Weights
  BY <1>2, Constants DEF Weights
<1>4. /\ weights' = [weights EXCEPT ![w] = zero] /\ scores' = [scores EXCEPT ![w] = none]
      /\ round' = [round EXCEPT ![w] = Idle] /\ due' = [due EXCEPT ![w] = FALSE]
      /\ changes > 0 /\ changes' = changes - 1
  BY <1>2 DEF Restart
<1>5. weights' \in [Workers -> Weights] /\ scores' \in [Workers -> [Nodes -> Score \cup {None}]]
  BY <1>1, <1>3, <1>4
<1>6. round' \in [Workers -> Round] /\ due' \in [Workers -> BOOLEAN]
  BY <1>1, <1>4, Constants
<1>7. changes' \in 0..Changes
  BY <1>1, <1>4, Constants
<1>8. ScoresInRange'
  BY <1>1, <1>2, <1>4 DEF IInv, ScoresInRange
<1>9. ASSUME NEW v \in Workers PROVE Scored(v)'
  <2>1. CASE v = w
    BY <1>1, <1>4, <2>1 DEF Scored, Idle
  <2>2. CASE v # w
    <3>1. round'[v] = round[v] /\ weights'[v] = weights[v] /\ scores'[v] = scores[v]
      BY <1>1, <1>4, <2>2
    <3> QED
      BY <3>1 DEF IInv, Scored
  <2> QED
    BY <2>1, <2>2
<1> QED
  BY <1>1, <1>5, <1>6, <1>7, <1>8, <1>9 DEF IInv, TypeOK, Weights

(* IInv is inductive.                                                      *)
LEMMA NextInv == ASSUME IInv, [Next]_vars PROVE IInv'
<1>1. CASE UNCHANGED vars
  BY <1>1 DEF vars, IInv, TypeOK, ScoresInRange, Scored
<1> QED
  BY <1>1, ReadPingsInv, ReadRequestsInv, ScoreNodesInv, SaveInv, TickInv, ChangeInv, RestartInv
     DEF Next, Step

(* The inductive invariant of the score workers.                           *)
THEOREM Invariance == Spec => []IInv
  BY InitInv, NextInv, PTL DEF Spec

(* The maps of the workers and the saved scores are well typed: in         *)
(* particular the numerator and the denominator of a score are no less     *)
(* than zero.                                                              *)
THEOREM TypeCorrect == Spec => []TypeOK
<1>1. IInv => TypeOK
  BY DEF IInv
<1> QED
  BY <1>1, Invariance, PTL

(* The argument of exp stays in its range (scoresworker.go:133-139),       *)
(* whatever edges saw a node and whatever the weights have come to.        *)
THEOREM ScoresInRangeHolds == Spec => []ScoresInRange
<1>1. IInv => ScoresInRange
  BY DEF IInv
<1> QED
  BY <1>1, Invariance, PTL

-----------------------------------------------------------------------------
(* Closer nodes.                                                           *)

Counting(weight, pings, n) == {e \in Seen(pings, n) : weight[e] > 0}

(* A node that an edge with a weight sees has a sum of weights.            *)
LEMMA SumPositive ==
  ASSUME NEW weight \in Weights, NEW pings \in Pings, NEW n \in Nodes,
         Counting(weight, pings, n) # {}
  PROVE  WeightSum(weight, pings, n) > 0
<1>1. PICK e \in Seen(pings, n) : weight[e] > 0
  BY DEF Counting
<1>2. PICK S : S = Seen(pings, n)
  OBVIOUS
<1>3. IsFiniteSet(S) /\ \A x \in S : weight[x] \in Nat
  BY <1>2, SumTypes
<1>4. SumFunctionOnSet(weight, S) = weight[e] + SumFunctionOnSet(weight, S \ {e})
  BY <1>1, <1>2, <1>3, SumTakeOut
<1>5. SumFunctionOnSet(weight, S \ {e}) \in Nat
  <2>1. IsFiniteSet(S \ {e})
    BY <1>3, FS_RemoveElement
  <2> QED
    BY <1>3, <2>1, SumType
<1>6. weight[e] \in Nat
  BY <1>1, <1>2, <1>3
<1> QED
  BY <1>1, <1>2, <1>4, <1>5, <1>6, SumTypes

(* Means compare as the latencies they are made of: the sums are           *)
(* multiplied out here, as each is divided by its own sum of weights.      *)
LEMMA MeansCompare ==
  ASSUME NEW weight \in Weights, NEW pings \in Pings, NEW m \in Nodes, NEW n \in Nodes,
         Counting(weight, pings, n) # {},
         \/ Closer(pings, Counting(weight, pings, m), Counting(weight, pings, n), m, n)
         \/ /\ Seen(pings, m) = Seen(pings, n)
            /\ \A e \in Seen(pings, m) : pings[e][m] <= pings[e][n]
  PROVE  WeightedLatency(weight, pings, m) * WeightSum(weight, pings, n)
           <= WeightedLatency(weight, pings, n) * WeightSum(weight, pings, m)
<1>1. PICK a \in Nat, b \in Nat, s \in Nat, t \in Nat :
        /\ a = WeightedLatency(weight, pings, m) /\ s = WeightSum(weight, pings, m)
        /\ b = WeightedLatency(weight, pings, n) /\ t = WeightSum(weight, pings, n)
  BY SumTypes
<1>2. CASE Closer(pings, Counting(weight, pings, m), Counting(weight, pings, n), m, n)
  <2>1. PICK N : N = {pings[f][n] : f \in Counting(weight, pings, n)}
    OBVIOUS
  <2>2. N \in SUBSET Nat /\ N # {}
    <3>1. \A f \in Counting(weight, pings, n) : pings[f][n] \in Nat
      BY SumTypes DEF Counting
    <3> QED
      BY <2>1, <3>1
  <2>3. PICK c \in N : \A y \in N : c <= y
    BY <2>2, Least
  <2>4. PICK f \in Counting(weight, pings, n) : c = pings[f][n]
    BY <2>1, <2>3
  <2>5. c \in Nat
    BY <2>2, <2>3
  <2>6. \A e \in Seen(pings, m) : weight[e] > 0 => pings[e][m] <= c
    BY <1>2, <2>4 DEF Closer, Counting
  <2>7. \A e \in Seen(pings, n) : weight[e] > 0 => c <= pings[e][n]
    BY <2>1, <2>3 DEF Counting
  <2>8. a <= c * s /\ c * t <= b
    BY <1>1, <2>5, <2>6, <2>7, MeanAtMost, MeanAtLeast
  <2>9. a * t <= (c * s) * t /\ (c * t) * s <= b * s
    <3>1. \A x, y, z \in Nat : x <= y => x * z <= y * z
      OBVIOUS
    <3>2. c * s \in Nat /\ c * t \in Nat
      BY <2>5
    <3> QED
      BY <2>8, <3>1, <3>2
  <2>10. (c * s) * t = (c * t) * s
    BY <2>5
  <2>11. a * t \in Nat /\ b * s \in Nat /\ (c * s) * t \in Nat
    BY <2>5
  <2> QED
    BY <1>1, <2>9, <2>10, <2>11
<1>3. CASE /\ Seen(pings, m) = Seen(pings, n)
           /\ \A e \in Seen(pings, m) : pings[e][m] <= pings[e][n]
  <2>1. PICK S, f, g : /\ S = Seen(pings, m) /\ S = Seen(pings, n)
                       /\ f = Products(weight, pings, m) /\ g = Products(weight, pings, n)
    BY <1>3
  <2>2. s = t
    BY <1>1, <1>3, SumTypes
  <2>3. IsFiniteSet(S)
    BY <2>1, SumTypes
  <2>4. \A e \in S : f[e] \in Nat /\ g[e] \in Nat /\ f[e] <= 1 * g[e]
    <3> TAKE e \in S
    <3>1. PICK w \in Nat, x \in Nat, y \in Nat :
            w = weight[e] /\ x = pings[e][m] /\ y = pings[e][n] /\ x <= y
      BY <1>3, <2>1, SumTypes
    <3>2. f[e] = w * x /\ g[e] = w * y
      BY <2>1, <3>1, SumTypes
    <3>3. w * x <= w * y /\ w * x \in Nat /\ w * y \in Nat
      BY <3>1
    <3> QED
      BY <3>2, <3>3
  <2>5. SumFunctionOnSet(f, S) <= 1 * SumFunctionOnSet(g, S)
    BY <2>3, <2>4, SumScaled
  <2>6. a <= b
    <3>1. a = SumFunctionOnSet(f, S)
      BY <1>1, <2>1, SumTypes
    <3>2. b = SumFunctionOnSet(g, S)
      BY <1>1, <2>1, SumTypes
    <3> QED
      BY <2>5, <3>1, <3>2
  <2>7. a * s <= b * s
    BY <2>6
  <2> QED
    BY <1>1, <2>2, <2>7
<1> QED
  BY <1>2, <1>3

(* ... and so do the scores.                                               *)
LEMMA ScoresCompare ==
  ASSUME NEW weight \in Weights, NEW pings \in Pings,
         NEW m \in Measured(pings), NEW n \in Measured(pings),
         WeightedLatency(weight, pings, m) * WeightSum(weight, pings, n)
           <= WeightedLatency(weight, pings, n) * WeightSum(weight, pings, m)
  PROVE  NoWorse(ScoreOf(weight, pings, m), ScoreOf(weight, pings, n))
<1>1. m \in Nodes /\ n \in Nodes
  BY DEF Measured
<1>2. PICK a \in Nat, b \in Nat, s \in Nat, t \in Nat :
        /\ a = WeightedLatency(weight, pings, m) /\ s = WeightSum(weight, pings, m)
        /\ b = WeightedLatency(weight, pings, n) /\ t = WeightSum(weight, pings, n)
  BY <1>1, SumTypes
<1>3. PICK lo \in Nat, d \in Nat : lo = Lmin(pings) /\ d = Lmax(pings) - Lmin(pings)
  BY ScoreBounds
<1>4. PICK x, y : x = ScoreOf(weight, pings, m) /\ y = ScoreOf(weight, pings, n)
  OBVIOUS
<1>5. /\ x.far = a - s * lo /\ x.range = s * d
      /\ y.far = b - t * lo /\ y.range = t * d
  BY <1>2, <1>3, <1>4, ScoreBounds
<1>6. a * t <= b * s
  BY <1>2
<1>7. (a - s * lo) * t <= (b - t * lo) * s
  <2>1. (a - s * lo) * t = a * t - (s * lo) * t
    BY <1>3
  <2>2. (b - t * lo) * s = b * s - (t * lo) * s
    BY <1>3
  <2>3. (s * lo) * t = (t * lo) * s /\ (t * lo) * s \in Nat /\ a * t \in Nat /\ b * s \in Nat
    BY <1>3
  <2> QED
    BY <1>6, <2>1, <2>2, <2>3
<1>8. ((a - s * lo) * t) * d <= ((b - t * lo) * s) * d
  <2>1. \A u, v \in Int : u <= v => u * d <= v * d
    OBVIOUS
  <2>2. (a - s * lo) * t \in Int /\ (b - t * lo) * s \in Int
    BY <1>3
  <2> QED
    BY <1>7, <2>1, <2>2
<1>9. (a - s * lo) * (t * d) <= (b - t * lo) * (s * d)
  <2>1. \A u \in Int : \A p \in Nat : u * (p * d) = (u * p) * d
    OBVIOUS
  <2>2. a - s * lo \in Int /\ b - t * lo \in Int
    BY <1>3
  <2> QED
    BY <1>8, <2>1, <2>2
<1> QED
  BY <1>4, <1>5, <1>9 DEF NoWorse

(* When a round is about to be saved, a node that is closer than another   *)
(* scores no worse, and no score is missing, although each is a mean over  *)
(* other edges with other weights (scoresworker.go:105-140).               *)
THEOREM CloserScoresBetterHolds == Spec => []CloserScoresBetter
<1>1. ASSUME IInv, NEW w \in Workers, round[w].pc = "save",
             NEW pings, pings = round[w].pings,
             NEW m \in Measured(pings), NEW n \in Measured(pings),
             Counting(weights[w], pings, m) # {}, Counting(weights[w], pings, n) # {}
      PROVE  /\ ~IsNaN(scores[w][n])
             /\ \/ Closer(pings, Counting(weights[w], pings, m), Counting(weights[w], pings, n), m, n)
                \/ /\ Seen(pings, m) = Seen(pings, n)
                   /\ \A e \in Seen(pings, m) : pings[e][m] <= pings[e][n]
                => NoWorse(scores[w][m], scores[w][n])
  <2>1. PICK weight \in Weights : weight = weights[w]
    BY <1>1 DEF IInv, TypeOK, Weights
  <2>2. pings \in Pings
    BY <1>1 DEF IInv, TypeOK, Round, Pings
  <2>3. /\ scores[w][m] = ScoreOf(weight, pings, m) /\ scores[w][n] = ScoreOf(weight, pings, n)
        /\ ~NoVariance(pings)
    BY <1>1, <2>1 DEF IInv, Scored
  <2>4. m \in Nodes /\ n \in Nodes
    BY DEF Measured
  <2>5. WeightSum(weight, pings, n) > 0 /\ WeightSum(weight, pings, n) \in Nat
    BY <1>1, <2>1, <2>2, <2>4, SumPositive, SumTypes
  <2>6. Lmax(pings) - Lmin(pings) \in Nat /\ Lmax(pings) - Lmin(pings) # 0
    <3>1. PICK e0 \in Edges : pings[e0][n] # None
      BY DEF Measured, Seen
    <3>2. /\ Lmin(pings) \in Nat /\ Lmax(pings) \in Nat /\ Lmin(pings) <= Lmax(pings)
          /\ AllLatencies(pings) # {}
      BY <2>2, <2>4, <3>1, LatencyBounds
    <3>3. Lmin(pings) # Lmax(pings)
      BY <2>3, <3>2 DEF NoVariance
    <3> QED
      BY <3>2, <3>3
  <2>7. ~IsNaN(scores[w][n])
    <3>1. scores[w][n].range = WeightSum(weight, pings, n) * (Lmax(pings) - Lmin(pings))
      BY <2>2, <2>3, ScoreBounds
    <3>2. \A x, y \in Nat : x # 0 /\ y # 0 => x * y # 0
      OBVIOUS
    <3>3. WeightSum(weight, pings, n) # 0
      BY <2>5
    <3> QED
      BY <2>5, <2>6, <3>1, <3>2, <3>3 DEF IsNaN
  <2>8. ASSUME \/ Closer(pings, Counting(weight, pings, m), Counting(weight, pings, n), m, n)
               \/ /\ Seen(pings, m) = Seen(pings, n)
                  /\ \A e \in Seen(pings, m) : pings[e][m] <= pings[e][n]
        PROVE  NoWorse(scores[w][m], scores[w][n])
    <3>1. WeightedLatency(weight, pings, m) * WeightSum(weight, pings, n)
            <= WeightedLatency(weight, pings, n) * WeightSum(weight, pings, m)
      BY <1>1, <2>1, <2>2, <2>4, <2>8, MeansCompare
    <3> QED
      BY <2>2, <2>3, <3>1, ScoresCompare
  <2> QED
    BY <2>1, <2>7, <2>8
<1>2. IInv => CloserScoresBetter
  BY <1>1 DEF CloserScoresBetter, Counting
<1> QED
  BY <1>2, Invariance, PTL
=============================================================================
