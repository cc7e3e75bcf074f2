---------------------------- MODULE Placement_proofs ----------------------------
(* What holds of Placement for all nodes, edges, scores and latencies.     *)
EXTENDS Placement, TLAPS

(* Whatever is a candidate has passed both tests, and whatever still may   *)
(* become one has passed the first.                                        *)
Tested == dec.pc = "cands" =>
  /\ dec.todo \subseteq NearOptimal(dec.scores, dec.best)
  /\ \A n \in dec.cands : n \in NearOptimal(dec.scores, dec.best) /\ Qualifies(dec.lats, n)
(* There are no candidates before the second pass.                         *)
NoneYet == dec.pc # "cands" => dec.cands = {}

IInv == TypeOK /\ Tested /\ NoneYet

-----------------------------------------------------------------------------
(* The locals of a decision at its start.                                  *)
LEMMA IdleFacts ==
  /\ Idle \in Decision /\ Idle.pc = "idle" /\ Idle.cands = {}
  /\ \A w \in {"place", "check"} :
       LET d == [Idle EXCEPT !.pc = "scores", !.todo = Nodes, !.why = w] IN
       /\ d \in Decision /\ d.pc = "scores" /\ d.cands = {} /\ d.why = w
       /\ d.todo = Nodes /\ d.scores = NoScores /\ d.lats = NoLats /\ d.best = None
<1>1. Idle \in Decision
  BY DEF Idle, Decision, NoScores, NoLats
<1> QED
  BY <1>1 DEF Idle, Decision

(* ... and at the start of a selection.                                    *)
LEMMA SelectingFacts ==
  ASSUME NEW w \in {"compare", "move"}, NEW s \in [Nodes -> Scores \cup {None}]
  PROVE  /\ Selecting(w, s) \in Decision
         /\ Selecting(w, s).pc = "edges" /\ Selecting(w, s).why = w
         /\ Selecting(w, s).todo = Edges /\ Selecting(w, s).scores = s
         /\ Selecting(w, s).lats = NoLats /\ Selecting(w, s).cands = {}
         /\ Selecting(w, s).best = None
<1>1. Selecting(w, s) \in Decision
  BY IdleFacts DEF Selecting, Decision
<1>2. /\ Selecting(w, s).pc = "edges" /\ Selecting(w, s).why = w
      /\ Selecting(w, s).todo = Edges /\ Selecting(w, s).scores = s
      /\ Selecting(w, s).lats = NoLats /\ Selecting(w, s).cands = {}
      /\ Selecting(w, s).best = None
  BY DEF Selecting, Idle
<1> QED
  BY <1>1, <1>2

(* Reads change nothing, or spend a fault.                                 *)
LEMMA ReadsType ==
  ASSUME TypeOK, Quiet \/ Fails \/ Begins, node' \in Nodes \cup {None}, dec' \in Decision
  PROVE  TypeOK'
<1>1. calm' \in BOOLEAN
  BY DEF TypeOK, Quiet, Fails, Begins
<1>2. world' \in World /\ changes' \in 0..Changes /\ faults' \in 0..Faults
  BY ConstantsAssumption DEF TypeOK, Quiet, Fails, Begins
<1> QED
  BY <1>1, <1>2 DEF TypeOK

(* A decision that has no candidates yet is tested.                        *)
LEMMA NotYet ==
  ASSUME TypeOK, Quiet \/ Fails \/ Begins, node' = node \/ node' \in Nodes,
         dec' \in Decision, dec'.pc # "cands", dec'.cands = {}
  PROVE  IInv'
<1>1. node' \in Nodes \cup {None}
  BY DEF TypeOK
<1> QED
  BY <1>1, ReadsType DEF IInv, Tested, NoneYet

-----------------------------------------------------------------------------
(* The invariant.                                                          *)

(* Nothing is decided at first.                                            *)
LEMMA InitInv == Init => IInv
  BY IdleFacts, ConstantsAssumption DEF Init, IInv, TypeOK, Tested, NoneYet

(* The reads before the second pass preserve IInv.                         *)
LEMMA ReadingInv ==
  ASSUME IInv,
         \/ Start \/ ScoresRead \/ Check \/ EdgesRead
         \/ \E n \in Nodes : ReadScore(n) \/ ConsiderBest(n)
         \/ \E e \in Edges : ReadEdge(e)
  PROVE  IInv'
<1>0. dec \in Decision /\ TypeOK /\ world \in World /\ node \in Nodes \cup {None}
  BY DEF IInv, TypeOK
<1>1. CASE Start
  BY <1>0, <1>1, IdleFacts, NotYet DEF Start
<1>2. CASE ScoresRead
  <2>1. dec' \in Decision /\ dec'.pc = "edges" /\ dec'.cands = {}
    BY <1>0, <1>2 DEF ScoresRead, Decision, IInv, NoneYet
  <2> QED
    BY <1>0, <1>2, <2>1, NotYet DEF ScoresRead
<1>3. CASE Check
  <2>1. PICK w \in {"compare", "move"} : dec' = Selecting(w, dec.scores)
    BY <1>3 DEF Check
  <2>2. dec.scores \in [Nodes -> Scores \cup {None}]
    BY <1>0 DEF Decision
  <2>3. dec' \in Decision /\ dec'.pc = "edges" /\ dec'.cands = {}
    BY <2>1, <2>2, SelectingFacts
  <2> QED
    BY <1>0, <1>3, <2>3, NotYet DEF Check
<1>4. CASE EdgesRead
  <2>1. dec' \in Decision /\ dec'.pc = "best" /\ dec'.cands = {}
    BY <1>0, <1>4 DEF EdgesRead, Decision, Known, IInv, NoneYet
  <2> QED
    BY <1>0, <1>4, <2>1, NotYet DEF EdgesRead
<1>5. ASSUME NEW n \in Nodes, ReadScore(n) PROVE IInv'
  <2>1. CASE dec' = [dec EXCEPT !.todo = @ \ {n}]
    <3>1. dec.pc = "scores" /\ dec.cands = {}
      BY <1>0, <1>5 DEF ReadScore, IInv, NoneYet
    <3>2. dec.todo \ {n} \in SUBSET (Nodes \cup Edges)
      BY <1>0 DEF Decision
    <3>3. dec' \in Decision /\ dec'.pc = "scores" /\ dec'.cands = {}
      BY <1>0, <2>1, <3>1, <3>2 DEF Decision
    <3> QED
      BY <1>0, <1>5, <3>3, NotYet DEF ReadScore
  <2>2. CASE dec' = Idle
    BY <1>0, <1>5, <2>2, IdleFacts, NotYet DEF ReadScore
  <2>3. CASE dec' = [dec EXCEPT !.todo = @ \ {n}, !.scores[n] = world.score[n]]
    <3>1. world.score[n] \in Scores \cup {None}
      BY <1>0 DEF World
    <3>2. dec.scores \in [Nodes -> Scores \cup {None}]
      BY <1>0 DEF Decision
    <3>3. PICK s \in [Nodes -> Scores \cup {None}] : s = [dec.scores EXCEPT ![n] = world.score[n]]
      BY <3>1, <3>2
    <3>4. dec' = [dec EXCEPT !.todo = @ \ {n}, !.scores = s]
      BY <2>3, <3>3
    <3>5. dec.pc = "scores" /\ dec.cands = {}
      BY <1>0, <1>5 DEF ReadScore, IInv, NoneYet
    <3>6. dec.todo \ {n} \in SUBSET (Nodes \cup Edges)
      BY <1>0 DEF Decision
    <3>7. dec' \in Decision /\ dec'.pc = "scores" /\ dec'.cands = {}
      BY <1>0, <3>4, <3>5, <3>6 DEF Decision
    <3> QED
      BY <1>0, <1>5, <3>7, NotYet DEF ReadScore
  <2> QED
    BY <1>5, <2>1, <2>2, <2>3 DEF ReadScore
<1>6. ASSUME NEW n \in Nodes, ConsiderBest(n) PROVE IInv'
  <2>1. PICK b \in Nodes \cup {None} : dec' = [dec EXCEPT !.todo = @ \ {n}, !.best = b]
    BY <1>0, <1>6 DEF ConsiderBest, Decision
  <2>2. dec' \in Decision /\ dec'.pc = "best" /\ dec'.cands = {}
    BY <1>0, <1>6, <2>1 DEF ConsiderBest, Decision, IInv, NoneYet
  <2> QED
    BY <1>0, <1>6, <2>2, NotYet DEF ConsiderBest, HasEnoughCapacity
<1>7. ASSUME NEW e \in Edges, ReadEdge(e) PROVE IInv'
  <2>1. world.latency[e] \in [Nodes -> Latencies \cup {None}]
    BY <1>0 DEF World
  <2>2. dec.lats \in [Edges -> [Nodes -> Latencies \cup {None}] \cup {None}]
    BY <1>0 DEF Decision
  <2>3. PICK l \in [Edges -> [Nodes -> Latencies \cup {None}] \cup {None}] :
          dec' = [dec EXCEPT !.todo = @ \ {e}, !.lats = l]
    <3>1. CASE dec' = [dec EXCEPT !.todo = @ \ {e}, !.lats[e] = world.latency[e]]
      <4>1. [dec.lats EXCEPT ![e] = world.latency[e]]
              \in [Edges -> [Nodes -> Latencies \cup {None}] \cup {None}]
        BY <2>1, <2>2
      <4> QED
        BY <3>1, <4>1
    <3>2. CASE dec' = [dec EXCEPT !.todo = @ \ {e}]
      <4>1. dec' = [dec EXCEPT !.todo = @ \ {e}, !.lats = dec.lats]
        BY <1>0, <3>2 DEF Decision
      <4> QED
        BY <2>2, <4>1
    <3> QED
      BY <1>7, <3>1, <3>2 DEF ReadEdge
  <2>4. dec' \in Decision /\ dec'.pc = "edges" /\ dec'.cands = {}
    BY <1>0, <1>7, <2>3 DEF ReadEdge, Decision, IInv, NoneYet
  <2> QED
    BY <1>0, <1>7, <2>4, NotYet DEF ReadEdge
<1> QED
  BY <1>1, <1>2, <1>3, <1>4, <1>5, <1>6, <1>7

(* The second pass, and what follows it.                                   *)
LEMMA PickingInv ==
  ASSUME IInv,
         \/ BestFound \/ NoCandidate
         \/ \E n \in Nodes : ConsiderCand(n) \/ Compare(n) \/ Place(n)
  PROVE  IInv'
<1>0. dec \in Decision /\ TypeOK /\ node \in Nodes \cup {None} /\ Tested
  BY DEF IInv, TypeOK
<1>1. CASE BestFound
  <2>1. CASE dec' = Idle
    BY <1>0, <1>1, <2>1, IdleFacts, NotYet DEF BestFound
  <2>2. CASE dec' = [dec EXCEPT !.pc = "cands", !.todo = NearOptimal(dec.scores, dec.best)]
    <3>1. NearOptimal(dec.scores, dec.best) \subseteq Nodes
      BY DEF NearOptimal, Known
    <3>2. /\ dec' \in Decision /\ dec'.cands = {}
          /\ dec'.todo = NearOptimal(dec'.scores, dec'.best)
      BY <1>0, <1>1, <2>2, <3>1 DEF BestFound, Decision, IInv, NoneYet
    <3>3. TypeOK' /\ dec'.pc = "cands"
      BY <1>0, <1>1, <2>2, <3>2, ReadsType DEF BestFound, Decision
    <3> QED
      BY <3>2, <3>3 DEF IInv, Tested, NoneYet
  <2> QED
    BY <1>1, <2>1, <2>2 DEF BestFound
<1>2. CASE NoCandidate
  BY <1>0, <1>2, IdleFacts, NotYet DEF NoCandidate
<1>3. ASSUME NEW n \in Nodes, ConsiderCand(n) PROVE IInv'
  <2>1. PICK c : /\ c = dec.cands \/ (c = dec.cands \cup {n} /\ Qualifies(dec.lats, n))
                 /\ dec' = [dec EXCEPT !.todo = @ \ {n}, !.cands = c]
    BY <1>3 DEF ConsiderCand
  <2>2. dec.pc = "cands" /\ n \in dec.todo /\ node' = node /\ (Quiet \/ Fails)
    BY <1>3 DEF ConsiderCand, HasEnoughCapacity
  <2>3. c \in SUBSET Nodes
    BY <1>0, <2>1 DEF Decision
  <2>4. /\ dec' \in Decision /\ dec'.pc = "cands" /\ dec'.todo = dec.todo \ {n} /\ dec'.cands = c
        /\ dec'.scores = dec.scores /\ dec'.lats = dec.lats /\ dec'.best = dec.best
    BY <1>0, <2>1, <2>2, <2>3 DEF Decision
  <2>5. TypeOK'
    BY <1>0, <2>2, <2>4, ReadsType
  <2> QED
    BY <1>0, <2>1, <2>2, <2>4, <2>5 DEF IInv, Tested, NoneYet
<1>4. ASSUME NEW n \in Nodes, Compare(n) PROVE IInv'
  <2>1. dec.scores \in [Nodes -> Scores \cup {None}]
    BY <1>0 DEF Decision
  <2>2. dec' = Selecting("move", dec.scores) \/ dec' = Idle
    BY <1>4 DEF Compare
  <2>3. dec' \in Decision /\ dec'.pc # "cands" /\ dec'.cands = {}
    BY <2>1, <2>2, SelectingFacts, IdleFacts
  <2> QED
    BY <1>0, <1>4, <2>3, NotYet DEF Compare
<1>5. ASSUME NEW n \in Nodes, Place(n) PROVE IInv'
  BY <1>0, <1>5, IdleFacts, NotYet DEF Place
<1> QED
  BY <1>1, <1>2, <1>3, <1>4, <1>5

(* IInv is inductive.                                                      *)
LEMMA NextInv == ASSUME IInv, [Next]_vars PROVE IInv'
<1>1. CASE GiveUp
  BY <1>1, IdleFacts, NotYet DEF GiveUp, IInv
<1>2. CASE Change
  <2>1. world' \in World
    <3>1. world \in World
      BY DEF IInv, TypeOK
    <3>2. ASSUME NEW n \in Nodes, NEW v \in Scores \cup {None},
                 world' = [world EXCEPT !.score[n] = v]
          PROVE  world' \in World
      <4>1. [world.score EXCEPT ![n] = v] \in [Nodes -> Scores \cup {None}]
        BY <3>1, <3>2 DEF World
      <4> QED
        BY <3>1, <3>2, <4>1 DEF World
    <3>3. ASSUME NEW n \in Nodes, NEW e \in Edges, NEW v \in Latencies \cup {None},
                 world' = [world EXCEPT !.latency[e][n] = v]
          PROVE  world' \in World
      <4>1. [world.latency[e] EXCEPT ![n] = v] \in [Nodes -> Latencies \cup {None}]
        BY <3>1, <3>3 DEF World
      <4> QED
        BY <3>1, <3>3, <4>1 DEF World
    <3>4. ASSUME NEW n \in Nodes, world' = [world EXCEPT !.eligible = (@ \ {n}) \cup ({n} \ @)]
          PROVE  world' \in World
      BY <3>1, <3>4 DEF World
    <3>5. ASSUME NEW n \in Nodes, world' = [world EXCEPT !.roomy = (@ \ {n}) \cup ({n} \ @)]
          PROVE  world' \in World
      BY <3>1, <3>5 DEF World
    <3> QED
      BY <1>2, <3>2, <3>3, <3>4, <3>5 DEF Change
  <2>2. calm' \in BOOLEAN
    BY <1>2 DEF Change
  <2>3. changes' \in 0..Changes
    BY <1>2, ConstantsAssumption DEF Change, IInv, TypeOK
  <2>4. TypeOK'
    BY <1>2, <2>1, <2>2, <2>3 DEF Change, IInv, TypeOK
  <2> QED
    BY <1>2, <2>4 DEF Change, IInv, Tested, NoneYet
<1>3. CASE UNCHANGED vars
  BY <1>3 DEF vars, IInv, TypeOK, Tested, NoneYet
<1> QED
  BY <1>1, <1>2, <1>3, ReadingInv, PickingInv DEF Next, Step

(* The inductive invariant of a decision.                                  *)
THEOREM Invariance == Spec => []IInv
  BY InitInv, NextInv, PTL DEF Spec

(* The world, the pod's node and a decision's locals are well typed.       *)
THEOREM TypeCorrect == Spec => []TypeOK
<1>1. IInv => TypeOK
  BY DEF IInv
<1> QED
  BY <1>1, Invariance, PTL

(* Whatever changes or fails during a decision, a pod is put only on a     *)
(* node that met its limit for every edge that answered, and whose score   *)
(* was near the best (scheduler.go:666-692, :715-735).                     *)
THEOREM PickedQualifiesHolds == Spec => []PickedQualifies
<1>1. IInv => PickedQualifies
  BY DEF IInv, Tested, PickedQualifies, Picks
<1> QED
  BY <1>1, Invariance, PTL

-----------------------------------------------------------------------------
(* While nothing changes or fails during a decision.                       *)

(* What a decision has read is what the world holds: the scores of the     *)
(* nodes it has come to, all of them eligible, and the latencies of the    *)
(* edges it has come to.                                                   *)
ScoresKept == dec.pc # "idle" => \A n \in Nodes :
  /\ dec.scores[n] # None => n \in world.eligible /\ dec.scores[n] = world.score[n]
  /\ n \in world.eligible /\ (dec.pc = "scores" => n \notin dec.todo) => dec.scores[n] # None
LatsKept == dec.pc \in {"edges", "best", "cands"} => \A e \in Edges :
  (dec.pc = "edges" => e \notin dec.todo) => dec.lats[e] = world.latency[e]

(* The nodes a selection may choose.                                       *)
Choosable == {n \in world.eligible : world.score[n] # None /\ n \in world.roomy /\ NowMeets(n)}

(* Why the pod is moved: it is over its limit, or one of those nodes is    *)
(* much better.                                                            *)
Reason ==
  /\ dec.why = "place" => node = None
  /\ dec.why = "compare" => NowMeets(node)
  /\ dec.why = "move" /\ NowMeets(node) =>
       \E m \in Choosable : MuchBetter(NowScore(m), NowScore(node))

(* The first pass finds the best of them, the second passes over no other. *)
FirstPass == dec.pc = "best" =>
  /\ dec.todo \subseteq Known(dec.scores)
  /\ dec.best # None => dec.best \in Choosable
  /\ \A n \in Choosable \ dec.todo : dec.best # None /\ NowScore(n) <= NowScore(dec.best)
SecondPass == dec.pc = "cands" =>
  /\ dec.best \in Choosable
  /\ \A n \in Choosable : NowScore(n) <= NowScore(dec.best)
  /\ dec.cands \subseteq Choosable

NoBestYet == dec.pc \in {"scores", "edges"} => dec.best = None

SInv == /\ IInv /\ calm /\ ScoresKept /\ LatsKept /\ Reason
        /\ NoBestYet /\ FirstPass /\ SecondPass

(* ... unless something changed or failed in this decision.                *)
CInv == IInv /\ (calm => SInv)

(* A selection's tests are those of the world.                             *)
LEMMA TestsNow ==
  ASSUME SInv, dec.pc \in {"edges", "best", "cands"}, dec.pc = "edges" => dec.todo = {}
  PROVE  \A n : Qualifies(dec.lats, n) <=> NowMeets(n)
<1>1. \A e \in Edges : dec.lats[e] = world.latency[e]
  BY DEF SInv, LatsKept
<1> QED
  BY <1>1 DEF Qualifies, Meets, NowMeets

(* ... and so are the scores it compares.                                  *)
LEMMA ScoresNow ==
  ASSUME SInv, dec.pc \in {"edges", "best", "cands"}
  PROVE  /\ \A n : ScoreOf(dec.scores, n) = NowScore(n)
         /\ \A n \in Known(dec.scores) : /\ n \in world.eligible /\ world.score[n] # None
                                         /\ dec.scores[n] = NowScore(n)
         /\ Choosable \subseteq Known(dec.scores)
<1>1. world.eligible \subseteq Nodes
  BY DEF SInv, IInv, TypeOK, World
<1>2. \A n \in Nodes : /\ dec.scores[n] # None => n \in world.eligible /\ dec.scores[n] = world.score[n]
                       /\ n \in world.eligible => dec.scores[n] # None
  BY DEF SInv, ScoresKept
<1> QED
  BY <1>1, <1>2 DEF Known, ScoreOf, NowScore, Choosable

(* A score is a number.                                                    *)
LEMMA NowScoreType == ASSUME TypeOK PROVE \A n : NowScore(n) \in Nat
<1>1. world.eligible \subseteq Nodes /\ world.score \in [Nodes -> Scores \cup {None}]
  BY DEF TypeOK, World
<1> QED
  BY <1>1, ConstantsAssumption DEF NowScore

(* No read of a decision that is still calm fails.                         *)
LEMMA StaysCalm ==
  ASSUME IInv, Step, ~Start, calm'
  PROVE  Quiet /\ world' = world /\ IInv'
<1>1. ~Fails
  BY DEF Fails
<1>2. \A n, yes : HasEnoughCapacity(n, yes) => Quiet
  BY <1>1 DEF HasEnoughCapacity
<1>3. \A n \in Nodes : ReadScore(n) \/ ConsiderBest(n) \/ ConsiderCand(n) \/ Compare(n) \/ Place(n)
                       => Quiet
  BY <1>2 DEF ReadScore, ConsiderBest, ConsiderCand, Compare, Place
<1>4. \A e \in Edges : ReadEdge(e) => Quiet
  BY <1>1 DEF ReadEdge
<1>5. Quiet
  BY <1>3, <1>4 DEF Step, ScoresRead, Check, EdgesRead, BestFound, NoCandidate
<1> QED
  BY <1>5, NextInv DEF Quiet, Next

(* The end of a decision: nothing is left to be wrong.                     *)
LEMMA Ends ==
  ASSUME SInv, IInv', calm', dec' = Idle
  PROVE  SInv'
<1>1. dec'.pc = "idle" /\ dec'.why = "none"
  BY DEF Idle
<1> QED
  BY <1>1 DEF SInv, ScoresKept, LatsKept, Reason, NoBestYet, FirstPass, SecondPass

(* What a step leaves as it is.                                            *)
LEMMA Kept ==
  ASSUME SInv, IInv', calm', world' = world, node' = node, dec.pc # "idle",
         dec'.why = dec.why, dec'.scores = dec.scores,
         dec'.pc = "scores" => dec.pc = "scores" /\ dec.todo \subseteq dec'.todo,
         dec.pc = "scores" => dec.todo = {}
  PROVE  Reason' /\ ScoresKept' /\ Choosable' = Choosable /\ IInv'
<1>1. Choosable' = Choosable
  BY DEF Choosable, NowMeets
<1>2. Reason'
  BY <1>1 DEF SInv, Reason, NowMeets, NowScore
<1>3. ScoresKept'
  BY DEF SInv, ScoresKept
<1> QED
  BY <1>1, <1>2, <1>3

(* A decision begins with nothing read.                                    *)
LEMMA StartStill == ASSUME IInv, Start PROVE SInv'
<1>1. PICK w \in {"place", "check"} :
        /\ dec' = [Idle EXCEPT !.pc = "scores", !.todo = Nodes, !.why = w]
        /\ w = "place" => node = None
  BY DEF Start
<1>2. /\ dec'.pc = "scores" /\ dec'.why = w /\ dec'.todo = Nodes /\ dec'.scores = NoScores
      /\ dec'.best = None /\ node' = node /\ calm'
  BY <1>1, IdleFacts DEF Start, Begins
<1>3. ScoresKept'
  BY <1>2 DEF ScoresKept, NoScores
<1>4. IInv'
  BY ReadingInv
<1> QED
  BY <1>1, <1>2, <1>3, <1>4 DEF SInv, LatsKept, Reason, NoBestYet, FirstPass, SecondPass

(* Reading the scores and the latencies keeps what was read true.          *)
LEMMA ReadingStill ==
  ASSUME SInv, IInv', calm', world' = world,
         \/ ScoresRead \/ Check \/ EdgesRead
         \/ \E n \in Nodes : ReadScore(n)
         \/ \E e \in Edges : ReadEdge(e)
  PROVE  SInv'
<1>0. dec \in Decision /\ world \in World /\ node \in Nodes \cup {None}
  BY DEF SInv, IInv, TypeOK
<1>2. CASE ScoresRead
  <2>1. /\ dec'.pc = "edges" /\ dec'.todo = Edges /\ dec'.why = dec.why /\ dec'.scores = dec.scores
        /\ dec.pc = "scores" /\ dec.todo = {} /\ dec'.best = dec.best /\ node' = node
    BY <1>0, <1>2 DEF ScoresRead, Decision
  <2>2. Reason' /\ ScoresKept'
    BY <2>1, Kept
  <2> QED
    BY <2>1, <2>2 DEF SInv, LatsKept, NoBestYet, FirstPass, SecondPass
<1>3. CASE Check
  <2>1. /\ dec.pc = "edges" /\ dec.todo = {} /\ node' = node
        /\ dec' = Selecting(IF Qualifies(dec.lats, node) THEN "compare" ELSE "move", dec.scores)
    BY <1>3 DEF Check
  <2>2. Qualifies(dec.lats, node) <=> NowMeets(node)
    BY <2>1, TestsNow
  <2>3. PICK w \in {"compare", "move"} :
          dec' = Selecting(w, dec.scores) /\ (w = "compare" <=> NowMeets(node))
    BY <2>1, <2>2
  <2>4. dec.scores \in [Nodes -> Scores \cup {None}]
    BY <1>0 DEF Decision
  <2>5. /\ dec'.pc = "edges" /\ dec'.why = w /\ dec'.todo = Edges /\ dec'.scores = dec.scores
        /\ dec'.best = None
    BY <2>3, <2>4, SelectingFacts
  <2>6. NowMeets(node)' <=> NowMeets(node)
    BY <2>1 DEF NowMeets
  <2>7. Reason'
    BY <2>3, <2>5, <2>6 DEF Reason
  <2>8. ScoresKept'
    BY <2>1, <2>5 DEF SInv, ScoresKept
  <2> QED
    BY <2>5, <2>7, <2>8 DEF SInv, LatsKept, NoBestYet, FirstPass, SecondPass
<1>4. CASE EdgesRead
  <2>1. /\ dec'.pc = "best" /\ dec'.todo = Known(dec.scores) /\ dec'.why = dec.why
        /\ dec'.scores = dec.scores /\ dec'.lats = dec.lats /\ dec'.best = dec.best
        /\ dec.pc = "edges" /\ dec.todo = {} /\ node' = node
    BY <1>0, <1>4 DEF EdgesRead, Decision
  <2>2. Reason' /\ ScoresKept' /\ Choosable' = Choosable
    BY <2>1, Kept
  <2>3. LatsKept'
    BY <2>1 DEF SInv, LatsKept
  <2>4. Choosable \subseteq Known(dec.scores)
    BY <2>1, ScoresNow
  <2>5. dec.best = None
    BY <2>1 DEF SInv, NoBestYet
  <2> QED
    BY <2>1, <2>2, <2>3, <2>4, <2>5 DEF SInv, FirstPass, SecondPass, NoBestYet
<1>5. ASSUME NEW n \in Nodes, ReadScore(n) PROVE SInv'
  <2>0. dec.pc = "scores" /\ n \in dec.todo /\ node' = node
    BY <1>5 DEF ReadScore
  <2>1. CASE dec' = Idle
    BY <2>1, Ends
  <2>2. CASE dec' # Idle
    <3>1. PICK s : /\ dec' = [dec EXCEPT !.todo = @ \ {n}, !.scores = s]
                   /\ \/ n \notin world.eligible /\ s = dec.scores
                      \/ /\ n \in world.eligible /\ world.score[n] # None
                         /\ s = [dec.scores EXCEPT ![n] = world.score[n]]
      <4>1. CASE n \notin world.eligible
        <5>1. dec' = [dec EXCEPT !.todo = @ \ {n}, !.scores = dec.scores]
          BY <1>0, <1>5, <4>1 DEF ReadScore, Decision
        <5> QED
          BY <4>1, <5>1
      <4>2. CASE n \in world.eligible
        BY <1>5, <2>2, <4>2 DEF ReadScore
      <4> QED
        BY <4>1, <4>2
    <3>2. /\ dec'.pc = "scores" /\ dec'.todo = dec.todo \ {n} /\ dec'.why = dec.why
          /\ dec'.scores = s /\ dec'.best = dec.best
      BY <1>0, <2>0, <3>1 DEF Decision
    <3>3. dec.scores \in [Nodes -> Scores \cup {None}]
      BY <1>0 DEF Decision
    <3>4. \A m \in Nodes : s[m] = IF m = n /\ n \in world.eligible THEN world.score[n] ELSE dec.scores[m]
      BY <3>1, <3>3
    <3>5. ScoresKept'
      BY <2>0, <3>1, <3>2, <3>4 DEF SInv, ScoresKept
    <3>6. Choosable' = Choosable
      BY DEF Choosable, NowMeets
    <3>7. Reason'
      BY <2>0, <3>2, <3>6 DEF SInv, Reason, NowMeets, NowScore
    <3> QED
      BY <2>0, <3>2, <3>5, <3>7 DEF SInv, LatsKept, NoBestYet, FirstPass, SecondPass
  <2> QED
    BY <2>1, <2>2
<1>6. ASSUME NEW e \in Edges, ReadEdge(e) PROVE SInv'
  <2>1. /\ dec.pc = "edges" /\ e \in dec.todo /\ node' = node
        /\ dec' = [dec EXCEPT !.todo = @ \ {e}, !.lats[e] = world.latency[e]]
    <3>1. ~Fails
      BY DEF Fails
    <3> QED
      BY <1>6, <3>1 DEF ReadEdge
  <2>2. PICK l : l = [dec.lats EXCEPT ![e] = world.latency[e]]
    OBVIOUS
  <2>3. dec' = [dec EXCEPT !.todo = @ \ {e}, !.lats = l]
    BY <2>1, <2>2
  <2>4. /\ dec'.pc = "edges" /\ dec'.todo = dec.todo \ {e} /\ dec'.why = dec.why
        /\ dec'.scores = dec.scores /\ dec'.lats = l /\ dec'.best = dec.best
    BY <1>0, <2>1, <2>3 DEF Decision
  <2>5. dec.lats \in [Edges -> [Nodes -> Latencies \cup {None}] \cup {None}]
    BY <1>0 DEF Decision
  <2>6. \A f \in Edges : l[f] = IF f = e THEN world.latency[e] ELSE dec.lats[f]
    BY <2>2, <2>5
  <2>7. LatsKept'
    BY <2>1, <2>4, <2>6 DEF SInv, LatsKept
  <2>8. Reason' /\ ScoresKept'
    BY <2>1, <2>4, Kept
  <2> QED
    BY <2>1, <2>4, <2>7, <2>8 DEF SInv, NoBestYet, FirstPass, SecondPass
<1> QED
  BY <1>2, <1>3, <1>4, <1>5, <1>6

(* The two passes find the best node, and nodes near it.                   *)
LEMMA PassingStill ==
  ASSUME SInv, IInv', calm', world' = world, Quiet,
         BestFound \/ \E n \in Nodes : ConsiderBest(n) \/ ConsiderCand(n)
  PROVE  SInv'
<1>0. dec \in Decision /\ world \in World /\ TypeOK
  BY DEF SInv, IInv, TypeOK
<1>1. CASE BestFound
  <2>1. CASE dec' = Idle
    BY <2>1, Ends
  <2>2. CASE dec' # Idle
    <3>1. /\ dec' = [dec EXCEPT !.pc = "cands", !.todo = NearOptimal(dec.scores, dec.best)]
          /\ dec.pc = "best" /\ dec.todo = {} /\ dec.best # None /\ node' = node
      BY <1>1, <2>2 DEF BestFound
    <3>2. /\ dec'.pc = "cands" /\ dec'.why = dec.why /\ dec'.scores = dec.scores
          /\ dec'.lats = dec.lats /\ dec'.best = dec.best /\ dec'.cands = {}
      BY <1>0, <3>1 DEF Decision, SInv, IInv, NoneYet
    <3>3. Reason' /\ ScoresKept' /\ Choosable' = Choosable
      BY <3>1, <3>2, Kept
    <3>4. LatsKept'
      BY <3>1, <3>2 DEF SInv, LatsKept
    <3>5. SecondPass'
      BY <3>1, <3>2, <3>3 DEF SInv, FirstPass, SecondPass, NowScore
    <3> QED
      BY <3>2, <3>3, <3>4, <3>5 DEF SInv, NoBestYet, FirstPass
  <2> QED
    BY <2>1, <2>2
<1>2. ASSUME NEW n \in Nodes, ConsiderBest(n) PROVE SInv'
  <2>1. PICK b : /\ dec' = [dec EXCEPT !.todo = @ \ {n}, !.best = b]
                 /\ b = IF /\ n \in world.roomy /\ Qualifies(dec.lats, n)
                           /\ \/ dec.best = None
                              \/ ScoreOf(dec.scores, n) > ScoreOf(dec.scores, dec.best)
                        THEN n ELSE dec.best
    <3>1. \A yes \in BOOLEAN : HasEnoughCapacity(n, yes) => yes = (n \in world.roomy)
      BY DEF HasEnoughCapacity, Fails
    <3> QED
      BY <1>2, <3>1 DEF ConsiderBest
  <2>2. dec.pc = "best" /\ n \in dec.todo /\ node' = node
    BY <1>2 DEF ConsiderBest
  <2>3. /\ dec'.pc = "best" /\ dec'.why = dec.why /\ dec'.scores = dec.scores
        /\ dec'.lats = dec.lats /\ dec'.best = b /\ dec'.todo = dec.todo \ {n}
    BY <1>0, <2>1, <2>2 DEF Decision
  <2>4. Reason' /\ ScoresKept' /\ Choosable' = Choosable
    BY <2>2, <2>3, Kept
  <2>5. LatsKept'
    BY <2>2, <2>3 DEF SInv, LatsKept
  <2>6. n \in Known(dec.scores) /\ dec.todo \subseteq Known(dec.scores)
    BY <2>2 DEF SInv, FirstPass
  <2>7. Qualifies(dec.lats, n) <=> NowMeets(n)
    BY <2>2, TestsNow
  <2>8. n \in world.eligible /\ world.score[n] # None
    BY <2>2, <2>6, ScoresNow
  <2>9. b = IF n \in Choosable /\ (dec.best = None \/ NowScore(n) > NowScore(dec.best))
            THEN n ELSE dec.best
    BY <2>1, <2>2, <2>7, <2>8, ScoresNow DEF Choosable
  <2>10. /\ b # None => b \in Choosable
         /\ \A m \in Choosable \ (dec.todo \ {n}) : b # None /\ NowScore(m) <= NowScore(b)
    <3>1. /\ dec.best # None => dec.best \in Choosable
          /\ \A m \in Choosable \ dec.todo :
               dec.best # None /\ NowScore(m) <= NowScore(dec.best)
      BY <2>2 DEF SInv, FirstPass
    <3>2. n # None
      BY ConstantsAssumption
    <3>3. NowScore(n) \in Nat /\ NowScore(dec.best) \in Nat /\ \A m : NowScore(m) \in Nat
      BY <1>0, NowScoreType
    <3> QED
      BY <2>9, <3>1, <3>2, <3>3
  <2>11. FirstPass'
    BY <2>3, <2>4, <2>6, <2>10 DEF FirstPass, Known, NowScore
  <2> QED
    BY <2>3, <2>4, <2>5, <2>11 DEF SInv, NoBestYet, SecondPass
<1>3. ASSUME NEW n \in Nodes, ConsiderCand(n) PROVE SInv'
  <2>1. PICK c : /\ dec' = [dec EXCEPT !.todo = @ \ {n}, !.cands = c]
                 /\ \/ c = dec.cands
                    \/ /\ c = dec.cands \cup {n}
                       /\ n \in world.roomy /\ Qualifies(dec.lats, n)
    <3>1. \A yes \in BOOLEAN : HasEnoughCapacity(n, yes) => yes = (n \in world.roomy)
      BY DEF HasEnoughCapacity, Fails
    <3> QED
      BY <1>3, <3>1 DEF ConsiderCand
  <2>2. dec.pc = "cands" /\ n \in dec.todo /\ node' = node
    BY <1>3 DEF ConsiderCand
  <2>3. /\ dec'.pc = "cands" /\ dec'.why = dec.why /\ dec'.scores = dec.scores
        /\ dec'.lats = dec.lats /\ dec'.best = dec.best /\ dec'.cands = c
    BY <1>0, <2>1, <2>2 DEF Decision
  <2>4. Reason' /\ ScoresKept' /\ Choosable' = Choosable
    BY <2>2, <2>3, Kept
  <2>5. LatsKept'
    BY <2>2, <2>3 DEF SInv, LatsKept
  <2>6. n \in Known(dec.scores)
    BY <2>2 DEF SInv, IInv, Tested, NearOptimal
  <2>7. Qualifies(dec.lats, n) <=> NowMeets(n)
    BY <2>2, TestsNow
  <2>8. n \in world.eligible /\ world.score[n] # None
    BY <2>2, <2>6, ScoresNow
  <2>9. c \subseteq Choosable
    BY <2>1, <2>2, <2>7, <2>8 DEF SInv, SecondPass, Choosable
  <2>10. SecondPass'
    BY <2>2, <2>3, <2>4, <2>9 DEF SInv, SecondPass, NowScore
  <2> QED
    BY <2>3, <2>4, <2>5, <2>10 DEF SInv, NoBestYet, FirstPass
<1> QED
  BY <1>1, <1>2, <1>3

(* The pick of a comparison sends the pod away only for a much better node.*)
LEMMA ComparingStill ==
  ASSUME SInv, IInv', calm', world' = world, NEW n \in Nodes, Compare(n)
  PROVE  SInv'
<1>0. dec \in Decision
  BY DEF SInv, IInv, TypeOK
<1>1. dec.pc = "cands" /\ n \in dec.cands /\ node' = node
  BY DEF Compare, Picks
<1>2. CASE dec' = Idle
  BY <1>2, Ends
<1>3. CASE dec' # Idle
  <2>1. /\ dec' = Selecting("move", dec.scores)
        /\ MuchBetter(dec.scores[n], ScoreOf(dec.scores, node))
    BY <1>3 DEF Compare
  <2>2. n \in Choosable /\ n \in Known(dec.scores)
    BY <1>1, ScoresNow DEF SInv, SecondPass
  <2>3. MuchBetter(NowScore(n), NowScore(node))
    BY <1>1, <2>1, <2>2, ScoresNow
  <2>4. dec.scores \in [Nodes -> Scores \cup {None}]
    BY <1>0 DEF Decision
  <2>5. /\ dec'.pc = "edges" /\ dec'.why = "move" /\ dec'.todo = Edges
        /\ dec'.scores = dec.scores /\ dec'.best = None
    BY <2>1, <2>4, SelectingFacts
  <2>6. Choosable' = Choosable
    BY DEF Choosable, NowMeets
  <2>7. Reason'
    BY <1>1, <2>2, <2>3, <2>5, <2>6 DEF Reason, NowScore
  <2>8. ScoresKept'
    BY <1>1, <2>5 DEF SInv, ScoresKept
  <2> QED
    BY <2>5, <2>7, <2>8 DEF SInv, LatsKept, NoBestYet, FirstPass, SecondPass
<1> QED
  BY <1>2, <1>3

(* CInv is inductive.                                                      *)
LEMMA NextStill == ASSUME CInv, [Next]_vars PROVE CInv'
<1>1. IInv'
  BY NextInv DEF CInv
<1> SUFFICES ASSUME calm' PROVE SInv'
  BY <1>1 DEF CInv
<1>2. CASE Start
  BY <1>2, StartStill DEF CInv
<1>3. CASE Step /\ ~Start
  <2>1. world' = world /\ Quiet /\ SInv
    BY <1>3, StaysCalm DEF CInv, Quiet
  <2>2. ASSUME NoCandidate \/ \E n \in Nodes : Place(n) PROVE SInv'
    BY <1>1, <2>1, <2>2, Ends DEF NoCandidate, Place
  <2> QED
    BY <1>1, <1>3, <2>1, <2>2, ReadingStill, PassingStill, ComparingStill DEF Step
<1>4. ~GiveUp /\ ~Change
  BY DEF GiveUp, Fails, Change
<1>5. CASE UNCHANGED vars
  BY <1>1, <1>5 DEF vars, CInv, SInv, ScoresKept, LatsKept, Reason, NoBestYet, FirstPass,
     SecondPass, Choosable, NowMeets, NowScore
<1> QED
  BY <1>2, <1>3, <1>4, <1>5 DEF Next

(* The invariant of undisturbed decisions.                                 *)
THEOREM CalmInvariance == Spec => []CInv
<1>1. Init => CInv
  <2>1. Idle.pc = "idle" /\ Idle.why = "none"
    BY DEF Idle
  <2> QED
    BY <2>1, InitInv
       DEF Init, CInv, SInv, ScoresKept, LatsKept, Reason, NoBestYet, FirstPass, SecondPass
<1>2. CInv /\ [Next]_vars => CInv'
  BY NextStill
<1> QED
  BY <1>1, <1>2, PTL DEF Spec

(* A step of a pod from its node to another one is a move, and the node it *)
(* moves to is near the best, which is much better than the old one.       *)
LEMMA MovesUp ==
  ASSUME SInv, [Next]_vars, node # None, node' # node
  PROVE  NowMeets(node') /\ (NowMeets(node) => NowScore(node') > NowScore(node))
<1>1. PICK n \in Nodes : Place(n)
  BY DEF Next, Step, vars, Start, ScoresRead, Check, EdgesRead, BestFound, NoCandidate, ReadScore,
     ConsiderBest, ConsiderCand, Compare, ReadEdge, GiveUp, Change
<1>2. dec.pc = "cands" /\ n \in dec.cands /\ dec.why = "move" /\ node' = n
  BY <1>1 DEF Place, Picks, SInv, Reason
<1>3. n \in Choosable /\ n \in NearOptimal(dec.scores, dec.best) /\ dec.best \in Choosable
  BY <1>2 DEF SInv, SecondPass, IInv, Tested
<1>4. NowMeets(node')
  BY <1>2, <1>3 DEF Choosable
<1>5. ASSUME NowMeets(node) PROVE NowScore(node') > NowScore(node)
  <2>1. PICK m \in Choosable : MuchBetter(NowScore(m), NowScore(node))
    BY <1>2, <1>5 DEF SInv, Reason
  <2>2. NowScore(m) <= NowScore(dec.best)
    BY <1>2 DEF SInv, SecondPass
  <2>3. 10 * NowScore(n) >= 9 * NowScore(dec.best)
    <3>1. n \in Known(dec.scores) /\ dec.best \in Known(dec.scores)
      BY <1>2, <1>3, ScoresNow
    <3>2. dec.scores[n] = NowScore(n) /\ dec.scores[dec.best] = NowScore(dec.best)
      BY <1>2, <3>1, ScoresNow
    <3> QED
      BY <1>3, <3>2 DEF NearOptimal
  <2>4. /\ NowScore(n) \in Nat /\ NowScore(m) \in Nat /\ NowScore(dec.best) \in Nat
        /\ NowScore(node) \in Nat
    BY NowScoreType DEF SInv, IInv
  <2> QED
    BY <1>2, <2>1, <2>2, <2>3, <2>4 DEF MuchBetter
<1> QED
  BY <1>4, <1>5

(* If nothing changes or fails during a decision its pod is not moved for  *)
(* a worse node, although the selection that decides to move it and the    *)
(* one that picks its new node are different random picks (scheduler.go    *)
(* :475, :252).                                                            *)
THEOREM MoveImprovesHolds == Spec => MoveImproves
<1>1. CInv /\ [Next]_vars => [ (calm /\ node # None /\ node' # node) =>
        /\ NowMeets(node')
        /\ NowMeets(node) => NowScore(node') > NowScore(node) ]_vars
  BY MovesUp DEF CInv
<1> QED
  BY <1>1, CalmInvariance, PTL DEF Spec, MoveImproves

(* A node that a selection picked last is near the best of all that will   *)
(* do: no suitable node without a score has one above zero.                *)
LEMMA PickedNearBest ==
  ASSUME SInv, NEW n \in Nodes, Place(n)
  PROVE  NearBest(n)
<1>1. dec.pc = "cands" /\ n \in dec.cands
  BY DEF Place, Picks
<1>2. n \in Choosable /\ n \in NearOptimal(dec.scores, dec.best) /\ dec.best \in Choosable
  BY <1>1 DEF SInv, SecondPass, IInv, Tested
<1>3. 10 * NowScore(n) >= 9 * NowScore(dec.best)
  <2>1. n \in Known(dec.scores) /\ dec.best \in Known(dec.scores)
    BY <1>1, <1>2, ScoresNow
  <2>2. dec.scores[n] = NowScore(n) /\ dec.scores[dec.best] = NowScore(dec.best)
    BY <1>1, <2>1, ScoresNow
  <2> QED
    BY <1>2, <2>2 DEF NearOptimal
<1>4. \A m : NowScore(m) \in Nat
  BY NowScoreType DEF SInv, IInv
<1>5. ASSUME NEW m \in Suitable PROVE 10 * NowScore(n) >= 9 * NowScore(m)
  <2>1. CASE world.score[m] = None
    <3>1. NowScore(m) = 0
      BY <2>1 DEF NowScore
    <3> QED
      BY <1>4, <3>1
  <2>2. CASE world.score[m] # None
    <3>1. m \in Choosable
      BY <1>5, <2>2 DEF Suitable, Choosable
    <3>2. NowScore(m) <= NowScore(dec.best)
      BY <1>1, <3>1 DEF SInv, SecondPass
    <3> QED
      BY <1>3, <1>4, <3>2
  <2> QED
    BY <2>1, <2>2
<1>6. n # None /\ NowMeets(n)
  BY <1>2, ConstantsAssumption DEF Choosable
<1> QED
  BY <1>5, <1>6 DEF NearBest

(* A pod near the best is not moved: a node better by a factor of 1.2      *)
(* would be better by more than the 10%.                                   *)
LEMMA StaysNearBest ==
  ASSUME SInv, NearBest(node), NEW n \in Nodes
  PROVE  ~Place(n)
<1> SUFFICES ASSUME Place(n) PROVE FALSE
  OBVIOUS
<1>1. dec.why = "move" /\ NowMeets(node)
  BY DEF Place, SInv, Reason, NearBest
<1>2. PICK m \in Choosable : MuchBetter(NowScore(m), NowScore(node))
  BY <1>1 DEF SInv, Reason
<1>3. 10 * NowScore(node) >= 9 * NowScore(m)
  BY <1>2 DEF NearBest, Choosable, Suitable
<1>4. NowScore(m) \in Nat /\ NowScore(node) \in Nat
  BY NowScoreType DEF SInv, IInv
<1>5. 5 * NowScore(m) > 6 * NowScore(node)
  BY <1>2 DEF MuchBetter
<1> QED
  BY <1>3, <1>4, <1>5

(* What a step does to the node of the pod.                                *)
LEMMA NodeStep ==
  ASSUME [Next]_vars
  PROVE  node' = node \/ \E n \in Nodes : Place(n) /\ node' = n
<1>1. node' = node \/ \E n \in Nodes : Place(n)
  BY DEF Next, Step, vars, Start, ScoresRead, Check, EdgesRead, BestFound, NoCandidate, ReadScore,
     ConsiderBest, ConsiderCand, Compare, ReadEdge, GiveUp, Change
<1> QED
  BY <1>1 DEF Place

(* An undisturbed decision takes the pod nowhere but near the best, where  *)
(* it leaves it.                                                           *)
LEMMA OneMove ==
  ASSUME CInv, [Next]_vars, calm
  PROVE  /\ node' # node => NearBest(node')
         /\ NearBest(node) => node' = node
  BY NodeStep, PickedNearBest, StaysNearBest DEF CInv

(* Of a decision in which nothing changes or fails one move is enough: a   *)
(* selection puts the pod on a node within 10% of the best, and a pod on   *)
(* such a node is not moved (scheduler.go:475, :706).                      *)
THEOREM MovesOnceHolds == Spec => MovesOnce
<1>1. CInv /\ [Next]_vars => [ calm => /\ node' # node => NearBest(node')
                                       /\ NearBest(node) => node' = node ]_vars
  BY OneMove
<1> QED
  BY <1>1, CalmInvariance, PTL DEF Spec, MovesOnce

(* While the world stays as it is so does what is near the best.           *)
LEMMA StaysBest ==
  ASSUME world' = world, NEW n, NearBest(n), n = node'
  PROVE  NearBest(node)'
<1>1. /\ n # None
      /\ Qualifies(world.latency, n)
      /\ \A m \in Suitable : 10 * NowScore(n) >= 9 * NowScore(m)
  BY DEF NearBest, NowMeets
<1>2. Suitable' = Suitable
  BY DEF Suitable, NowMeets
<1> QED
  BY <1>1, <1>2 DEF NearBest, NowMeets, NowScore

(* While nothing changes or fails a decision stays calm, and one that is   *)
(* not calm ends when it moves the pod; the next one is calm.              *)
LEMMA CalmStep ==
  ASSUME CInv, [Next]_vars, [UNCHANGED <<world, changes, faults>>]_vars
  PROVE  /\ world' = world
         /\ calm => calm'
         /\ ~calm /\ dec.pc = "idle" => /\ node' = node
                                        /\ calm' \/ dec'.pc = "idle"
         /\ ~calm => node' = node \/ dec'.pc = "idle"
<1>1. UNCHANGED <<world, changes, faults>>
  BY DEF vars
<1>2. ~Fails /\ ~Change
  <2>1. changes \in Nat /\ faults \in Nat
    BY ConstantsAssumption DEF CInv, IInv, TypeOK
  <2> QED
    BY <1>1, <2>1 DEF Fails, Change
<1>3. ASSUME calm PROVE calm'
  <2>1. CASE Start
    BY <2>1 DEF Start, Begins
  <2>2. CASE Step /\ ~Start
    <3>1. \A n, yes : HasEnoughCapacity(n, yes) => Quiet
      BY <1>2 DEF HasEnoughCapacity
    <3>2. Quiet
      BY <1>2, <2>2, <3>1 DEF Step, ScoresRead, Check, EdgesRead, BestFound, NoCandidate,
         ReadScore, ConsiderBest, ConsiderCand, Compare, Place, ReadEdge
    <3> QED
      BY <1>3, <3>2 DEF Quiet
  <2>3. ~GiveUp
    BY <1>2 DEF GiveUp
  <2> QED
    BY <1>2, <1>3, <2>1, <2>2, <2>3 DEF Next, vars
<1>4. ASSUME dec.pc = "idle" PROVE node' = node /\ (Start \/ UNCHANGED vars)
  BY <1>2, <1>4 DEF Next, Step, vars, Start, ScoresRead, Check, EdgesRead, BestFound, NoCandidate,
     ReadScore, ConsiderBest, ConsiderCand, Compare, Place, Picks, ReadEdge, GiveUp
<1>5. node' = node \/ dec'.pc = "idle"
  BY NodeStep, IdleFacts DEF Place
<1> QED
  BY <1>1, <1>3, <1>4, <1>5 DEF Start, Begins, vars

(* If from some moment on nothing changes and no read fails, the pod moves *)
(* only finitely often, whatever the scheduling: one decision may still    *)
(* rest on what it had read before, the next one that moves the pod is the *)
(* last.                                                                   *)
THEOREM SettlesHolds ==
  Spec /\ <>[][UNCHANGED <<world, changes, faults>>]_vars => Settles
<1> DEFINE Near  == NearBest(node)
           Idles == dec.pc = "idle"
           Calm  == calm
           Same  == [UNCHANGED <<world, changes, faults>>]_vars
<1>1. CInv /\ [Next]_vars /\ Same =>
        /\ ~Calm /\ ~Idles => [FALSE]_node \/ Idles'
        /\ ~Calm /\ Idles => [FALSE]_node /\ (Calm' \/ Idles')
        /\ Calm => Calm' /\ ([FALSE]_node \/ Near')
        /\ Calm /\ Near => Near' /\ [FALSE]_node
  BY CalmStep, OneMove, StaysBest
<1> HIDE DEF Near, Idles, Calm, Same
<1> QED
  BY <1>1, CalmInvariance, PTL DEF Spec, Settles, Same
=============================================================================
