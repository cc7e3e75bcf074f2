--------------------------- MODULE Replicas_proofs ---------------------------
(* Scheduler implements Replicas, for every instance.                      *)
EXTENDS Scheduler_proofs

(* What IInv does not say and the abstract life cycle needs: apps are      *)
(* declared by templates, only other pods are scheduled, only placed ones  *)
(* are moved, and what is not placed has not run.                          *)
FitPods == \A p \in Used :
  /\ pods[p].kind = "template" => pods[p].node = None
  /\ pods[p].node = None => pods[p].phase \in {"Pending", "Stuck", "Gone"}

FitDesired(s) == \A a \in Apps :
  Declared(s, a) => pods[desiredApps[s][a]].kind = "template"

FitInformer(s) ==
  informer[s].pc \in {"schedule", "delete", "track"} => pods[informer[s].pod].kind # "template"

FitTicker(s) ==
  /\ ticker[s].pc \in {"list", "respawn"} => pods[ticker[s].obj].kind = "template"
  /\ ticker[s].pc \in {"reconcile", "moveDelete"} =>
       \A p \in ticker[s].todo : pods[p].node # None
  /\ ticker[s].pc = "enforce" => ticker[s].todo = {}

Fit == FitPods /\ \A s \in Schedulers : FitDesired(s) /\ FitInformer(s) /\ FitTicker(s)

-----------------------------------------------------------------------------
(* The mapping, by the names of the abstract variables.                    *)
Pic     == [p \in PodNames |-> Image(p)]
Part(s) == IF ticker[s].pc = "list" THEN ticker[s].todo ELSE {}
Seen    == UNION {ticker[s].todo : s \in Listing}
Maps    == [R!Next]_(R!vars)

(* A pod is suspect when the list of some EnforceDesired shows it.         *)
LEMMA SeenParts == \A p : p \in Seen <=> \E s \in Schedulers : p \in Part(s)
  BY DEF Seen, Listing, Part

(* Who sees what is not changed by a step that leaves every part alone.    *)
LEMMA SeenSame ==
  ASSUME \A s \in Schedulers : Part(s)' = Part(s)
  PROVE  Seen' = Seen
<1>1. \A p : p \in Seen' <=> \E s \in Schedulers : p \in Part(s)'
  BY SeenParts DEF Seen, Listing, Part
<1> QED
  BY <1>1, SeenParts

(* A pod that no step touched looks as before.                             *)
LEMMA SameImage ==
  ASSUME NEW p \in PodNames, pods'[p] = pods[p]
  PROVE  Image(p)' = Image(p)
  BY DEF Image, LifeOf, Used

(* A step that leaves the API servers alone changes nobody's image.        *)
LEMMA SamePic == ASSUME UNCHANGED pods PROVE Pic' = Pic
  BY SameImage DEF Pic

(* A step that changes one pod changes one image.                          *)
LEMMA OnePic ==
  ASSUME NEW p \in PodNames, \A q \in PodNames : q # p => pods'[q] = pods[q]
  PROVE  Pic' = [Pic EXCEPT ![p] = Image(p)']
  BY SameImage DEF Pic

-----------------------------------------------------------------------------
(* The steps of Replicas, in the mapped variables.                         *)
LEMMA Stutters ==
  ASSUME Pic' = Pic, Seen' = Seen, budget'.loss = budget.loss
  PROVE  Maps
  BY DEF Maps, R!vars, Pic, Seen

(* A step after which fewer pods are suspect.                              *)
LEMMA Dismisses ==
  ASSUME Pic' = Pic, Seen' \subseteq Seen, budget'.loss = budget.loss
  PROVE  Maps
  BY DEF Maps, R!Next, R!Dismiss, Pic, Seen

(* A step after which more pods are suspect, none of which runs.           *)
LEMMA Suspects ==
  ASSUME Pic' = Pic, Seen \subseteq Seen', budget'.loss = budget.loss,
         \A p \in Seen' \ Seen : Pic[p].life \in {"waiting", "starting", "ended"}
  PROVE  Maps
  BY DEF Maps, R!Next, R!Suspect, Pic, Seen

(* A pod is born: submitted, as a replica of a request, or as a copy.      *)
LEMMA Births ==
  ASSUME NEW q \in PodNames, Pic[q] = R!Unborn, Seen' = Seen, budget'.loss = budget.loss,
         NEW k, NEW l, NEW n, NEW p,
         Pic' = [Pic EXCEPT ![q] = [life |-> l, kind |-> k, node |-> n, from |-> p]],
         \/ l = "waiting" /\ k \in {"request", "workload"} /\ n = None /\ p = None
         \/ l = "waiting" /\ k = "workload" /\ n = None
            /\ p \in PodNames /\ Pic[p].kind = "request"
         \/ l = "starting" /\ k = "workload" /\ n \in Nodes
            /\ p \in PodNames /\ Pic[p].kind = "workload"
  PROVE  Maps
<1>1. R!Birth(q, k, l, n, p)
  BY DEF R!Birth, R!IsBorn, Pic, Seen
<1>2. CASE l = "waiting" /\ k \in {"request", "workload"} /\ n = None /\ p = None
  BY <1>1, <1>2 DEF Maps, R!Next, R!Submit
<1>3. CASE l = "waiting" /\ k = "workload" /\ n = None /\ p \in PodNames /\ Pic[p].kind = "request"
  BY <1>1, <1>3 DEF Maps, R!Next, R!Replicate, Pic
<1>4. CASE /\ l = "starting" /\ k = "workload" /\ n \in Nodes
           /\ p \in PodNames /\ Pic[p].kind = "workload"
  BY <1>1, <1>4 DEF Maps, R!Next, R!Copy, Pic
<1> QED
  BY <1>2, <1>3, <1>4

(* A workload that waited gets its node.                                   *)
LEMMA Binds ==
  ASSUME NEW p \in PodNames, NEW n \in Nodes, Seen' = Seen, budget'.loss = budget.loss,
         Pic[p].life = "waiting", Pic[p].kind = "workload",
         Pic' = [Pic EXCEPT ![p].life = "starting", ![p].node = n]
  PROVE  Maps
<1>1. R!Bind(p, n)
  BY DEF R!Bind, Pic, Seen
<1> QED
  BY <1>1 DEF Maps, R!Next

(* A pod with a node comes to run, or stops running.                       *)
LEMMA RunsOrEnds ==
  ASSUME NEW p \in PodNames, Seen' = Seen, budget'.loss = budget.loss,
         NEW to, Pic' = [Pic EXCEPT ![p].life = to],
         \/ Pic[p].life = "starting" /\ to = "running"
         \/ Pic[p].life = "running" /\ to = "ended"
  PROVE  Maps
<1>1. R!Run(p) \/ R!End(p)
  BY DEF R!Run, R!End, R!Lives, Pic, Seen
<1> QED
  BY <1>1 DEF Maps, R!Next

(* A pod is lost from outside.                                             *)
LEMMA Vanishes ==
  ASSUME NEW p \in PodNames, Seen' = Seen,
         budget.loss > 0, budget'.loss = budget.loss - 1,
         Pic[p].life \in {"waiting", "starting", "running"},
         Pic' = [Pic EXCEPT ![p].life = "over"]
  PROVE  Maps
<1>1. R!Vanish(p)
  BY DEF R!Vanish, Pic, Seen
<1> QED
  BY <1>1 DEF Maps, R!Next

(* A pod is taken away, with a reason; one that was over stays so.         *)
LEMMA Retires ==
  ASSUME NEW p \in PodNames, Seen' = Seen \/ Seen' = Seen \ {p}, budget'.loss = budget.loss,
         Pic[p].life \in {"waiting", "starting", "running", "ended", "over"},
         Pic' = [Pic EXCEPT ![p].life = "over"],
         \/ Pic[p].kind = "request"
         \/ p \in Seen
         \/ \E q \in PodNames : Pic[q].from = p
  PROVE  Maps
<1>1. CASE Pic[p].life = "over"
  <2>1. /\ Pic[p] = Image(p)
        /\ Image(p) = [life |-> Image(p).life, kind |-> Image(p).kind,
                       node |-> Image(p).node, from |-> Image(p).from]
    BY DEF Pic, Image
  <2>2. [Pic[p] EXCEPT !.life = "over"] = Pic[p]
    BY <1>1, <2>1
  <2>3. Pic' = Pic
    BY <2>2 DEF Pic
  <2> QED
    BY <2>3, Dismisses
<1>2. CASE Pic[p].life # "over"
  <2>1. R!MayRetire(p)
    BY DEF R!MayRetire, R!HasHeir, Pic, Seen
  <2>2. R!Retire(p)
    BY <1>2, <2>1 DEF R!Retire, Pic, Seen
  <2> QED
    BY <2>2 DEF Maps, R!Next
<1> QED
  BY <1>1, <1>2

-----------------------------------------------------------------------------
(* The calls of the API servers, in the mapped variables.                  *)

Kind(k) == IF k = "template" THEN "request" ELSE "workload"

(* What a pod that was created looks like.                                 *)
LEMMA ImageFacts ==
  ASSUME PodsOK, NEW p \in Used
  PROVE  /\ p \in PodNames /\ Pic[p] = Image(p)
         /\ Image(p) = [life |-> LifeOf(p), kind |-> Kind(pods[p].kind),
                        node |-> pods[p].node, from |-> pods[p].from]
         /\ LifeOf(p) \in {"waiting", "starting", "running", "ended", "over"}
<1>1. p \in PodNames /\ pods[p] \in Pod
  BY UsedFacts
<1>2. LifeOf(p) \in {"waiting", "starting", "running", "ended", "over"}
  BY <1>1 DEF LifeOf, Pod, Phases
<1> QED
  BY <1>1, <1>2 DEF Image, Pic, Kind

(* A name that was never used looks unborn.                                *)
LEMMA UnusedImage ==
  ASSUME NEW p \in PodNames \ Used
  PROVE  Pic[p] = R!Unborn
  BY DEF Pic, Image, R!Unborn

(* What a Create does.                                                     *)
LEMMA AddedMaps ==
  ASSUME PodsOK, EventsOK, ConstantsAssumption, \A t \in Schedulers : EventsExist(t),
         NEW a \in Apps, NEW k \in {"template", "plain", "generated"},
         NEW c \in Clusters, NEW n \in Nodes \cup {None}, NEW from \in PodNames \cup {None},
         Added(a, k, c, n, from)
  PROVE  /\ NewName \in PodNames /\ Pic[NewName] = R!Unborn
         /\ Pic' = [Pic EXCEPT ![NewName] =
              [life |-> IF n = None THEN "waiting" ELSE "starting",
               kind |-> Kind(k), node |-> n, from |-> from]]
<1>0. PICK q \in PodNames \ Used : q = NewName
  BY AddedCall
<1>1. /\ q \in Used'
      /\ \A p \in PodNames : p # q => pods'[p] = pods[p]
  BY <1>0, AddedCall
<1>2. pods'[q] = [app |-> a, kind |-> k, cluster |-> c, node |-> n,
                  phase |-> "Pending", from |-> from]
  BY <1>0 DEF Added, PodsOK
<1>3. Image(q)' = [life |-> IF n = None THEN "waiting" ELSE "starting",
                   kind |-> Kind(k), node |-> n, from |-> from]
  BY <1>1, <1>2 DEF Image, LifeOf, Kind
<1>4. Pic' = [Pic EXCEPT ![q] = Image(q)']
  BY <1>1, OnePic
<1>5. Pic[q] = R!Unborn
  BY UnusedImage
<1> QED
  BY <1>0, <1>3, <1>4, <1>5

(* What a Delete does.                                                     *)
LEMMA DeleteMaps ==
  ASSUME PodsOK, NEW p \in PodNames, Delete(p)
  PROVE  p \in Used /\ Pic' = [Pic EXCEPT ![p].life = "over"]
<1>1. p \in Used /\ pods[p] \in Pod
  BY UsedFacts DEF Delete, Used
<1>2. \A q \in PodNames : q # p => pods'[q] = pods[q]
  BY DeleteFacts
<1>3. /\ pods'[p].phase \in {"Gone", "Terminating"} /\ pods'[p].node = pods[p].node
      /\ pods'[p].from = pods[p].from /\ pods'[p].kind = pods[p].kind
  BY <1>1 DEF Delete, PodsOK, Pod
<1>4. Image(p)' = [Image(p) EXCEPT !.life = "over"]
  BY <1>1, <1>3, ImageFacts DEF Image, LifeOf, Used, Kind
<1>5. Pic' = [Pic EXCEPT ![p] = Image(p)']
  BY <1>2, OnePic
<1> QED
  BY <1>1, <1>4, <1>5 DEF Pic

-----------------------------------------------------------------------------
(* The invariant Fit.                                                      *)

(* A pod that was placed stays placed.                                     *)
PlacedKept == \A p \in Used : pods[p].node # None => pods'[p].node # None

FitPodsNext == \A p \in Used' :
  /\ pods'[p].kind = "template" => pods'[p].node = None
  /\ pods'[p].node = None => pods'[p].phase \in {"Pending", "Stuck", "Gone"}

(* What refers to kept pods stays fit; a step answers for what it changes. *)
LEMMA FitNext ==
  ASSUME IInv, Fit, PodsKept, PlacedKept, FitPodsNext,
         \A s \in Schedulers : desiredApps'[s] = desiredApps[s] \/ FitDesired(s)',
         \A s \in Schedulers : informer'[s] = informer[s] \/ FitInformer(s)',
         \A s \in Schedulers : ticker'[s] = ticker[s] \/ FitTicker(s)'
  PROVE  Fit'
<1> SUFFICES ASSUME NEW s \in Schedulers
             PROVE  FitDesired(s)' /\ FitInformer(s)' /\ FitTicker(s)'
  BY DEF Fit, FitPods, FitPodsNext
<1>0. Exist(s) /\ FitDesired(s) /\ FitInformer(s) /\ FitTicker(s)
  BY DEF IInv, Fit
<1>1. FitDesired(s)'
  BY <1>0 DEF Exist, DesiredExist, FitDesired, Declared, PodsKept
<1>2. FitInformer(s)'
  BY <1>0 DEF Exist, InformerExist, FitInformer, PodsKept
<1>3. FitTicker(s)'
  BY <1>0 DEF Exist, TickerExist, TickerRefs, FitTicker, PodsKept, PlacedKept
<1> QED
  BY <1>1, <1>2, <1>3

(* The calls of the API servers keep FitPods.                              *)
LEMMA SameFits ==
  ASSUME Fit, UNCHANGED pods
  PROVE  FitPodsNext /\ PlacedKept
  BY DEF FitPodsNext, PlacedKept, Fit, FitPods, Used

(* So does a Create, which places no template,                             *)
LEMMA AddedFits ==
  ASSUME Fit, PodsOK, EventsOK, ConstantsAssumption, \A t \in Schedulers : EventsExist(t),
         NEW a \in Apps, NEW k \in {"template", "plain", "generated"},
         NEW c \in Clusters, NEW n \in Nodes \cup {None}, NEW from \in PodNames \cup {None},
         Added(a, k, c, n, from), k = "template" => n = None
  PROVE  FitPodsNext /\ PlacedKept
<1>0. PICK q \in PodNames \ Used : q = NewName
  BY AddedCall
<1>1. \A p \in PodNames : p # q => pods'[p] = pods[p]
  BY <1>0, AddedCall
<1>2. pods'[q] = [app |-> a, kind |-> k, cluster |-> c, node |-> n,
                  phase |-> "Pending", from |-> from]
  BY <1>0 DEF Added, PodsOK
<1>3. FitPodsNext
  BY <1>1, <1>2 DEF FitPodsNext, Fit, FitPods, Used
<1>4. PlacedKept
  BY <1>1 DEF PlacedKept, Used
<1> QED
  BY <1>3, <1>4

(* and so does a Delete, which leaves no unplaced pod Terminating.         *)
LEMMA DeleteFits ==
  ASSUME Fit, PodsOK, NEW p \in PodNames, Delete(p)
  PROVE  FitPodsNext /\ PlacedKept
<1>1. p \in Used /\ pods[p] \in Pod
  BY UsedFacts DEF Delete, Used
<1>2. \A q \in PodNames : q # p => pods'[q] = pods[q]
  BY DeleteFacts
<1>3. /\ pods'[p].node = pods[p].node /\ pods'[p].kind = pods[p].kind
      /\ pods[p].node = None => pods'[p].phase = "Gone"
  BY <1>1 DEF Delete, AtOnce, PodsOK, Pod
<1>4. FitPodsNext
  BY <1>1, <1>2, <1>3 DEF FitPodsNext, Fit, FitPods, Used
<1>5. PlacedKept
  BY <1>1, <1>2, <1>3 DEF PlacedKept, Used
<1> QED
  BY <1>4, <1>5

-----------------------------------------------------------------------------
(* The steps of Scheduler: each keeps Fit and is a step of Replicas.       *)
Good == Fit' /\ Maps

(* A step that changes no pod, and nobody's list.                          *)
LEMMA Internal ==
  ASSUME IInv, Fit, UNCHANGED pods, budget'.loss = budget.loss, UNCHANGED ticker,
         \A s \in Schedulers : desiredApps'[s] = desiredApps[s] \/ FitDesired(s)',
         \A s \in Schedulers : informer'[s] = informer[s] \/ FitInformer(s)'
  PROVE  Good
<1>1. Fit'
  BY UnchangedPodsKept, SameFits, FitNext
<1>2. Pic' = Pic /\ Seen' = Seen
  BY SamePic, SeenSame DEF Part
<1> QED
  BY <1>1, <1>2, Stutters DEF Good

(* A restart loses what the scheduler had seen.                            *)
LEMMA RestartGood ==
  ASSUME IInv, Fit, NEW s \in Schedulers, Restarted(s), budget'.loss = budget.loss
  PROVE  Good
<1>0. MemoryOK /\ InformerOK /\ TickerOK
  BY TypeParts DEF IInv
<1>1. \A t \in Schedulers :
        /\ desiredApps'[t] = desiredApps[t] \/ FitDesired(t)'
        /\ informer'[t] = informer[t] \/ FitInformer(t)'
        /\ ticker'[t] = ticker[t] \/ FitTicker(t)'
  <2> SUFFICES ASSUME NEW t \in Schedulers
               PROVE /\ desiredApps'[t] = desiredApps[t] \/ FitDesired(t)'
                     /\ informer'[t] = informer[t] \/ FitInformer(t)'
                     /\ ticker'[t] = ticker[t] \/ FitTicker(t)'
    OBVIOUS
  <2>1. CASE t = s
    BY <1>0, <2>1 DEF Restarted, FitDesired, FitInformer, FitTicker, Declared,
         InformerIdle, TickerIdle, MemoryOK, InformerOK, TickerOK
  <2>2. CASE t # s
    BY <1>0, <2>2 DEF Restarted, MemoryOK, InformerOK, TickerOK
  <2> QED
    BY <2>1, <2>2
<1>2. Fit'
  BY <1>1, UnchangedPodsKept, SameFits, FitNext DEF Restarted
<1>3. Pic' = Pic
  BY SamePic DEF Restarted
<1>4. Seen' \subseteq Seen
  <2>1. \A t \in Schedulers : Part(t)' \subseteq Part(t)
    BY <1>0 DEF Restarted, Part, TickerIdle, TickerOK
  <2>2. \A p : p \in Seen' => \E t \in Schedulers : p \in Part(t)'
    BY DEF Seen, Listing, Part
  <2> QED
    BY <2>1, <2>2, SeenParts
<1> QED
  BY <1>2, <1>3, <1>4, Dismisses DEF Good

-----------------------------------------------------------------------------
(* The informer's steps.                                                   *)
LEMMA InformerCall ==
  ASSUME IInv, Fit, NEW s \in Schedulers, NEW i,
         PodsKept, PlacedKept, FitPodsNext, UNCHANGED <<memory, ticker>>,
         informer' = [informer EXCEPT ![s] = i],
         i.pc \in {"schedule", "delete", "track"} =>
           i.pod \in Used /\ pods[i.pod].kind # "template"
  PROVE  Fit' /\ Seen' = Seen
<1>1. InformerOK /\ UNCHANGED <<desiredApps, ticker>>
  BY TypeParts DEF IInv, memory
<1>2. \A t \in Schedulers : informer'[t] = informer[t] \/ FitInformer(t)'
  BY <1>1 DEF FitInformer, InformerOK, PodsKept
<1>3. Fit'
  BY <1>1, <1>2, FitNext
<1>4. Seen' = Seen
  BY <1>1, SeenSame DEF Part
<1> QED
  BY <1>3, <1>4

(* A Create that failed is no step of Replicas.                            *)
LEMMA CallFailed ==
  ASSUME IInv, CreateFails \/ (\E p \in PodNames : DeleteFails(p))
  PROVE  UNCHANGED pods /\ budget'.loss = budget.loss
<1>1. BudgetOK /\ PodsOK /\ EventsOK
  BY TypeParts DEF IInv
<1>2. UNCHANGED api /\ (Answers \/ Fails)
  BY DEF CreateFails, DeleteFails
<1> QED
  BY <1>1, <1>2, Spent DEF api

(* What Bind does to a pod that is there and has no node yet.              *)
LEMMA BoundFacts ==
  ASSUME IInv, Fit, ConstantsAssumption, NEW r \in Used, NEW n \in Nodes,
         Live(r), pods[r].node = None, pods[r].kind # "template",
         pods' = [pods EXCEPT ![r].node = n]
  PROVE  /\ PodsKept /\ PlacedKept /\ FitPodsNext
         /\ r \in PodNames /\ Pic[r].life = "waiting" /\ Pic[r].kind = "workload"
         /\ Pic' = [Pic EXCEPT ![r].life = "starting", ![r].node = n]
<1>0. PodsOK /\ r \in PodNames /\ pods[r] \in Pod /\ n # None
  BY TypeParts, UsedFacts DEF IInv, ConstantsAssumption
<1>1. \A q \in PodNames : q # r => pods'[q] = pods[q]
  BY <1>0 DEF PodsOK
<1>2. /\ pods'[r] = [pods[r] EXCEPT !.node = n]
      /\ pods[r].phase \in {"Pending", "Stuck"}
  BY <1>0 DEF PodsOK, Live, Fit, FitPods
<1>3. /\ pods'[r].node = n /\ pods'[r].phase = pods[r].phase
      /\ pods'[r].kind = pods[r].kind /\ pods'[r].from = pods[r].from
      /\ pods'[r].app = pods[r].app /\ r \in Used'
  BY <1>0, <1>2 DEF Pod, Used
<1>4. PodsKept
  BY <1>1, <1>3 DEF PodsKept, Used
<1>5. PlacedKept
  BY <1>0, <1>1, <1>3 DEF PlacedKept, Used
<1>6. FitPodsNext
  <2> SUFFICES ASSUME NEW q \in Used'
               PROVE  /\ pods'[q].kind = "template" => pods'[q].node = None
                      /\ pods'[q].node = None => pods'[q].phase \in {"Pending", "Stuck", "Gone"}
    BY DEF FitPodsNext
  <2>1. CASE q = r
    BY <1>0, <1>3, <2>1
  <2>2. CASE q # r
    BY <1>1, <2>2 DEF Fit, FitPods, Used
  <2> QED
    BY <2>1, <2>2
<1>7. /\ Pic[r] = Image(r)
      /\ Image(r) = [life |-> "waiting", kind |-> "workload",
                     node |-> None, from |-> pods[r].from]
  BY <1>0, <1>2, ImageFacts DEF Kind, LifeOf
<1>8. Image(r)' = [life |-> "starting", kind |-> "workload",
                   node |-> n, from |-> pods[r].from]
  BY <1>0, <1>2, <1>3 DEF Image, LifeOf
<1> DEFINE e == [Image(r) EXCEPT !.life = "starting"]
<1>9. e = [life |-> "starting", kind |-> "workload", node |-> None, from |-> pods[r].from]
  BY <1>7
<1> HIDE DEF e
<1>10. Image(r)' = [e EXCEPT !.node = n]
  BY <1>8, <1>9
<1>11. Pic' = [Pic EXCEPT ![r] = Image(r)']
  BY <1>0, <1>1, OnePic
<1>12. [Pic EXCEPT ![r].life = "starting"] = [Pic EXCEPT ![r] = e]
  BY <1>7 DEF e
<1>13. [[Pic EXCEPT ![r] = e] EXCEPT ![r].node = n] = [Pic EXCEPT ![r] = [e EXCEPT !.node = n]]
  BY <1>0 DEF Pic
<1>14. Pic' = [Pic EXCEPT ![r].life = "starting", ![r].node = n]
  BY <1>10, <1>11, <1>12, <1>13
<1>15. Pic[r].life = "waiting" /\ Pic[r].kind = "workload"
  BY <1>7
<1> QED
  BY <1>0, <1>4, <1>5, <1>6, <1>14, <1>15

(* Every step of an informer is one of Replicas.                           *)
LEMMA InformerGood ==
  ASSUME IInv, Fit, ConstantsAssumption, NEW s \in Schedulers, InformerStep(s)
  PROVE  Good
<1>0. /\ PodsOK /\ EventsOK /\ MemoryOK /\ InformerOK /\ TickerOK /\ BudgetOK
      /\ \A t \in Schedulers : Exist(t) /\ EventsExist(t)
      /\ Used \subseteq PodNames /\ \A p \in Used : pods[p] \in Pod
      /\ Exist(s) /\ InformerExist(s) /\ FitInformer(s) /\ FitDesired(s)
  BY TypeParts, UsedFacts DEF IInv, Exist, Fit
<1> DEFINE p == informer[s].pod
           q == informer[s].copy
<1>1. /\ informer[s] \in Informer
      /\ informer[s].pc # "idle" => p \in Used /\ pods[p] \in Pod
  BY <1>0 DEF InformerExist, InformerOK
<1>2. InformerIdle.pc = "idle"
  BY DEF InformerIdle
<1>3. ASSUME UNCHANGED <<pods, desiredApps, ticker, budget>>,
             NEW i, informer' = [informer EXCEPT ![s] = i],
             i.pc \in {"schedule", "delete", "track"} =>
               i.pod \in Used /\ pods[i.pod].kind # "template"
      PROVE  Good
  <2>1. \A t \in Schedulers : informer'[t] = informer[t] \/ FitInformer(t)'
    BY <1>0, <1>3 DEF FitInformer, InformerOK
  <2> QED
    BY <1>3, <2>1, Internal
<1>4. ASSUME UNCHANGED <<memory, ticker>>,
             CreateFails \/ (\E r \in PodNames : DeleteFails(r)),
             NEW i, informer' = [informer EXCEPT ![s] = i],
             i.pc \in {"schedule", "delete", "track"} =>
               i.pod \in Used /\ pods[i.pod].kind # "template"
      PROVE  Good
  <2>1. UNCHANGED pods /\ budget'.loss = budget.loss
    BY <1>4, CallFailed
  <2>2. PodsKept /\ PlacedKept /\ FitPodsNext
    BY <2>1, UnchangedPodsKept, SameFits
  <2>3. Fit' /\ Seen' = Seen
    BY <1>4, <2>2, InformerCall
  <2> QED
    BY <2>1, <2>3, SamePic, Stutters DEF Good
<1>5. ASSUME NEW r \in PodNames, AddTemplate(s, r) PROVE Good
  <2>1. /\ UNCHANGED <<pods, ticker, budget>> /\ r \in Used /\ pods[r].kind = "template"
        /\ \A t \in Schedulers : informer'[t] = informer[t] \/ informer'[t].pc = "expand"
        /\ \A t \in Schedulers : t # s => desiredApps'[t] = desiredApps[t]
        /\ desiredApps'[s] = [desiredApps[s] EXCEPT ![pods[r].app] = r]
    BY <1>0, <1>5 DEF AddTemplate, InformerOK, MemoryOK, EventsExist
  <2>2. FitDesired(s)'
    BY <1>0, <2>1 DEF FitDesired, Declared, MemoryOK
  <2>3. \A t \in Schedulers : informer'[t] = informer[t] \/ FitInformer(t)'
    BY <2>1 DEF FitInformer
  <2> QED
    BY <2>1, <2>2, <2>3, Internal
<1>6. ASSUME NEW r \in PodNames, AddPod(s, r) PROVE Good
  <2> DEFINE i == [pc |-> "schedule", pod |-> r, left |-> 0, copy |-> None]
  <2>1. /\ UNCHANGED <<pods, desiredApps, ticker, budget>> /\ informer' = [informer EXCEPT ![s] = i]
        /\ i.pod \in Used /\ pods[i.pod].kind # "template"
    BY <1>0, <1>6 DEF AddPod, EventsExist, memory
  <2> HIDE DEF i
  <2> QED
    BY <1>3, <2>1
<1>7. CASE ExpandReplica(s)
  <2> DEFINE i == [informer[s] EXCEPT !.left = @ - 1]
  <2>1. /\ UNCHANGED <<memory, ticker>> /\ informer' = [informer EXCEPT ![s] = i]
        /\ i.pc = "expand" /\ p \in Used /\ pods[p] \in Pod /\ pods[p].kind = "template"
    BY <1>0, <1>1, <1>7 DEF ExpandReplica, Informer, InformerOK, InformerExist
  <2>2. CASE Create(pods[p].app, "generated", Home[s], None, p)
    <3>1. /\ Added(pods[p].app, "generated", Home[s], None, p) /\ budget' = budget
          /\ pods[p].app \in Apps /\ Home[s] \in Clusters
          /\ None \in Nodes \cup {None} /\ p \in PodNames \cup {None} /\ p \in PodNames
      BY <1>0, <2>1, <2>2 DEF Create, Answers, Pod, ConstantsAssumption
    <3>2. PodsKept /\ PlacedKept /\ FitPodsNext
      BY <1>0, <3>1, AddedCall, AddedFits
    <3> HIDE DEF i
    <3>3. Fit' /\ Seen' = Seen
      BY <2>1, <3>2, InformerCall
    <3>4. /\ NewName \in PodNames /\ Pic[NewName] = R!Unborn
          /\ Pic' = [Pic EXCEPT ![NewName] =
               [life |-> "waiting", kind |-> "workload", node |-> None, from |-> p]]
      BY <1>0, <3>1, AddedMaps DEF Kind
    <3>5. Pic[p].kind = "request"
      BY <1>0, <2>1, ImageFacts DEF Kind
    <3> QED
      BY <3>1, <3>3, <3>4, <3>5, Births DEF Good
  <2>3. CASE CreateFails
    BY <1>4, <2>1, <2>3
  <2> QED
    BY <1>7, <2>2, <2>3 DEF ExpandReplica
<1>8. CASE DeleteTemplate(s)
  <2>1. /\ UNCHANGED <<memory, ticker>> /\ informer' = [informer EXCEPT ![s] = InformerIdle]
        /\ p \in Used /\ p \in PodNames /\ pods[p].kind = "template"
    BY <1>0, <1>1, <1>8 DEF DeleteTemplate, InformerExist
  <2>2. CASE Delete(p)
    <3>1. /\ PodsKept /\ PlacedKept /\ FitPodsNext /\ budget' = budget
          /\ Pic' = [Pic EXCEPT ![p].life = "over"]
      BY <1>0, <2>1, <2>2, DeleteFacts, DeleteFits, DeleteMaps
    <3>2. Fit' /\ Seen' = Seen
      BY <1>2, <2>1, <3>1, InformerCall
    <3>3. /\ Pic[p].life \in {"waiting", "starting", "running", "ended", "over"}
          /\ Pic[p].kind = "request"
      BY <1>0, <2>1, ImageFacts DEF Kind
    <3> QED
      BY <2>1, <3>1, <3>2, <3>3, Retires DEF Good
  <2>3. CASE DeleteFails(p)
    BY <1>2, <1>4, <2>1, <2>3
  <2> QED
    BY <1>8, <2>2, <2>3 DEF DeleteTemplate
<1>9. CASE ScheduleFails(s)
  BY <1>2, <1>4, <1>9 DEF ScheduleFails
<1>10. ASSUME NEW n \in Nodes, BindLocal(s, n) PROVE Good
  <2>1. /\ UNCHANGED <<memory, ticker, budget>> /\ informer' = [informer EXCEPT ![s] = InformerIdle]
        /\ p \in Used /\ p \in PodNames /\ pods[p] \in Pod /\ pods[p].kind # "template"
    BY <1>0, <1>1, <1>10 DEF BindLocal, FitInformer
  <2>2. CASE pods' = pods
    BY <1>2, <1>3, <2>1, <2>2 DEF memory
  <2>3. CASE Live(p) /\ pods[p].node = None /\ pods' = [pods EXCEPT ![p].node = n]
    <3>1. PICK r \in Used : r = p
      BY <2>1
    <3>2. /\ Live(r) /\ pods[r].node = None /\ pods[r].kind # "template"
          /\ pods' = [pods EXCEPT ![r].node = n]
      BY <2>1, <2>3, <3>1
    <3>3. /\ PodsKept /\ PlacedKept /\ FitPodsNext
          /\ r \in PodNames /\ Pic[r].life = "waiting" /\ Pic[r].kind = "workload"
          /\ Pic' = [Pic EXCEPT ![r].life = "starting", ![r].node = n]
      BY <1>0, <3>2, BoundFacts
    <3>4. Fit' /\ Seen' = Seen
      BY <1>2, <2>1, <3>3, InformerCall
    <3> QED
      BY <2>1, <3>3, <3>4, Binds DEF Good
  <2> QED
    BY <1>10, <2>2, <2>3 DEF BindLocal
<1>11. ASSUME NEW n \in Nodes, CreateRemote(s, n) PROVE Good
  <2> DEFINE i == [informer[s] EXCEPT !.pc = "delete", !.copy = NewName]
  <2>1. /\ Added(pods[p].app, pods[p].kind, ClusterOf[n], n, p) /\ budget' = budget
        /\ p \in Used /\ pods[p] \in Pod /\ pods[p].kind # "template"
        /\ UNCHANGED <<memory, ticker>> /\ informer' = [informer EXCEPT ![s] = i] /\ i.pod = p
    BY <1>0, <1>1, <1>11 DEF CreateRemote, Create, Answers, FitInformer, Informer, InformerOK
  <2> HIDE DEF i
  <2>2. /\ pods[p].app \in Apps /\ pods[p].kind \in {"template", "plain", "generated"}
        /\ ClusterOf[n] \in Clusters /\ n \in Nodes \cup {None} /\ n # None
        /\ p \in PodNames \cup {None} /\ p \in PodNames
    BY <1>0, <2>1 DEF Pod, ConstantsAssumption
  <2>3. PodsKept /\ PlacedKept /\ FitPodsNext
    BY <1>0, <2>1, <2>2, AddedCall, AddedFits
  <2>4. Fit' /\ Seen' = Seen
    BY <2>1, <2>3, InformerCall
  <2>5. /\ NewName \in PodNames /\ Pic[NewName] = R!Unborn
        /\ Pic' = [Pic EXCEPT ![NewName] =
             [life |-> "starting", kind |-> "workload", node |-> n, from |-> p]]
    BY <1>0, <2>1, <2>2, AddedMaps DEF Kind
  <2>6. Pic[p].kind = "workload"
    BY <1>0, <2>1, ImageFacts DEF Kind
  <2> QED
    BY <2>1, <2>2, <2>4, <2>5, <2>6, Births DEF Good
<1>12. CASE DeleteOriginal(s)
  <2> DEFINE i == [informer[s] EXCEPT !.pc = "track"]
  <2>1. /\ UNCHANGED <<memory, ticker>> /\ informer' = [informer EXCEPT ![s] = i] /\ i.pod = p
        /\ p \in Used /\ p \in PodNames /\ pods[p].kind # "template"
        /\ q \in Used /\ q \in PodNames /\ pods[q].from = p
    BY <1>0, <1>1, <1>12 DEF DeleteOriginal, InformerExist, FitInformer, Informer, InformerOK
  <2> HIDE DEF i
  <2>2. CASE Delete(p)
    <3>1. /\ PodsKept /\ PlacedKept /\ FitPodsNext /\ budget' = budget
          /\ Pic' = [Pic EXCEPT ![p].life = "over"]
      BY <1>0, <2>1, <2>2, DeleteFacts, DeleteFits, DeleteMaps
    <3>2. Fit' /\ Seen' = Seen
      BY <2>1, <3>1, InformerCall
    <3>3. /\ Pic[p].life \in {"waiting", "starting", "running", "ended", "over"}
          /\ Pic[q].from = p
      BY <1>0, <2>1, ImageFacts
    <3> QED
      BY <2>1, <3>1, <3>2, <3>3, Retires DEF Good
  <2>3. CASE DeleteFails(p)
    BY <1>4, <2>1, <2>3
  <2> QED
    BY <1>12, <2>2, <2>3 DEF DeleteOriginal
<1>13. CASE Track(s)
  BY <1>2, <1>3, <1>13 DEF Track, api
<1>14. CASE Panic(s)
  BY <1>14, RestartGood DEF Panic, Answers
<1> QED
  BY <1>5, <1>6, <1>7, <1>8, <1>9, <1>10, <1>11, <1>12, <1>13, <1>14 DEF InformerStep
-----------------------------------------------------------------------------
(* The ticker's steps.                                                     *)

(* Locals of a ticker that are fit, and what they add to what is seen.     *)
FitLocals(t) ==
  /\ t.pc \in {"list", "respawn"} => t.obj \in Used /\ pods[t.obj].kind = "template"
  /\ t.pc \in {"reconcile", "moveDelete"} =>
       \A p \in t.todo : p \in Used /\ pods[p].node # None
  /\ t.pc = "enforce" => t.todo = {}
Shown(t) == IF t.pc = "list" THEN t.todo ELSE {}

(* The locals a ticker has are fit.                                        *)
LEMMA FitNow ==
  ASSUME IInv, Fit, NEW s \in Schedulers
  PROVE  FitLocals(ticker[s]) /\ Part(s) = Shown(ticker[s])
  BY DEF IInv, Exist, TickerExist, TickerRefs, Fit, FitTicker, FitLocals, Part, Shown

(* A step of the ticker of s with fit new locals keeps Fit, and changes    *)
(* nothing in what the others have seen.                                   *)
LEMMA TickerCall ==
  ASSUME IInv, Fit, NEW s \in Schedulers, NEW t, FitLocals(t),
         PodsKept, PlacedKept, FitPodsNext, UNCHANGED <<desiredApps, informer>>,
         ticker' = [ticker EXCEPT ![s] = t]
  PROVE  /\ Fit'
         /\ \A r \in Schedulers : Part(r)' = IF r = s THEN Shown(t) ELSE Part(r)
<1>1. TickerOK
  BY TypeParts DEF IInv
<1>2. /\ ticker'[s] = t
      /\ \A r \in Schedulers : r # s => ticker'[r] = ticker[r]
  BY <1>1 DEF TickerOK
<1>3. FitTicker(s)'
  BY <1>2 DEF FitTicker, FitLocals, PodsKept, PlacedKept
<1>4. Fit'
  BY <1>2, <1>3, FitNext
<1> QED
  BY <1>2, <1>4 DEF Part, Shown

(* One that changes no pod and sees no new one is no step, or a Dismiss.   *)
LEMMA TickerQuiet ==
  ASSUME IInv, Fit, NEW s \in Schedulers, NEW t, FitLocals(t), Shown(t) \subseteq Part(s),
         UNCHANGED <<pods, desiredApps, informer>>, budget'.loss = budget.loss,
         ticker' = [ticker EXCEPT ![s] = t]
  PROVE  Good
<1>1. /\ Fit'
      /\ \A r \in Schedulers : Part(r)' = IF r = s THEN Shown(t) ELSE Part(r)
  BY UnchangedPodsKept, SameFits, TickerCall
<1>2. Seen' \subseteq Seen
  <2>1. \A p : p \in Seen' => \E r \in Schedulers : p \in Part(r)'
    BY DEF Seen, Listing, Part
  <2> QED
    BY <1>1, <2>1, SeenParts
<1> QED
  BY <1>1, <1>2, SamePic, Dismisses DEF Good

(* What calls of the ticker cost.                                          *)
LEMMA NoLossSpent ==
  ASSUME IInv, Answers \/ Fails
  PROVE  budget'.loss = budget.loss
<1>1. BudgetOK
  BY TypeParts DEF IInv
<1> QED
  BY <1>1, Spent

(* The copy that reschedulePod creates.                                    *)
LEMMA MoveGood ==
  ASSUME IInv, Fit, ConstantsAssumption, NEW s \in Schedulers,
         NEW p \in PodNames, NEW n \in Nodes, Move(s, p, n)
  PROVE  Good
<1>0. /\ PodsOK /\ EventsOK /\ TickerOK
      /\ \A r \in Schedulers : EventsExist(r)
      /\ Used \subseteq PodNames /\ \A q \in Used : pods[q] \in Pod
      /\ FitLocals(ticker[s]) /\ Part(s) = Shown(ticker[s]) /\ ticker[s] \in Ticker
  BY TypeParts, UsedFacts, FitNow DEF IInv, Exist, TickerOK
<1> DEFINE t == [ticker[s] EXCEPT !.todo = @ \ {p}, !.pc = "moveDelete",
                                  !.pod = p, !.copy = NewName]
<1>1. /\ ticker[s].pc = "reconcile" /\ p \in ticker[s].todo /\ p \in Used
      /\ pods[p].node # None /\ pods[p].kind # "template" /\ pods[p] \in Pod
  BY <1>0 DEF Move, NextInList, FitLocals, Fit, FitPods
<1>2. /\ Added(pods[p].app, pods[p].kind, ClusterOf[n], n, p) /\ budget' = budget
      /\ UNCHANGED <<desiredApps, informer>>
  BY DEF Move, Create, Answers
<1>3. /\ pods[p].app \in Apps /\ pods[p].kind \in {"template", "plain", "generated"}
      /\ ClusterOf[n] \in Clusters /\ n \in Nodes \cup {None} /\ n # None
      /\ p \in PodNames \cup {None}
  BY <1>1 DEF Pod, ConstantsAssumption
<1>4. PodsKept /\ PlacedKept /\ FitPodsNext
  BY <1>0, <1>1, <1>2, <1>3, AddedCall, AddedFits
<1>5. /\ ticker' = [ticker EXCEPT ![s] = t] /\ t.pc = "moveDelete" /\ t.todo = ticker[s].todo \ {p}
  BY <1>0 DEF Move, Ticker, TickerOK
<1> HIDE DEF t
<1>6. FitLocals(t) /\ Shown(t) = {} /\ Part(s) = {}
  BY <1>0, <1>1, <1>5 DEF FitLocals, Shown
<1>7. Fit' /\ \A r \in Schedulers : Part(r)' = Part(r)
  BY <1>2, <1>4, <1>5, <1>6, TickerCall
<1>8. /\ NewName \in PodNames /\ Pic[NewName] = R!Unborn
      /\ Pic' = [Pic EXCEPT ![NewName] =
           [life |-> "starting", kind |-> "workload", node |-> n, from |-> p]]
  BY <1>0, <1>1, <1>2, <1>3, AddedMaps DEF Kind
<1>9. Pic[p].kind = "workload"
  BY <1>0, <1>1, ImageFacts DEF Kind
<1> QED
  BY <1>2, <1>7, <1>8, <1>9, SeenSame, Births DEF Good

(* reschedulePod deletes the pod it has copied.                            *)
LEMMA MoveDeleteGood ==
  ASSUME IInv, Fit, NEW s \in Schedulers, MoveDelete(s)
  PROVE  Good
<1>0. /\ PodsOK /\ TickerOK
      /\ Used \subseteq PodNames /\ \A r \in Used : pods[r] \in Pod
      /\ FitLocals(ticker[s]) /\ Part(s) = Shown(ticker[s]) /\ ticker[s] \in Ticker
      /\ TickerRefs(s, ticker[s])
  BY TypeParts, UsedFacts, FitNow DEF IInv, Exist, TickerExist, TickerOK
<1> DEFINE t == [ticker[s] EXCEPT !.pc = "reconcile", !.pod = None, !.copy = None]
<1>1. /\ ticker[s].pc = "moveDelete" /\ UNCHANGED <<desiredApps, informer>>
      /\ ticker' = [ticker EXCEPT ![s] = t] /\ t.pc = "reconcile" /\ t.todo = ticker[s].todo
  BY <1>0 DEF MoveDelete, Ticker, TickerOK
<1>2. PICK p \in Used : p = ticker[s].pod
  BY <1>0, <1>1 DEF TickerRefs
<1>3. PICK q \in Used : pods[q].from = p
  BY <1>0, <1>1, <1>2 DEF TickerRefs
<1> HIDE DEF t
<1>4. FitLocals(t) /\ Shown(t) = {} /\ Part(s) = {}
  BY <1>0, <1>1 DEF FitLocals, Shown
<1>5. CASE Delete(p)
  <2>1. /\ PodsKept /\ PlacedKept /\ FitPodsNext /\ budget' = budget
        /\ Pic' = [Pic EXCEPT ![p].life = "over"]
    BY <1>0, <1>5, DeleteFacts, DeleteFits, DeleteMaps
  <2>2. Fit' /\ \A r \in Schedulers : Part(r)' = Part(r)
    BY <1>1, <1>4, <2>1, TickerCall
  <2>3. /\ Pic[p].life \in {"waiting", "starting", "running", "ended", "over"}
        /\ Pic[q].from = p
    BY <1>0, <1>3, ImageFacts
  <2> QED
    BY <1>0, <2>1, <2>2, <2>3, SeenSame, Retires DEF Good
<1>6. CASE DeleteFails(p)
  <2>1. UNCHANGED pods /\ budget'.loss = budget.loss
    BY <1>0, <1>6, CallFailed
  <2> QED
    BY <1>1, <1>4, <2>1, TickerQuiet
<1> QED
  BY <1>2, <1>5, <1>6 DEF MoveDelete

(* A list of EnforceDesired shows pods that do not run.                    *)
LEMMA EnforceListGood ==
  ASSUME IInv, Fit, NEW s \in Schedulers, NEW c \in Clusters, EnforceList(s, c)
  PROVE  Good
<1>0. /\ PodsOK /\ TickerOK
      /\ FitLocals(ticker[s]) /\ Part(s) = Shown(ticker[s]) /\ ticker[s] \in Ticker
  BY TypeParts, FitNow DEF IInv, TickerOK
<1> DEFINE a == pods[ticker[s].obj].app
           t == [ticker[s] EXCEPT !.clusters = @ \ {c},
                        !.found = @ \cup Counted(c, a), !.todo = Doomed(c, a)]
           u == [ticker[s] EXCEPT !.clusters = @ \ {c}]
<1>1. /\ ticker[s].pc = "list" /\ ticker[s].todo = {}
      /\ UNCHANGED <<pods, desiredApps, informer>> /\ (Answers \/ Fails)
      /\ ticker' = [ticker EXCEPT ![s] = t] \/ ticker' = [ticker EXCEPT ![s] = u]
  BY <1>0 DEF EnforceList, TickerOK, api, memory
<1>2. /\ t.pc = "list" /\ t.obj = ticker[s].obj /\ t.todo = Doomed(c, a)
      /\ u.pc = "list" /\ u.obj = ticker[s].obj /\ u.todo = {}
  BY <1>0, <1>1 DEF Ticker
<1>3. /\ PodsKept /\ PlacedKept /\ FitPodsNext /\ Pic' = Pic
      /\ budget'.loss = budget.loss
  BY <1>1, UnchangedPodsKept, SameFits, SamePic, NoLossSpent
<1> HIDE DEF t, u
<1>4. /\ FitLocals(t) /\ Shown(t) = Doomed(c, a) /\ FitLocals(u) /\ Shown(u) = {}
      /\ Part(s) = {}
  BY <1>0, <1>1, <1>2 DEF FitLocals, Shown
<1>5. CASE ticker' = [ticker EXCEPT ![s] = t]
  <2>1. /\ Fit'
        /\ \A r \in Schedulers : Part(r)' = IF r = s THEN Doomed(c, a) ELSE Part(r)
    BY <1>1, <1>3, <1>4, <1>5, TickerCall
  <2>2. \A p : p \in Seen' <=> \E r \in Schedulers : p \in Part(r)'
    BY DEF Seen, Listing, Part
  <2>3. Seen \subseteq Seen' /\ Seen' \ Seen \subseteq Doomed(c, a)
    BY <1>4, <2>1, <2>2, SeenParts
  <2>4. \A p \in Doomed(c, a) : Pic[p].life \in {"waiting", "starting", "ended"}
    BY <1>0, ImageFacts DEF Doomed, AppPods, Present, InCluster, LifeOf
  <2> HIDE DEF a
  <2> QED
    BY <1>3, <2>1, <2>3, <2>4, Suspects DEF Good
<1>6. CASE ticker' = [ticker EXCEPT ![s] = u]
  BY <1>1, <1>3, <1>4, <1>6, TickerQuiet
<1> QED
  BY <1>1, <1>5, <1>6

(* EnforceDesired deletes what its list had shown.                         *)
LEMMA EnforceDeleteGood ==
  ASSUME IInv, Fit, NEW s \in Schedulers, NEW p \in PodNames, EnforceDelete(s, p)
  PROVE  Good
<1>0. /\ PodsOK /\ TickerOK
      /\ FitLocals(ticker[s]) /\ Part(s) = Shown(ticker[s]) /\ ticker[s] \in Ticker
      /\ TickerRefs(s, ticker[s])
  BY TypeParts, FitNow DEF IInv, Exist, TickerExist, TickerOK
<1> DEFINE t == [ticker[s] EXCEPT !.todo = @ \ {p}]
<1>1. /\ ticker[s].pc = "list" /\ p \in ticker[s].todo /\ p \in Used
      /\ UNCHANGED <<desiredApps, informer>> /\ ticker' = [ticker EXCEPT ![s] = t]
      /\ t.pc = "list" /\ t.obj = ticker[s].obj /\ t.todo = ticker[s].todo \ {p}
  BY <1>0 DEF EnforceDelete, Ticker, TickerOK, TickerRefs, memory
<1> HIDE DEF t
<1>2. FitLocals(t) /\ Shown(t) = Part(s) \ {p} /\ p \in Part(s)
  BY <1>0, <1>1 DEF FitLocals, Shown
<1>3. CASE Delete(p)
  <2>1. /\ PodsKept /\ PlacedKept /\ FitPodsNext /\ budget' = budget
        /\ Pic' = [Pic EXCEPT ![p].life = "over"]
    BY <1>0, <1>3, DeleteFacts, DeleteFits, DeleteMaps
  <2>2. /\ Fit'
        /\ \A r \in Schedulers : Part(r)' = IF r = s THEN Part(s) \ {p} ELSE Part(r)
    BY <1>1, <1>2, <2>1, TickerCall
  <2>3. \A q : q \in Seen' <=> \E r \in Schedulers : q \in Part(r)'
    BY DEF Seen, Listing, Part
  <2>4. p \in Seen /\ \A q : q # p => (q \in Seen' <=> q \in Seen)
    BY <1>2, <2>2, <2>3, SeenParts
  <2>5. Seen' = Seen \/ Seen' = Seen \ {p}
    BY <2>4
  <2>6. Pic[p].life \in {"waiting", "starting", "running", "ended", "over"}
    BY <1>0, <1>1, ImageFacts
  <2> QED
    BY <2>1, <2>2, <2>4, <2>5, <2>6, Retires DEF Good
<1>4. CASE DeleteFails(p)
  <2>1. UNCHANGED pods /\ budget'.loss = budget.loss
    BY <1>4, CallFailed
  <2> QED
    BY <1>1, <1>2, <2>1, TickerQuiet
<1> QED
  BY <1>3, <1>4 DEF EnforceDelete

(* EnforceDesired replaces a tracked pod that no list showed.              *)
LEMMA RespawnGood ==
  ASSUME IInv, Fit, ConstantsAssumption, NEW s \in Schedulers, NEW p \in PodNames,
         Respawn(s, p)
  PROVE  Good
<1>0. /\ PodsOK /\ EventsOK /\ TickerOK
      /\ \A r \in Schedulers : EventsExist(r)
      /\ Used \subseteq PodNames /\ \A q \in Used : pods[q] \in Pod
      /\ FitLocals(ticker[s]) /\ Part(s) = Shown(ticker[s])
      /\ TickerRefs(s, ticker[s])
  BY TypeParts, UsedFacts, FitNow DEF IInv, Exist, TickerExist, TickerOK
<1>1. PICK d \in Used : d = ticker[s].obj
  BY <1>0 DEF Respawn, TickerRefs
<1>2. /\ pods[d].kind = "template" /\ ticker[s].pc = "respawn"
      /\ pods[d].app \in Apps /\ Home[s] \in Clusters
      /\ UNCHANGED <<desiredApps, informer, ticker>>
      /\ ticker' = [ticker EXCEPT ![s] = ticker[s]]
  BY <1>0, <1>1 DEF Respawn, FitLocals, Pod, ConstantsAssumption, TickerOK
<1>3. CASE Create(pods[d].app, "generated", Home[s], None, d)
  <2>1. /\ Added(pods[d].app, "generated", Home[s], None, d) /\ budget' = budget
        /\ None \in Nodes \cup {None} /\ d \in PodNames \cup {None} /\ d \in PodNames
    BY <1>0, <1>3 DEF Create, Answers
  <2>2. PodsKept /\ PlacedKept /\ FitPodsNext
    BY <1>0, <1>2, <2>1, AddedCall, AddedFits
  <2>3. Fit' /\ \A r \in Schedulers : Part(r)' = Part(r)
    BY <1>0, <1>2, <2>2, TickerCall
  <2>4. /\ NewName \in PodNames /\ Pic[NewName] = R!Unborn
        /\ Pic' = [Pic EXCEPT ![NewName] =
             [life |-> "waiting", kind |-> "workload", node |-> None, from |-> d]]
    BY <1>0, <1>2, <2>1, AddedMaps DEF Kind
  <2>5. Pic[d].kind = "request"
    BY <1>0, <1>2, ImageFacts DEF Kind
  <2> QED
    BY <2>1, <2>3, <2>4, <2>5, SeenSame, Births DEF Good
<1>4. CASE CreateFails
  <2>1. UNCHANGED pods /\ budget'.loss = budget.loss
    BY <1>4, CallFailed
  <2> QED
    BY <1>0, <1>2, <2>1, TickerQuiet
<1> QED
  BY <1>1, <1>3, <1>4 DEF Respawn

(* Every step of a ticker is one of Replicas.                              *)
LEMMA TickerGood ==
  ASSUME IInv, Fit, ConstantsAssumption, NEW s \in Schedulers, TickerStep(s)
  PROVE  Good
<1>0. /\ TickerOK /\ ticker[s] \in Ticker
      /\ FitLocals(ticker[s]) /\ Part(s) = Shown(ticker[s])
      /\ Exist(s) /\ FitDesired(s) /\ TickerRefs(s, ticker[s])
  BY TypeParts, FitNow DEF IInv, Exist, TickerExist, TickerOK, Fit
<1>1. /\ FitLocals(TickerIdle) /\ Shown(TickerIdle) = {}
      /\ FitLocals(StartEnforce(s)) /\ Shown(StartEnforce(s)) = {}
  BY DEF FitLocals, Shown, StartEnforce, TickerIdle
<1>2. ASSUME UNCHANGED <<api, memory, informer>>, Answers \/ Fails,
             NEW t, FitLocals(t), Shown(t) \subseteq Part(s),
             ticker' = [ticker EXCEPT ![s] = t]
      PROVE  Good
  <2>1. UNCHANGED <<pods, desiredApps, informer>> /\ budget'.loss = budget.loss
    BY <1>2, NoLossSpent DEF api, memory
  <2> QED
    BY <1>2, <2>1, TickerQuiet
<1>3. CASE Tick(s)
  <2> DEFINE t == [TickerIdle EXCEPT !.pc = "reconcile", !.clusters = Clusters]
  <2>1. FitLocals(t) /\ Shown(t) = {}
    BY DEF FitLocals, Shown, TickerIdle
  <2>2. /\ UNCHANGED <<api, memory, informer>> /\ (Answers \/ Fails)
        /\ \/ ticker' = [ticker EXCEPT ![s] = t]
           \/ ticker' = [ticker EXCEPT ![s] = StartEnforce(s)]
    BY <1>3 DEF Tick
  <2> HIDE DEF t
  <2> QED
    BY <1>1, <1>2, <2>1, <2>2
<1>4. ASSUME NEW c \in Clusters, ReconcileList(s, c) PROVE Good
  <2> DEFINE t == [ticker[s] EXCEPT !.clusters = @ \ {c}, !.todo = Present(c) \ Unscheduled(c)]
             u == [ticker[s] EXCEPT !.clusters = @ \ {c}]
  <2>1. /\ t.pc = "reconcile" /\ t.todo = Present(c) \ Unscheduled(c)
        /\ u.pc = "reconcile" /\ u.todo = {}
    BY <1>0, <1>4 DEF ReconcileList, Ticker
  <2>2. /\ UNCHANGED <<api, memory, informer>> /\ (Answers \/ Fails)
        /\ ticker' = [ticker EXCEPT ![s] = t] \/ ticker' = [ticker EXCEPT ![s] = u]
    BY <1>0, <1>4 DEF ReconcileList, TickerOK
  <2>3. \A p \in Present(c) \ Unscheduled(c) : p \in Used /\ pods[p].node # None
    BY DEF Present, Unscheduled, InCluster
  <2> HIDE DEF t, u
  <2>4. FitLocals(t) /\ Shown(t) = {} /\ FitLocals(u) /\ Shown(u) = {}
    BY <2>1, <2>3 DEF FitLocals, Shown
  <2> QED
    BY <1>2, <2>2, <2>4
<1>5. ASSUME NEW p \in PodNames, Keep(s, p) PROVE Good
  <2> DEFINE t == [ticker[s] EXCEPT !.todo = @ \ {p}]
  <2>1. /\ ticker[s].pc = "reconcile" /\ t.pc = "reconcile" /\ t.todo = ticker[s].todo \ {p}
        /\ UNCHANGED <<api, memory, informer>> /\ Answers
        /\ ticker' = [ticker EXCEPT ![s] = t]
    BY <1>0, <1>5 DEF Keep, NextInList, Ticker, TickerOK, Answers
  <2> HIDE DEF t
  <2>2. FitLocals(t) /\ Shown(t) = {}
    BY <1>0, <2>1 DEF FitLocals, Shown
  <2> QED
    BY <1>2, <2>1, <2>2
<1>6. ASSUME NEW p \in PodNames, NEW n \in Nodes, Move(s, p, n) PROVE Good
  BY <1>6, MoveGood
<1>7. CASE MoveDelete(s)
  BY <1>7, MoveDeleteGood
<1>8. CASE ReconcileDone(s)
  BY <1>1, <1>2, <1>8 DEF ReconcileDone, Answers
<1>9. ASSUME NEW a \in Apps, EnforceApp(s, a) PROVE Good
  <2> DEFINE t == [ticker[s] EXCEPT !.apps = @ \ {a}, !.pc = "list",
                                    !.clusters = Clusters, !.obj = desiredApps[s][a]]
  <2>1. /\ ticker[s].pc = "enforce" /\ a \in ticker[s].apps
        /\ t.pc = "list" /\ t.todo = ticker[s].todo /\ t.obj = desiredApps[s][a]
        /\ UNCHANGED <<api, memory, informer>> /\ Answers
        /\ ticker' = [ticker EXCEPT ![s] = t]
    BY <1>0, <1>9 DEF EnforceApp, Ticker, TickerOK, Answers
  <2>2. /\ desiredApps[s][a] \in Used /\ pods[desiredApps[s][a]].kind = "template"
    BY <1>0, <2>1 DEF TickerRefs, Exist, DesiredExist, FitDesired
  <2> HIDE DEF t
  <2>3. FitLocals(t) /\ Shown(t) = {}
    BY <1>0, <2>1, <2>2 DEF FitLocals, Shown
  <2> QED
    BY <1>2, <2>1, <2>3
<1>10. ASSUME NEW c \in Clusters, EnforceList(s, c) PROVE Good
  BY <1>10, EnforceListGood
<1>11. ASSUME NEW p \in PodNames, EnforceDelete(s, p) PROVE Good
  BY <1>11, EnforceDeleteGood
<1>12. ASSUME NEW p \in PodNames, Respawn(s, p) PROVE Good
  BY <1>12, RespawnGood
<1>13. CASE StartRespawn(s)
  <2> DEFINE t == [ticker[s] EXCEPT !.pc = "respawn", !.todo = podsByName[s][ticker[s].obj]]
  <2>1. /\ ticker[s].pc = "list" /\ t.pc = "respawn" /\ t.obj = ticker[s].obj
        /\ UNCHANGED <<api, memory, informer>> /\ Answers
        /\ ticker' = [ticker EXCEPT ![s] = t]
    BY <1>0, <1>13 DEF StartRespawn, Ticker, TickerOK, Answers
  <2> HIDE DEF t
  <2>2. FitLocals(t) /\ Shown(t) = {}
    BY <1>0, <2>1 DEF FitLocals, Shown
  <2> QED
    BY <1>2, <2>1, <2>2
<1>14. CASE EnforceAppDone(s)
  <2> DEFINE t == [TickerIdle EXCEPT !.pc = "enforce", !.apps = ticker[s].apps]
  <2>1. FitLocals(t) /\ Shown(t) = {}
    BY DEF FitLocals, Shown, TickerIdle
  <2>2. /\ UNCHANGED <<api, memory, informer>> /\ Answers
        /\ ticker' = [ticker EXCEPT ![s] = t]
    BY <1>14 DEF EnforceAppDone, Answers
  <2> HIDE DEF t
  <2> QED
    BY <1>2, <2>1, <2>2
<1>15. CASE EnforceDone(s)
  BY <1>1, <1>2, <1>15 DEF EnforceDone, Answers
<1> QED
  BY <1>3, <1>4, <1>5, <1>6, <1>7, <1>8, <1>9, <1>10, <1>11, <1>12, <1>13, <1>14, <1>15
     DEF TickerStep

-----------------------------------------------------------------------------
(* The environment's steps.                                                *)

(* A step of the environment leaves every list and memory as it was.       *)
LEMMA OutsideFits ==
  ASSUME IInv, Fit, PodsKept, PlacedKept, FitPodsNext, UNCHANGED <<memory, informer, ticker>>
  PROVE  Fit' /\ Seen' = Seen
<1>1. UNCHANGED <<desiredApps, informer, ticker>>
  BY DEF memory
<1> QED
  BY <1>1, FitNext, SeenSame DEF Part

(* A pod whose life goes on is the same pod.                               *)
LEMMA SameLife ==
  ASSUME PodsOK, NEW p \in Used, Pic' = [Pic EXCEPT ![p].life = LifeOf(p)]
  PROVE  Pic' = Pic
<1>1. /\ Pic[p] = Image(p)
      /\ Image(p) = [life |-> LifeOf(p), kind |-> Kind(pods[p].kind),
                     node |-> pods[p].node, from |-> pods[p].from]
  BY ImageFacts
<1>2. [Pic[p] EXCEPT !.life = LifeOf(p)] = Pic[p]
  BY <1>1
<1> QED
  BY <1>2 DEF Pic

(* The life of a pod that lived l and comes into phase to.                 *)
LifeIn(to, l) == CASE to \in {"Pending", "Stuck"} -> l
                  [] to = "Running" -> "running"
                  [] to \in {"Failed", "Succeeded"} -> "ended"
                  [] to \in {"Terminating", "Gone"} -> "over"

(* What a change of phase does.                                            *)
LEMMA PhaseMaps ==
  ASSUME IInv, Fit, NEW p \in PodNames, NEW from \in SUBSET Phases, NEW to \in Phases,
         PhaseStep(p, from, to),
         pods[p].node = None => to \in {"Pending", "Stuck", "Gone"},
         to \in {"Pending", "Stuck"} => from \subseteq {"Pending", "Stuck"}
  PROVE  /\ p \in Used /\ pods[p].phase \in from /\ Fit' /\ Seen' = Seen
         /\ Pic' = [Pic EXCEPT ![p].life = LifeIn(to, LifeOf(p))] /\ Pic[p].life = LifeOf(p)
<1> DEFINE life == LifeIn(to, LifeOf(p))
<1>0. PodsOK
  BY TypeParts DEF IInv
<1>1. /\ PodsOK' /\ PodsKept /\ pods[p].phase \in from
      /\ \A q \in PodNames : q # p => pods'[q] = pods[q]
      /\ UNCHANGED <<addEvents, memory, informer, ticker>>
  BY <1>0, PhaseStepFacts
<1>2. p \in Used /\ pods[p] \in Pod
  BY <1>0, <1>1, UsedFacts
<1>3. /\ pods'[p].phase = to /\ pods'[p].node = pods[p].node
      /\ pods'[p].kind = pods[p].kind /\ pods'[p].from = pods[p].from /\ p \in Used'
  BY <1>0, <1>1, <1>2 DEF PhaseStep, PodsOK, Pod, PodsKept
<1>4. PlacedKept
  BY <1>1, <1>3 DEF PlacedKept, Used
<1>5. FitPodsNext
  <2> SUFFICES ASSUME NEW q \in Used'
               PROVE  /\ pods'[q].kind = "template" => pods'[q].node = None
                      /\ pods'[q].node = None => pods'[q].phase \in {"Pending", "Stuck", "Gone"}
    BY DEF FitPodsNext
  <2>1. CASE q = p
    BY <1>2, <1>3, <2>1 DEF Fit, FitPods
  <2>2. CASE q # p
    BY <1>1, <2>2 DEF Fit, FitPods, Used
  <2> QED
    BY <2>1, <2>2
<1>6. Fit' /\ Seen' = Seen
  BY <1>1, <1>4, <1>5, OutsideFits
<1>7. /\ Pic[p] = Image(p)
      /\ Image(p) = [life |-> LifeOf(p), kind |-> Kind(pods[p].kind),
                     node |-> pods[p].node, from |-> pods[p].from]
  BY <1>0, <1>2, ImageFacts
<1>8. LifeOf(p)' = life
  BY <1>1, <1>3 DEF LifeOf, LifeIn, Phases
<1> HIDE DEF life
<1>9. Image(p)' = [life |-> life, kind |-> Kind(pods[p].kind),
                   node |-> pods[p].node, from |-> pods[p].from]
  BY <1>3, <1>8 DEF Image, Kind
<1>10. Image(p)' = [Image(p) EXCEPT !.life = life]
  BY <1>7, <1>9
<1>11. Pic' = [Pic EXCEPT ![p] = Image(p)']
  BY <1>1, OnePic
<1>12. Pic[p].life = LifeOf(p)
  BY <1>7
<1> QED
  BY <1>1, <1>2, <1>6, <1>7, <1>10, <1>11, <1>12 DEF life

(* Every step of a kubelet, and every ending or loss, is one of Replicas.  *)
LEMMA KubeletGood ==
  ASSUME IInv, Fit, NEW p \in PodNames, KubeletStep(p) \/ End(p) \/ Lose(p)
  PROVE  Good
<1>0. PodsOK /\ BudgetOK
  BY TypeParts DEF IInv
<1>1. CASE KubeletStart(p)
  <2>1. /\ PhaseStep(p, {"Pending", "Stuck"}, "Running") /\ pods[p].node # None
        /\ budget' = budget /\ {"Pending", "Stuck"} \in SUBSET Phases /\ "Running" \in Phases
    BY <1>1 DEF KubeletStart, Answers, Phases
  <2>2. /\ pods[p].phase \in {"Pending", "Stuck"} /\ Fit' /\ Seen' = Seen
        /\ Pic' = [Pic EXCEPT ![p].life = "running"] /\ Pic[p].life = LifeOf(p)
    BY <2>1, PhaseMaps DEF LifeIn
  <2>3. Pic[p].life = "starting"
    BY <2>1, <2>2 DEF LifeOf
  <2> QED
    BY <2>1, <2>2, <2>3, RunsOrEnds DEF Good
<1>2. CASE PendTooLong(p)
  <2>1. /\ PhaseStep(p, {"Pending"}, "Stuck")
        /\ budget' = budget /\ {"Pending"} \in SUBSET Phases /\ "Stuck" \in Phases
    BY <1>2 DEF PendTooLong, Answers, Phases
  <2>2. /\ Fit' /\ Seen' = Seen
        /\ Pic' = [Pic EXCEPT ![p].life = LifeOf(p)] /\ Pic[p].life = LifeOf(p) /\ p \in Used
    BY <2>1, PhaseMaps DEF LifeIn
  <2>3. Pic' = Pic
    BY <1>0, <2>2, SameLife
  <2> QED
    BY <2>1, <2>2, <2>3, Stutters DEF Good
<1>3. CASE Terminated(p)
  <2>1. /\ PhaseStep(p, {"Terminating"}, "Gone")
        /\ budget' = budget /\ {"Terminating"} \in SUBSET Phases /\ "Gone" \in Phases
    BY <1>3 DEF Terminated, Answers, Phases
  <2>2. /\ Fit' /\ Seen' = Seen /\ pods[p].phase = "Terminating" /\ p \in Used
        /\ Pic' = [Pic EXCEPT ![p].life = "over"] /\ Pic[p].life = LifeOf(p)
    BY <2>1, PhaseMaps DEF LifeIn
  <2>3. LifeOf(p) = "over"
    BY <2>2 DEF LifeOf
  <2>4. Pic' = Pic
    BY <1>0, <2>2, <2>3, SameLife
  <2> QED
    BY <2>1, <2>2, <2>4, Stutters DEF Good
<1>4. CASE End(p)
  <2>1. PICK to \in {"Failed", "Succeeded"} : PhaseStep(p, {"Running"}, to)
    BY <1>4, ConstantsAssumption DEF End
  <2>2. /\ pods[p].phase = "Running" /\ budget'.loss = budget.loss
        /\ {"Running"} \in SUBSET Phases /\ to \in Phases
    BY <1>0, <1>4, <2>1 DEF End, PhaseStep, BudgetOK, Phases
  <2>3. p \in Used /\ pods[p].node # None
    BY <1>0, <2>2, UsedFacts DEF Fit, FitPods, Phases
  <2>4. /\ Fit' /\ Seen' = Seen
        /\ Pic' = [Pic EXCEPT ![p].life = "ended"] /\ Pic[p].life = LifeOf(p)
    BY <2>1, <2>2, <2>3, PhaseMaps DEF LifeIn
  <2>5. Pic[p].life = "running"
    BY <2>2, <2>4 DEF LifeOf
  <2> QED
    BY <2>2, <2>4, <2>5, RunsOrEnds DEF Good
<1>5. CASE Lose(p)
  <2>1. /\ PhaseStep(p, {"Pending", "Stuck", "Running"}, "Gone")
        /\ budget.loss > 0 /\ budget'.loss = budget.loss - 1
        /\ {"Pending", "Stuck", "Running"} \in SUBSET Phases /\ "Gone" \in Phases
    BY <1>0, <1>5 DEF Lose, BudgetOK, Phases
  <2>2. /\ pods[p].phase \in {"Pending", "Stuck", "Running"} /\ Fit' /\ Seen' = Seen
        /\ Pic' = [Pic EXCEPT ![p].life = "over"] /\ Pic[p].life = LifeOf(p)
    BY <2>1, PhaseMaps DEF LifeIn
  <2>3. Pic[p].life \in {"waiting", "starting", "running"}
    BY <2>2 DEF LifeOf
  <2> QED
    BY <2>1, <2>2, <2>3, Vanishes DEF Good
<1> QED
  BY <1>1, <1>2, <1>3, <1>4, <1>5 DEF KubeletStep

(* So is a submission.                                                     *)
LEMMA SubmitGood ==
  ASSUME IInv, Fit, ConstantsAssumption,
         NEW a \in Apps, NEW k \in Manifests, NEW s \in Schedulers, Submit(a, k, s)
  PROVE  Good
<1>0. PodsOK /\ EventsOK /\ BudgetOK /\ \A t \in Schedulers : EventsExist(t)
  BY TypeParts DEF IInv, Exist
<1>1. /\ Added(a, k, Home[s], None, None) /\ budget'.loss = budget.loss
      /\ UNCHANGED <<memory, informer, ticker>>
      /\ k \in {"template", "plain", "generated"} /\ Home[s] \in Clusters
      /\ None \in Nodes \cup {None} /\ None \in PodNames \cup {None}
  BY <1>0 DEF Submit, BudgetOK, ConstantsAssumption
<1>2. PodsKept /\ PlacedKept /\ FitPodsNext
  BY <1>0, <1>1, AddedCall, AddedFits
<1>3. Fit' /\ Seen' = Seen
  BY <1>1, <1>2, OutsideFits
<1>4. /\ NewName \in PodNames /\ Pic[NewName] = R!Unborn
      /\ Pic' = [Pic EXCEPT ![NewName] =
           [life |-> "waiting", kind |-> Kind(k), node |-> None, from |-> None]]
  BY <1>0, <1>1, AddedMaps
<1>5. Kind(k) \in {"request", "workload"}
  BY DEF Kind
<1> QED
  BY <1>1, <1>3, <1>4, <1>5, Births DEF Good

-----------------------------------------------------------------------------
(* Init and Next.                                                          *)

(* At first there are no pods, here and there.                             *)
LEMMA InitGood == Init => Fit /\ R!Init
<1> SUFFICES ASSUME Init PROVE Fit /\ R!Init
  OBVIOUS
<1>1. Fit
  BY DEF Init, Fit, FitPods, FitDesired, FitInformer, FitTicker, Used, NoPod, Declared,
         InformerIdle, TickerIdle
<1>2. Used = {} /\ Listing = {} /\ budget.loss = Budget.loss
  BY DEF Init, Used, NoPod, Listing, TickerIdle
<1>3. \A p \in PodNames : Image(p) = R!Unborn
  BY <1>2 DEF Image, R!Unborn
<1> QED
  BY <1>1, <1>2, <1>3 DEF R!Init

(* Every step of Scheduler keeps Fit, and is a step of Replicas or none.   *)
LEMMA NextGood ==
  ASSUME IInv, Fit, ConstantsAssumption, [Next]_vars
  PROVE  Good
<1>1. ASSUME NEW s \in Schedulers, InformerStep(s) PROVE Good
  BY <1>1, InformerGood
<1>2. ASSUME NEW s \in Schedulers, TickerStep(s) PROVE Good
  BY <1>2, TickerGood
<1>3. ASSUME NEW s \in Schedulers, Crash(s) PROVE Good
  <2>1. BudgetOK
    BY TypeParts DEF IInv
  <2>2. Restarted(s) /\ budget'.loss = budget.loss
    BY <1>3, <2>1 DEF Crash, BudgetOK
  <2> QED
    BY <2>2, RestartGood
<1>4. ASSUME NEW p \in PodNames, KubeletStep(p) \/ End(p) \/ Lose(p) PROVE Good
  BY <1>4, KubeletGood
<1>5. ASSUME NEW a \in Apps, NEW k \in Manifests, NEW s \in Schedulers, Submit(a, k, s)
      PROVE  Good
  BY <1>5, SubmitGood
<1>6. CASE UNCHANGED vars
  BY <1>6, Internal DEF vars
<1> QED
  BY <1>1, <1>2, <1>3, <1>4, <1>5, <1>6 DEF Next

(* Every scheduler's pods fit the abstract life cycle: apps are declared   *)
(* by pods with a replicas annotation, which are never placed, and a pod   *)
(* without a node is never found running or ended.                         *)
THEOREM FitHolds == Spec => []Fit
<1>1. IInv /\ Fit /\ [Next]_vars => Fit'
  BY NextGood, ConstantsAssumption DEF Good
<1> QED
  BY <1>1, InitGood, Invariance, PTL DEF Spec

(* Scheduler implements Replicas: however the informers and tickers of any *)
(* number of schedulers interleave, fail half way and lose their memory    *)
(* (scheduler.go:120-310, :316-470), a pod lives the life that Replicas    *)
(* describes, and is taken away for one of the reasons it names.           *)
THEOREM Implementation == Spec => Implements
<1>1. IInv /\ Fit /\ [Next]_vars => [R!Next]_(R!vars)
  BY NextGood, ConstantsAssumption DEF Good, Maps
<1> QED
  BY <1>1, InitGood, FitHolds, Invariance, PTL DEF Spec, Implements, R!Spec
=============================================================================
