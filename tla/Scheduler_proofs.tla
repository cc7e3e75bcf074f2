-------------------------- MODULE Scheduler_proofs --------------------------
(* What holds of Scheduler for every instance.                             *)
EXTENDS Scheduler, FiniteSetTheorems, TLAPS

(* What the goroutines of s and its map refer to exists, and a half-done   *)
(* move has its copy.                                                      *)
EventsExist(s) == addEvents[s] \subseteq Used

DesiredExist(s) == \A a \in Apps : Declared(s, a) =>
  desiredApps[s][a] \in Used /\ pods[desiredApps[s][a]].app = a

InformerExist(s) ==
  /\ informer[s].pc # "idle" => informer[s].pod \in Used
  /\ informer[s].pc = "expand" => pods[informer[s].pod].kind = "template"
  /\ informer[s].pc \in {"delete", "track"} =>
       /\ informer[s].copy \in Used
       /\ pods[informer[s].copy].from = informer[s].pod
       /\ pods[informer[s].copy].app = pods[informer[s].pod].app

TickerRefs(s, t) ==
  /\ t.pc # "respawn" => t.todo \subseteq Used
  /\ t.pc = "moveDelete" =>
       t.pod \in Used /\ t.copy \in Used /\ pods[t.copy].from = t.pod
  /\ t.pc \in {"list", "respawn"} => t.obj \in Used
  /\ \A a \in t.apps : Declared(s, a)
TickerExist(s) == TickerRefs(s, ticker[s])

Exist(s) == EventsExist(s) /\ DesiredExist(s) /\ InformerExist(s) /\ TickerExist(s)

IInv == TypeOK /\ \A s \in Schedulers : Exist(s)

-----------------------------------------------------------------------------
(* While no process was restarted and no plain pod was copied, a scheduler *)
(* that is the only one at home in its cluster has declared the app of     *)
(* every generated pod that it has to schedule.                            *)
OwnsEvents(s) == \A p \in addEvents[s] : pods[p].kind = "generated" => Declared(s, pods[p].app)
OwnsInformer(s) ==
  \/ informer[s].pc = "idle"
  \/ informer[s].pc = "schedule" /\ pods[informer[s].pod].kind = "plain"
  \/ Declared(s, pods[informer[s].pod].app)
OwnsTicker(s) == ticker[s].pc \in {"list", "respawn"} => Declared(s, pods[ticker[s].obj].app)
Owns(s) == OwnsEvents(s) /\ OwnsInformer(s) /\ OwnsTicker(s)

Owned == \A s \in Schedulers : Shared(s) \/ Owns(s)
Spared == budget.crash = Budget.crash /\ ~PlainCopied
PanicInv == budget.crash <= Budget.crash /\ (Spared => Owned)

-----------------------------------------------------------------------------
(* The API servers.                                                        *)

PodsOK   == pods \in [PodNames -> Pod \cup {NoPod}]
EventsOK == addEvents \in [Schedulers -> SUBSET PodNames]

(* Pods are never forgotten, and keep what does not change.                *)
PodsKept == \A p \in Used :
  /\ p \in Used'
  /\ pods'[p].app = pods[p].app /\ pods'[p].kind = pods[p].kind
  /\ pods'[p].from = pods[p].from

(* The events that are left to handle after a step exist.                  *)
EventsExistNext == \A t \in Schedulers : addEvents'[t] \subseteq Used'

(* A pod that was created has a record, and an unused name is left.        *)
LEMMA UsedFacts ==
  ASSUME PodsOK
  PROVE  /\ Used \subseteq PodNames
         /\ \A p \in Used : pods[p] \in Pod
         /\ \A p \in PodNames : pods[p].phase \in Phases => p \in Used
         /\ Used # PodNames => NewName \in PodNames \ Used
<1>1. Used \subseteq PodNames
  BY DEF Used
<1>2. \A p \in Used : pods[p] \in Pod
  BY DEF Used, PodsOK, NoPod
<1>3. \A p \in PodNames : pods[p].phase \in Phases => p \in Used
  BY DEF Used, Phases
<1>4. Used # PodNames => NewName \in PodNames \ Used
  <2> SUFFICES ASSUME Used # PodNames
               PROVE  NewName \in PodNames \ Used
    OBVIOUS
  <2>1. PICK p \in PodNames : pods[p].phase = "Unused"
    BY <1>1 DEF Used
  <2> QED
    BY <2>1 DEF NewName, Used
<1> QED
  BY <1>1, <1>2, <1>3, <1>4

(* A created pod has a new name, and is an event only where it has no node.*)
LEMMA AddedCall ==
  ASSUME PodsOK, EventsOK, ConstantsAssumption, \A t \in Schedulers : EventsExist(t),
         NEW a \in Apps, NEW k \in {"template", "plain", "generated"},
         NEW c \in Clusters, NEW n \in Nodes \cup {None}, NEW from \in PodNames \cup {None},
         Added(a, k, c, n, from)
  PROVE  /\ PodsOK' /\ EventsOK' /\ PodsKept /\ EventsExistNext
         /\ NewName \in PodNames \ Used /\ NewName \in Used'
         /\ pods'[NewName].from = from /\ pods'[NewName].app = a /\ pods'[NewName].kind = k
         /\ \A p \in PodNames : p # NewName => pods'[p] = pods[p]
         /\ \A s \in Schedulers : addEvents'[s] =
              IF n = None /\ Home[s] = c THEN addEvents[s] \cup {NewName} ELSE addEvents[s]
<1> DEFINE new == [app |-> a, kind |-> k, cluster |-> c, node |-> n,
                   phase |-> "Pending", from |-> from]
           name == NewName
<1>1. name \in PodNames \ Used
  BY UsedFacts DEF Added
<1>2. new \in Pod
  BY DEF Pod, Phases
<1>3. pods' = [pods EXCEPT ![name] = new]
  BY DEF Added
<1>4. /\ pods'[name] = new
      /\ \A p \in PodNames : p # name => pods'[p] = pods[p]
  BY <1>1, <1>3 DEF PodsOK
<1>5. PodsOK'
  BY <1>2, <1>3, <1>1 DEF PodsOK
<1>6. name \in Used'
  BY <1>1, <1>4 DEF Used
<1>7. PodsKept
  BY <1>1, <1>4 DEF PodsKept, Used
<1>8. /\ EventsOK'
      /\ \A s \in Schedulers : addEvents'[s] =
              IF n = None /\ Home[s] = c THEN addEvents[s] \cup {name} ELSE addEvents[s]
  BY <1>1 DEF Added, EventsOK
<1>9. EventsExistNext
  <2> SUFFICES ASSUME NEW s \in Schedulers PROVE addEvents'[s] \subseteq Used'
    BY DEF EventsExistNext
  <2>1. addEvents'[s] \subseteq addEvents[s] \cup {name}
    BY <1>8
  <2>2. addEvents[s] \subseteq Used /\ Used \subseteq Used'
    BY <1>7 DEF EventsExist, PodsKept
  <2> QED
    BY <1>6, <2>1, <2>2
<1>10. pods'[name].from = from /\ pods'[name].app = a /\ pods'[name].kind = k
  BY <1>4
<1> QED
  BY <1>1, <1>4, <1>5, <1>6, <1>7, <1>8, <1>9, <1>10

(* Delete changes one pod that exists, and only its phase.                 *)
LEMMA DeleteFacts ==
  ASSUME PodsOK, NEW p \in PodNames, Delete(p)
  PROVE  /\ PodsOK' /\ PodsKept
         /\ \A q \in PodNames : q # p => pods'[q] = pods[q]
         /\ UNCHANGED <<addEvents, budget>>
<1>1. p \in Used /\ pods[p] \in Pod
  BY UsedFacts DEF Delete, Used
<1>2. /\ PodsOK'
      /\ \A q \in PodNames : q # p => pods'[q] = pods[q]
  BY <1>1 DEF Delete, PodsOK, Pod, Phases
<1>3. \A q \in Used : /\ pods'[q].app = pods[q].app /\ pods'[q].kind = pods[q].kind
                      /\ pods'[q].from = pods[q].from /\ q \in Used'
  <2>1. /\ pods'[p].app = pods[p].app /\ pods'[p].kind = pods[p].kind
        /\ pods'[p].from = pods[p].from /\ pods'[p].phase # "Unused"
    BY <1>1 DEF Delete, PodsOK, Pod
  <2> QED
    BY <2>1, <1>2 DEF Used
<1> QED
  BY <1>2, <1>3 DEF PodsKept, Delete, Answers

(* So does a step of a kubelet.                                            *)
LEMMA PhaseStepFacts ==
  ASSUME PodsOK, NEW p \in PodNames, NEW from \in SUBSET Phases, NEW to \in Phases,
         PhaseStep(p, from, to)
  PROVE  /\ PodsOK' /\ PodsKept
         /\ \A q \in PodNames : q # p => pods'[q] = pods[q]
         /\ pods[p].phase \in from
         /\ UNCHANGED <<addEvents, memory, informer, ticker>>
<1>1. p \in Used /\ pods[p] \in Pod
  BY UsedFacts DEF PhaseStep, Used
<1>2. /\ PodsOK'
      /\ \A q \in PodNames : q # p => pods'[q] = pods[q]
  BY <1>1 DEF PhaseStep, PodsOK, Pod
<1>3. /\ pods'[p].app = pods[p].app /\ pods'[p].kind = pods[p].kind
      /\ pods'[p].from = pods[p].from /\ pods'[p].phase # "Unused"
  BY <1>1 DEF PhaseStep, PodsOK, Pod, Phases
<1> QED
  BY <1>2, <1>3 DEF PodsKept, Used, PhaseStep

(* A step that leaves the API servers alone keeps the pods.                *)
LEMMA UnchangedPodsKept == ASSUME UNCHANGED pods PROVE PodsKept
  BY DEF PodsKept, Used

-----------------------------------------------------------------------------
(* The parts of TypeOK that the API servers do not carry.                  *)
MemoryOK == /\ desiredApps \in [Schedulers -> [Apps -> PodNames \cup {None}]]
            /\ podsByName \in [Schedulers -> [PodNames -> SUBSET PodNames]]
BudgetOK == budget \in [submit : Nat, fault : Nat, failure : Nat, loss : Nat, crash : Nat]
InformerOK == informer \in [Schedulers -> Informer]
TickerOK == ticker \in [Schedulers -> Ticker]

(* Pods are kept, so what referred to them still does.                     *)
LEMMA DesiredKept ==
  ASSUME PodsKept, NEW s \in Schedulers, DesiredExist(s), desiredApps'[s] = desiredApps[s]
  PROVE  DesiredExist(s)'
  BY DEF DesiredExist, Declared, PodsKept

(* ... what the informer holds ...                                         *)
LEMMA InformerKept ==
  ASSUME PodsKept, NEW s \in Schedulers, InformerExist(s), informer'[s] = informer[s]
  PROVE  InformerExist(s)'
  BY DEF InformerExist, PodsKept

(* ... and what the ticker holds.                                          *)
LEMMA TickerKept ==
  ASSUME PodsKept, NEW s \in Schedulers, TickerExist(s), ticker'[s] = ticker[s],
         \A a \in Apps : Declared(s, a) => Declared(s, a)',
         ticker[s].apps \subseteq Apps
  PROVE  TickerExist(s)'
  BY DEF TickerExist, TickerRefs, PodsKept

(* A step of s leaves the memory of the other processes alone.             *)
Others(s) == \A t \in Schedulers : t # s =>
  desiredApps'[t] = desiredApps[t] /\ informer'[t] = informer[t] /\ ticker'[t] = ticker[t]

(* A step of s has to restore Exist for s alone.                           *)
LEMMA ExistNext ==
  ASSUME NEW s \in Schedulers, PodsKept, Others(s), EventsExistNext,
         TickerOK, \A t \in Schedulers : Exist(t),
         DesiredExist(s)', InformerExist(s)', TickerExist(s)'
  PROVE  \A t \in Schedulers : Exist(t)'
<1> SUFFICES ASSUME NEW t \in Schedulers PROVE Exist(t)'
  OBVIOUS
<1>1. EventsExist(t)'
  BY DEF EventsExistNext, EventsExist
<1>2. CASE t = s
  BY <1>1, <1>2 DEF Exist
<1>3. CASE t # s
  <2>1. DesiredExist(t)'
    BY <1>3, DesiredKept DEF Others, Exist
  <2>2. InformerExist(t)'
    BY <1>3, InformerKept DEF Others, Exist
  <2>3. TickerExist(t)'
    <3>1. \A a \in Apps : Declared(t, a) => Declared(t, a)'
      BY <1>3 DEF Others, Declared
    <3>2. ticker[t].apps \subseteq Apps
      BY DEF TickerOK, Ticker
    <3> QED
      BY <1>3, <3>1, <3>2, TickerKept DEF Others, Exist
  <2> QED
    BY <1>1, <2>1, <2>2, <2>3 DEF Exist
<1> QED
  BY <1>2, <1>3

(* TypeOK, taken apart ...                                                 *)
LEMMA TypeParts ==
  TypeOK => PodsOK /\ EventsOK /\ MemoryOK /\ InformerOK /\ TickerOK /\ BudgetOK
  BY DEF TypeOK, PodsOK, EventsOK, MemoryOK, InformerOK, TickerOK, BudgetOK

(* ... and put together after a step.                                      *)
LEMMA TypeWhole ==
  ASSUME PodsOK', EventsOK', MemoryOK', InformerOK', TickerOK', BudgetOK'
  PROVE  TypeOK'
  BY DEF TypeOK, PodsOK, EventsOK, MemoryOK, InformerOK, TickerOK, BudgetOK

(* An answered or failed call keeps the budget well typed.                 *)
LEMMA Spent ==
  ASSUME BudgetOK, Answers \/ Fails
  PROVE  BudgetOK' /\ budget'.crash = budget.crash /\ budget'.loss = budget.loss
  BY DEF BudgetOK, Answers, Fails

(* What a call can do to the API servers and the budget.                   *)
LEMMA DeleteCall ==
  ASSUME PodsOK, EventsOK, BudgetOK, NEW p \in PodNames, Delete(p) \/ DeleteFails(p)
  PROVE  /\ PodsOK' /\ EventsOK' /\ BudgetOK' /\ PodsKept
         /\ addEvents' = addEvents
         /\ \A q \in PodNames : q # p => pods'[q] = pods[q]
         /\ budget'.crash = budget.crash /\ budget'.loss = budget.loss
<1>1. CASE Delete(p)
  BY <1>1, DeleteFacts DEF EventsOK, BudgetOK
<1>2. CASE DeleteFails(p)
  <2>1. UNCHANGED <<pods, addEvents>> /\ (Answers \/ Fails)
    BY <1>2 DEF DeleteFails, api
  <2> QED
    BY <2>1, Spent, UnchangedPodsKept DEF PodsOK, EventsOK
<1> QED
  BY <1>1, <1>2

(* A failed Create leaves the API servers as they are.                     *)
LEMMA CreateFailsCall ==
  ASSUME PodsOK, EventsOK, BudgetOK, CreateFails
  PROVE  /\ PodsOK' /\ EventsOK' /\ BudgetOK' /\ PodsKept
         /\ addEvents' = addEvents /\ pods' = pods
         /\ budget'.crash = budget.crash /\ budget'.loss = budget.loss
<1>1. UNCHANGED <<pods, addEvents>> /\ (Answers \/ Fails)
  BY DEF CreateFails, api
<1> QED
  BY <1>1, Spent, UnchangedPodsKept DEF PodsOK, EventsOK

-----------------------------------------------------------------------------
(* A write to PodsByName.                                                  *)
LEMMA TrackOK ==
  ASSUME MemoryOK, NEW s \in Schedulers, NEW d \in PodNames, NEW names \in SUBSET PodNames,
         podsByName' = [podsByName EXCEPT ![s][d] = names], UNCHANGED desiredApps
  PROVE  MemoryOK'
  BY DEF MemoryOK

-----------------------------------------------------------------------------
(* The informer's steps.                                                   *)

(* All but three of them leave DesiredApps and the ticker alone, and start *)
(* or end the informer's work on a pod that exists.                        *)
LEMMA InformerOnly ==
  ASSUME IInv, NEW s \in Schedulers, NEW i \in Informer,
         PodsOK', EventsOK', BudgetOK', PodsKept, EventsExistNext,
         informer' = [informer EXCEPT ![s] = i],
         UNCHANGED <<desiredApps, ticker>>, MemoryOK', InformerExist(s)'
  PROVE  IInv'
<1>1. PodsOK /\ EventsOK /\ MemoryOK /\ InformerOK /\ TickerOK /\ BudgetOK
  BY TypeParts DEF IInv
<1>2. InformerOK' /\ TickerOK'
  BY <1>1 DEF InformerOK, TickerOK
<1>3. TypeOK'
  BY <1>2, TypeWhole
<1>4. Others(s)
  BY <1>1 DEF Others, InformerOK
<1>5. DesiredExist(s)'
  BY DesiredKept DEF IInv, Exist
<1>6. TickerExist(s)'
  <2>1. \A a \in Apps : Declared(s, a) => Declared(s, a)'
    BY DEF Declared
  <2>2. ticker[s].apps \subseteq Apps
    BY <1>1 DEF TickerOK, Ticker
  <2> QED
    BY <2>1, <2>2, TickerKept DEF IInv, Exist
<1> QED
  BY <1>1, <1>3, <1>4, <1>5, <1>6, ExistNext DEF IInv

(* A restart empties the memory of s.                                      *)
LEMMA RestartInv ==
  ASSUME IInv, ConstantsAssumption, NEW s \in Schedulers, Restarted(s), BudgetOK'
  PROVE  IInv'
<1>1. /\ PodsOK /\ EventsOK /\ MemoryOK /\ InformerOK /\ TickerOK
      /\ \A t \in Schedulers : Exist(t)
      /\ Used \subseteq PodNames
  BY TypeParts, UsedFacts DEF IInv
<1>2. PodsKept /\ PodsOK'
  BY <1>1, UnchangedPodsKept DEF Restarted, PodsOK
<1>3. /\ EventsOK' /\ EventsExistNext
  <2>1. Unscheduled(Home[s]) \subseteq Used
    BY DEF Unscheduled, Present, InCluster
  <2> QED
    BY <1>1, <1>2, <2>1 DEF Restarted, EventsOK, EventsExistNext, PodsKept, Exist, EventsExist
<1>4. MemoryOK' /\ InformerOK' /\ TickerOK'
  BY <1>1 DEF Restarted, MemoryOK, InformerOK, TickerOK, Informer, InformerIdle,
              Ticker, TickerIdle
<1>5. Others(s)
  BY <1>1 DEF Others, Restarted, MemoryOK, InformerOK, TickerOK
<1>6. DesiredExist(s)' /\ InformerExist(s)' /\ TickerExist(s)'
  BY <1>1 DEF Restarted, MemoryOK, InformerOK, TickerOK, InformerIdle, TickerIdle,
              DesiredExist, InformerExist, TickerExist, TickerRefs, Declared
<1>7. TypeOK'
  BY <1>2, <1>3, <1>4, TypeWhole
<1> QED
  BY <1>1, <1>2, <1>3, <1>5, <1>6, <1>7, ExistNext DEF IInv

(* AddFunc on a template declares its app by a pod that exists.            *)
LEMMA AddTemplateInv ==
  ASSUME IInv, ConstantsAssumption, NEW s \in Schedulers, NEW p \in PodNames, AddTemplate(s, p)
  PROVE  IInv'
<1>1. /\ PodsOK /\ EventsOK /\ MemoryOK /\ InformerOK /\ TickerOK /\ BudgetOK
      /\ \A t \in Schedulers : Exist(t) /\ addEvents[t] \subseteq Used
      /\ Used \subseteq PodNames /\ \A q \in Used : pods[q] \in Pod
  BY TypeParts, UsedFacts DEF IInv, Exist, EventsExist
<1>2. p \in Used /\ pods[p].app \in Apps /\ Replicas[pods[p].app] \in Nat
  BY <1>1 DEF AddTemplate, Pod, ConstantsAssumption
<1>3. PodsKept /\ UNCHANGED <<pods, ticker, budget>>
  BY UnchangedPodsKept DEF AddTemplate
<1>4. EventsOK' /\ EventsExistNext
  BY <1>1, <1>3 DEF AddTemplate, EventsOK, EventsExistNext, PodsKept
<1>5. MemoryOK' /\ InformerOK'
  BY <1>1, <1>2 DEF AddTemplate, MemoryOK, InformerOK, Informer
<1>6. TypeOK'
  BY <1>1, <1>3, <1>4, <1>5, TypeWhole DEF PodsOK, TickerOK, BudgetOK
<1>7. Others(s)
  BY <1>1 DEF Others, AddTemplate, MemoryOK, InformerOK
<1>8. /\ desiredApps'[s] = [desiredApps[s] EXCEPT ![pods[p].app] = p]
      /\ informer'[s].pc = "expand" /\ informer'[s].pod = p
      /\ pods[p].kind = "template"
  BY <1>1 DEF AddTemplate, MemoryOK, InformerOK
<1>9. DesiredExist(s)'
  BY <1>1, <1>2, <1>3, <1>8 DEF Exist, DesiredExist, Declared, MemoryOK, PodsKept
<1>10. InformerExist(s)'
  BY <1>2, <1>3, <1>8 DEF InformerExist, PodsKept
<1>11. TickerExist(s)'
  <2>1. \A a \in Apps : Declared(s, a) => Declared(s, a)'
    BY <1>1, <1>2, <1>8 DEF Declared, MemoryOK, ConstantsAssumption
  <2>2. ticker[s].apps \subseteq Apps
    BY <1>1 DEF TickerOK, Ticker
  <2> QED
    BY <1>1, <1>3, <2>1, <2>2, TickerKept DEF Exist
<1> QED
  BY <1>1, <1>3, <1>4, <1>6, <1>7, <1>9, <1>10, <1>11, ExistNext DEF IInv

(* Every step of an informer preserves IInv.                               *)
LEMMA InformerInv ==
  ASSUME IInv, ConstantsAssumption, NEW s \in Schedulers, InformerStep(s)
  PROVE  IInv'
<1>0. /\ PodsOK /\ EventsOK /\ MemoryOK /\ InformerOK /\ TickerOK /\ BudgetOK
      /\ \A t \in Schedulers : Exist(t) /\ addEvents[t] \subseteq Used
      /\ Used \subseteq PodNames /\ \A p \in Used : pods[p] \in Pod
  BY TypeParts, UsedFacts DEF IInv, Exist, EventsExist
<1> DEFINE p == informer[s].pod
           q == informer[s].copy
<1>1. /\ informer[s] \in Informer
      /\ informer[s].pc # "idle" => p \in Used /\ pods[p] \in Pod
      /\ informer[s].pc \in {"delete", "track"} => q \in Used /\ pods[q] \in Pod
  BY <1>0 DEF Exist, InformerExist, InformerOK
<1>2. InformerIdle \in Informer /\ InformerIdle.pc = "idle"
  BY DEF Informer, InformerIdle
<1>3. ASSUME informer' = [informer EXCEPT ![s] = InformerIdle]
      PROVE  InformerExist(s)'
  BY <1>0, <1>2, <1>3 DEF InformerExist, InformerOK
<1>4. ASSUME PodsKept, addEvents' = addEvents
      PROVE  EventsExistNext
  BY <1>0, <1>4 DEF EventsExistNext, PodsKept
<1>5. ASSUME UNCHANGED memory PROVE MemoryOK' /\ UNCHANGED desiredApps
  BY <1>0, <1>5 DEF memory, MemoryOK
<1>6. ASSUME NEW r \in PodNames, AddTemplate(s, r) PROVE IInv'
  BY <1>6, AddTemplateInv
<1>7. ASSUME NEW r \in PodNames, AddPod(s, r) PROVE IInv'
  <2> DEFINE i == [pc |-> "schedule", pod |-> r, left |-> 0, copy |-> None]
  <2>1. r \in Used /\ i \in Informer /\ UNCHANGED <<pods, memory, ticker, budget>>
    BY <1>0, <1>7 DEF AddPod, Informer
  <2>2. informer' = [informer EXCEPT ![s] = i]
    BY <1>7 DEF AddPod
  <2>3. PodsKept /\ PodsOK' /\ BudgetOK'
    BY <1>0, <2>1, UnchangedPodsKept DEF PodsOK, BudgetOK
  <2>4. EventsOK' /\ EventsExistNext
    BY <1>0, <1>7, <2>3 DEF AddPod, EventsOK, EventsExistNext, PodsKept
  <2>5. InformerExist(s)'
    BY <1>0, <2>1, <2>2, <2>3 DEF InformerExist, InformerOK, PodsKept
  <2> HIDE DEF i
  <2> QED
    BY <1>5, <2>1, <2>2, <2>3, <2>4, <2>5, InformerOnly
<1>8. CASE ExpandReplica(s)
  <2> DEFINE i == [informer[s] EXCEPT !.left = @ - 1]
  <2>1. /\ i \in Informer /\ UNCHANGED <<memory, ticker>>
        /\ informer' = [informer EXCEPT ![s] = i]
    BY <1>0, <1>1, <1>8 DEF ExpandReplica, Informer, InformerOK
  <2>2. PodsOK' /\ EventsOK' /\ BudgetOK' /\ PodsKept /\ EventsExistNext
    <3>1. CASE Create(pods[p].app, "generated", Home[s], None, p)
      <4>1. pods[p].app \in Apps /\ Home[s] \in Clusters /\ p \in PodNames
        BY <1>0, <1>1, <1>8 DEF ExpandReplica, Pod, ConstantsAssumption
      <4>2. Added(pods[p].app, "generated", Home[s], None, p) /\ budget' = budget
        BY <3>1 DEF Create, Answers
      <4> QED
        BY <1>0, <4>1, <4>2, AddedCall DEF Exist, BudgetOK
    <3>2. CASE CreateFails
      BY <1>0, <1>4, <3>2, CreateFailsCall
    <3> QED
      BY <1>8, <3>1, <3>2 DEF ExpandReplica
  <2>3. InformerExist(s)'
    <3>1. informer'[s].pc = informer[s].pc /\ informer'[s].pod = p /\ informer[s].pc = "expand"
      BY <1>0, <1>1, <1>8, <2>1 DEF Informer, InformerOK, ExpandReplica
    <3> QED
      BY <1>0, <1>1, <2>2, <3>1 DEF Exist, InformerExist, PodsKept
  <2> HIDE DEF i
  <2> QED
    BY <1>5, <2>1, <2>2, <2>3, InformerOnly
<1>9. CASE DeleteTemplate(s)
  <2>1. /\ Delete(p) \/ DeleteFails(p)
        /\ informer' = [informer EXCEPT ![s] = InformerIdle]
        /\ UNCHANGED <<memory, ticker>> /\ p \in PodNames
    BY <1>0, <1>1, <1>9 DEF DeleteTemplate
  <2> QED
    BY <1>0, <1>2, <1>3, <1>4, <1>5, <2>1, DeleteCall, InformerOnly
<1>10. CASE ScheduleFails(s)
  <2>1. /\ CreateFails
        /\ informer' = [informer EXCEPT ![s] = InformerIdle]
        /\ UNCHANGED <<memory, ticker>>
    BY <1>10 DEF ScheduleFails
  <2> QED
    BY <1>0, <1>2, <1>3, <1>4, <1>5, <2>1, CreateFailsCall, InformerOnly
<1>11. ASSUME NEW n \in Nodes, BindLocal(s, n) PROVE IInv'
  <2>1. /\ informer' = [informer EXCEPT ![s] = InformerIdle]
        /\ UNCHANGED <<addEvents, memory, ticker, budget>> /\ p \in Used /\ pods[p] \in Pod
        /\ pods' = pods \/ pods' = [pods EXCEPT ![p].node = n]
    BY <1>0, <1>1, <1>11 DEF BindLocal
  <2>2. PodsOK' /\ PodsKept
    BY <1>0, <2>1 DEF PodsOK, Pod, PodsKept, Used
  <2> QED
    BY <1>0, <1>2, <1>3, <1>4, <1>5, <2>1, <2>2, InformerOnly DEF EventsOK, BudgetOK
<1>12. ASSUME NEW n \in Nodes, CreateRemote(s, n) PROVE IInv'
  <2> DEFINE i == [informer[s] EXCEPT !.pc = "delete", !.copy = NewName]
  <2>1. /\ Added(pods[p].app, pods[p].kind, ClusterOf[n], n, p) /\ budget' = budget
        /\ pods[p].app \in Apps /\ pods[p].kind \in {"template", "plain", "generated"}
        /\ ClusterOf[n] \in Clusters /\ p \in PodNames /\ p \in Used
        /\ UNCHANGED <<memory, ticker>>
    BY <1>0, <1>1, <1>12 DEF CreateRemote, Create, Answers, Pod, ConstantsAssumption
  <2>2. /\ PodsOK' /\ EventsOK' /\ BudgetOK' /\ PodsKept /\ EventsExistNext
        /\ NewName \in PodNames /\ NewName \in Used'
        /\ pods'[NewName].from = p /\ pods'[NewName].app = pods[p].app
    <3>1. n \in Nodes \cup {None} /\ p \in PodNames \cup {None}
      BY <2>1
    <3> QED
      BY <1>0, <2>1, <3>1, AddedCall DEF Exist, BudgetOK
  <2>3. i \in Informer /\ informer' = [informer EXCEPT ![s] = i]
    BY <1>0, <1>1, <1>12, <2>2 DEF CreateRemote, Informer, InformerOK
  <2>4. InformerExist(s)'
    <3>1. informer'[s].pc = "delete" /\ informer'[s].pod = p /\ informer'[s].copy = NewName
      BY <1>0, <1>1, <2>3 DEF Informer, InformerOK
    <3> QED
      BY <2>1, <2>2, <3>1 DEF InformerExist, PodsKept
  <2> HIDE DEF i
  <2> QED
    BY <1>5, <2>1, <2>2, <2>3, <2>4, InformerOnly
<1>13. CASE DeleteOriginal(s)
  <2> DEFINE i == [informer[s] EXCEPT !.pc = "track"]
  <2>1. /\ Delete(p) \/ DeleteFails(p)
        /\ informer[s].pc = "delete"
        /\ i \in Informer /\ informer' = [informer EXCEPT ![s] = i]
        /\ UNCHANGED <<memory, ticker>> /\ p \in PodNames
    BY <1>0, <1>1, <1>13 DEF DeleteOriginal, Informer, InformerOK
  <2>2. PodsOK' /\ EventsOK' /\ BudgetOK' /\ PodsKept /\ EventsExistNext
    BY <1>0, <1>4, <2>1, DeleteCall
  <2>3. InformerExist(s)'
    <3>1. informer'[s].pc = "track" /\ informer'[s].pod = p /\ informer'[s].copy = q
      BY <1>0, <1>1, <2>1 DEF Informer, InformerOK
    <3> QED
      BY <1>0, <1>1, <2>1, <2>2, <3>1 DEF Exist, InformerExist, PodsKept
  <2> HIDE DEF i
  <2> QED
    BY <1>5, <2>1, <2>2, <2>3, InformerOnly
<1>14. CASE Track(s)
  <2>1. /\ informer' = [informer EXCEPT ![s] = InformerIdle]
        /\ UNCHANGED <<pods, addEvents, desiredApps, ticker, budget>>
        /\ q \in PodNames
    BY <1>0, <1>1, <1>14 DEF Track, api
  <2>2. MemoryOK'
    <3> DEFINE d == desiredApps[s][pods[q].app]
    <3>1. podsByName' = [podsByName EXCEPT ![s][d] = podsByName[s][d] \cup {q}]
      BY <1>14 DEF Track
    <3>2. d \in PodNames
      <4>1. d # None
        BY <1>14 DEF Track, Declared
      <4>2. pods[q].app \in Apps
        BY <1>0, <1>1, <1>14 DEF Track, Pod
      <4> QED
        BY <1>0, <4>1, <4>2 DEF MemoryOK
    <3>3. podsByName[s][d] \cup {q} \in SUBSET PodNames
      BY <1>0, <2>1, <3>2 DEF MemoryOK
    <3> QED
      BY <1>0, <2>1, <3>1, <3>2, <3>3, TrackOK
  <2>3. PodsOK' /\ EventsOK' /\ BudgetOK' /\ PodsKept
    BY <1>0, <2>1, UnchangedPodsKept DEF PodsOK, EventsOK, BudgetOK
  <2> QED
    BY <1>2, <1>3, <1>4, <2>1, <2>2, <2>3, InformerOnly
<1>15. CASE Panic(s)
  BY <1>0, <1>15, RestartInv DEF Panic, Answers, BudgetOK
<1> QED
  BY <1>6, <1>7, <1>8, <1>9, <1>10, <1>11, <1>12, <1>13, <1>14, <1>15 DEF InformerStep

-----------------------------------------------------------------------------
(* The ticker's steps.                                                     *)

(* They leave DesiredApps and the informer alone.                          *)
LEMMA TickerOnly ==
  ASSUME IInv, NEW s \in Schedulers, NEW t \in Ticker,
         PodsOK', EventsOK', BudgetOK', PodsKept, EventsExistNext,
         ticker' = [ticker EXCEPT ![s] = t],
         UNCHANGED <<desiredApps, informer>>, MemoryOK', TickerExist(s)'
  PROVE  IInv'
<1>1. PodsOK /\ EventsOK /\ MemoryOK /\ InformerOK /\ TickerOK /\ BudgetOK
  BY TypeParts DEF IInv
<1>2. InformerOK' /\ TickerOK'
  BY <1>1 DEF InformerOK, TickerOK
<1>3. TypeOK'
  BY <1>2, TypeWhole
<1>4. Others(s)
  BY <1>1 DEF Others, TickerOK
<1>5. DesiredExist(s)'
  BY DesiredKept DEF IInv, Exist
<1>6. InformerExist(s)'
  BY InformerKept DEF IInv, Exist
<1> QED
  BY <1>1, <1>3, <1>4, <1>5, <1>6, ExistNext DEF IInv

(* New locals that refer to existing pods still do so after the step.      *)
LEMMA RefsKept ==
  ASSUME PodsKept, TickerOK, NEW s \in Schedulers, NEW t \in Ticker, TickerRefs(s, t),
         ticker' = [ticker EXCEPT ![s] = t], UNCHANGED desiredApps
  PROVE  TickerExist(s)'
<1>1. ticker'[s] = t
  BY DEF TickerOK
<1> QED
  BY <1>1 DEF TickerExist, TickerRefs, PodsKept, Declared

(* Most of them do no more than read the API servers.                      *)
LEMMA TickerReads ==
  ASSUME IInv, NEW s \in Schedulers, NEW t \in Ticker, TickerRefs(s, t),
         UNCHANGED <<api, memory, informer>>, Answers \/ Fails,
         ticker' = [ticker EXCEPT ![s] = t]
  PROVE  IInv'
<1>1. /\ PodsOK /\ EventsOK /\ MemoryOK /\ TickerOK /\ BudgetOK
      /\ \A r \in Schedulers : addEvents[r] \subseteq Used
  BY TypeParts DEF IInv, Exist, EventsExist
<1>2. UNCHANGED <<pods, addEvents, desiredApps, podsByName, informer>>
  BY DEF api, memory
<1>3. PodsOK' /\ EventsOK' /\ MemoryOK'
  BY <1>1, <1>2 DEF PodsOK, EventsOK, MemoryOK
<1>4. PodsKept /\ BudgetOK'
  BY <1>1, <1>2, UnchangedPodsKept, Spent
<1>5. EventsExistNext
  BY <1>1, <1>2, <1>4 DEF EventsExistNext, PodsKept
<1>6. TickerExist(s)'
  BY <1>1, <1>2, <1>4, RefsKept
<1> QED
  BY <1>2, <1>3, <1>4, <1>5, <1>6, TickerOnly

(* The locals with which EnforceDesired starts and a tick ends.            *)
LEMMA StartEnforceOK ==
  ASSUME NEW s \in Schedulers
  PROVE  /\ TickerIdle \in Ticker /\ TickerRefs(s, TickerIdle)
         /\ StartEnforce(s) \in Ticker /\ TickerRefs(s, StartEnforce(s))
  BY DEF StartEnforce, TickerIdle, Ticker, TickerRefs, Declared

(* reschedulePod's bookkeeping keeps PodsByName well typed.                *)
LEMMA RetrackedOK ==
  ASSUME PodsOK, MemoryOK, NEW s \in Schedulers, NEW old \in Used, NEW new \in PodNames,
         podsByName' = Retracked(s, old, new), UNCHANGED desiredApps
  PROVE  MemoryOK'
<1> DEFINE d == desiredApps[s][pods[old].app]
<1>1. CASE d = None
  BY <1>1 DEF Retracked, MemoryOK
<1>2. CASE d # None
  <2>1. d \in PodNames
    BY <1>2, UsedFacts DEF MemoryOK, Pod
  <2>2. podsByName' = [podsByName EXCEPT ![s][d] = (podsByName[s][d] \ {old}) \cup {new}]
    BY <1>2 DEF Retracked
  <2>3. (podsByName[s][d] \ {old}) \cup {new} \in SUBSET PodNames
    BY <2>1 DEF MemoryOK
  <2> HIDE DEF d
  <2> QED
    BY <2>1, <2>2, <2>3, TrackOK
<1> QED
  BY <1>1, <1>2

(* reschedulePod's copy exists, and names the pod it replaces.             *)
LEMMA MoveInv ==
  ASSUME IInv, ConstantsAssumption, NEW s \in Schedulers, NEW p \in PodNames, NEW n \in Nodes,
         Move(s, p, n)
  PROVE  IInv'
<1> DEFINE t == [ticker[s] EXCEPT !.todo = @ \ {p}, !.pc = "moveDelete",
                                  !.pod = p, !.copy = NewName]
<1>1. /\ PodsOK /\ EventsOK /\ MemoryOK /\ TickerOK /\ BudgetOK
      /\ \A r \in Schedulers : Exist(r)
      /\ ticker[s] \in Ticker
  BY TypeParts DEF IInv, TickerOK
<1>2. /\ ticker[s].pc = "reconcile" /\ p \in ticker[s].todo /\ p \in Used /\ pods[p] \in Pod
      /\ ticker[s].todo \subseteq Used /\ \A a \in ticker[s].apps : Declared(s, a)
  BY <1>1, UsedFacts DEF Move, NextInList, Exist, TickerExist, TickerRefs
<1>3. /\ PodsOK' /\ EventsOK' /\ BudgetOK' /\ PodsKept /\ EventsExistNext
      /\ NewName \in PodNames /\ NewName \in Used' /\ pods'[NewName].from = p
  <2>1. /\ Added(pods[p].app, pods[p].kind, ClusterOf[n], n, p) /\ budget' = budget
        /\ pods[p].app \in Apps /\ pods[p].kind \in {"template", "plain", "generated"}
        /\ ClusterOf[n] \in Clusters
    BY <1>2 DEF Move, Create, Answers, Pod, ConstantsAssumption
  <2>2. n \in Nodes \cup {None} /\ p \in PodNames \cup {None}
    OBVIOUS
  <2> QED
    BY <1>1, <2>1, <2>2, AddedCall DEF Exist, BudgetOK
<1>4. UNCHANGED <<desiredApps, informer>> /\ MemoryOK'
  <2>1. podsByName' = Retracked(s, p, NewName) /\ UNCHANGED <<desiredApps, informer>>
    BY DEF Move
  <2> QED
    BY <1>1, <1>2, <1>3, <2>1, RetrackedOK
<1>5. t \in Ticker /\ ticker' = [ticker EXCEPT ![s] = t]
  BY <1>1, <1>3 DEF Move, Ticker, TickerOK
<1>6. TickerExist(s)'
  <2>1. /\ ticker'[s].pc = "moveDelete" /\ ticker'[s].pod = p /\ ticker'[s].copy = NewName
        /\ ticker'[s].todo \subseteq Used /\ ticker'[s].apps = ticker[s].apps
    BY <1>1, <1>2, <1>5 DEF Ticker, TickerOK
  <2> QED
    BY <1>2, <1>3, <1>4, <2>1 DEF TickerExist, TickerRefs, PodsKept, Declared
<1> HIDE DEF t
<1> QED
  BY <1>3, <1>4, <1>5, <1>6, TickerOnly

(* Every step of a ticker preserves IInv.                                  *)
LEMMA TickerInv ==
  ASSUME IInv, ConstantsAssumption, NEW s \in Schedulers, TickerStep(s)
  PROVE  IInv'
<1>0. /\ PodsOK /\ EventsOK /\ MemoryOK /\ TickerOK /\ BudgetOK
      /\ \A r \in Schedulers : Exist(r) /\ addEvents[r] \subseteq Used
      /\ Used \subseteq PodNames /\ \A p \in Used : pods[p] \in Pod
      /\ ticker[s] \in Ticker /\ TickerRefs(s, ticker[s])
  BY TypeParts, UsedFacts DEF IInv, Exist, EventsExist, TickerOK, TickerExist
<1>1. \A c \in Clusters : Present(c) \subseteq Used
  BY DEF Present, InCluster
<1>2. ASSUME PodsKept, addEvents' = addEvents
      PROVE  EventsExistNext
  BY <1>0, <1>2 DEF EventsExistNext, PodsKept
<1>3. ASSUME UNCHANGED memory PROVE MemoryOK' /\ UNCHANGED desiredApps
  BY <1>0, <1>3 DEF memory, MemoryOK
<1>4. CASE Tick(s)
  <2> DEFINE t == [TickerIdle EXCEPT !.pc = "reconcile", !.clusters = Clusters]
  <2>1. t \in Ticker /\ TickerRefs(s, t)
    BY DEF Ticker, TickerIdle, TickerRefs
  <2>2. /\ UNCHANGED <<api, memory, informer>> /\ (Answers \/ Fails)
        /\ \/ ticker' = [ticker EXCEPT ![s] = t]
           \/ ticker' = [ticker EXCEPT ![s] = StartEnforce(s)]
    BY <1>4 DEF Tick
  <2> HIDE DEF t
  <2> QED
    BY <2>1, <2>2, StartEnforceOK, TickerReads
<1>5. ASSUME NEW c \in Clusters, ReconcileList(s, c) PROVE IInv'
  <2> DEFINE t == [ticker[s] EXCEPT !.clusters = @ \ {c}, !.todo = Present(c) \ Unscheduled(c)]
             u == [ticker[s] EXCEPT !.clusters = @ \ {c}]
  <2>1. t \in Ticker /\ u \in Ticker /\ TickerRefs(s, t) /\ TickerRefs(s, u)
    BY <1>0, <1>1, <1>5 DEF ReconcileList, Ticker, TickerRefs
  <2>2. /\ UNCHANGED <<api, memory, informer>> /\ (Answers \/ Fails)
        /\ ticker' = [ticker EXCEPT ![s] = t] \/ ticker' = [ticker EXCEPT ![s] = u]
    BY <1>0, <1>5 DEF ReconcileList, TickerOK
  <2> HIDE DEF t, u
  <2> QED
    BY <2>1, <2>2, TickerReads
<1>6. ASSUME NEW p \in PodNames, Keep(s, p) PROVE IInv'
  <2> DEFINE t == [ticker[s] EXCEPT !.todo = @ \ {p}]
  <2>1. t \in Ticker /\ TickerRefs(s, t)
    BY <1>0 DEF Ticker, TickerRefs
  <2>2. /\ UNCHANGED <<api, memory, informer>> /\ Answers
        /\ ticker' = [ticker EXCEPT ![s] = t]
    BY <1>0, <1>6 DEF Keep, TickerOK, Answers
  <2> HIDE DEF t
  <2> QED
    BY <2>1, <2>2, TickerReads
<1>7. ASSUME NEW p \in PodNames, NEW n \in Nodes, Move(s, p, n) PROVE IInv'
  BY <1>7, MoveInv
<1>8. CASE MoveDelete(s)
  <2> DEFINE p == ticker[s].pod
             t == [ticker[s] EXCEPT !.pc = "reconcile", !.pod = None, !.copy = None]
  <2>1. /\ p \in Used /\ ticker[s].copy \in Used
        /\ Delete(p) \/ DeleteFails(p)
        /\ podsByName' = podsByName \/ podsByName' = Retracked(s, ticker[s].copy, p)
        /\ UNCHANGED <<desiredApps, informer>>
    BY <1>0, <1>8 DEF MoveDelete, TickerRefs
  <2>2. t \in Ticker /\ TickerRefs(s, t) /\ ticker' = [ticker EXCEPT ![s] = t]
    BY <1>0, <1>8 DEF MoveDelete, Ticker, TickerRefs, TickerOK
  <2>3. PodsOK' /\ EventsOK' /\ BudgetOK' /\ PodsKept /\ EventsExistNext
    BY <1>0, <1>2, <2>1, DeleteCall
  <2>4. MemoryOK'
    BY <1>0, <2>1, RetrackedOK DEF MemoryOK
  <2> HIDE DEF t, p
  <2>5. TickerExist(s)'
    BY <1>0, <2>1, <2>2, <2>3, RefsKept
  <2> QED
    BY <2>1, <2>2, <2>3, <2>4, <2>5, TickerOnly
<1>9. CASE ReconcileDone(s)
  BY <1>9, StartEnforceOK, TickerReads DEF ReconcileDone, Answers
<1>10. ASSUME NEW a \in Apps, EnforceApp(s, a) PROVE IInv'
  <2> DEFINE t == [ticker[s] EXCEPT !.apps = @ \ {a}, !.pc = "list",
                                    !.clusters = Clusters, !.obj = desiredApps[s][a]]
  <2>1. ticker[s].todo \subseteq Used /\ desiredApps[s][a] \in Used
    BY <1>0, <1>10 DEF EnforceApp, TickerRefs, Exist, DesiredExist
  <2>2. t \in Ticker /\ TickerRefs(s, t)
    BY <1>0, <2>1 DEF Ticker, TickerRefs
  <2>3. /\ UNCHANGED <<api, memory, informer>> /\ Answers
        /\ ticker' = [ticker EXCEPT ![s] = t]
    BY <1>0, <1>10 DEF EnforceApp, TickerOK, Answers
  <2> HIDE DEF t
  <2> QED
    BY <2>2, <2>3, TickerReads
<1>11. ASSUME NEW c \in Clusters, EnforceList(s, c) PROVE IInv'
  <2> DEFINE a == pods[ticker[s].obj].app
             t == [ticker[s] EXCEPT !.clusters = @ \ {c},
                        !.found = @ \cup Counted(c, a), !.todo = Doomed(c, a)]
             u == [ticker[s] EXCEPT !.clusters = @ \ {c}]
  <2>1. Counted(c, a) \subseteq Used /\ Doomed(c, a) \subseteq Used
    BY <1>1 DEF Counted, Doomed, AppPods
  <2>2. t \in Ticker /\ u \in Ticker /\ TickerRefs(s, t) /\ TickerRefs(s, u)
    BY <1>0, <1>11, <2>1 DEF EnforceList, Ticker, TickerRefs
  <2>3. /\ UNCHANGED <<api, memory, informer>> /\ (Answers \/ Fails)
        /\ ticker' = [ticker EXCEPT ![s] = t] \/ ticker' = [ticker EXCEPT ![s] = u]
    BY <1>0, <1>11 DEF EnforceList, TickerOK
  <2> HIDE DEF t, u
  <2> QED
    BY <2>2, <2>3, TickerReads
<1>12. ASSUME NEW p \in PodNames, EnforceDelete(s, p) PROVE IInv'
  <2> DEFINE t == [ticker[s] EXCEPT !.todo = @ \ {p}]
  <2>1. t \in Ticker /\ TickerRefs(s, t) /\ ticker' = [ticker EXCEPT ![s] = t]
    BY <1>0, <1>12 DEF EnforceDelete, Ticker, TickerRefs, TickerOK
  <2>2. (Delete(p) \/ DeleteFails(p)) /\ UNCHANGED <<memory, informer>>
    BY <1>12 DEF EnforceDelete
  <2>3. PodsOK' /\ EventsOK' /\ BudgetOK' /\ PodsKept /\ EventsExistNext
    BY <1>0, <1>2, <2>2, DeleteCall
  <2> HIDE DEF t
  <2>4. TickerExist(s)'
    BY <1>0, <1>3, <2>1, <2>2, <2>3, RefsKept
  <2> QED
    BY <1>3, <2>1, <2>2, <2>3, <2>4, TickerOnly
<1>13. ASSUME NEW p \in PodNames, Respawn(s, p) PROVE IInv'
  <2> DEFINE d == ticker[s].obj
  <2>1. d \in Used /\ d \in PodNames /\ pods[d].app \in Apps /\ Home[s] \in Clusters
    BY <1>0, <1>13 DEF Respawn, TickerRefs, Pod, ConstantsAssumption
  <2>2. /\ Create(pods[d].app, "generated", Home[s], None, d) \/ CreateFails
        /\ UNCHANGED <<desiredApps, informer, ticker>>
        /\ podsByName' = [podsByName EXCEPT ![s][d] = podsByName[s][d] \ {p}]
    BY <1>13 DEF Respawn
  <2>3. PodsOK' /\ EventsOK' /\ BudgetOK' /\ PodsKept /\ EventsExistNext
    <3>1. CASE Create(pods[d].app, "generated", Home[s], None, d)
      <4>1. Added(pods[d].app, "generated", Home[s], None, d) /\ budget' = budget
        BY <3>1 DEF Create, Answers
      <4> QED
        BY <1>0, <2>1, <4>1, AddedCall DEF Exist, BudgetOK
    <3>2. CASE CreateFails
      BY <1>0, <1>2, <3>2, CreateFailsCall
    <3> QED
      BY <2>2, <3>1, <3>2
  <2>4. MemoryOK'
    <3>1. PICK e \in PodNames : e = d
      BY <2>1
    <3>2. MemoryOK /\ UNCHANGED desiredApps
      BY <1>0, <2>2
    <3>3. podsByName[s][e] \ {p} \in SUBSET PodNames
      BY <3>2 DEF MemoryOK
    <3>4. PICK names \in SUBSET PodNames : names = podsByName[s][e] \ {p}
      BY <3>3
    <3>5. podsByName' = [podsByName EXCEPT ![s][e] = names]
      BY <2>2, <3>1, <3>4
    <3> QED
      BY <3>2, <3>5, TrackOK
  <2>5. ticker' = [ticker EXCEPT ![s] = ticker[s]]
    BY <1>0, <2>2 DEF TickerOK
  <2>6. TickerExist(s)'
    BY <1>0, <2>2, <2>3, <2>5, RefsKept
  <2> QED
    BY <1>0, <2>2, <2>3, <2>4, <2>5, <2>6, TickerOnly
<1>14. CASE StartRespawn(s)
  <2> DEFINE t == [ticker[s] EXCEPT !.pc = "respawn", !.todo = podsByName[s][ticker[s].obj]]
  <2>1. ticker[s].obj \in Used /\ podsByName[s][ticker[s].obj] \subseteq PodNames
    BY <1>0, <1>14 DEF StartRespawn, TickerRefs, MemoryOK
  <2>2. t \in Ticker /\ TickerRefs(s, t)
    BY <1>0, <2>1 DEF Ticker, TickerRefs
  <2>3. /\ UNCHANGED <<api, memory, informer>> /\ Answers
        /\ ticker' = [ticker EXCEPT ![s] = t]
    BY <1>0, <1>14 DEF StartRespawn, TickerOK, Answers
  <2> HIDE DEF t
  <2> QED
    BY <2>2, <2>3, TickerReads
<1>15. CASE EnforceAppDone(s)
  <2> DEFINE t == [TickerIdle EXCEPT !.pc = "enforce", !.apps = ticker[s].apps]
  <2>1. t \in Ticker /\ TickerRefs(s, t)
    BY <1>0 DEF Ticker, TickerIdle, TickerRefs
  <2>2. /\ UNCHANGED <<api, memory, informer>> /\ Answers
        /\ ticker' = [ticker EXCEPT ![s] = t]
    BY <1>15 DEF EnforceAppDone, Answers
  <2> HIDE DEF t
  <2> QED
    BY <2>1, <2>2, TickerReads
<1>16. CASE EnforceDone(s)
  BY <1>16, StartEnforceOK, TickerReads DEF EnforceDone, Answers
<1> QED
  BY <1>4, <1>5, <1>6, <1>7, <1>8, <1>9, <1>10, <1>11, <1>12, <1>13, <1>14, <1>15, <1>16
     DEF TickerStep

-----------------------------------------------------------------------------
(* The environment's steps.                                                *)

(* They keep the pods and leave the schedulers' memory alone.              *)
LEMMA EnvironmentInv ==
  ASSUME IInv, PodsOK', EventsOK', BudgetOK', PodsKept, EventsExistNext,
         UNCHANGED <<memory, informer, ticker>>
  PROVE  IInv'
<1>1. /\ MemoryOK /\ InformerOK /\ TickerOK /\ \A r \in Schedulers : Exist(r)
      /\ UNCHANGED <<desiredApps, podsByName, informer, ticker>>
  BY TypeParts DEF IInv, memory
<1>2. TypeOK'
  BY <1>1, TypeWhole DEF MemoryOK, InformerOK, TickerOK
<1>3. ASSUME NEW s \in Schedulers PROVE Exist(s)'
  <2>1. EventsExist(s)'
    BY DEF EventsExistNext, EventsExist
  <2>2. DesiredExist(s)' /\ InformerExist(s)'
    BY <1>1, DesiredKept, InformerKept DEF Exist
  <2>3. TickerExist(s)'
    BY <1>1, TickerKept DEF Exist, Declared, TickerOK, Ticker
  <2> QED
    BY <2>1, <2>2, <2>3 DEF Exist
<1> QED
  BY <1>2, <1>3 DEF IInv

(* A kubelet's step preserves IInv.                                        *)
LEMMA PhaseStepInv ==
  ASSUME IInv, NEW p \in PodNames, NEW from \in SUBSET Phases, NEW to \in Phases,
         PhaseStep(p, from, to), BudgetOK'
  PROVE  IInv'
<1>1. /\ PodsOK /\ EventsOK /\ \A r \in Schedulers : addEvents[r] \subseteq Used
  BY TypeParts DEF IInv, Exist, EventsExist
<1>2. PodsOK' /\ PodsKept /\ UNCHANGED <<addEvents, memory, informer, ticker>>
  BY <1>1, PhaseStepFacts
<1>3. EventsOK' /\ EventsExistNext
  BY <1>1, <1>2 DEF EventsOK, EventsExistNext, PodsKept
<1> QED
  BY <1>2, <1>3, EnvironmentInv

(* A submission preserves IInv.                                            *)
LEMMA SubmitInv ==
  ASSUME IInv, ConstantsAssumption, NEW a \in Apps, NEW k \in Manifests, NEW s \in Schedulers,
         Submit(a, k, s)
  PROVE  IInv'
<1>1. PodsOK /\ EventsOK /\ BudgetOK /\ \A r \in Schedulers : EventsExist(r)
  BY TypeParts DEF IInv, Exist
<1>2. /\ k \in {"template", "plain", "generated"} /\ Home[s] \in Clusters
      /\ None \in Nodes \cup {None} /\ None \in PodNames \cup {None}
  BY DEF ConstantsAssumption
<1>3. Added(a, k, Home[s], None, None) /\ UNCHANGED <<memory, informer, ticker>>
  BY DEF Submit
<1>4. BudgetOK'
  BY <1>1 DEF Submit, BudgetOK
<1> QED
  BY <1>1, <1>2, <1>3, <1>4, AddedCall, EnvironmentInv

(* IInv holds at first: nothing refers to any pod.                         *)
LEMMA InitInv == ConstantsAssumption /\ Init => IInv
<1> SUFFICES ASSUME ConstantsAssumption, Init PROVE IInv
  OBVIOUS
<1>1. PodsOK /\ EventsOK /\ MemoryOK /\ BudgetOK
  BY DEF Init, PodsOK, EventsOK, MemoryOK, BudgetOK, ConstantsAssumption
<1>2. InformerOK /\ TickerOK
  BY DEF Init, InformerOK, TickerOK, Informer, InformerIdle, Ticker, TickerIdle
<1>3. TypeOK
  BY <1>1, <1>2 DEF TypeOK, PodsOK, EventsOK, MemoryOK, BudgetOK, InformerOK, TickerOK
<1>4. ASSUME NEW s \in Schedulers PROVE Exist(s)
  BY DEF Init, Exist, EventsExist, DesiredExist, InformerExist, InformerIdle, TickerExist,
         TickerRefs, TickerIdle, Declared
<1> QED
  BY <1>3, <1>4 DEF IInv

(* IInv is inductive.                                                      *)
LEMMA NextInv ==
  ASSUME IInv, ConstantsAssumption, [Next]_vars
  PROVE  IInv'
<1>0. BudgetOK
  BY TypeParts DEF IInv
<1>1. ASSUME NEW s \in Schedulers, InformerStep(s) PROVE IInv'
  BY <1>1, InformerInv
<1>2. ASSUME NEW s \in Schedulers, TickerStep(s) PROVE IInv'
  BY <1>2, TickerInv
<1>3. ASSUME NEW s \in Schedulers, Crash(s) PROVE IInv'
  BY <1>0, <1>3, RestartInv DEF Crash, BudgetOK
<1>4. ASSUME NEW p \in PodNames, KubeletStep(p) PROVE IInv'
  <2>1. budget' = budget /\ BudgetOK'
    BY <1>0, <1>4 DEF KubeletStep, KubeletStart, PendTooLong, Terminated, Answers, BudgetOK
  <2>2. \/ PhaseStep(p, {"Pending", "Stuck"}, "Running")
        \/ PhaseStep(p, {"Pending"}, "Stuck")
        \/ PhaseStep(p, {"Terminating"}, "Gone")
    BY <1>4 DEF KubeletStep, KubeletStart, PendTooLong, Terminated
  <2>3. /\ {"Pending", "Stuck"} \in SUBSET Phases /\ {"Pending"} \in SUBSET Phases
        /\ {"Terminating"} \in SUBSET Phases
        /\ "Running" \in Phases /\ "Stuck" \in Phases /\ "Gone" \in Phases
    BY DEF Phases
  <2> QED
    BY <2>1, <2>2, <2>3, PhaseStepInv
<1>5. ASSUME NEW p \in PodNames, End(p) PROVE IInv'
  <2>1. BudgetOK'
    BY <1>0, <1>5 DEF End, BudgetOK
  <2>2. PICK to \in {"Failed", "Succeeded"} : PhaseStep(p, {"Running"}, to)
    BY <1>5 DEF End
  <2>3. {"Running"} \in SUBSET Phases /\ to \in Phases
    BY DEF Phases
  <2> QED
    BY <2>1, <2>2, <2>3, PhaseStepInv
<1>6. ASSUME NEW p \in PodNames, Lose(p) PROVE IInv'
  <2>1. BudgetOK' /\ PhaseStep(p, {"Pending", "Stuck", "Running"}, "Gone")
    BY <1>0, <1>6 DEF Lose, BudgetOK
  <2>2. {"Pending", "Stuck", "Running"} \in SUBSET Phases /\ "Gone" \in Phases
    BY DEF Phases
  <2> QED
    BY <2>1, <2>2, PhaseStepInv
<1>7. ASSUME NEW a \in Apps, NEW k \in Manifests, NEW s \in Schedulers, Submit(a, k, s)
      PROVE  IInv'
  BY <1>7, SubmitInv
<1>8. CASE UNCHANGED vars
  BY <1>8 DEF vars, IInv, TypeOK, Exist, EventsExist, DesiredExist, InformerExist,
              TickerExist, TickerRefs, Declared, Used
<1> QED
  BY <1>1, <1>2, <1>3, <1>4, <1>5, <1>6, <1>7, <1>8 DEF Next

(* Whatever a goroutine or DesiredApps refers to exists, and a copy that   *)
(* is about to replace a pod names that pod, in every reachable state:     *)
(* schedulePod, reschedulePod and EnforceDesired keep names across calls   *)
(* during which other processes create and delete pods.                    *)
THEOREM Invariance == Spec => []IInv
<1>1. Init => IInv
  BY InitInv, ConstantsAssumption
<1>2. IInv /\ [Next]_vars => IInv'
  BY NextInv, ConstantsAssumption
<1> QED
  BY <1>1, <1>2, PTL DEF Spec

(* The variables keep their types: of the loops that count or range over   *)
(* copies, none leaves its bounds (scheduler.go:140, :311, :369).          *)
THEOREM TypeCorrect == Spec => []TypeOK
<1>1. IInv => TypeOK
  BY DEF IInv
<1> QED
  BY <1>1, Invariance, PTL

-----------------------------------------------------------------------------
(* Which steps can take a live workload pod away.                          *)

(* A pod whose phase stays is not taken away.                              *)
LEMMA Untouched ==
  ASSUME NEW p \in PodNames, pods'[p].phase = pods[p].phase
  PROVE  ~Broken(p)
  BY DEF Broken, Live

(* A Create takes no pod away ...                                          *)
LEMMA CreateBreaksNone ==
  ASSUME IInv, NEW p \in PodNames, Used # PodNames,
         \A q \in PodNames : q # NewName => pods'[q] = pods[q]
  PROVE  ~Broken(p)
<1>1. NewName \notin Used
  BY UsedFacts, TypeParts DEF IInv
<1>2. CASE p = NewName
  BY <1>1, <1>2 DEF Broken, Live, Used
<1>3. CASE p # NewName
  BY <1>3, Untouched
<1> QED
  BY <1>2, <1>3

(* ... whatever it creates.                                                *)
LEMMA AddedBreaksNone ==
  ASSUME IInv, NEW p \in PodNames, NEW a, NEW k, NEW c, NEW n, NEW from,
         Added(a, k, c, n, from)
  PROVE  ~Broken(p)
<1>1. Used # PodNames /\ \A q \in PodNames : q # NewName => pods'[q] = pods[q]
  BY TypeParts DEF IInv, Added, PodsOK
<1> QED
  BY <1>1, CreateBreaksNone

(* A Delete takes away the pod it names.                                   *)
LEMMA DeleteBreaksOne ==
  ASSUME IInv, NEW p \in PodNames, NEW q, Delete(q) \/ DeleteFails(q), Broken(p)
  PROVE  p = q
<1>1. CASE Delete(q)
  <2> SUFFICES ASSUME p # q PROVE FALSE
    OBVIOUS
  <2>1. pods'[p] = pods[p]
    BY <1>1, TypeParts DEF IInv, Delete, PodsOK
  <2> QED
    BY <2>1, Untouched
<1>2. CASE DeleteFails(q)
  BY <1>2, Untouched DEF DeleteFails, api
<1> QED
  BY <1>1, <1>2

(* What an informer takes away is a template or has a copy.                *)
LEMMA InformerExcused ==
  ASSUME IInv, NEW s \in Schedulers, InformerStep(s), NEW p \in PodNames, Broken(p)
  PROVE  Excused(p)
<1>1. pods' # pods
  BY Untouched
<1>2. CASE ExpandReplica(s)
  BY <1>1, <1>2, AddedBreaksNone DEF ExpandReplica, Create, CreateFails, api
<1>3. CASE DeleteTemplate(s)
  <2>1. pods[informer[s].pod].kind = "template"
    BY <1>3 DEF DeleteTemplate, IInv, Exist, InformerExist
  <2>2. p = informer[s].pod
    BY <1>3, DeleteBreaksOne DEF DeleteTemplate
  <2> QED
    BY <2>1, <2>2 DEF Broken
<1>4. ASSUME NEW n \in Nodes, BindLocal(s, n) PROVE Excused(p)
  <2>1. pods' = pods \/ pods' = [pods EXCEPT ![informer[s].pod].node = n]
    BY <1>4 DEF BindLocal
  <2>2. pods'[p].phase = pods[p].phase
    BY <2>1, TypeParts DEF IInv, PodsOK, Pod, NoPod
  <2> QED
    BY <2>2, Untouched
<1>5. ASSUME NEW n \in Nodes, CreateRemote(s, n) PROVE Excused(p)
  BY <1>5, AddedBreaksNone DEF CreateRemote, Create
<1>6. CASE DeleteOriginal(s)
  <2>1. informer[s].copy \in Used /\ pods[informer[s].copy].from = informer[s].pod
    BY <1>6 DEF DeleteOriginal, IInv, Exist, InformerExist
  <2>2. p = informer[s].pod
    BY <1>6, DeleteBreaksOne DEF DeleteOriginal
  <2> QED
    BY <2>1, <2>2 DEF Excused
<1> QED
  BY <1>1, <1>2, <1>3, <1>4, <1>5, <1>6
     DEF InformerStep, AddTemplate, AddPod, ScheduleFails, CreateFails, Track, Panic,
         Restarted, api

(* What a ticker takes away has a copy or was listed as doomed.            *)
LEMMA TickerExcused ==
  ASSUME IInv, NEW s \in Schedulers, TickerStep(s), NEW p \in PodNames, Broken(p)
  PROVE  Excused(p)
<1>1. pods' # pods
  BY Untouched
<1>2. ASSUME NEW q \in PodNames, NEW n \in Nodes, Move(s, q, n) PROVE Excused(p)
  BY <1>2, AddedBreaksNone DEF Move, Create
<1>3. CASE MoveDelete(s)
  <2>1. ticker[s].copy \in Used /\ pods[ticker[s].copy].from = ticker[s].pod
    BY <1>3 DEF MoveDelete, IInv, Exist, TickerExist, TickerRefs
  <2>2. p = ticker[s].pod
    BY <1>3, DeleteBreaksOne DEF MoveDelete
  <2> QED
    BY <2>1, <2>2 DEF Excused
<1>4. ASSUME NEW q \in PodNames, EnforceDelete(s, q) PROVE Excused(p)
  <2>1. p = q
    BY <1>4, DeleteBreaksOne DEF EnforceDelete
  <2> QED
    BY <1>4, <2>1 DEF EnforceDelete, Excused
<1>5. ASSUME NEW q \in PodNames, Respawn(s, q) PROVE Excused(p)
  BY <1>1, <1>5, AddedBreaksNone DEF Respawn, Create, CreateFails, api
<1> QED
  BY <1>1, <1>2, <1>3, <1>4, <1>5
     DEF TickerStep, Tick, ReconcileList, EnforceList, Keep, ReconcileDone, EnforceApp,
         StartRespawn, EnforceAppDone, EnforceDone, api

(* The steps of the other schedulers, of users and of kubelets included,   *)
(* no live workload pod is taken away before its successor was created.    *)
THEOREM MakeBeforeBreakHolds == Spec => MakeBeforeBreak
<1>1. IInv /\ [Next]_vars => [\A p \in PodNames : Broken(p) => Excused(p)]_vars
  <2> SUFFICES ASSUME IInv, Next, NEW p \in PodNames, Broken(p) PROVE Excused(p)
    OBVIOUS
  <2>1. ASSUME NEW s \in Schedulers, Crash(s) PROVE Excused(p)
    BY <2>1, Untouched DEF Crash, Restarted
  <2>2. ASSUME NEW q \in PodNames, NEW from, NEW to, PhaseStep(q, from, to)
        PROVE  p = q /\ pods[q].phase \in from /\ pods'[q].phase = to
    <3>1. p = q
      <4> SUFFICES ASSUME p # q PROVE FALSE
        OBVIOUS
      <4>1. pods'[p] = pods[p]
        BY <2>2, TypeParts DEF IInv, PhaseStep, PodsOK
      <4> QED
        BY <4>1, Untouched
    <3>2. pods[q] \in Pod
      BY <3>1, TypeParts, UsedFacts DEF IInv, Broken, Live, Phases
    <3> QED
      BY <2>2, <3>1, <3>2, TypeParts DEF IInv, PhaseStep, PodsOK, Pod
  <2>3. ASSUME NEW q \in PodNames, KubeletStep(q) \/ End(q) PROVE Excused(p)
    <3>1. \/ PhaseStep(q, {"Pending", "Stuck"}, "Running")
          \/ PhaseStep(q, {"Pending"}, "Stuck")
          \/ PhaseStep(q, {"Terminating"}, "Gone")
          \/ PhaseStep(q, {"Running"}, "Failed")
          \/ PhaseStep(q, {"Running"}, "Succeeded")
      BY <2>3, ConstantsAssumption DEF KubeletStep, KubeletStart, PendTooLong, Terminated, End
    <3> QED
      BY <2>2, <3>1 DEF Broken, Live
  <2>4. ASSUME NEW q \in PodNames, Lose(q) PROVE Excused(p)
    <3>1. BudgetOK
      BY TypeParts DEF IInv
    <3>2. budget'.loss = budget.loss - 1
      BY <2>4, <3>1 DEF Lose, BudgetOK
    <3>3. budget'.loss # budget.loss
      BY <3>1, <3>2 DEF BudgetOK
    <3> QED
      BY <3>3 DEF Excused
  <2>5. ASSUME NEW a \in Apps, NEW k \in Manifests, NEW s \in Schedulers, Submit(a, k, s)
        PROVE  Excused(p)
    BY <2>5, AddedBreaksNone DEF Submit
  <2> QED
    BY <2>1, <2>3, <2>4, <2>5, InformerExcused, TickerExcused DEF Next
<1> QED
  BY <1>1, Invariance, PTL DEF MakeBeforeBreak, Spec

-----------------------------------------------------------------------------
(* PanicInv is preserved.                                                  *)

(* Nothing that a panic may come from has happened, or happens now.        *)
Sparing == Spared /\ Owned /\ Spared'

(* What a step of any process has to leave true.                           *)
DeclaredKept == \A t \in Schedulers, a \in Apps :
  Sparing /\ ~Shared(t) /\ Declared(t, a) => Declared(t, a)'
EventsOwned == \A t \in Schedulers : Sparing /\ ~Shared(t) =>
  \A p \in addEvents'[t] :
    p \in addEvents[t] \/ (pods'[p].kind = "generated" => Declared(t, pods[p].app)')
InformersOwned == \A t \in Schedulers :
  Sparing /\ ~Shared(t) => informer'[t] = informer[t] \/ OwnsInformer(t)'
TickersOwned == \A t \in Schedulers :
  Sparing /\ ~Shared(t) => ticker'[t] = ticker[t] \/ OwnsTicker(t)'

(* A plain copy is not forgotten.                                          *)
LEMMA SparedBefore ==
  ASSUME PodsKept, budget'.crash = budget.crash, Spared'
  PROVE  Spared
<1> SUFFICES ASSUME PlainCopied PROVE FALSE
  BY DEF Spared
<1>1. PICK p \in Used : pods[p].kind = "plain" /\ pods[p].from # None
  BY DEF PlainCopied
<1>2. p \in Used' /\ pods'[p].kind = "plain" /\ pods'[p].from # None
  BY <1>1 DEF PodsKept
<1> QED
  BY <1>2 DEF Spared, PlainCopied

(* ... and then PanicInv holds after it.                                   *)
LEMMA OwnedNext ==
  ASSUME IInv, PanicInv, PodsKept, DeclaredKept, EventsOwned, InformersOwned, TickersOwned,
         budget'.crash = budget.crash
  PROVE  PanicInv'
<1> SUFFICES ASSUME Spared' PROVE Owned'
  BY DEF PanicInv
<1>1. /\ Sparing /\ Owned
      /\ \A p \in Used : pods[p].app \in Apps
  BY SparedBefore, UsedFacts, TypeParts DEF IInv, Pod, Sparing, PanicInv
<1> SUFFICES ASSUME NEW t \in Schedulers, ~Shared(t) PROVE Owns(t)'
  BY DEF Owned, Shared
<1>2. Owns(t)
  BY <1>1 DEF Owned
<1>3. OwnsEvents(t)'
  <2> SUFFICES ASSUME NEW p \in addEvents'[t], p \in addEvents[t], pods'[p].kind = "generated"
               PROVE  Declared(t, pods[p].app)'
    BY <1>1 DEF OwnsEvents, EventsOwned
  <2>1. p \in Used
    BY DEF IInv, Exist, EventsExist
  <2>2. pods'[p].app = pods[p].app /\ pods[p].kind = "generated" /\ pods[p].app \in Apps
    BY <1>1, <2>1 DEF PodsKept
  <2>3. Declared(t, pods[p].app)
    BY <1>2, <2>2 DEF Owns, OwnsEvents
  <2> QED
    BY <1>1, <2>2, <2>3 DEF DeclaredKept, Declared
<1>4. OwnsInformer(t)'
  <2> SUFFICES ASSUME informer'[t] = informer[t] PROVE OwnsInformer(t)'
    BY <1>1 DEF InformersOwned
  <2>1. informer[t].pc # "idle" => informer[t].pod \in Used
    BY DEF IInv, Exist, InformerExist
  <2> QED
    BY <1>1, <1>2, <2>1 DEF Owns, OwnsInformer, DeclaredKept, PodsKept, Declared
<1>5. OwnsTicker(t)'
  <2> SUFFICES ASSUME ticker'[t] = ticker[t] PROVE OwnsTicker(t)'
    BY <1>1 DEF TickersOwned
  <2>1. ticker[t].pc \in {"list", "respawn"} => ticker[t].obj \in Used
    BY DEF IInv, Exist, TickerExist, TickerRefs
  <2> QED
    BY <1>1, <1>2, <2>1 DEF Owns, OwnsTicker, DeclaredKept, PodsKept, Declared
<1> QED
  BY <1>3, <1>4, <1>5 DEF Owns

(* A step that creates no pod and no event.                                *)
LEMMA SamePods ==
  ASSUME IInv, addEvents' = addEvents, PodsKept, \A p \in Used' : p \in Used
  PROVE  EventsOwned
  BY DEF EventsOwned

(* A Delete creates no pod and no event.                                   *)
LEMMA DeletedPods ==
  ASSUME IInv, NEW p \in Used, Delete(p) \/ DeleteFails(p)
  PROVE  PodsKept /\ EventsOwned /\ budget'.crash = budget.crash
<1>1. /\ PodsOK /\ EventsOK /\ BudgetOK /\ p \in PodNames
  BY TypeParts, UsedFacts DEF IInv
<1>2. /\ PodsKept /\ addEvents' = addEvents /\ budget'.crash = budget.crash
      /\ \A q \in PodNames : q # p => pods'[q] = pods[q]
  BY <1>1, DeleteCall
<1>3. \A q \in Used' : q \in Used
  BY <1>2 DEF Used
<1> QED
  BY <1>2, <1>3, SamePods

(* Nor does a failed Create.                                               *)
LEMMA FailedCreate ==
  ASSUME IInv, CreateFails
  PROVE  PodsKept /\ EventsOwned /\ budget'.crash = budget.crash
<1>1. /\ PodsKept /\ addEvents' = addEvents /\ pods' = pods /\ budget'.crash = budget.crash
  BY TypeParts, CreateFailsCall DEF IInv
<1> QED
  BY <1>1, SamePods DEF Used

(* A Create makes an event of a generated pod only for a declared app.     *)
LEMMA CreatedPod ==
  ASSUME IInv, ConstantsAssumption, DeclaredKept,
         NEW a \in Apps, NEW k \in {"template", "plain", "generated"},
         NEW c \in Clusters, NEW n \in Nodes \cup {None}, NEW from \in PodNames \cup {None},
         Added(a, k, c, n, from),
         n = None /\ k = "generated" /\ Sparing =>
           \A t \in Schedulers : Home[t] = c => Shared(t) \/ Declared(t, a)
  PROVE  PodsKept /\ EventsOwned
<1>1. PodsOK /\ EventsOK /\ \A t \in Schedulers : EventsExist(t)
  BY TypeParts DEF IInv, Exist
<1>3. /\ PodsKept /\ NewName \in PodNames \ Used
      /\ pods'[NewName].app = a /\ pods'[NewName].kind = k
      /\ \A p \in PodNames : p # NewName => pods'[p] = pods[p]
  BY <1>1, AddedCall
<1>4. \A t \in Schedulers : addEvents'[t] =
        IF n = None /\ Home[t] = c THEN addEvents[t] \cup {NewName} ELSE addEvents[t]
  BY DEF Added
<1>6. EventsOwned
  <2> SUFFICES ASSUME NEW t \in Schedulers, Sparing, ~Shared(t),
                      NEW p \in addEvents'[t], p \notin addEvents[t],
                      pods'[p].kind = "generated"
               PROVE  Declared(t, pods[p].app)'
    BY DEF EventsOwned
  <2>1. p = NewName /\ n = None /\ Home[t] = c
    BY <1>4
  <2>2. k = "generated" /\ pods'[p].app = a
    BY <1>3, <2>1
  <2>3. Declared(t, a)
    BY <2>1, <2>2
  <2> QED
    BY <2>2, <2>3 DEF DeclaredKept, Declared
<1> QED
  BY <1>3, <1>6

(* Every step of an informer preserves PanicInv.                           *)
LEMMA InformerOwned ==
  ASSUME IInv, PanicInv, ConstantsAssumption, NEW s \in Schedulers, InformerStep(s)
  PROVE  PanicInv'
<1> DEFINE p == informer[s].pod
           q == informer[s].copy
<1>1. /\ PodsOK /\ EventsOK /\ MemoryOK /\ InformerOK /\ BudgetOK
      /\ addEvents[s] \subseteq Used
      /\ Used \subseteq PodNames /\ \A r \in Used : pods[r] \in Pod
      /\ informer[s] \in Informer /\ InformerExist(s)
      /\ Sparing /\ ~Shared(s) => OwnsInformer(s) /\ OwnsEvents(s)
  BY TypeParts, UsedFacts DEF IInv, Exist, EventsExist, InformerOK, Sparing, Owned, Owns
<1>2. informer[s].pc # "idle" => p \in Used /\ pods[p].app \in Apps
  BY <1>1 DEF InformerExist, Pod
<1>3. ASSUME UNCHANGED memory PROVE DeclaredKept
  BY <1>3 DEF memory, DeclaredKept, Declared
<1>4. ASSUME NEW i, informer' = [informer EXCEPT ![s] = i],
             i.pc # "idle" => /\ i.pod = p /\ informer[s].pc # "idle"
                              /\ informer[s].pc = "schedule" /\ Sparing =>
                                   pods[p].kind # "plain",
             PodsKept, DeclaredKept
      PROVE  InformersOwned
  <2>1. informer'[s] = i /\ \A t \in Schedulers : t # s => informer'[t] = informer[t]
    BY <1>1, <1>4 DEF InformerOK
  <2>2. Sparing /\ ~Shared(s) => OwnsInformer(s)'
    BY <1>1, <1>2, <1>4, <2>1 DEF OwnsInformer, DeclaredKept, PodsKept, Declared
  <2> QED
    BY <2>1, <2>2 DEF InformersOwned
<1>16. ASSUME UNCHANGED ticker PROVE TickersOwned
  BY <1>16 DEF TickersOwned
<1>5. InformerIdle.pc = "idle"
  BY DEF InformerIdle
<1>6. ASSUME NEW r \in PodNames, AddTemplate(s, r) PROVE PanicInv'
  <2>1. /\ UNCHANGED <<pods, ticker, budget>> /\ r \in Used /\ pods[r].app \in Apps
        /\ desiredApps' = [desiredApps EXCEPT ![s][pods[r].app] = r]
        /\ r # None
    BY <1>1, <1>6 DEF AddTemplate, Pod, ConstantsAssumption
  <2>2. (\A t \in Schedulers, a \in Apps : Declared(t, a) => Declared(t, a)')
        /\ DeclaredKept /\ Declared(s, pods[r].app)'
    BY <1>1, <2>1 DEF DeclaredKept, Declared, MemoryOK
  <2>3. PodsKept /\ EventsOwned
    <3>1. \A t \in Schedulers : addEvents'[t] \subseteq addEvents[t]
      BY <1>1, <1>6 DEF AddTemplate, EventsOK
    <3> QED
      BY <2>1, <3>1, UnchangedPodsKept DEF EventsOwned
  <2>4. InformersOwned
    <3>1. informer'[s].pod = r /\ \A t \in Schedulers : t # s => informer'[t] = informer[t]
      BY <1>1, <1>6 DEF AddTemplate, InformerOK
    <3>2. OwnsInformer(s)'
      BY <2>1, <2>2, <3>1 DEF OwnsInformer
    <3> QED
      BY <3>1, <3>2 DEF InformersOwned
  <2>5. TickersOwned
    BY <2>1 DEF TickersOwned
  <2> QED
    BY <2>1, <2>2, <2>3, <2>4, <2>5, OwnedNext
<1>7. ASSUME NEW r \in PodNames, AddPod(s, r) PROVE PanicInv'
  <2>1. /\ UNCHANGED <<pods, memory, ticker, budget>> /\ r \in Used /\ pods[r] \in Pod
        /\ r \in addEvents[s] /\ pods[r].kind # "template"
        /\ informer'[s].pod = r /\ informer'[s].pc = "schedule"
        /\ \A t \in Schedulers : t # s => informer'[t] = informer[t]
        /\ \A t \in Schedulers : addEvents'[t] \subseteq addEvents[t]
    BY <1>1, <1>7 DEF AddPod, EventsOK, InformerOK
  <2>2. DeclaredKept /\ PodsKept /\ EventsOwned /\ TickersOwned
    BY <1>3, <2>1, UnchangedPodsKept DEF EventsOwned, TickersOwned
  <2>3. ASSUME Sparing, ~Shared(s) PROVE OwnsInformer(s)'
    <3>1. CASE pods[r].kind = "plain"
      BY <2>1, <3>1 DEF OwnsInformer
    <3>2. CASE pods[r].kind = "generated"
      BY <1>1, <2>1, <2>3, <3>2 DEF OwnsEvents, OwnsInformer, Declared, memory
    <3> QED
      BY <2>1, <3>1, <3>2 DEF Pod
  <2>4. InformersOwned
    BY <2>1, <2>3 DEF InformersOwned
  <2> QED
    BY <2>1, <2>2, <2>4, OwnedNext
<1>8. CASE ExpandReplica(s)
  <2> DEFINE i == [informer[s] EXCEPT !.left = @ - 1]
  <2>1. /\ UNCHANGED <<memory, ticker>> /\ informer[s].pc = "expand"
        /\ informer' = [informer EXCEPT ![s] = i] /\ i.pc = "expand" /\ i.pod = p
    BY <1>1, <1>8 DEF ExpandReplica, InformerOK, Informer
  <2>2. PodsKept /\ EventsOwned /\ budget'.crash = budget.crash
    <3>1. CASE Create(pods[p].app, "generated", Home[s], None, p)
      <4>1. Added(pods[p].app, "generated", Home[s], None, p) /\ budget' = budget
        BY <3>1 DEF Create, Answers
      <4>2. /\ pods[p].app \in Apps /\ p \in PodNames \cup {None} /\ Home[s] \in Clusters
            /\ None \in Nodes \cup {None} /\ "generated" \in {"template", "plain", "generated"}
        BY <1>1, <1>2, <2>1 DEF ConstantsAssumption
      <4>3. Sparing => \A t \in Schedulers :
              Home[t] = Home[s] => Shared(t) \/ Declared(t, pods[p].app)
        BY <1>1, <2>1 DEF Shared, OwnsInformer
      <4> QED
        BY <1>3, <2>1, <4>1, <4>2, <4>3, CreatedPod
    <3>2. CASE CreateFails
      BY <3>2, FailedCreate
    <3> QED
      BY <1>8, <3>1, <3>2 DEF ExpandReplica
  <2> HIDE DEF i
  <2>3. InformersOwned
    BY <1>3, <1>4, <2>1, <2>2
  <2> QED
    BY <1>3, <1>16, <2>1, <2>2, <2>3, OwnedNext
<1>9. CASE DeleteTemplate(s)
  <2>1. /\ Delete(p) \/ DeleteFails(p)
        /\ p \in Used /\ UNCHANGED <<memory, ticker>>
        /\ informer' = [informer EXCEPT ![s] = InformerIdle]
    BY <1>2, <1>9 DEF DeleteTemplate
  <2>2. PodsKept /\ EventsOwned /\ budget'.crash = budget.crash
    BY <2>1, DeletedPods
  <2> QED
    BY <1>3, <1>4, <1>5, <1>16, <2>1, <2>2, OwnedNext
<1>10. CASE ScheduleFails(s)
  <2>1. /\ CreateFails /\ UNCHANGED <<memory, ticker>>
        /\ informer' = [informer EXCEPT ![s] = InformerIdle]
    BY <1>10 DEF ScheduleFails
  <2>2. PodsKept /\ EventsOwned /\ budget'.crash = budget.crash
    BY <2>1, FailedCreate
  <2> QED
    BY <1>3, <1>4, <1>5, <1>16, <2>1, <2>2, OwnedNext
<1>11. ASSUME NEW n \in Nodes, BindLocal(s, n) PROVE PanicInv'
  <2>1. /\ informer' = [informer EXCEPT ![s] = InformerIdle]
        /\ UNCHANGED <<addEvents, memory, ticker, budget>> /\ p \in Used
        /\ pods' = pods \/ pods' = [pods EXCEPT ![p].node = n]
    BY <1>2, <1>11 DEF BindLocal
  <2>2. PodsKept /\ \A r \in Used' : r \in Used
    BY <1>1, <2>1 DEF PodsOK, Pod, PodsKept, Used
  <2>3. EventsOwned
    BY <2>1, <2>2, SamePods
  <2> QED
    BY <1>3, <1>4, <1>5, <1>16, <2>1, <2>2, <2>3, OwnedNext
<1>12. ASSUME NEW n \in Nodes, CreateRemote(s, n) PROVE PanicInv'
  <2> DEFINE i == [informer[s] EXCEPT !.pc = "delete", !.copy = NewName]
  <2>1. /\ Added(pods[p].app, pods[p].kind, ClusterOf[n], n, p) /\ budget' = budget
        /\ informer[s].pc = "schedule" /\ p \in Used /\ pods[p].app \in Apps
        /\ UNCHANGED <<memory, ticker>>
        /\ informer' = [informer EXCEPT ![s] = i] /\ i.pod = p
    BY <1>1, <1>2, <1>12 DEF CreateRemote, Create, Answers, InformerOK, Informer
  <2>2. /\ pods[p].kind \in {"template", "plain", "generated"} /\ ClusterOf[n] \in Clusters
        /\ n \in Nodes \cup {None} /\ n # None /\ p \in PodNames \cup {None} /\ p # None
    BY <1>1, <2>1 DEF Pod, ConstantsAssumption
  <2>3. PodsKept /\ EventsOwned
    BY <1>3, <2>1, <2>2, CreatedPod
  <2>4. Sparing => pods[p].kind # "plain"
    <3>1. /\ NewName \in Used' /\ pods'[NewName].from = p
          /\ pods'[NewName].kind = pods[p].kind
      BY <1>1, <2>1, <2>2, AddedCall, ConstantsAssumption DEF IInv, Exist
    <3> QED
      BY <2>2, <3>1 DEF Sparing, Spared, PlainCopied
  <2> HIDE DEF i
  <2>5. InformersOwned
    BY <1>3, <1>4, <2>1, <2>3, <2>4
  <2>6. TickersOwned
    BY <2>1 DEF TickersOwned
  <2> QED
    BY <1>3, <2>1, <2>3, <2>5, <2>6, OwnedNext
<1>13. CASE DeleteOriginal(s)
  <2> DEFINE i == [informer[s] EXCEPT !.pc = "track"]
  <2>1. /\ Delete(p) \/ DeleteFails(p)
        /\ p \in Used /\ UNCHANGED <<memory, ticker>> /\ informer[s].pc = "delete"
        /\ informer' = [informer EXCEPT ![s] = i] /\ i.pod = p
    BY <1>1, <1>2, <1>13 DEF DeleteOriginal, InformerOK, Informer
  <2>2. PodsKept /\ EventsOwned /\ budget'.crash = budget.crash
    BY <2>1, DeletedPods
  <2> HIDE DEF i
  <2>3. InformersOwned
    BY <1>3, <1>4, <2>1, <2>2
  <2> QED
    BY <1>3, <1>16, <2>1, <2>2, <2>3, OwnedNext
<1>14. CASE Track(s)
  <2>1. /\ informer' = [informer EXCEPT ![s] = InformerIdle]
        /\ UNCHANGED <<pods, addEvents, desiredApps, ticker, budget>>
    BY <1>14 DEF Track, api
  <2>2. PodsKept /\ DeclaredKept /\ EventsOwned
    BY <2>1, UnchangedPodsKept, SamePods DEF DeclaredKept, Declared, Used
  <2> QED
    BY <1>4, <1>5, <1>16, <2>1, <2>2, OwnedNext
<1>15. CASE Panic(s)
  <2>1. /\ informer[s].pc = "track" /\ ~Declared(s, pods[p].app)
        /\ UNCHANGED <<pods, budget>> /\ PodsKept
        /\ \A t \in Schedulers : t # s =>
             /\ addEvents'[t] = addEvents[t] /\ desiredApps'[t] = desiredApps[t]
             /\ informer'[t] = informer[t] /\ ticker'[t] = ticker[t]
    <3>1. UNCHANGED <<pods, budget>> /\ Restarted(s)
      BY <1>15 DEF Panic, Restarted, Answers
    <3>2. TickerOK
      BY TypeParts DEF IInv
    <3> QED
      BY <1>1, <1>15, <3>1, <3>2, UnchangedPodsKept
         DEF Panic, Restarted, InformerExist, EventsOK, MemoryOK, InformerOK, TickerOK
  <2>2. ~(Sparing /\ ~Shared(s))
    BY <1>1, <2>1 DEF OwnsInformer
  <2>3. DeclaredKept /\ EventsOwned /\ InformersOwned /\ TickersOwned
    BY <2>1, <2>2 DEF DeclaredKept, EventsOwned, InformersOwned, TickersOwned, Declared
  <2> QED
    BY <2>1, <2>3, OwnedNext
<1> QED
  BY <1>6, <1>7, <1>8, <1>9, <1>10, <1>11, <1>12, <1>13, <1>14, <1>15 DEF InformerStep

(* Every step of a ticker preserves Owned.                                 *)
LEMMA TickerOwned ==
  ASSUME IInv, PanicInv, ConstantsAssumption, NEW s \in Schedulers, TickerStep(s)
  PROVE  PanicInv'
<1>1. /\ PodsOK /\ EventsOK /\ MemoryOK /\ TickerOK /\ BudgetOK
      /\ Used \subseteq PodNames /\ \A r \in Used : pods[r] \in Pod
      /\ ticker[s] \in Ticker /\ TickerRefs(s, ticker[s]) /\ DesiredExist(s)
      /\ Sparing /\ ~Shared(s) => OwnsTicker(s)
  BY TypeParts, UsedFacts DEF IInv, Exist, TickerExist, TickerOK, Sparing, Owned, Owns
<1>2. UNCHANGED <<desiredApps, informer>> /\ DeclaredKept /\ InformersOwned
  <2>1. UNCHANGED <<desiredApps, informer>>
    BY DEF TickerStep, Tick, ReconcileList, Keep, Move, MoveDelete, ReconcileDone, EnforceApp,
           EnforceList, EnforceDelete, StartRespawn, Respawn, EnforceAppDone, EnforceDone, memory
  <2> QED
    BY <2>1 DEF DeclaredKept, InformersOwned, Declared
<1>3. PodsKept /\ EventsOwned /\ budget'.crash = budget.crash
  <2>1. ASSUME UNCHANGED api, Answers \/ Fails
        PROVE  PodsKept /\ EventsOwned /\ budget'.crash = budget.crash
    <3>1. UNCHANGED <<pods, addEvents>>
      BY <2>1 DEF api
    <3> QED
      BY <1>1, <2>1, <3>1, UnchangedPodsKept, SamePods, Spent DEF Used
  <2>2. ASSUME NEW p \in PodNames, NEW n \in Nodes, Move(s, p, n)
        PROVE  PodsKept /\ EventsOwned /\ budget'.crash = budget.crash
    <3>1. /\ Added(pods[p].app, pods[p].kind, ClusterOf[n], n, p) /\ budget' = budget
          /\ p \in Used
      BY <1>1, <2>2 DEF Move, NextInList, Create, Answers, TickerRefs
    <3>2. /\ pods[p].app \in Apps /\ pods[p].kind \in {"template", "plain", "generated"}
          /\ ClusterOf[n] \in Clusters /\ n # None
          /\ n \in Nodes \cup {None} /\ p \in PodNames \cup {None}
      BY <1>1, <3>1 DEF Pod, ConstantsAssumption
    <3> QED
      BY <1>2, <3>1, <3>2, CreatedPod
  <2>3. CASE MoveDelete(s)
    BY <1>1, <2>3, DeletedPods DEF MoveDelete, TickerRefs
  <2>4. ASSUME NEW p \in PodNames, EnforceDelete(s, p)
        PROVE  PodsKept /\ EventsOwned /\ budget'.crash = budget.crash
    BY <1>1, <2>4, DeletedPods DEF EnforceDelete, TickerRefs
  <2>5. ASSUME NEW p \in PodNames, Respawn(s, p)
        PROVE  PodsKept /\ EventsOwned /\ budget'.crash = budget.crash
    <3> DEFINE d == ticker[s].obj
    <3>1. /\ Create(pods[d].app, "generated", Home[s], None, d) \/ CreateFails
          /\ d \in Used /\ (Sparing /\ ~Shared(s) => Declared(s, pods[d].app))
      BY <1>1, <2>5 DEF Respawn, TickerRefs, OwnsTicker
    <3>2. CASE Create(pods[d].app, "generated", Home[s], None, d)
      <4>1. Added(pods[d].app, "generated", Home[s], None, d) /\ budget' = budget
        BY <3>2 DEF Create, Answers
      <4>2. /\ pods[d].app \in Apps /\ d \in PodNames \cup {None} /\ Home[s] \in Clusters
            /\ None \in Nodes \cup {None} /\ "generated" \in {"template", "plain", "generated"}
        BY <1>1, <3>1 DEF Pod, ConstantsAssumption
      <4>3. Sparing => \A t \in Schedulers :
              Home[t] = Home[s] => Shared(t) \/ Declared(t, pods[d].app)
        BY <3>1 DEF Shared
      <4> QED
        BY <1>2, <4>1, <4>2, <4>3, CreatedPod
    <3>3. CASE CreateFails
      BY <3>3, FailedCreate
    <3> QED
      BY <3>1, <3>2, <3>3
  <2> QED
    BY <2>1, <2>2, <2>3, <2>4, <2>5
       DEF TickerStep, Tick, ReconcileList, EnforceList, Keep, ReconcileDone, EnforceApp,
           StartRespawn, EnforceAppDone, EnforceDone, Answers
<1>4. TickersOwned
  <2>1. \A t \in Schedulers : t # s => ticker'[t] = ticker[t]
    BY <1>1 DEF TickerOK, TickerStep, Tick, ReconcileList, Keep, Move, MoveDelete,
         ReconcileDone, EnforceApp, EnforceList, EnforceDelete, StartRespawn, Respawn,
         EnforceAppDone, EnforceDone
  <2> DEFINE Enforcing(u) == u.pc \in {"list", "respawn"}
             Stays == Enforcing(ticker'[s]) =>
                        ticker'[s].obj = ticker[s].obj /\ Enforcing(ticker[s])
  <2>2. CASE Stays
    <3>1. Enforcing(ticker[s]) => ticker[s].obj \in Used /\ pods[ticker[s].obj].app \in Apps
      BY <1>1 DEF TickerRefs, Pod
    <3>2. Sparing /\ ~Shared(s) => OwnsTicker(s)'
      BY <1>1, <1>2, <1>3, <2>2, <3>1 DEF OwnsTicker, DeclaredKept, PodsKept, Declared
    <3> QED
      BY <2>1, <3>2 DEF TickersOwned
  <2>3. ASSUME NEW a \in Apps, EnforceApp(s, a)
        PROVE  TickersOwned
    <3>1. ticker'[s].obj = desiredApps[s][a] /\ Declared(s, a)
      BY <1>1, <2>3 DEF EnforceApp, TickerOK, Ticker, TickerRefs
    <3>2. OwnsTicker(s)'
      BY <1>1, <1>2, <1>3, <3>1 DEF OwnsTicker, DesiredExist, PodsKept, Declared
    <3> QED
      BY <2>1, <3>2 DEF TickersOwned
  <2>4. ASSUME Tick(s) PROVE Stays
    <3>1. \/ ticker'[s] = [TickerIdle EXCEPT !.pc = "reconcile", !.clusters = Clusters]
          \/ ticker'[s] = StartEnforce(s)
      BY <1>1, <2>4 DEF Tick, TickerOK
    <3>2. /\ StartEnforce(s).pc = "enforce"
          /\ [TickerIdle EXCEPT !.pc = "reconcile", !.clusters = Clusters].pc = "reconcile"
      BY DEF StartEnforce, TickerIdle
    <3> QED
      BY <3>1, <3>2
  <2>5. ASSUME NEW c \in Clusters, ReconcileList(s, c) PROVE Stays
    BY <1>1, <2>5 DEF ReconcileList, TickerOK, Ticker
  <2>6. ASSUME NEW c \in Clusters, EnforceList(s, c) PROVE Stays
    BY <1>1, <2>6 DEF EnforceList, TickerOK, Ticker
  <2>7. ASSUME NEW p \in PodNames, Keep(s, p) \/ EnforceDelete(s, p) \/ Respawn(s, p) PROVE Stays
    BY <1>1, <2>7 DEF Keep, EnforceDelete, Respawn, TickerOK, Ticker
  <2>8. ASSUME NEW p \in PodNames, NEW n \in Nodes, Move(s, p, n) PROVE Stays
    BY <1>1, <2>8 DEF Move, TickerOK, Ticker
  <2>9. ASSUME MoveDelete(s) PROVE Stays
    BY <1>1, <2>9 DEF MoveDelete, TickerOK, Ticker
  <2>10. ASSUME ReconcileDone(s) \/ EnforceAppDone(s) \/ EnforceDone(s) PROVE Stays
    <3>1. ticker'[s].pc = "enforce" \/ ticker'[s].pc = "idle"
      <4>1. CASE ReconcileDone(s)
        BY <1>1, <4>1 DEF ReconcileDone, StartEnforce, TickerIdle, TickerOK
      <4>2. CASE EnforceAppDone(s)
        BY <1>1, <4>2 DEF EnforceAppDone, TickerIdle, TickerOK
      <4>3. CASE EnforceDone(s)
        BY <1>1, <4>3 DEF EnforceDone, TickerIdle, TickerOK
      <4> QED
        BY <2>10, <4>1, <4>2, <4>3
    <3> QED
      BY <3>1
  <2>11. ASSUME StartRespawn(s) PROVE Stays
    BY <1>1, <2>11 DEF StartRespawn, TickerOK, Ticker
  <2> HIDE DEF Stays
  <2> QED
    BY <2>2, <2>3, <2>4, <2>5, <2>6, <2>7, <2>8, <2>9, <2>10, <2>11 DEF TickerStep
<1> QED
  BY <1>2, <1>3, <1>4, OwnedNext

(* A kubelet's step, an ending or a loss preserves PanicInv.               *)
LEMMA KubeletOwned ==
  ASSUME IInv, PanicInv, NEW p \in PodNames, KubeletStep(p) \/ End(p) \/ Lose(p)
  PROVE  PanicInv'
<1>1. PodsOK /\ BudgetOK
  BY TypeParts DEF IInv
<1>2. /\ budget'.crash = budget.crash
      /\ \E from \in SUBSET Phases, to \in Phases : PhaseStep(p, from, to)
  <2>1. CASE KubeletStep(p)
    BY <2>1 DEF KubeletStep, KubeletStart, PendTooLong, Terminated, Answers, Phases
  <2>2. CASE End(p)
    BY <1>1, <2>2, ConstantsAssumption DEF End, BudgetOK, Phases
  <2>3. CASE Lose(p)
    BY <1>1, <2>3 DEF Lose, BudgetOK, Phases
  <2> QED
    BY <2>1, <2>2, <2>3
<1>3. PICK from \in SUBSET Phases, to \in Phases : PhaseStep(p, from, to)
  BY <1>2
<1>4. /\ PodsKept /\ UNCHANGED <<addEvents, memory, informer, ticker>>
      /\ \A q \in PodNames : q # p => pods'[q] = pods[q]
      /\ pods[p].phase \in from
  BY <1>1, <1>3, PhaseStepFacts
<1>5. EventsOwned /\ DeclaredKept /\ InformersOwned /\ TickersOwned
  BY <1>4 DEF EventsOwned, DeclaredKept, InformersOwned, TickersOwned, Declared, memory
<1> QED
  BY <1>2, <1>4, <1>5, OwnedNext

(* A submission preserves PanicInv: nobody submits a generated pod.        *)
LEMMA SubmitOwned ==
  ASSUME IInv, PanicInv, ConstantsAssumption,
         NEW a \in Apps, NEW k \in Manifests, NEW s \in Schedulers, Submit(a, k, s)
  PROVE  PanicInv'
<1>1. BudgetOK
  BY TypeParts DEF IInv
<1>2. /\ Added(a, k, Home[s], None, None) /\ UNCHANGED <<desiredApps, informer, ticker>>
      /\ budget'.crash = budget.crash
  BY <1>1 DEF Submit, BudgetOK, memory
<1>3. DeclaredKept /\ InformersOwned /\ TickersOwned
  BY <1>2 DEF DeclaredKept, InformersOwned, TickersOwned, Declared
<1>4. /\ k \in {"template", "plain", "generated"} /\ k # "generated" /\ Home[s] \in Clusters
      /\ None \in Nodes \cup {None} /\ None \in PodNames \cup {None}
  BY DEF ConstantsAssumption
<1>5. PodsKept /\ EventsOwned
  BY <1>2, <1>3, <1>4, CreatedPod
<1> QED
  BY <1>2, <1>3, <1>5, OwnedNext

(* A restart is remembered in the budget.                                  *)
LEMMA CrashOwned ==
  ASSUME IInv, PanicInv, NEW s \in Schedulers, Crash(s)
  PROVE  PanicInv'
<1>1. BudgetOK /\ Budget.crash \in Nat
  BY TypeParts, ConstantsAssumption DEF IInv
<1>2. budget.crash \in Nat /\ budget'.crash = budget.crash - 1
  BY <1>1 DEF Crash, BudgetOK
<1> QED
  BY <1>1, <1>2 DEF PanicInv, Spared

(* The unchecked dereference of DesiredApps[app] (scheduler.go:239) fails  *)
(* only after a plain pod got a copy in another cluster, after a restart,  *)
(* or where another scheduler calls the same cluster local: whatever else  *)
(* fails, and however informer and ticker interleave, the replicas of an   *)
(* app with the annotation never panic their scheduler.                    *)
THEOREM PanicExplainedHolds == Spec => []PanicExplained
<1>1. Init => PanicInv
  <2> SUFFICES ASSUME Init PROVE PanicInv
    OBVIOUS
  <2>1. budget.crash = Budget.crash /\ Budget.crash \in Nat
    BY ConstantsAssumption DEF Init
  <2>2. Owned
    BY DEF Init, Owned, Owns, OwnsEvents, OwnsInformer, OwnsTicker, InformerIdle, TickerIdle
  <2> QED
    BY <2>1, <2>2 DEF PanicInv
<1>2. IInv /\ PanicInv /\ [Next]_vars => PanicInv'
  <2> SUFFICES ASSUME IInv, PanicInv, [Next]_vars PROVE PanicInv'
    OBVIOUS
  <2>1. ASSUME NEW s \in Schedulers, InformerStep(s) PROVE PanicInv'
    BY <2>1, InformerOwned, ConstantsAssumption
  <2>2. ASSUME NEW s \in Schedulers, TickerStep(s) PROVE PanicInv'
    BY <2>2, TickerOwned, ConstantsAssumption
  <2>3. ASSUME NEW s \in Schedulers, Crash(s) PROVE PanicInv'
    BY <2>3, CrashOwned
  <2>4. ASSUME NEW p \in PodNames, KubeletStep(p) \/ End(p) \/ Lose(p) PROVE PanicInv'
    BY <2>4, KubeletOwned
  <2>5. ASSUME NEW a \in Apps, NEW k \in Manifests, NEW s \in Schedulers, Submit(a, k, s)
        PROVE  PanicInv'
    BY <2>5, SubmitOwned, ConstantsAssumption
  <2>6. CASE UNCHANGED vars
    <3>1. UNCHANGED <<pods, addEvents, desiredApps, informer, ticker, budget>>
      BY <2>6 DEF vars
    <3>2. EventsOwned /\ DeclaredKept /\ InformersOwned /\ TickersOwned
      BY <3>1 DEF EventsOwned, DeclaredKept, InformersOwned, TickersOwned, Declared
    <3> QED
      BY <3>1, <3>2, UnchangedPodsKept, OwnedNext
  <2> QED
    BY <2>1, <2>2, <2>3, <2>4, <2>5, <2>6 DEF Next
<1>3. IInv /\ PanicInv => PanicExplained
  <2> SUFFICES ASSUME IInv, PanicInv, NEW s \in Schedulers, Panics(s), Spared, ~Shared(s)
               PROVE  FALSE
    BY DEF PanicExplained, Spared
  <2>1. Declared(s, pods[informer[s].pod].app)
    BY DEF PanicInv, Owned, Owns, OwnsInformer, Panics
  <2> QED
    BY <2>1 DEF IInv, Exist, InformerExist, Panics
<1> QED
  BY <1>1, <1>2, <1>3, Invariance, PTL DEF Spec

(* One scheduler of one cluster, templates only; no call fails, no process *)
(* is restarted, no pod is deleted by others, and containers that end are  *)
(* restarted or evicted.                                                   *)
Alone ==
  /\ \E s : Schedulers = {s}
  /\ \E c : Clusters = {c}
  /\ Manifests \subseteq {"template"}
  /\ Budget.fault = 0 /\ Budget.loss = 0 /\ Budget.crash = 0
  /\ "Succeeded" \notin Ends

Calm == budget.fault = 0 /\ budget.loss = 0 /\ budget.crash = 0

There(p) == pods[p].phase \in {"Pending", "Stuck", "Running", "Failed"}
Over(p)  == pods[p].phase \in {"Terminating", "Gone"}
Replica(p) == p \in Used /\ pods[p].kind = "generated"

(* There are templates, which are never placed, and replicas.              *)
Kin ==
  /\ \A p \in Used : There(p) \/ Over(p)
  /\ \A p \in Used : pods[p].kind = "generated" \/ (pods[p].kind = "template" /\ pods[p].node = None)

(* PodsByName of a template has replicas of its app.                       *)
Known(s) == \A t \in PodNames : \A p \in podsByName[s][t] :
  t \in Used /\ Replica(p) /\ pods[p].app = pods[t].app

(* Templates are expanded, replicas scheduled.                             *)
Expands(s) ==
  /\ informer[s].pc \in {"idle", "expand", "schedule"}
  /\ informer[s].pc = "schedule" => Replica(informer[s].pod)

(* The declarations that s still reads: those in DesiredApps, and the one  *)
(* EnforceDesired holds, which may have been replaced meanwhile.           *)
Enforcing(s) == ticker[s].pc \in {"list", "respawn"}
Active(s) == {d \in PodNames : \/ \E a \in Apps : desiredApps[s][a] = d
                               \/ Enforcing(s) /\ ticker[s].obj = d}
Names(s)  == {p \in Used : \E d \in Active(s) : p \in podsByName[s][d]}

(* The lists of the ticker are not out of date in what matters: what it    *)
(* moves is still there, what it replaces is over, and no other            *)
(* declaration knows the names it goes through.                            *)
Moves(k, names) ==
  /\ k.pc \in {"reconcile", "moveDelete"} => \A p \in k.todo : Replica(p) /\ There(p)
  /\ k.pc = "moveDelete" =>
       Replica(k.pod) /\ There(k.pod) /\ k.pod \notin k.todo /\ k.pod \notin names
Replaces(k, names) ==
  /\ k.pc = "list" /\ k.clusters = {} => \A p \in names \ k.found : p \in k.todo \/ Over(p)
  /\ k.pc = "respawn" => \A p \in names \ k.found : Over(p)
Renewed(s) == Enforcing(s) =>
  LET o == ticker[s].obj
      d == desiredApps[s][pods[o].app] IN d \in {o, None} \/ podsByName[s][d] = {}
Enforces(s) ==
  /\ Moves(ticker[s], Names(s))
  /\ Replaces(ticker[s], podsByName[s][ticker[s].obj])
  /\ Renewed(s)

(* Every replica of an app that is there, or that is still to be replaced, *)
(* has one of the places that the templates handled so far ask for; a      *)
(* half-done move lends one.                                               *)
Taken(s, a) == Requests(a) \ addEvents[s]
Left(s, a)  == IF informer[s].pc = "expand" /\ pods[informer[s].pod].app = a
               THEN informer[s].left ELSE 0
Half(s, a)  == IF ticker[s].pc = "moveDelete" /\ pods[ticker[s].pod].app = a THEN 1 ELSE 0
Slots(s, a) == {p \in Used : Replica(p) /\ pods[p].app = a /\ (There(p) \/ p \in Names(s))}
Enough(s, a) ==
  /\ IsFiniteSet(Slots(s, a)) /\ IsFiniteSet(Requests(a))
  /\ Cardinality(Slots(s, a)) + Left(s, a)
       <= Replicas[a] * Cardinality(Taken(s, a)) + Half(s, a)

Family(s) == Kin /\ Known(s) /\ Expands(s) /\ Enforces(s) /\ \A a \in Apps : Enough(s, a)
CountInv == Calm /\ \A s \in Schedulers : Family(s)

(* What every lemma below starts from.                                     *)
Counting(s) == IInv /\ ConstantsAssumption /\ Alone /\ Calm /\ Family(s)

(* The parts of it that do not speak of the count.                         *)
LEMMA CountingFacts ==
  ASSUME NEW s \in Schedulers, Counting(s)
  PROVE  /\ PodsOK /\ EventsOK /\ MemoryOK /\ InformerOK /\ TickerOK /\ BudgetOK
         /\ Used \subseteq PodNames /\ \A p \in Used : pods[p] \in Pod
         /\ informer[s] \in Informer /\ ticker[s] \in Ticker
         /\ EventsExist(s) /\ DesiredExist(s) /\ InformerExist(s) /\ TickerRefs(s, ticker[s])
         /\ Kin /\ Known(s) /\ Expands(s) /\ Enforces(s) /\ \A a \in Apps : Enough(s, a)
         /\ ~ Fails
<1>1. /\ PodsOK /\ EventsOK /\ MemoryOK /\ InformerOK /\ TickerOK /\ BudgetOK
      /\ Used \subseteq PodNames /\ \A p \in Used : pods[p] \in Pod
      /\ Exist(s)
  BY TypeParts, UsedFacts DEF IInv, Counting
<1>2. EventsExist(s) /\ DesiredExist(s) /\ InformerExist(s) /\ TickerRefs(s, ticker[s])
  BY <1>1 DEF Exist, TickerExist
<1>3. Kin /\ Known(s) /\ Expands(s) /\ Enforces(s) /\ \A a \in Apps : Enough(s, a)
  BY DEF Counting, Family
<1>4. informer[s] \in Informer /\ ticker[s] \in Ticker
  BY <1>1 DEF InformerOK, TickerOK
<1>5. ~ Fails
  BY DEF Counting, Calm, Fails
<1> QED
  BY <1>1, <1>2, <1>3, <1>4, <1>5

(* The numbers in the count.                                               *)
LEMMA CountingNumbers ==
  ASSUME NEW s \in Schedulers, Counting(s), NEW a \in Apps
  PROVE  /\ Left(s, a) \in Nat /\ Half(s, a) \in {0, 1} /\ Replicas[a] \in Nat
         /\ IsFiniteSet(Taken(s, a)) /\ Cardinality(Taken(s, a)) \in Nat
         /\ Replicas[a] * Cardinality(Taken(s, a)) \in Nat
<1>1. informer[s] \in Informer
  BY CountingFacts
<1>2. Left(s, a) \in Nat /\ Half(s, a) \in {0, 1}
  BY <1>1 DEF Left, Half, Informer
<1>3. Replicas[a] \in Nat
  BY DEF Counting, ConstantsAssumption
<1>4. IsFiniteSet(Requests(a)) /\ Taken(s, a) \in SUBSET Requests(a)
  BY CountingFacts DEF Enough, Taken
<1>5. IsFiniteSet(Taken(s, a))
  BY <1>4, FS_Subset
<1>6. Cardinality(Taken(s, a)) \in Nat
  BY <1>5, FS_CardinalityType
<1>7. \A m, n \in Nat : m * n \in Nat
  OBVIOUS
<1> QED
  BY <1>2, <1>3, <1>5, <1>6, <1>7

(* A step that adds at most x to the places taken ...                      *)
LEMMA SlotsGrow ==
  ASSUME NEW S, IsFiniteSet(S), NEW x, NEW T, T \subseteq S \cup {x}
  PROVE  IsFiniteSet(T) /\ Cardinality(T) <= Cardinality(S) + 1
<1>1. /\ IsFiniteSet(S \cup {x}) /\ Cardinality(S) \in Nat
      /\ Cardinality(S \cup {x}) <= Cardinality(S) + 1
  <2>1. /\ IsFiniteSet(S \cup {x})
        /\ Cardinality(S \cup {x}) = IF x \in S THEN Cardinality(S) ELSE Cardinality(S) + 1
    BY FS_AddElement
  <2>2. Cardinality(S) \in Nat
    BY FS_CardinalityType
  <2> QED
    BY <2>1, <2>2
<1>2. T \in SUBSET (S \cup {x})
  OBVIOUS
<1>3. IsFiniteSet(T) /\ Cardinality(T) <= Cardinality(S \cup {x})
  BY <1>1, <1>2, FS_Subset
<1>4. Cardinality(T) \in Nat /\ Cardinality(S \cup {x}) \in Nat
  BY <1>1, <1>3, FS_CardinalityType
<1> QED
  BY <1>1, <1>3, <1>4

(* ... one that takes x away from them ...                                 *)
LEMMA SlotsShrink ==
  ASSUME NEW S, IsFiniteSet(S), NEW x \in S, NEW T, T \subseteq S \ {x}
  PROVE  IsFiniteSet(T) /\ Cardinality(T) + 1 <= Cardinality(S)
<1>1. /\ IsFiniteSet(S \ {x}) /\ Cardinality(S) \in Nat
      /\ Cardinality(S \ {x}) = Cardinality(S) - 1
  BY FS_RemoveElement, FS_CardinalityType
<1>2. T \in SUBSET (S \ {x})
  OBVIOUS
<1>3. IsFiniteSet(T) /\ Cardinality(T) <= Cardinality(S \ {x})
  BY <1>1, <1>2, FS_Subset
<1>4. Cardinality(T) \in Nat
  BY <1>3, FS_CardinalityType
<1> QED
  BY <1>1, <1>3, <1>4

(* ... and one that puts y in the place of x.                              *)
LEMMA SlotsSwap ==
  ASSUME NEW S, IsFiniteSet(S), NEW x \in S, NEW y, NEW T, T \subseteq (S \ {x}) \cup {y}
  PROVE  IsFiniteSet(T) /\ Cardinality(T) <= Cardinality(S)
<1>1. IsFiniteSet(S \ {x}) /\ Cardinality(S \ {x}) + 1 <= Cardinality(S)
  BY SlotsShrink
<1>2. IsFiniteSet(T) /\ Cardinality(T) <= Cardinality(S \ {x}) + 1
  BY <1>1, SlotsGrow
<1>3. Cardinality(T) \in Nat /\ Cardinality(S \ {x}) \in Nat /\ Cardinality(S) \in Nat
  BY <1>1, <1>2, FS_CardinalityType
<1> QED
  BY <1>1, <1>2, <1>3

(* The bound of an app only moves when one of its templates is handled.    *)
SameRequests(s, a) ==
  /\ Taken(s, a)' = Taken(s, a)
  /\ IsFiniteSet(Requests(a)) => IsFiniteSet(Requests(a)')

(* An app of which a step creates nothing.                                 *)
LEMMA EnoughLess ==
  ASSUME NEW s \in Schedulers, Counting(s), NEW a \in Apps, SameRequests(s, a),
         Slots(s, a)' \subseteq Slots(s, a),
         Left(s, a)' \in Nat, Left(s, a)' <= Left(s, a), Half(s, a)' = Half(s, a)
  PROVE  Enough(s, a)'
<1> DEFINE S == Slots(s, a)
           T == Slots(s, a)'
           Bound == Replicas[a] * Cardinality(Taken(s, a))
<1>1. /\ IsFiniteSet(S) /\ IsFiniteSet(Requests(a))
      /\ Cardinality(S) + Left(s, a) <= Bound + Half(s, a)
  BY CountingFacts DEF Enough
<1>2. Bound \in Nat /\ Half(s, a) \in {0, 1} /\ Left(s, a) \in Nat
  BY CountingNumbers
<1>3. T \in SUBSET S
  OBVIOUS
<1> HIDE DEF S, T
<1>4. IsFiniteSet(T) /\ Cardinality(T) <= Cardinality(S)
  BY <1>1, <1>3, FS_Subset
<1>5. Cardinality(T) \in Nat /\ Cardinality(S) \in Nat
  BY <1>1, <1>4, FS_CardinalityType
<1>6. Bound' = Bound
  BY DEF SameRequests
<1> HIDE DEF Bound
<1>7. Cardinality(T) + Left(s, a)' <= Bound + Half(s, a)'
  BY <1>1, <1>2, <1>4, <1>5
<1>8. IsFiniteSet(Requests(a)')
  BY <1>1 DEF SameRequests
<1> QED
  BY <1>4, <1>6, <1>7, <1>8 DEF Enough, T, Bound

(* One of which it creates x, in a place that was left or lent.            *)
LEMMA EnoughMore ==
  ASSUME NEW s \in Schedulers, Counting(s), NEW a \in Apps, SameRequests(s, a), NEW x,
         Slots(s, a)' \subseteq Slots(s, a) \cup {x},
         Left(s, a)' \in Nat, Half(s, a)' \in {0, 1},
         Left(s, a)' + Half(s, a) + 1 <= Left(s, a) + Half(s, a)'
  PROVE  Enough(s, a)'
<1> DEFINE S == Slots(s, a)
           T == Slots(s, a)'
           Bound == Replicas[a] * Cardinality(Taken(s, a))
<1>1. /\ IsFiniteSet(S) /\ IsFiniteSet(Requests(a))
      /\ Cardinality(S) + Left(s, a) <= Bound + Half(s, a)
  BY CountingFacts DEF Enough
<1>2. Bound \in Nat /\ Half(s, a) \in {0, 1} /\ Left(s, a) \in Nat
  BY CountingNumbers
<1>3. T \subseteq S \cup {x}
  OBVIOUS
<1> HIDE DEF S, T
<1>4. IsFiniteSet(T) /\ Cardinality(T) <= Cardinality(S) + 1
  BY <1>1, <1>3, SlotsGrow
<1>5. Cardinality(T) \in Nat /\ Cardinality(S) \in Nat
  BY <1>1, <1>4, FS_CardinalityType
<1>6. Bound' = Bound
  BY DEF SameRequests
<1> HIDE DEF Bound
<1>7. Cardinality(T) + Left(s, a)' <= Bound + Half(s, a)'
  BY <1>1, <1>2, <1>4, <1>5
<1>8. IsFiniteSet(Requests(a)')
  BY <1>1 DEF SameRequests
<1> QED
  BY <1>4, <1>6, <1>7, <1>8 DEF Enough, T, Bound

(* One of which it creates x in the place of p.                            *)
LEMMA EnoughSwap ==
  ASSUME NEW s \in Schedulers, Counting(s), NEW a \in Apps, SameRequests(s, a),
         NEW x, NEW p \in Slots(s, a),
         Slots(s, a)' \subseteq (Slots(s, a) \ {p}) \cup {x},
         Left(s, a)' = Left(s, a), Half(s, a)' = Half(s, a)
  PROVE  Enough(s, a)'
<1> DEFINE S == Slots(s, a)
           T == Slots(s, a)'
           Bound == Replicas[a] * Cardinality(Taken(s, a))
<1>1. /\ IsFiniteSet(S) /\ IsFiniteSet(Requests(a))
      /\ Cardinality(S) + Left(s, a) <= Bound + Half(s, a)
  BY CountingFacts DEF Enough
<1>2. Bound \in Nat /\ Half(s, a) \in {0, 1} /\ Left(s, a) \in Nat
  BY CountingNumbers
<1>3. T \subseteq (S \ {p}) \cup {x} /\ p \in S
  OBVIOUS
<1> HIDE DEF S, T
<1>4. IsFiniteSet(T) /\ Cardinality(T) <= Cardinality(S)
  BY <1>1, <1>3, SlotsSwap
<1>5. Cardinality(T) \in Nat /\ Cardinality(S) \in Nat
  BY <1>1, <1>4, FS_CardinalityType
<1>6. Bound' = Bound
  BY DEF SameRequests
<1> HIDE DEF Bound
<1>7. Cardinality(T) + Left(s, a)' <= Bound + Half(s, a)'
  BY <1>1, <1>2, <1>4, <1>5
<1>8. IsFiniteSet(Requests(a)')
  BY <1>1 DEF SameRequests
<1> QED
  BY <1>4, <1>6, <1>7, <1>8 DEF Enough, T, Bound

(* One of which a half-done move ends with p.                              *)
LEMMA EnoughReturned ==
  ASSUME NEW s \in Schedulers, Counting(s), NEW a \in Apps, SameRequests(s, a),
         NEW p \in Slots(s, a), Slots(s, a)' \subseteq Slots(s, a) \ {p},
         Left(s, a)' = Left(s, a), Half(s, a) = 1, Half(s, a)' = 0
  PROVE  Enough(s, a)'
<1> DEFINE S == Slots(s, a)
           T == Slots(s, a)'
           Bound == Replicas[a] * Cardinality(Taken(s, a))
<1>1. /\ IsFiniteSet(S) /\ IsFiniteSet(Requests(a))
      /\ Cardinality(S) + Left(s, a) <= Bound + 1
  BY CountingFacts DEF Enough
<1>2. Bound \in Nat /\ Left(s, a) \in Nat
  BY CountingNumbers
<1>3. T \subseteq S \ {p} /\ p \in S
  OBVIOUS
<1> HIDE DEF S, T
<1>4. IsFiniteSet(T) /\ Cardinality(T) + 1 <= Cardinality(S)
  BY <1>1, <1>3, SlotsShrink
<1>5. Cardinality(T) \in Nat /\ Cardinality(S) \in Nat
  BY <1>1, <1>4, FS_CardinalityType
<1>6. Bound' = Bound
  BY DEF SameRequests
<1> HIDE DEF Bound
<1>7. Cardinality(T) + Left(s, a)' <= Bound + Half(s, a)'
  BY <1>1, <1>2, <1>4, <1>5
<1>8. IsFiniteSet(Requests(a)')
  BY <1>1 DEF SameRequests
<1> QED
  BY <1>4, <1>6, <1>7, <1>8 DEF Enough, T, Bound

(* One of which the template t is handled.                                 *)
LEMMA EnoughRequested ==
  ASSUME NEW s \in Schedulers, Counting(s), NEW a \in Apps, Requests(a)' = Requests(a),
         NEW t, t \notin Taken(s, a), Taken(s, a)' = Taken(s, a) \cup {t},
         Slots(s, a)' \subseteq Slots(s, a), Left(s, a) = 0, Left(s, a)' = Replicas[a],
         Half(s, a)' = Half(s, a)
  PROVE  Enough(s, a)'
<1> DEFINE S == Slots(s, a)
           T == Slots(s, a)'
           N == Cardinality(Taken(s, a))
           Q == Replicas[a] * N
<1>1. /\ IsFiniteSet(S) /\ IsFiniteSet(Requests(a))
      /\ Cardinality(S) + Left(s, a) <= Q + Half(s, a)
  BY CountingFacts DEF Enough
<1>2. Q \in Nat /\ Half(s, a) \in {0, 1} /\ Replicas[a] \in Nat /\ N \in Nat
  BY CountingNumbers
<1>3. T \in SUBSET S
  OBVIOUS
<1> HIDE DEF S, T
<1>4. IsFiniteSet(T) /\ Cardinality(T) <= Cardinality(S)
  BY <1>1, <1>3, FS_Subset
<1>5. Cardinality(T) \in Nat /\ Cardinality(S) \in Nat
  BY <1>1, <1>4, FS_CardinalityType
<1>6. Cardinality(Taken(s, a)') = N + 1
  <2>1. PICK K : K = Taken(s, a) /\ IsFiniteSet(K)
    BY CountingNumbers
  <2>2. Cardinality(K \cup {t}) = Cardinality(K) + 1
    BY <2>1, FS_AddElement
  <2> QED
    BY <2>1, <2>2
<1>7. \A m, n \in Nat : m * (n + 1) = m * n + m
  OBVIOUS
<1>8. Replicas[a] * (N + 1) = Q + Replicas[a]
  BY <1>2, <1>7
<1> HIDE DEF N, Q
<1>9. Cardinality(T) + Left(s, a)' <= Replicas[a] * (N + 1) + Half(s, a)'
  BY <1>1, <1>2, <1>4, <1>5, <1>8
<1> QED
  BY <1>1, <1>4, <1>6, <1>9 DEF Enough, T

-----------------------------------------------------------------------------
(* Steps of the API servers that create nothing.                           *)
Settled ==
  /\ Used' = Used
  /\ \A p \in Used : There(p)' \/ Over(p)'
  /\ \A p \in Used : There(p)' => There(p)
  /\ \A p \in Used : /\ pods'[p].kind = pods[p].kind /\ pods'[p].app = pods[p].app
                     /\ pods[p].kind = "template" => pods'[p].node = pods[p].node

(* What is gone stays gone, and no replica that is there is taken away.    *)
Steady == \A p \in Used :
  /\ Over(p) => Over(p)'
  /\ Replica(p) /\ There(p) => There(p)'

(* Every pod keeps its kind and its app.                                   *)
Lasting == \A p \in Used :
  p \in Used' /\ pods'[p].kind = pods[p].kind /\ pods'[p].app = pods[p].app

(* A replica x of app a was created.                                       *)
Grown(x, a) ==
  /\ x \notin Used /\ Used' = Used \cup {x}
  /\ pods'[x].phase = "Pending" /\ pods'[x].kind = "generated" /\ pods'[x].app = a
  /\ \A p \in Used : pods'[p] = pods[p]

(* The templates of s that wait are the same.                              *)
SameEvents(s) == \A p \in Used : pods[p].kind = "template" =>
  (p \in addEvents'[s] <=> p \in addEvents[s])

(* They keep the family together.                                          *)
LEMMA KinSettled == ASSUME Kin, Settled PROVE Kin' /\ Lasting
<1>1. \A p \in Used : pods'[p].kind = pods[p].kind
  BY DEF Settled
<1>2. Kin'
  BY <1>1 DEF Kin, Settled
<1> QED
  BY <1>2 DEF Lasting, Settled

(* So does the newcomer, and the others stay as they are.                  *)
LEMMA KinGrown ==
  ASSUME Kin, NEW x, NEW a, Grown(x, a)
  PROVE  Kin' /\ Steady /\ Lasting /\ \A p \in Used : There(p)' <=> There(p)
<1>1. \A p \in Used : (There(p)' <=> There(p)) /\ (Over(p)' <=> Over(p))
  BY DEF Grown, There, Over
<1>2. \A p \in Used' : There(p)' \/ Over(p)'
  <2> SUFFICES ASSUME NEW p \in Used' PROVE There(p)' \/ Over(p)'
    OBVIOUS
  <2>1. CASE p = x
    BY <2>1 DEF Grown, There
  <2>2. CASE p # x
    BY <2>2, <1>1 DEF Grown, Kin
  <2> QED
    BY <2>1, <2>2
<1>3. \A p \in Used' : \/ pods'[p].kind = "generated"
                       \/ pods'[p].kind = "template" /\ pods'[p].node = None
  BY DEF Grown, Kin
<1>4. Kin'
  BY <1>2, <1>3 DEF Kin
<1>5. Steady
  BY <1>1 DEF Steady
<1>6. Lasting
  BY DEF Lasting, Grown
<1> QED
  BY <1>1, <1>4, <1>5, <1>6

(* Pods that do not change at all.                                         *)
LEMMA SameSettled == ASSUME Kin, UNCHANGED pods PROVE Settled /\ Steady
<1>1. Used' = Used
  BY DEF Used
<1>2. \A p \in Used : (There(p)' <=> There(p)) /\ (Over(p)' <=> Over(p))
  BY DEF There, Over
<1> QED
  BY <1>1, <1>2 DEF Settled, Steady, Kin

(* Create makes a replica.                                                 *)
LEMMA CreateGrows ==
  ASSUME NEW s \in Schedulers, Counting(s), NEW a \in Apps,
         NEW c \in Clusters, NEW n \in Nodes \cup {None}, NEW from \in PodNames \cup {None},
         Added(a, "generated", c, n, from)
  PROVE  Grown(NewName, a) /\ NewName \in PodNames /\ SameEvents(s)
<1> DEFINE new == [app |-> a, kind |-> "generated", cluster |-> c, node |-> n,
                   phase |-> "Pending", from |-> from]
           x == NewName
<1>1. PodsOK /\ Used \subseteq PodNames
  BY CountingFacts
<1>2. x \in PodNames \ Used
  BY <1>1, UsedFacts DEF Added
<1>3. /\ pods' = [pods EXCEPT ![x] = new]
      /\ addEvents'[s] \in {addEvents[s], addEvents[s] \cup {x}}
  BY DEF Added
<1> HIDE DEF x
<1>4. pods'[x] = new /\ \A p \in PodNames : p # x => pods'[p] = pods[p]
  BY <1>1, <1>2, <1>3 DEF PodsOK
<1>5. Used' = Used \cup {x}
  BY <1>1, <1>2, <1>4 DEF Used
<1>6. Grown(x, a)
  BY <1>1, <1>2, <1>4, <1>5 DEF Grown
<1>7. SameEvents(s)
  BY <1>2, <1>3 DEF SameEvents
<1> QED
  BY <1>2, <1>6, <1>7 DEF x

-----------------------------------------------------------------------------
(* What the count is made of, after a step.                                *)

(* Replicas bring no requests.                                             *)
LEMMA RequestsSame ==
  ASSUME NEW s \in Schedulers, Lasting, SameEvents(s),
         Used' = Used \/ \E x : Used' = Used \cup {x} /\ pods'[x].kind = "generated"
  PROVE  \A a \in Apps : SameRequests(s, a)
<1> SUFFICES ASSUME NEW a \in Apps PROVE SameRequests(s, a)
  OBVIOUS
<1>1. Requests(a)' = Requests(a)
  BY DEF Requests, Lasting
<1>2. \A p \in Requests(a) : p \in Used /\ pods[p].kind = "template"
  BY DEF Requests
<1>3. \A p \in Requests(a) : p \in addEvents'[s] <=> p \in addEvents[s]
  BY <1>2 DEF SameEvents
<1>4. Taken(s, a)' = Taken(s, a)
  BY <1>1, <1>3 DEF Taken
<1> QED
  BY <1>1, <1>4 DEF SameRequests

(* What is still to be created, and what is moved, belongs to an app.      *)
LEMMA LeftSame ==
  ASSUME NEW s \in Schedulers, Counting(s), Lasting, informer'[s] = informer[s]
  PROVE  \A a \in Apps : Left(s, a)' = Left(s, a)
<1>1. informer[s].pc = "expand" => informer[s].pod \in Used
  BY CountingFacts DEF InformerExist
<1>2. informer[s].pc = "expand" => pods'[informer[s].pod].app = pods[informer[s].pod].app
  BY <1>1 DEF Lasting
<1> QED
  BY <1>2 DEF Left

(* ... and so does what is being moved.                                    *)
LEMMA HalfSame ==
  ASSUME NEW s \in Schedulers, Counting(s), Lasting,
         \/ ticker'[s] = ticker[s]
         \/ ticker'[s].pc # "moveDelete" /\ ticker[s].pc # "moveDelete"
  PROVE  \A a \in Apps : Half(s, a)' = Half(s, a)
<1>1. ticker[s].pc = "moveDelete" => ticker[s].pod \in Used
  BY CountingFacts DEF TickerRefs
<1>2. ticker[s].pc = "moveDelete" => pods'[ticker[s].pod].app = pods[ticker[s].pod].app
  BY <1>1 DEF Lasting
<1> QED
  BY <1>2 DEF Half

(* The names that count, after a step that activates no declaration.       *)
LEMMA NamesKept ==
  ASSUME NEW s \in Schedulers, Counting(s), NEW X,
         Active(s)' \subseteq Active(s),
         \A d \in Active(s) : podsByName'[s][d] \subseteq podsByName[s][d] \cup X
  PROVE  Names(s)' \subseteq Names(s) \cup X
<1> SUFFICES ASSUME NEW p \in Names(s)', p \notin X PROVE p \in Names(s)
  OBVIOUS
<1>1. PICK d \in Active(s)' : p \in podsByName'[s][d]
  BY DEF Names
<1>2. d \in Active(s) /\ p \in podsByName[s][d] /\ d \in PodNames
  BY <1>1 DEF Active
<1>3. p \in Used
  BY <1>2, CountingFacts DEF Known, Replica
<1> QED
  BY <1>2, <1>3 DEF Names

(* Where nothing is created, nothing takes a place.                        *)
LEMMA SlotsSettled ==
  ASSUME NEW s \in Schedulers, Settled, Names(s)' \subseteq Names(s)
  PROVE  \A a \in Apps : Slots(s, a)' \subseteq Slots(s, a)
<1> SUFFICES ASSUME NEW a \in Apps, NEW p \in Slots(s, a)' PROVE p \in Slots(s, a)
  OBVIOUS
<1>1. p \in Used /\ pods'[p].kind = pods[p].kind /\ pods'[p].app = pods[p].app
  BY DEF Slots, Settled
<1>2. Replica(p) /\ pods[p].app = a
  BY <1>1 DEF Slots, Replica
<1>3. There(p) \/ p \in Names(s)
  BY <1>1 DEF Slots, Settled
<1> QED
  BY <1>1, <1>2, <1>3 DEF Slots

(* x takes a place of its app.                                             *)
LEMMA SlotsGrown ==
  ASSUME NEW s \in Schedulers, Kin, NEW x, NEW b \in Apps, Grown(x, b),
         Names(s)' \subseteq Names(s) \cup {x}
  PROVE  /\ Slots(s, b)' \subseteq Slots(s, b) \cup {x}
         /\ \A a \in Apps : a # b => Slots(s, a)' \subseteq Slots(s, a)
<1>1. \A p \in Used : There(p)' <=> There(p)
  BY KinGrown
<1>2. ASSUME NEW a \in Apps, NEW p \in Slots(s, a)', p # x PROVE p \in Slots(s, a)
  <2>1. p \in Used /\ pods'[p] = pods[p]
    BY <1>2 DEF Slots, Grown
  <2>2. Replica(p) /\ pods[p].app = a
    BY <1>2, <2>1 DEF Slots, Replica
  <2>3. There(p) \/ p \in Names(s)
    BY <1>1, <1>2, <2>1 DEF Slots
  <2> QED
    BY <2>1, <2>2, <2>3 DEF Slots
<1>3. ASSUME NEW a \in Apps, x \in Slots(s, a)' PROVE a = b
  BY <1>3 DEF Slots, Grown
<1> QED
  BY <1>2, <1>3

(* PodsByName still has replicas of its app, if only x was added.          *)
LEMMA KnownKept ==
  ASSUME NEW s \in Schedulers, Known(s), Lasting, NEW x, NEW b,
         \A t \in PodNames : \A p \in podsByName'[s][t] :
           \/ p \in podsByName[s][t]
           \/ p = x /\ Grown(x, b) /\ t \in Used /\ pods[t].app = b
  PROVE  Known(s)'
<1> SUFFICES ASSUME NEW t \in PodNames, NEW p \in podsByName'[s][t]
             PROVE  t \in Used' /\ Replica(p)' /\ pods'[p].app = pods'[t].app
  BY DEF Known
<1>1. CASE p \in podsByName[s][t]
  <2>1. t \in Used /\ Replica(p) /\ pods[p].app = pods[t].app
    BY <1>1 DEF Known
  <2> QED
    BY <2>1 DEF Replica, Lasting
<1>2. CASE p = x /\ Grown(x, b) /\ t \in Used /\ pods[t].app = b
  BY <1>2 DEF Grown, Replica, Lasting
<1> QED
  BY <1>1, <1>2

-----------------------------------------------------------------------------
(* Steps that declare nothing and track nothing new.                       *)

(* Every declaration that counts counted before.                           *)
LEMMA MemorySame ==
  ASSUME NEW s \in Schedulers, Counting(s), Lasting, desiredApps'[s] = desiredApps[s],
         \A d \in PodNames : podsByName'[s][d] \subseteq podsByName[s][d],
         Enforcing(s)' => Enforcing(s) /\ ticker'[s].obj = ticker[s].obj
  PROVE  /\ Active(s)' \subseteq Active(s) /\ Names(s)' \subseteq Names(s)
         /\ Known(s)' /\ Renewed(s)'
<1>1. MemoryOK /\ Known(s) /\ Renewed(s) /\ TickerRefs(s, ticker[s])
  BY CountingFacts DEF Enforces
<1>2. Active(s)' \subseteq Active(s)
  BY DEF Active
<1>3. Names(s)' \subseteq Names(s)
  <2>1. \A d \in Active(s) : podsByName'[s][d] \subseteq podsByName[s][d] \cup {}
    BY DEF Active
  <2>2. Names(s)' \subseteq Names(s) \cup {}
    BY <1>2, <2>1, NamesKept
  <2> QED
    BY <2>2
<1>4. Known(s)'
  BY <1>1, KnownKept
<1>5. Renewed(s)'
  <2> DEFINE o == ticker[s].obj
             d == desiredApps[s][pods[o].app]
  <2> SUFFICES ASSUME Enforcing(s)'
               PROVE  desiredApps'[s][pods'[ticker'[s].obj].app] \in {ticker'[s].obj, None}
                      \/ podsByName'[s][desiredApps'[s][pods'[ticker'[s].obj].app]] = {}
    BY DEF Renewed
  <2>1. Enforcing(s) /\ ticker'[s].obj = o /\ o \in Used
    BY <1>1 DEF Enforcing, TickerRefs
  <2>2. pods'[o].app = pods[o].app /\ desiredApps'[s][pods'[o].app] = d
    BY <2>1 DEF Lasting
  <2>3. d \in {o, None} \/ podsByName[s][d] = {}
    BY <1>1, <2>1 DEF Renewed
  <2>4. d \in PodNames \cup {None}
    <3>1. o \in Used /\ pods[o] \in Pod
      BY <2>1, CountingFacts
    <3> QED
      BY <1>1, <3>1 DEF MemoryOK, Pod
  <2> HIDE DEF d
  <2>5. d \in PodNames => podsByName'[s][d] \subseteq podsByName[s][d]
    OBVIOUS
  <2>6. d \in {o, None} \/ podsByName'[s][d] = {}
    BY <2>3, <2>4, <2>5
  <2> QED
    BY <2>1, <2>2, <2>6
<1> QED
  BY <1>2, <1>3, <1>4, <1>5

(* A ticker that did nothing is as up to date as it was.                   *)
LEMMA EnforcesSame ==
  ASSUME NEW s \in Schedulers, Counting(s), Steady, Lasting, ticker'[s] = ticker[s],
         \A d \in PodNames : podsByName'[s][d] \subseteq podsByName[s][d],
         Names(s)' \subseteq Names(s), Renewed(s)'
  PROVE  Enforces(s)'
<1> DEFINE k == ticker[s]
<1>1. /\ Enforces(s) /\ TickerRefs(s, k) /\ Known(s) /\ Used \subseteq PodNames
  BY CountingFacts
<1>2. Moves(k, Names(s)) /\ Replaces(k, podsByName[s][k.obj])
  BY <1>1 DEF Enforces
<1>3. \A p \in Used : Replica(p) /\ There(p) => Replica(p)' /\ There(p)'
  BY DEF Steady, Lasting, Replica
<1>4. Moves(ticker[s], Names(s))'
  <2>1. ASSUME k.pc \in {"reconcile", "moveDelete"}, NEW p \in k.todo
        PROVE  Replica(p)' /\ There(p)'
    <3>1. p \in Used /\ Replica(p) /\ There(p)
      BY <1>2, <2>1 DEF Moves, Replica
    <3> QED
      BY <1>3, <3>1
  <2>2. ASSUME k.pc = "moveDelete"
        PROVE  Replica(k.pod)' /\ There(k.pod)' /\ k.pod \notin k.todo /\ k.pod \notin Names(s)'
    <3>1. /\ k.pod \in Used /\ Replica(k.pod) /\ There(k.pod)
          /\ k.pod \notin k.todo /\ k.pod \notin Names(s)
      BY <1>2, <2>2 DEF Moves, Replica
    <3>2. PICK p : p = k.pod
      OBVIOUS
    <3>3. Replica(p)' /\ There(p)'
      BY <1>3, <3>1, <3>2
    <3> QED
      BY <3>1, <3>2, <3>3 DEF Replica, There
  <2>3. k.pc = "moveDelete" =>
          /\ pods'[k.pod].phase \in {"Pending", "Stuck", "Running", "Failed"}
          /\ k.pod \in Used' /\ pods'[k.pod].kind = "generated"
          /\ k.pod \notin k.todo /\ k.pod \notin Names(s)'
    BY <2>2 DEF There, Replica
  <2>4. k.pc \in {"reconcile", "moveDelete"} => \A p \in k.todo :
          /\ pods'[p].phase \in {"Pending", "Stuck", "Running", "Failed"}
          /\ p \in Used' /\ pods'[p].kind = "generated"
    BY <2>1 DEF There, Replica
  <2> HIDE DEF k
  <2>5. ticker'[s] = k
    BY DEF k
  <2> QED
    BY <2>3, <2>4, <2>5 DEF Moves, There, Replica
<1>5. Replaces(ticker[s], podsByName[s][ticker[s].obj])'
  <2>1. \A p \in Used : Over(p) => pods'[p].phase \in {"Terminating", "Gone"}
    BY DEF Steady, Over
  <2>2. k.pc \in {"list", "respawn"} =>
          /\ podsByName'[s][k.obj] \subseteq podsByName[s][k.obj]
          /\ podsByName[s][k.obj] \subseteq Used
    BY <1>1 DEF TickerRefs, Known, Replica
  <2> HIDE DEF k
  <2>3. ticker'[s] = k
    BY DEF k
  <2>4. k.pc = "list" /\ k.clusters = {} => \A p \in podsByName'[s][k.obj] \ k.found :
          p \in k.todo \/ pods'[p].phase \in {"Terminating", "Gone"}
    BY <1>2, <2>1, <2>2 DEF Replaces
  <2>5. k.pc = "respawn" => \A p \in podsByName'[s][k.obj] \ k.found :
          pods'[p].phase \in {"Terminating", "Gone"}
    BY <1>2, <2>1, <2>2 DEF Replaces
  <2> QED
    BY <2>3, <2>4, <2>5 DEF Replaces, Over
<1> QED
  BY <1>4, <1>5 DEF Enforces

(* Nothing was created.                                                    *)
LEMMA FamilySettled ==
  ASSUME NEW s \in Schedulers, Counting(s), Settled, SameEvents(s),
         Names(s)' \subseteq Names(s), Known(s)', Expands(s)', Enforces(s)',
         \A a \in Apps : /\ Left(s, a)' \in Nat /\ Left(s, a)' <= Left(s, a)
                         /\ Half(s, a)' = Half(s, a)
  PROVE  Family(s)'
<1>1. Kin' /\ Lasting /\ Used' = Used
  BY KinSettled, CountingFacts DEF Settled
<1>2. \A a \in Apps : SameRequests(s, a)
  BY <1>1, RequestsSame
<1>3. \A a \in Apps : Slots(s, a)' \subseteq Slots(s, a)
  BY SlotsSettled
<1>4. ASSUME NEW a \in Apps PROVE Enough(s, a)'
  BY <1>2, <1>3, EnoughLess
<1> QED
  BY <1>1, <1>4 DEF Family

(* x was created, of app b; the other apps have what they had.             *)
LEMMA FamilyGrown ==
  ASSUME NEW s \in Schedulers, Counting(s), NEW x, NEW b \in Apps, Grown(x, b), SameEvents(s),
         Names(s)' \subseteq Names(s) \cup {x}, Known(s)', Expands(s)', Enforces(s)',
         \A a \in Apps : a # b => Left(s, a)' = Left(s, a) /\ Half(s, a)' = Half(s, a),
         Enough(s, b)'
  PROVE  Family(s)'
<1>1. Kin' /\ Kin /\ Lasting
  BY KinGrown, CountingFacts
<1>2. Used' = Used \cup {x} /\ pods'[x].kind = "generated"
  BY DEF Grown
<1>3. \A a \in Apps : SameRequests(s, a)
  BY <1>1, <1>2, RequestsSame
<1>4. ASSUME NEW a \in Apps, a # b PROVE Enough(s, a)'
  <2>1. Slots(s, a)' \subseteq Slots(s, a)
    BY <1>1, <1>4, SlotsGrown
  <2>2. Left(s, a) \in Nat
    BY CountingNumbers
  <2>3. Left(s, a)' \in Nat /\ Left(s, a)' <= Left(s, a) /\ Half(s, a)' = Half(s, a)
    BY <1>4, <2>2
  <2> QED
    BY <1>3, <2>1, <2>3, EnoughLess
<1> QED
  BY <1>1, <1>4 DEF Family

-----------------------------------------------------------------------------
(* The informer's steps.                                                   *)

(* The template is declared, with no names, and its places are free.       *)
LEMMA AddTemplateFamily ==
  ASSUME NEW s \in Schedulers, Counting(s), NEW p \in PodNames, AddTemplate(s, p)
  PROVE  Family(s)'
<1>1. /\ Kin /\ Known(s) /\ Enforces(s) /\ EventsExist(s) /\ TickerRefs(s, ticker[s])
      /\ EventsOK /\ MemoryOK /\ InformerOK /\ Used \subseteq PodNames
      /\ \A q \in Used : pods[q] \in Pod
  BY CountingFacts
<1>2. /\ p \in Used /\ p \in addEvents[s] /\ pods[p].kind = "template" /\ informer[s].pc = "idle"
  BY <1>1 DEF AddTemplate, EventsExist
<1>3. PICK b \in Apps : b = pods[p].app
  BY <1>1, <1>2 DEF Pod
<1>4. /\ UNCHANGED <<pods, ticker>> /\ addEvents'[s] = addEvents[s] \ {p}
      /\ desiredApps'[s] = [desiredApps[s] EXCEPT ![b] = p]
      /\ podsByName'[s] = [podsByName[s] EXCEPT ![p] = {}]
      /\ informer'[s] = [pc |-> "expand", pod |-> p, left |-> Replicas[b], copy |-> None]
  BY <1>1, <1>3 DEF AddTemplate, EventsOK, MemoryOK, InformerOK
<1>5. /\ desiredApps'[s][b] = p /\ \A a \in Apps : a # b => desiredApps'[s][a] = desiredApps[s][a]
      /\ podsByName'[s][p] = {}
      /\ \A d \in PodNames : d # p => podsByName'[s][d] = podsByName[s][d]
  BY <1>1, <1>4 DEF MemoryOK
<1>6. Settled /\ Steady /\ Kin' /\ Lasting /\ Used' = Used
  BY <1>1, <1>4, SameSettled, KinSettled DEF Settled
<1>7. Names(s)' \subseteq Names(s)
  <2> SUFFICES ASSUME NEW q \in Names(s)' PROVE q \in Names(s)
    OBVIOUS
  <2>1. PICK d \in Active(s)' : q \in podsByName'[s][d]
    BY DEF Names
  <2>2. d \in PodNames /\ d # p
    BY <1>5, <2>1 DEF Active
  <2>3. d \in Active(s)
    BY <1>4, <1>5, <2>1, <2>2 DEF Active, Enforcing
  <2>4. q \in podsByName[s][d] /\ q \in Used
    BY <1>5, <1>6, <2>1, <2>2 DEF Names
  <2> QED
    BY <2>3, <2>4 DEF Names
<1>8. Known(s)'
  <2>1. \A d \in PodNames : podsByName'[s][d] \subseteq podsByName[s][d]
    BY <1>5
  <2> QED
    BY <1>1, <1>6, <2>1, KnownKept
<1>9. Renewed(s)'
  <2> SUFFICES ASSUME Enforcing(s)
               PROVE  \/ desiredApps'[s][pods[ticker[s].obj].app] \in {ticker[s].obj, None}
                      \/ podsByName'[s][desiredApps'[s][pods[ticker[s].obj].app]] = {}
    BY <1>4 DEF Renewed, Enforcing
  <2>1. PICK o \in Used : o = ticker[s].obj
    BY <1>1 DEF Enforcing, TickerRefs
  <2>2. PICK a \in Apps : a = pods[o].app
    BY <1>1 DEF Pod
  <2>3. desiredApps[s][a] \in {o, None} \/ podsByName[s][desiredApps[s][a]] = {}
    BY <1>1, <2>1, <2>2 DEF Enforces, Renewed
  <2>4. CASE a = b
    BY <1>5, <2>1, <2>2, <2>4
  <2>5. CASE a # b
    <3>1. desiredApps'[s][a] = desiredApps[s][a] /\ desiredApps[s][a] \in PodNames \cup {None}
      BY <1>1, <1>5, <2>5 DEF MemoryOK
    <3>2. desiredApps[s][a] \in {o, None} \/ podsByName'[s][desiredApps[s][a]] = {}
      BY <1>5, <2>3, <3>1
    <3> QED
      BY <2>1, <2>2, <3>1, <3>2
  <2> QED
    BY <2>4, <2>5
<1>10. Enforces(s)'
  <2>1. \A d \in PodNames : podsByName'[s][d] \subseteq podsByName[s][d]
    BY <1>5
  <2>2. ticker'[s] = ticker[s]
    BY <1>4
  <2> QED
    BY <1>6, <1>7, <1>9, <2>1, <2>2, EnforcesSame
<1>11. Expands(s)'
  BY <1>4 DEF Expands
<1>12. \A a \in Apps : Slots(s, a)' \subseteq Slots(s, a) /\ Requests(a)' = Requests(a)
  BY <1>4, <1>6, <1>7, SlotsSettled DEF Requests
<1>13. \A a \in Apps : Left(s, a) = 0 /\ Half(s, a)' = Half(s, a)
  BY <1>2, <1>4 DEF Left, Half
<1>14. Enough(s, b)'
  <2>1. p \in Requests(b) /\ p \notin Taken(s, b) /\ Taken(s, b)' = Taken(s, b) \cup {p}
    BY <1>2, <1>3, <1>4, <1>12 DEF Requests, Taken
  <2>2. Left(s, b)' = Replicas[b]
    BY <1>3, <1>4 DEF Left
  <2> QED
    BY <1>12, <1>13, <2>1, <2>2, EnoughRequested
<1>15. ASSUME NEW a \in Apps, a # b PROVE Enough(s, a)'
  <2>1. p \notin Requests(a) /\ Taken(s, a)' = Taken(s, a)
    BY <1>3, <1>4, <1>12, <1>15 DEF Requests, Taken
  <2>2. Left(s, a)' = 0
    BY <1>3, <1>4, <1>15 DEF Left
  <2>3. Left(s, a)' \in Nat /\ Left(s, a)' <= Left(s, a)
    BY <1>13, <2>2
  <2> QED
    BY <1>12, <1>13, <2>1, <2>3, EnoughLess DEF SameRequests
<1> QED
  BY <1>6, <1>8, <1>10, <1>11, <1>14, <1>15 DEF Family

(* The informer, or a kubelet, does something else that creates nothing.   *)
LEMMA InformerSettled ==
  ASSUME NEW s \in Schedulers, Counting(s), Settled, Steady, SameEvents(s),
         UNCHANGED <<memory, ticker>>,
         informer'[s].pc \in {"idle", "expand", "schedule"},
         informer'[s].pc = "expand" =>
           /\ informer[s].pc = "expand" /\ informer'[s].pod = informer[s].pod
           /\ informer'[s].left \in Nat /\ informer'[s].left <= informer[s].left,
         informer'[s].pc = "schedule" => Replica(informer'[s].pod)
  PROVE  Family(s)'
<1>1. /\ desiredApps'[s] = desiredApps[s] /\ podsByName'[s] = podsByName[s]
      /\ ticker'[s] = ticker[s]
  BY DEF memory
<1>2. Kin' /\ Lasting
  BY KinSettled, CountingFacts
<1>3. Names(s)' \subseteq Names(s) /\ Known(s)' /\ Renewed(s)'
  BY <1>1, <1>2, MemorySame DEF Enforcing
<1>4. Enforces(s)'
  BY <1>1, <1>2, <1>3, EnforcesSame
<1>5. Expands(s)'
  BY <1>2 DEF Expands, Replica, Lasting
<1>6. \A a \in Apps : Half(s, a)' = Half(s, a)
  BY <1>1, <1>2, HalfSame
<1>7. ASSUME NEW a \in Apps PROVE Left(s, a)' \in Nat /\ Left(s, a)' <= Left(s, a)
  <2>1. CASE informer'[s].pc = "expand"
    <3>1. informer[s].pod \in Used
      BY <2>1, CountingFacts DEF InformerExist
    <3>2. pods'[informer'[s].pod].app = pods[informer[s].pod].app
      BY <1>2, <2>1, <3>1 DEF Lasting
    <3> QED
      BY <2>1, <3>2 DEF Left
  <2>2. CASE informer'[s].pc # "expand"
    <3>1. Left(s, a)' = 0 /\ Left(s, a) \in Nat
      BY <2>2, CountingNumbers DEF Left
    <3> QED
      BY <3>1
  <2> QED
    BY <2>1, <2>2
<1> QED
  BY <1>3, <1>4, <1>5, <1>6, <1>7, FamilySettled

(* A replica is created, and one fewer is left to create.                  *)
LEMMA ExpandFamily ==
  ASSUME NEW s \in Schedulers, Counting(s), ExpandReplica(s)
  PROVE  Family(s)'
<1>1. /\ Kin /\ InformerExist(s) /\ InformerOK /\ informer[s] \in Informer
      /\ Used \subseteq PodNames /\ \A q \in Used : pods[q] \in Pod
  BY CountingFacts
<1>2. PICK t \in Used : t = informer[s].pod
  BY <1>1 DEF ExpandReplica, InformerExist
<1>3. PICK b \in Apps : b = pods[t].app
  BY <1>1 DEF Pod
<1>4. PICK l \in Nat : informer[s].left = l + 1
  <2>1. informer[s].left \in Nat /\ informer[s].left > 0
    BY <1>1 DEF ExpandReplica, Informer
  <2>2. informer[s].left - 1 \in Nat /\ informer[s].left = (informer[s].left - 1) + 1
    BY <2>1
  <2> QED
    BY <2>2
<1>5. UNCHANGED <<memory, ticker>> /\ informer[s].pc = "expand"
  BY DEF ExpandReplica
<1>6. informer'[s].pc = "expand" /\ informer'[s].pod = t /\ informer'[s].left = l
  <2>1. /\ informer'[s].pc = informer[s].pc /\ informer'[s].pod = informer[s].pod
        /\ informer'[s].left = informer[s].left - 1
    BY <1>1 DEF ExpandReplica, InformerOK, Informer
  <2> QED
    BY <1>2, <1>4, <1>5, <2>1
<1>7. CASE CreateFails
  <2>1. UNCHANGED <<pods, addEvents>>
    BY <1>7 DEF CreateFails, api
  <2>2. Settled /\ Steady /\ SameEvents(s)
    BY <1>1, <2>1, SameSettled DEF SameEvents
  <2>3. informer'[s].left \in Nat /\ informer'[s].left <= informer[s].left
    BY <1>4, <1>6
  <2> QED
    BY <1>2, <1>5, <1>6, <2>2, <2>3, InformerSettled
<1>8. CASE Create(b, "generated", Home[s], None, t)
  <2>1. PICK x \in PodNames : Grown(x, b) /\ SameEvents(s)
    <3>1. Home[s] \in Clusters /\ None \in Nodes \cup {None} /\ t \in PodNames \cup {None}
      BY <1>1 DEF Counting, ConstantsAssumption
    <3>2. Added(b, "generated", Home[s], None, t)
      BY <1>8 DEF Create
    <3> QED
      BY <3>1, <3>2, CreateGrows
  <2>2. /\ desiredApps'[s] = desiredApps[s] /\ podsByName'[s] = podsByName[s]
        /\ ticker'[s] = ticker[s]
    BY <1>5 DEF memory
  <2>3. Kin' /\ Steady /\ Lasting
    BY <1>1, <2>1, KinGrown
  <2>4. Names(s)' \subseteq Names(s) /\ Known(s)' /\ Renewed(s)'
    BY <2>2, <2>3, MemorySame DEF Enforcing
  <2>5. Enforces(s)'
    BY <2>2, <2>3, <2>4, EnforcesSame
  <2>6. Expands(s)'
    BY <1>6 DEF Expands
  <2>7. pods'[t].app = b
    BY <1>3, <2>3 DEF Lasting
  <2>8. \A a \in Apps : Half(s, a)' = Half(s, a)
    BY <2>2, <2>3, HalfSame
  <2>9. Left(s, b) = l + 1 /\ Left(s, b)' = l
    BY <1>2, <1>3, <1>4, <1>5, <1>6, <2>7 DEF Left
  <2>10. \A a \in Apps : a # b => Left(s, a) = 0 /\ Left(s, a)' = 0
    BY <1>2, <1>3, <1>6, <2>7 DEF Left
  <2>11. Enough(s, b)'
    <3>1. Used' = Used \cup {x} /\ pods'[x].kind = "generated"
      BY <2>1 DEF Grown
    <3>2. SameRequests(s, b)
      BY <2>1, <2>3, <3>1, RequestsSame
    <3>3. Slots(s, b)' \subseteq Slots(s, b) \cup {x}
      BY <1>1, <2>1, <2>4, SlotsGrown
    <3>4. Half(s, b) \in {0, 1}
      BY CountingNumbers
    <3>5. /\ Left(s, b)' \in Nat /\ Half(s, b)' \in {0, 1}
          /\ Left(s, b)' + Half(s, b) + 1 <= Left(s, b) + Half(s, b)'
      BY <2>8, <2>9, <3>4
    <3> QED
      BY <3>2, <3>3, <3>5, EnoughMore
  <2> QED
    BY <2>1, <2>4, <2>5, <2>6, <2>8, <2>10, <2>11, FamilyGrown
<1> QED
  BY <1>2, <1>3, <1>7, <1>8 DEF ExpandReplica

(* What Delete does to the family: the pod is over, the others are as they *)
(* were.                                                                   *)
LEMMA DeleteSettled ==
  ASSUME NEW s \in Schedulers, Counting(s),
         NEW p \in PodNames, Delete(p) \/ DeleteFails(p)
  PROVE  /\ Settled /\ addEvents' = addEvents
         /\ p \in Used => Over(p)'
         /\ \A q \in PodNames : q # p => pods'[q] = pods[q]
         /\ \A q \in Used : Over(q) => Over(q)'
<1>1. PodsOK /\ Kin /\ Used \subseteq PodNames /\ ~ Fails
  BY CountingFacts
<1>2. CASE Delete(p)
  <2>1. /\ \A q \in PodNames : q # p => pods'[q] = pods[q]
        /\ addEvents' = addEvents /\ p \in Used /\ pods[p] \in Pod
    BY <1>1, <1>2, DeleteFacts, UsedFacts DEF Delete, Used
  <2>2. /\ pods'[p].phase \in {"Terminating", "Gone"}
        /\ pods'[p].app = pods[p].app /\ pods'[p].kind = pods[p].kind
        /\ pods'[p].node = pods[p].node
    BY <1>1, <1>2, <2>1 DEF Delete, PodsOK, Pod
  <2>3. Used' = Used
    BY <1>1, <2>1, <2>2 DEF Used
  <2>4. Over(p)' /\ ~ There(p)'
    BY <2>2 DEF Over, There
  <2>5. \A q \in Used : q # p => (There(q)' <=> There(q)) /\ (Over(q)' <=> Over(q))
    BY <1>1, <2>1 DEF There, Over
  <2>6. \A q \in Used : Over(q) => Over(q)'
    BY <2>4, <2>5
  <2>7. \A q \in Used : There(q)' \/ Over(q)'
    BY <1>1, <2>4, <2>5 DEF Kin
  <2>8. \A q \in Used : There(q)' => There(q)
    BY <2>4, <2>5
  <2>9. \A q \in Used : /\ pods'[q].kind = pods[q].kind /\ pods'[q].app = pods[q].app
                        /\ pods'[q].node = pods[q].node
    BY <1>1, <2>1, <2>2
  <2>10. Settled
    BY <2>3, <2>7, <2>8, <2>9 DEF Settled
  <2> QED
    BY <2>1, <2>4, <2>6, <2>10
<1>3. CASE DeleteFails(p)
  <2>1. UNCHANGED <<pods, addEvents>> /\ pods[p].phase = "Gone"
    BY <1>1, <1>3 DEF DeleteFails, api
  <2>2. Settled /\ Over(p)' /\ \A q \in Used : Over(q) => Over(q)'
    BY <1>1, <2>1, SameSettled DEF Over
  <2> QED
    BY <2>1, <2>2
<1> QED
  BY <1>2, <1>3

(* The template is deleted after its last replica was created.             *)
LEMMA DeleteTemplateFamily ==
  ASSUME NEW s \in Schedulers, Counting(s), DeleteTemplate(s)
  PROVE  Family(s)'
<1>1. InformerExist(s) /\ InformerOK /\ Used \subseteq PodNames
  BY CountingFacts
<1>2. PICK t \in Used : t = informer[s].pod /\ pods[t].kind = "template"
  BY <1>1 DEF DeleteTemplate, InformerExist
<1>3. t \in PodNames /\ (Delete(t) \/ DeleteFails(t))
  BY <1>1, <1>2 DEF DeleteTemplate
<1>4. /\ Settled /\ addEvents' = addEvents
      /\ \A q \in PodNames : q # t => pods'[q] = pods[q]
      /\ \A q \in Used : Over(q) => Over(q)'
  BY <1>1, <1>2, <1>3, DeleteSettled
<1>5. \A q \in Used : Replica(q) /\ There(q) => There(q)'
  BY <1>1, <1>2, <1>4 DEF Replica, There
<1>6. Steady /\ SameEvents(s)
  BY <1>4, <1>5 DEF Steady, SameEvents
<1>7. informer'[s].pc = "idle" /\ UNCHANGED <<memory, ticker>>
  BY <1>1 DEF DeleteTemplate, InformerOK, InformerIdle
<1> QED
  BY <1>4, <1>6, <1>7, InformerSettled

(* The others of the informer's steps create nothing: in a lone cluster    *)
(* every node is local.                                                    *)
LEMMA InformerFamily ==
  ASSUME NEW s \in Schedulers, Counting(s), InformerStep(s)
  PROVE  Family(s)'
<1>1. /\ Kin /\ Expands(s) /\ EventsOK /\ InformerOK /\ PodsOK
      /\ EventsExist(s) /\ InformerExist(s) /\ Used \subseteq PodNames
      /\ \A p \in Used : pods[p] \in Pod
  BY CountingFacts
<1>2. ASSUME NEW p \in PodNames, AddPod(s, p) PROVE Family(s)'
  <2>1. /\ Replica(p) /\ UNCHANGED <<pods, memory, ticker>>
        /\ addEvents'[s] = addEvents[s] \ {p}
    BY <1>1, <1>2 DEF AddPod, Kin, Replica, EventsExist, EventsOK
  <2>2. SameEvents(s)
    BY <2>1 DEF SameEvents, Replica
  <2>3. informer'[s] = [pc |-> "schedule", pod |-> p, left |-> 0, copy |-> None]
    BY <1>1, <1>2 DEF AddPod, InformerOK
  <2>4. Settled /\ Steady
    BY <1>1, <2>1, SameSettled
  <2>5. Replica(informer'[s].pod) /\ informer'[s].pc = "schedule"
    BY <2>1, <2>3
  <2> QED
    BY <2>1, <2>2, <2>4, <2>5, InformerSettled
<1>3. CASE ScheduleFails(s)
  <2>1. UNCHANGED <<pods, addEvents, memory, ticker>> /\ informer'[s].pc = "idle"
    BY <1>1, <1>3 DEF ScheduleFails, CreateFails, api, InformerOK, InformerIdle
  <2>2. Settled /\ Steady /\ SameEvents(s)
    BY <1>1, <2>1, SameSettled DEF SameEvents
  <2> QED
    BY <2>1, <2>2, InformerSettled
<1>4. ASSUME NEW n \in Nodes, BindLocal(s, n) PROVE Family(s)'
  <2>1. PICK p \in Used : p = informer[s].pod /\ pods[p].kind = "generated"
    BY <1>1, <1>4 DEF BindLocal, Expands, Replica
  <2>2. /\ pods' = pods \/ pods' = [pods EXCEPT ![p].node = n]
        /\ UNCHANGED <<addEvents, memory, ticker>>
        /\ informer'[s].pc = "idle"
    BY <1>1, <1>4, <2>1 DEF BindLocal, InformerOK, InformerIdle
  <2>3. /\ \A q \in Used : /\ pods'[q].phase = pods[q].phase /\ pods'[q].kind = pods[q].kind
                           /\ pods'[q].app = pods[q].app
        /\ \A q \in PodNames : q # p => pods'[q] = pods[q]
    BY <1>1, <2>2 DEF PodsOK, Pod
  <2>4. Used' = Used
    BY <1>1, <2>1, <2>2, <2>3 DEF Used
  <2>5. \A q \in Used : (There(q)' <=> There(q)) /\ (Over(q)' <=> Over(q))
    BY <2>3 DEF There, Over
  <2>6. \A q \in Used : There(q)' \/ Over(q)'
    BY <1>1, <2>5 DEF Kin
  <2>7. \A q \in Used : pods[q].kind = "template" => pods'[q].node = pods[q].node
    BY <1>1, <2>1, <2>3
  <2>8. Settled /\ Steady
    BY <2>3, <2>4, <2>5, <2>6, <2>7 DEF Settled, Steady
  <2>9. SameEvents(s)
    BY <2>2 DEF SameEvents
  <2> QED
    BY <2>2, <2>8, <2>9, InformerSettled
<1>5. ASSUME NEW n \in Nodes PROVE ~ CreateRemote(s, n)
  <2>1. PICK c : Clusters = {c}
    BY DEF Counting, Alone
  <2>2. Home[s] = c /\ ClusterOf[n] = c
    BY <2>1 DEF Counting, ConstantsAssumption
  <2> QED
    BY <2>2 DEF CreateRemote
<1>6. ~ DeleteOriginal(s) /\ ~ Track(s) /\ ~ Panic(s)
  BY <1>1 DEF Expands, DeleteOriginal, Track, Panic
<1> QED
  BY <1>2, <1>3, <1>4, <1>5, <1>6, AddTemplateFamily, ExpandFamily, DeleteTemplateFamily
     DEF InformerStep

-----------------------------------------------------------------------------
(* The ticker's steps.                                                     *)

(* Most of them leave pods and names alone.                                *)
LEMMA TickerSame ==
  ASSUME NEW s \in Schedulers, Counting(s), UNCHANGED <<api, memory, informer>>,
         Enforcing(s)' => Enforcing(s) /\ ticker'[s].obj = ticker[s].obj,
         Renewed(s)' => Enforces(s)',
         ticker'[s].pc # "moveDelete" /\ ticker[s].pc # "moveDelete"
  PROVE  Family(s)'
<1>1. /\ UNCHANGED <<pods, addEvents>> /\ desiredApps'[s] = desiredApps[s]
      /\ podsByName'[s] = podsByName[s] /\ informer'[s] = informer[s]
  BY DEF api, memory
<1>2. Kin /\ Expands(s)
  BY CountingFacts
<1>3. Settled /\ Lasting /\ SameEvents(s)
  BY <1>1, <1>2, SameSettled, KinSettled DEF SameEvents
<1>4. Names(s)' \subseteq Names(s) /\ Known(s)' /\ Renewed(s)'
  BY <1>1, <1>3, MemorySame
<1>5. Expands(s)'
  BY <1>1, <1>2, <1>3 DEF Expands, Replica, Lasting
<1>6. ASSUME NEW a \in Apps
      PROVE  Left(s, a)' \in Nat /\ Left(s, a)' <= Left(s, a) /\ Half(s, a)' = Half(s, a)
  <2>1. Left(s, a)' = Left(s, a) /\ Half(s, a)' = Half(s, a) /\ Left(s, a) \in Nat
    BY <1>1, <1>3, LeftSame, HalfSame, CountingNumbers
  <2> QED
    BY <2>1
<1> QED
  BY <1>3, <1>4, <1>5, <1>6, FamilySettled

(* ReconcilePods starts, is done, or EnforceDesired is done.               *)
LEMMA TickFamily ==
  ASSUME NEW s \in Schedulers, Counting(s),
         Tick(s) \/ ReconcileDone(s) \/ EnforceAppDone(s) \/ EnforceDone(s)
  PROVE  Family(s)'
<1>1. TickerOK /\ ~ Fails
  BY CountingFacts
<1>2. /\ UNCHANGED <<api, memory, informer>> /\ ticker'[s].todo = {}
      /\ ticker[s].pc # "moveDelete"
      /\ ticker'[s].pc \in {"idle", "reconcile", "enforce"}
  <2>1. CASE Tick(s)
    BY <1>1, <2>1 DEF Tick, TickerOK, TickerIdle
  <2>2. CASE ReconcileDone(s)
    BY <1>1, <2>2 DEF ReconcileDone, TickerOK, TickerIdle, StartEnforce
  <2>3. CASE EnforceAppDone(s)
    BY <1>1, <2>3 DEF EnforceAppDone, TickerOK, TickerIdle
  <2>4. CASE EnforceDone(s)
    BY <1>1, <2>4 DEF EnforceDone, TickerOK, TickerIdle
  <2> QED
    BY <2>1, <2>2, <2>3, <2>4
<1>3. ~ Enforcing(s)'
  BY <1>2 DEF Enforcing
<1>4. Renewed(s)' => Enforces(s)'
  <2>1. Moves(ticker[s], Names(s))'
    BY <1>2 DEF Moves
  <2>2. Replaces(ticker[s], podsByName[s][ticker[s].obj])'
    BY <1>2 DEF Replaces
  <2> QED
    BY <2>1, <2>2 DEF Enforces
<1> QED
  BY <1>2, <1>3, <1>4, TickerSame

(* The pods ReconcilePods lists are placed and not being deleted.          *)
LEMMA ReconcileListFamily ==
  ASSUME NEW s \in Schedulers, Counting(s), NEW c \in Clusters, ReconcileList(s, c)
  PROVE  Family(s)'
<1>1. TickerOK /\ ticker[s] \in Ticker /\ Kin /\ ~ Fails
  BY CountingFacts
<1>2. /\ UNCHANGED <<api, memory, informer>> /\ pods' = pods /\ ticker[s].pc = "reconcile"
      /\ ticker'[s].pc = "reconcile" /\ ticker'[s].todo = Present(c) \ Unscheduled(c)
  BY <1>1 DEF ReconcileList, TickerOK, Ticker, api
<1>3. \A p \in Present(c) \ Unscheduled(c) : Replica(p) /\ There(p)
  BY <1>1 DEF Present, Unscheduled, InCluster, Kin, There, Over, Replica
<1>4. \A p \in ticker'[s].todo : Replica(p)' /\ There(p)'
  BY <1>2, <1>3 DEF Replica, There, Used
<1>5. ~ Enforcing(s)' /\ ticker'[s].pc # "moveDelete" /\ ticker[s].pc # "moveDelete"
  BY <1>2 DEF Enforcing
<1>6. Renewed(s)' => Enforces(s)'
  <2>1. Moves(ticker[s], Names(s))'
    BY <1>2, <1>4 DEF Moves
  <2>2. Replaces(ticker[s], podsByName[s][ticker[s].obj])'
    BY <1>2 DEF Replaces
  <2> QED
    BY <2>1, <2>2 DEF Enforces
<1> QED
  BY <1>2, <1>5, <1>6, TickerSame

(* A pod is left where it is.                                              *)
LEMMA KeepFamily ==
  ASSUME NEW s \in Schedulers, Counting(s), NEW p \in PodNames, Keep(s, p)
  PROVE  Family(s)'
<1>1. TickerOK /\ ticker[s] \in Ticker /\ Enforces(s)
  BY CountingFacts
<1>2. /\ UNCHANGED <<api, memory, informer>> /\ pods' = pods /\ ticker[s].pc = "reconcile"
      /\ ticker'[s].pc = "reconcile" /\ ticker'[s].todo = ticker[s].todo \ {p}
  BY <1>1 DEF Keep, NextInList, TickerOK, Ticker, api
<1>3. \A q \in ticker[s].todo : Replica(q) /\ There(q)
  BY <1>1, <1>2 DEF Enforces, Moves
<1>4. \A q \in ticker'[s].todo : Replica(q)' /\ There(q)'
  BY <1>2, <1>3 DEF Replica, There, Used
<1>5. ~ Enforcing(s)' /\ ticker'[s].pc # "moveDelete" /\ ticker[s].pc # "moveDelete"
  BY <1>2 DEF Enforcing
<1>6. Renewed(s)' => Enforces(s)'
  <2>1. Moves(ticker[s], Names(s))'
    BY <1>2, <1>4 DEF Moves
  <2>2. Replaces(ticker[s], podsByName[s][ticker[s].obj])'
    BY <1>2 DEF Replaces
  <2> QED
    BY <2>1, <2>2 DEF Enforces
<1> QED
  BY <1>2, <1>5, <1>6, TickerSame

(* The declaration EnforceDesired takes next is the current one.           *)
LEMMA EnforceAppFamily ==
  ASSUME NEW s \in Schedulers, Counting(s), NEW a \in Apps, EnforceApp(s, a)
  PROVE  Family(s)'
<1>1. /\ TickerOK /\ MemoryOK /\ ticker[s] \in Ticker /\ Kin /\ Known(s) /\ Expands(s)
      /\ TickerRefs(s, ticker[s]) /\ DesiredExist(s) /\ Used \subseteq PodNames
  BY CountingFacts
<1>2. Clusters # {}
  BY DEF Counting, Alone
<1>3. /\ UNCHANGED <<api, memory, informer>> /\ ticker[s].pc = "enforce"
      /\ ticker'[s].pc = "list" /\ ticker'[s].obj = desiredApps[s][a]
      /\ ticker'[s].clusters = Clusters /\ a \in ticker[s].apps
  BY <1>1 DEF EnforceApp, TickerOK, Ticker
<1>4. PICK d \in Used : d = desiredApps[s][a] /\ pods[d].app = a
  BY <1>1, <1>3 DEF TickerRefs, DesiredExist
<1>5. /\ UNCHANGED <<pods, addEvents>> /\ desiredApps'[s] = desiredApps[s]
      /\ podsByName'[s] = podsByName[s] /\ informer'[s] = informer[s]
  BY <1>3 DEF api, memory
<1>6. Settled /\ Kin' /\ Lasting /\ SameEvents(s)
  BY <1>1, <1>5, SameSettled, KinSettled DEF SameEvents
<1>7. Names(s)' \subseteq Names(s)
  <2>1. Active(s)' \subseteq Active(s)
    BY <1>3, <1>4, <1>5 DEF Active, Enforcing
  <2>2. Names(s)' \subseteq Names(s) \cup {}
    BY <1>5, <2>1, NamesKept
  <2> QED
    BY <2>2
<1>8. Known(s)'
  BY <1>1, <1>5, <1>6, KnownKept
<1>9. Expands(s)'
  BY <1>1, <1>5, <1>6 DEF Expands, Replica, Lasting
<1>10. Enforces(s)'
  <2>1. Moves(ticker[s], Names(s))'
    BY <1>3 DEF Moves
  <2>2. Replaces(ticker[s], podsByName[s][ticker[s].obj])'
    BY <1>2, <1>3 DEF Replaces
  <2>3. ticker'[s].obj = d /\ desiredApps'[s][pods'[d].app] = d
    BY <1>3, <1>4, <1>5
  <2>4. Renewed(s)'
    BY <2>3 DEF Renewed
  <2> QED
    BY <2>1, <2>2, <2>4 DEF Enforces
<1>11. ASSUME NEW b \in Apps
       PROVE  Left(s, b)' \in Nat /\ Left(s, b)' <= Left(s, b) /\ Half(s, b)' = Half(s, b)
  <2>1. ticker'[s].pc # "moveDelete" /\ ticker[s].pc # "moveDelete"
    BY <1>3
  <2>2. Left(s, b)' = Left(s, b) /\ Half(s, b)' = Half(s, b) /\ Left(s, b) \in Nat
    BY <1>5, <1>6, <2>1, LeftSame, HalfSame, CountingNumbers
  <2> QED
    BY <2>2
<1> QED
  BY <1>6, <1>7, <1>8, <1>9, <1>10, <1>11, FamilySettled

(* Every tracked name is listed as counted or as doomed, or is over.       *)
LEMMA EnforceListFamily ==
  ASSUME NEW s \in Schedulers, Counting(s), NEW c \in Clusters, EnforceList(s, c)
  PROVE  Family(s)'
<1>1. /\ TickerOK /\ ticker[s] \in Ticker /\ Kin /\ Known(s) /\ TickerRefs(s, ticker[s])
      /\ ~ Fails /\ Used \subseteq PodNames /\ \A p \in Used : pods[p] \in Pod
  BY CountingFacts
<1>2. \A d \in Clusters : d = c
  BY DEF Counting, Alone
<1>3. PICK o \in Used : o = ticker[s].obj
  BY <1>1 DEF TickerRefs, EnforceList
<1> DEFINE a == pods[o].app
<1>4. /\ UNCHANGED <<api, memory, informer>> /\ pods' = pods /\ ticker[s].pc = "list"
      /\ ticker'[s].pc = "list" /\ ticker'[s].obj = o
      /\ ticker'[s].found = ticker[s].found \cup Counted(c, a) /\ ticker'[s].todo = Doomed(c, a)
      /\ podsByName'[s] = podsByName[s]
  BY <1>1, <1>3 DEF EnforceList, TickerOK, Ticker, api, memory
<1>5. \A p \in podsByName[s][o] : p \in Counted(c, a) \/ p \in Doomed(c, a) \/ Over(p)
  <2> SUFFICES ASSUME NEW p \in podsByName[s][o], ~ Over(p)
               PROVE  p \in Counted(c, a) \/ p \in Doomed(c, a)
    OBVIOUS
  <2>1. p \in Used /\ pods[p] \in Pod /\ pods[p].app = a
    BY <1>1 DEF Known, Replica
  <2>2. There(p) /\ pods[p].cluster = c
    BY <1>1, <1>2, <2>1 DEF Kin, Pod
  <2>3. p \in AppPods(c, a)
    BY <2>1, <2>2 DEF AppPods, Present, InCluster, There
  <2> QED
    BY <2>2, <2>3 DEF Counted, Doomed, There
<1>6. \A p \in podsByName'[s][o] \ ticker'[s].found :
        p \in ticker'[s].todo \/ pods'[p].phase \in {"Terminating", "Gone"}
  BY <1>4, <1>5 DEF Over
<1>7. Enforcing(s)' => Enforcing(s) /\ ticker'[s].obj = ticker[s].obj
  BY <1>3, <1>4 DEF Enforcing
<1>8. ticker'[s].pc # "moveDelete" /\ ticker[s].pc # "moveDelete"
  BY <1>4
<1>9. Renewed(s)' => Enforces(s)'
  <2>1. Moves(ticker[s], Names(s))'
    BY <1>4 DEF Moves
  <2>2. Replaces(ticker[s], podsByName[s][ticker[s].obj])'
    BY <1>4, <1>6 DEF Replaces, Over
  <2> QED
    BY <2>1, <2>2 DEF Enforces
<1> QED
  BY <1>4, <1>7, <1>8, <1>9, TickerSame

(* What the list did not count is over when the doomed pods are deleted.   *)
LEMMA StartRespawnFamily ==
  ASSUME NEW s \in Schedulers, Counting(s), StartRespawn(s)
  PROVE  Family(s)'
<1>1. TickerOK /\ ticker[s] \in Ticker /\ Enforces(s)
  BY CountingFacts
<1>2. /\ UNCHANGED <<api, memory, informer>> /\ pods' = pods /\ ticker[s].pc = "list"
      /\ ticker[s].clusters = {} /\ ticker[s].todo = {}
      /\ ticker'[s].pc = "respawn" /\ ticker'[s].obj = ticker[s].obj
      /\ ticker'[s].found = ticker[s].found /\ podsByName'[s] = podsByName[s]
  BY <1>1 DEF StartRespawn, TickerOK, Ticker, api, memory
<1>3. Enforcing(s)' => Enforcing(s) /\ ticker'[s].obj = ticker[s].obj
  BY <1>2 DEF Enforcing
<1>4. ticker'[s].pc # "moveDelete" /\ ticker[s].pc # "moveDelete"
  BY <1>2
<1>5. Renewed(s)' => Enforces(s)'
  <2>1. Replaces(ticker[s], podsByName[s][ticker[s].obj])
    BY <1>1 DEF Enforces
  <2>2. \A p \in podsByName[s][ticker[s].obj] \ ticker[s].found : Over(p)
    BY <1>2, <2>1 DEF Replaces
  <2>3. Moves(ticker[s], Names(s))'
    BY <1>2 DEF Moves
  <2>4. Replaces(ticker[s], podsByName[s][ticker[s].obj])'
    BY <1>2, <2>2 DEF Replaces, Over
  <2> QED
    BY <2>3, <2>4 DEF Enforces
<1> QED
  BY <1>2, <1>3, <1>4, <1>5, TickerSame

(* A doomed pod is deleted; if it was tracked, its place is kept for the   *)
(* replica to come.                                                        *)
LEMMA EnforceDeleteFamily ==
  ASSUME NEW s \in Schedulers, Counting(s), NEW p \in PodNames, EnforceDelete(s, p)
  PROVE  Family(s)'
<1>1. /\ TickerOK /\ ticker[s] \in Ticker /\ Kin /\ Known(s) /\ Expands(s)
      /\ Enforces(s) /\ TickerRefs(s, ticker[s]) /\ Used \subseteq PodNames
  BY CountingFacts
<1>2. /\ Delete(p) \/ DeleteFails(p)
      /\ UNCHANGED <<memory, informer>> /\ ticker[s].pc = "list" /\ p \in ticker[s].todo
      /\ ticker'[s].pc = "list" /\ ticker'[s].obj = ticker[s].obj
      /\ ticker'[s].clusters = ticker[s].clusters
      /\ ticker'[s].found = ticker[s].found /\ ticker'[s].todo = ticker[s].todo \ {p}
  BY <1>1 DEF EnforceDelete, TickerOK, Ticker
<1>3. /\ Settled /\ addEvents' = addEvents
      /\ p \in Used => Over(p)'
      /\ \A q \in Used : Over(q) => Over(q)'
  BY <1>2, DeleteSettled
<1>4. /\ desiredApps'[s] = desiredApps[s] /\ podsByName'[s] = podsByName[s]
      /\ informer'[s] = informer[s]
  BY <1>2 DEF memory
<1>5. Kin' /\ Lasting /\ SameEvents(s)
  BY <1>1, <1>3, KinSettled DEF SameEvents
<1>6. Names(s)' \subseteq Names(s) /\ Known(s)' /\ Renewed(s)'
  <2>1. Enforcing(s)' => Enforcing(s) /\ ticker'[s].obj = ticker[s].obj
    BY <1>2 DEF Enforcing
  <2> QED
    BY <1>4, <1>5, <2>1, MemorySame
<1>7. PICK o \in Used : o = ticker[s].obj
  BY <1>1, <1>2 DEF TickerRefs
<1>8. p \in Used /\ podsByName[s][o] \subseteq Used
  BY <1>1, <1>2, <1>7 DEF TickerRefs, Known, Replica
<1>9. /\ pods'[p].phase \in {"Terminating", "Gone"}
      /\ \A q \in Used : Over(q) => pods'[q].phase \in {"Terminating", "Gone"}
  BY <1>3, <1>8 DEF Over
<1>10. ticker[s].clusters = {} => \A q \in podsByName[s][o] \ ticker[s].found :
         q \in ticker[s].todo \ {p} \/ pods'[q].phase \in {"Terminating", "Gone"}
  <2>1. Replaces(ticker[s], podsByName[s][o])
    BY <1>1, <1>7 DEF Enforces
  <2> QED
    BY <1>2, <1>8, <1>9, <2>1 DEF Replaces
<1>11. Enforces(s)'
  <2>1. Moves(ticker[s], Names(s))'
    BY <1>2 DEF Moves
  <2>2. Replaces(ticker[s], podsByName[s][ticker[s].obj])'
    BY <1>2, <1>4, <1>7, <1>10 DEF Replaces, Over
  <2> QED
    BY <1>6, <2>1, <2>2 DEF Enforces
<1>12. Expands(s)'
  BY <1>1, <1>4, <1>5 DEF Expands, Replica, Lasting
<1>13. ASSUME NEW a \in Apps
       PROVE  Left(s, a)' \in Nat /\ Left(s, a)' <= Left(s, a) /\ Half(s, a)' = Half(s, a)
  <2>1. ticker'[s].pc # "moveDelete" /\ ticker[s].pc # "moveDelete"
    BY <1>2
  <2>2. Left(s, a)' = Left(s, a) /\ Half(s, a)' = Half(s, a) /\ Left(s, a) \in Nat
    BY <1>4, <1>5, <2>1, LeftSame, HalfSame, CountingNumbers
  <2> QED
    BY <2>2
<1> QED
  BY <1>3, <1>5, <1>6, <1>11, <1>12, <1>13, FamilySettled

(* A name of a declared app is known under its declaration alone.          *)
LEMMA OneKnows ==
  ASSUME NEW s \in Schedulers, Counting(s), NEW d \in PodNames, NEW p \in podsByName[s][d],
         NEW a \in Apps, desiredApps[s][a] = d
  PROVE  pods[p].app = a /\ p \in Used /\ d \in Used /\ d # None
<1>1. Known(s) /\ DesiredExist(s) /\ ConstantsAssumption
  BY CountingFacts DEF Counting
<1>2. d # None
  BY <1>1 DEF ConstantsAssumption
<1>3. d \in Used /\ pods[d].app = a
  BY <1>1, <1>2 DEF DesiredExist, Declared
<1> QED
  BY <1>1, <1>2, <1>3 DEF Known, Replica

(* The pod ReconcilePods moves is there, so it holds a place already: its  *)
(* copy is the one replica more that a half-done move allows.              *)
LEMMA MoveFamily ==
  ASSUME NEW s \in Schedulers, Counting(s), NEW p \in PodNames, NEW n \in Nodes, Move(s, p, n)
  PROVE  Family(s)'
<1>1. /\ TickerOK /\ ticker[s] \in Ticker /\ MemoryOK /\ Kin /\ Known(s) /\ Expands(s)
      /\ Enforces(s) /\ DesiredExist(s) /\ Used \subseteq PodNames
      /\ \A q \in Used : pods[q] \in Pod
  BY CountingFacts
<1>2. /\ ticker[s].pc = "reconcile" /\ p \in ticker[s].todo
      /\ Create(pods[p].app, pods[p].kind, ClusterOf[n], n, p)
      /\ podsByName' = Retracked(s, p, NewName)
      /\ UNCHANGED <<desiredApps, informer>>
  BY DEF Move, NextInList
<1>3. \A q \in ticker[s].todo : Replica(q) /\ There(q)
  BY <1>1, <1>2 DEF Enforces, Moves
<1>4. Replica(p) /\ There(p) /\ p \in Used /\ pods[p].kind = "generated"
  BY <1>2, <1>3 DEF Replica
<1>5. PICK b \in Apps : b = pods[p].app
  BY <1>1, <1>4 DEF Pod
<1>6. PICK x \in PodNames : x = NewName /\ Grown(x, b) /\ SameEvents(s)
  <2>1. ClusterOf[n] \in Clusters /\ n \in Nodes \cup {None} /\ p \in PodNames \cup {None}
    BY DEF Counting, ConstantsAssumption
  <2>2. Added(b, "generated", ClusterOf[n], n, p)
    BY <1>2, <1>4, <1>5 DEF Create
  <2> QED
    BY <2>1, <2>2, CreateGrows
<1>7. Kin' /\ Steady /\ Lasting /\ x # p
  BY <1>1, <1>4, <1>6, KinGrown DEF Grown
<1>8. /\ ticker'[s].pc = "moveDelete" /\ ticker'[s].pod = p
      /\ ticker'[s].todo = ticker[s].todo \ {p}
  BY <1>1 DEF Move, TickerOK, Ticker
<1>9. desiredApps'[s] = desiredApps[s] /\ informer'[s] = informer[s]
  BY <1>2
<1> DEFINE d == desiredApps[s][b]
<1>10. /\ d = None => podsByName'[s] = podsByName[s]
       /\ d # None => /\ podsByName'[s][d] = (podsByName[s][d] \ {p}) \cup {x}
                      /\ \A e \in PodNames : e # d => podsByName'[s][e] = podsByName[s][e]
  BY <1>1, <1>2, <1>5, <1>6 DEF Retracked, MemoryOK
<1>11. d # None => d \in Used /\ pods[d].app = b
  BY <1>1 DEF DesiredExist, Declared
<1>12. /\ \A e \in Active(s) : \E a \in Apps : desiredApps[s][a] = e
       /\ Active(s)' = Active(s)
  BY <1>2, <1>8, <1>9 DEF Active, Enforcing
<1>13. \A e \in PodNames : podsByName'[s][e] \subseteq podsByName[s][e] \cup {x}
  BY <1>10
<1>14. Names(s)' \subseteq Names(s) \cup {x}
  <2>1. \A e \in Active(s) : podsByName'[s][e] \subseteq podsByName[s][e] \cup {x}
    BY <1>13 DEF Active
  <2> QED
    BY <1>12, <2>1, NamesKept
<1>15. p \notin Names(s)'
  <2> SUFFICES ASSUME p \in Names(s)' PROVE FALSE
    OBVIOUS
  <2>1. PICK e \in Active(s) : p \in podsByName'[s][e]
    BY <1>12 DEF Names
  <2>2. e \in PodNames /\ p \in podsByName[s][e]
    BY <1>7, <1>13, <2>1 DEF Active
  <2>3. PICK a \in Apps : desiredApps[s][a] = e
    BY <1>12
  <2>4. a = b /\ e # None
    BY <1>5, <2>2, <2>3, OneKnows
  <2> QED
    BY <1>7, <1>10, <2>1, <2>3, <2>4
<1>16. Known(s)'
  <2>1. \A e \in PodNames : \A q \in podsByName'[s][e] :
          \/ q \in podsByName[s][e]
          \/ q = x /\ Grown(x, b) /\ e \in Used /\ pods[e].app = b
    BY <1>6, <1>10, <1>11
  <2> QED
    BY <1>1, <1>7, <2>1, KnownKept
<1>17. Expands(s)'
  BY <1>1, <1>7, <1>9 DEF Expands, Replica, Lasting
<1>18. Enforces(s)'
  <2>1. \A q \in ticker'[s].todo : Replica(q)' /\ There(q)'
    BY <1>3, <1>7, <1>8 DEF Steady, Lasting, Replica
  <2>2. Replica(p)' /\ There(p)'
    BY <1>4, <1>7 DEF Steady, Lasting, Replica
  <2>3. /\ p \in Used' /\ pods'[p].kind = "generated"
        /\ pods'[p].phase \in {"Pending", "Stuck", "Running", "Failed"}
    BY <2>2 DEF Replica, There
  <2>4. Moves(ticker[s], Names(s))'
    BY <1>8, <1>15, <2>1, <2>3 DEF Moves, Replica, There
  <2>5. Replaces(ticker[s], podsByName[s][ticker[s].obj])' /\ Renewed(s)'
    BY <1>8 DEF Replaces, Renewed, Enforcing
  <2> QED
    BY <2>4, <2>5 DEF Enforces
<1>19. \A a \in Apps : Left(s, a)' = Left(s, a)
  BY <1>7, <1>9, LeftSame
<1>20. pods'[p].app = b
  BY <1>4, <1>5, <1>7 DEF Lasting
<1>21. /\ \A a \in Apps : Half(s, a) = 0
       /\ Half(s, b)' = 1 /\ \A a \in Apps : a # b => Half(s, a)' = 0
  BY <1>2, <1>8, <1>20 DEF Half
<1>22. Enough(s, b)'
  <2>1. Used' = Used \cup {x} /\ pods'[x].kind = "generated"
    BY <1>6 DEF Grown
  <2>2. SameRequests(s, b)
    BY <1>6, <1>7, <2>1, RequestsSame
  <2>3. Slots(s, b)' \subseteq Slots(s, b) \cup {x}
    BY <1>1, <1>6, <1>14, SlotsGrown
  <2>4. Left(s, b) \in Nat
    BY CountingNumbers
  <2>5. /\ Left(s, b)' \in Nat /\ Half(s, b)' \in {0, 1}
        /\ Left(s, b)' + Half(s, b) + 1 <= Left(s, b) + Half(s, b)'
    BY <1>19, <1>21, <2>4
  <2> QED
    BY <2>2, <2>3, <2>5, EnoughMore
<1> QED
  BY <1>6, <1>14, <1>16, <1>17, <1>18, <1>19, <1>21, <1>22, FamilyGrown

(* The original goes, and its place with it: the copy is tracked instead.  *)
LEMMA MoveDeleteFamily ==
  ASSUME NEW s \in Schedulers, Counting(s), MoveDelete(s)
  PROVE  Family(s)'
<1>1. /\ TickerOK /\ ticker[s] \in Ticker /\ Kin /\ Known(s) /\ Expands(s)
      /\ Enforces(s) /\ Used \subseteq PodNames /\ ~ Fails
      /\ \A q \in Used : pods[q] \in Pod
  BY CountingFacts
<1>2. Moves(ticker[s], Names(s)) /\ ticker[s].pc = "moveDelete"
  BY <1>1 DEF Enforces, MoveDelete
<1>3. PICK p \in Used : p = ticker[s].pod
  BY <1>2 DEF Moves, Replica
<1>4. Replica(p) /\ There(p) /\ p \notin ticker[s].todo /\ p \notin Names(s) /\ p \in PodNames
  BY <1>1, <1>2, <1>3 DEF Moves
<1>5. PICK b \in Apps : b = pods[p].app
  BY <1>1 DEF Pod
<1>6. Delete(p) /\ UNCHANGED podsByName /\ UNCHANGED <<desiredApps, informer>>
  BY <1>1, <1>3, <1>4 DEF MoveDelete, DeleteFails, There
<1>7. /\ ticker'[s].pc = "reconcile" /\ ticker'[s].todo = ticker[s].todo
  BY <1>1 DEF MoveDelete, TickerOK, Ticker
<1>8. /\ Settled /\ addEvents' = addEvents /\ Over(p)'
      /\ \A q \in PodNames : q # p => pods'[q] = pods[q]
  BY <1>4, <1>6, DeleteSettled
<1>9. /\ desiredApps'[s] = desiredApps[s] /\ podsByName'[s] = podsByName[s]
      /\ informer'[s] = informer[s] /\ Used' = Used
  BY <1>6, <1>8 DEF Settled
<1>10. Kin' /\ Lasting /\ SameEvents(s)
  BY <1>1, <1>8, KinSettled DEF SameEvents
<1>11. Names(s)' \subseteq Names(s) /\ Known(s)' /\ Renewed(s)'
  <2>1. Enforcing(s)' => Enforcing(s) /\ ticker'[s].obj = ticker[s].obj
    BY <1>7 DEF Enforcing
  <2> QED
    BY <1>9, <1>10, <2>1, MemorySame
<1>12. Expands(s)'
  BY <1>1, <1>9, <1>10 DEF Expands, Replica, Lasting
<1>13. Enforces(s)'
  <2>1. \A q \in ticker[s].todo : Replica(q) /\ There(q) /\ q # p /\ q \in PodNames
    BY <1>1, <1>2, <1>4 DEF Moves, Replica
  <2>2. \A q \in ticker'[s].todo : Replica(q)' /\ There(q)'
    BY <1>7, <1>8, <1>9, <2>1 DEF Replica, There
  <2>3. Moves(ticker[s], Names(s))'
    BY <1>7, <2>2 DEF Moves
  <2>4. Replaces(ticker[s], podsByName[s][ticker[s].obj])'
    BY <1>7 DEF Replaces
  <2> QED
    BY <1>11, <2>3, <2>4 DEF Enforces
<1>14. \A a \in Apps : /\ SameRequests(s, a) /\ Slots(s, a)' \subseteq Slots(s, a)
                       /\ Left(s, a)' = Left(s, a) /\ Half(s, a)' = 0
  BY <1>7, <1>8, <1>9, <1>10, <1>11, RequestsSame, SlotsSettled, LeftSame DEF Half
<1>15. Half(s, b) = 1 /\ \A a \in Apps : a # b => Half(s, a) = 0
  BY <1>2, <1>3, <1>5 DEF Half
<1>16. Enough(s, b)'
  <2>1. p \in Slots(s, b)
    BY <1>4, <1>5 DEF Slots
  <2>2. pods'[p].phase \in {"Terminating", "Gone"}
    BY <1>8 DEF Over
  <2>3. p \notin Slots(s, b)'
    BY <1>4, <1>11, <2>2 DEF Slots, There
  <2>4. Slots(s, b)' \subseteq Slots(s, b) \ {p}
    BY <1>14, <2>3
  <2> QED
    BY <1>14, <1>15, <2>1, <2>4, EnoughReturned
<1>17. ASSUME NEW a \in Apps, a # b PROVE Enough(s, a)'
  <2>1. Left(s, a) \in Nat
    BY CountingNumbers
  <2>2. Left(s, a)' \in Nat /\ Left(s, a)' <= Left(s, a) /\ Half(s, a)' = Half(s, a)
    BY <1>14, <1>15, <1>17, <2>1
  <2> QED
    BY <1>14, <2>2, EnoughLess
<1> QED
  BY <1>10, <1>11, <1>12, <1>13, <1>16, <1>17 DEF Family

(* A name that no list showed belongs to a pod that is over, and the new   *)
(* replica takes its place.                                                *)
LEMMA RespawnFamily ==
  ASSUME NEW s \in Schedulers, Counting(s), NEW p \in PodNames, Respawn(s, p)
  PROVE  Family(s)'
<1>1. /\ MemoryOK /\ Kin /\ Known(s) /\ Expands(s) /\ Enforces(s)
      /\ TickerRefs(s, ticker[s]) /\ Used \subseteq PodNames
      /\ \A q \in Used : pods[q] \in Pod
  BY CountingFacts
<1>2. PICK d \in Used : d = ticker[s].obj /\ Enforcing(s)
  BY <1>1 DEF Respawn, TickerRefs, Enforcing
<1>3. PICK b \in Apps : b = pods[d].app
  BY <1>1 DEF Pod
<1>4. /\ ticker[s].pc = "respawn" /\ p \in podsByName[s][d] \ ticker[s].found
      /\ podsByName' = [podsByName EXCEPT ![s][d] = @ \ {p}]
      /\ Create(b, "generated", Home[s], None, d) \/ CreateFails
      /\ UNCHANGED <<desiredApps, informer, ticker>>
  BY <1>2, <1>3 DEF Respawn
<1>5. /\ podsByName'[s][d] = podsByName[s][d] \ {p}
      /\ \A e \in PodNames : podsByName'[s][e] \subseteq podsByName[s][e]
  BY <1>1, <1>4 DEF MemoryOK
<1>6. /\ desiredApps'[s] = desiredApps[s] /\ informer'[s] = informer[s]
      /\ ticker'[s] = ticker[s]
  BY <1>4
<1>7. Over(p) /\ ~ There(p) /\ Replica(p) /\ pods[p].app = b /\ p \in Used
  BY <1>1, <1>2, <1>3, <1>4 DEF Enforces, Replaces, Known, Replica, Over, There
<1>8. ASSUME Steady, Lasting
      PROVE  /\ Names(s)' \subseteq Names(s) /\ Known(s)' /\ Expands(s)' /\ Enforces(s)'
             /\ \A a \in Apps : Left(s, a)' = Left(s, a) /\ Half(s, a)' = Half(s, a)
  <2>1. Names(s)' \subseteq Names(s) /\ Known(s)' /\ Renewed(s)'
    BY <1>5, <1>6, <1>8, MemorySame DEF Enforcing
  <2>2. Enforces(s)'
    BY <1>5, <1>6, <1>8, <2>1, EnforcesSame
  <2>3. Expands(s)'
    BY <1>1, <1>6, <1>8 DEF Expands, Replica, Lasting
  <2>4. \A a \in Apps : Left(s, a)' = Left(s, a) /\ Half(s, a)' = Half(s, a)
    BY <1>6, <1>8, LeftSame, HalfSame
  <2> QED
    BY <2>1, <2>2, <2>3, <2>4
<1>9. CASE CreateFails
  <2>1. UNCHANGED <<pods, addEvents>>
    BY <1>9 DEF CreateFails, api
  <2>2. Settled /\ Steady /\ Lasting /\ SameEvents(s)
    BY <1>1, <2>1, SameSettled, KinSettled DEF SameEvents
  <2>3. ASSUME NEW a \in Apps
        PROVE  Left(s, a)' \in Nat /\ Left(s, a)' <= Left(s, a) /\ Half(s, a)' = Half(s, a)
    <3>1. Left(s, a)' = Left(s, a) /\ Half(s, a)' = Half(s, a) /\ Left(s, a) \in Nat
      BY <1>8, <2>2, CountingNumbers
    <3> QED
      BY <3>1
  <2> QED
    BY <1>8, <2>2, <2>3, FamilySettled
<1>10. CASE Create(b, "generated", Home[s], None, d)
  <2>1. PICK x \in PodNames : Grown(x, b) /\ SameEvents(s)
    <3>1. Home[s] \in Clusters /\ None \in Nodes \cup {None} /\ d \in PodNames \cup {None}
      BY <1>1 DEF Counting, ConstantsAssumption
    <3>2. Added(b, "generated", Home[s], None, d)
      BY <1>10 DEF Create
    <3> QED
      BY <3>1, <3>2, CreateGrows
  <2>2. Steady /\ Lasting /\ \A q \in Used : There(q)' <=> There(q)
    BY <1>1, <2>1, KinGrown
  <2>3. p \notin Names(s)'
    <3> SUFFICES ASSUME p \in Names(s)' PROVE FALSE
      OBVIOUS
    <3>1. PICK e \in Active(s)' : p \in podsByName'[s][e]
      BY DEF Names
    <3>2. e \in PodNames /\ p \in podsByName[s][e] /\ e # d
      BY <1>5, <3>1 DEF Active
    <3>3. PICK a \in Apps : desiredApps[s][a] = e
      BY <1>2, <1>6, <3>1, <3>2 DEF Active
    <3>4. a = b /\ e # None
      BY <1>7, <3>2, <3>3, OneKnows
    <3>5. desiredApps[s][b] \in {d, None} \/ podsByName[s][desiredApps[s][b]] = {}
      BY <1>1, <1>2, <1>3 DEF Enforces, Renewed
    <3> QED
      BY <3>2, <3>3, <3>4, <3>5
  <2>4. Enough(s, b)'
    <3>1. Used' = Used \cup {x} /\ pods'[x].kind = "generated"
      BY <2>1 DEF Grown
    <3>2. SameRequests(s, b)
      BY <2>1, <2>2, <3>1, RequestsSame
    <3>3. Slots(s, b)' \subseteq Slots(s, b) \cup {x}
      <4>1. Names(s)' \subseteq Names(s) \cup {x}
        BY <1>8, <2>2
      <4> QED
        BY <1>1, <2>1, <4>1, SlotsGrown
    <3>4. p \in Slots(s, b)
      <4>1. d \in Active(s)
        BY <1>1, <1>2 DEF Active
      <4>2. p \in Names(s)
        BY <1>4, <1>7, <4>1 DEF Names
      <4> QED
        BY <1>7, <4>2 DEF Slots
    <3>5. p \notin Slots(s, b)'
      <4>1. ~ There(p)'
        BY <1>7, <2>2
      <4> QED
        BY <2>3, <4>1 DEF Slots
    <3>6. Slots(s, b)' \subseteq (Slots(s, b) \ {p}) \cup {x}
      BY <3>3, <3>5
    <3>7. Left(s, b)' = Left(s, b) /\ Half(s, b)' = Half(s, b)
      BY <1>8, <2>2
    <3> QED
      BY <3>2, <3>4, <3>6, <3>7, EnoughSwap
  <2>5. Names(s)' \subseteq Names(s) \cup {x}
    BY <1>8, <2>2
  <2> QED
    BY <1>8, <2>1, <2>2, <2>4, <2>5, FamilyGrown
<1> QED
  BY <1>4, <1>9, <1>10

(* Every step of the ticker keeps the family.                              *)
LEMMA TickerFamily ==
  ASSUME NEW s \in Schedulers, Counting(s), TickerStep(s)
  PROVE  Family(s)'
  BY TickFamily, ReconcileListFamily, EnforceListFamily, KeepFamily, MoveFamily, MoveDeleteFamily,
     EnforceAppFamily, EnforceDeleteFamily, RespawnFamily, StartRespawnFamily DEF TickerStep

-----------------------------------------------------------------------------
(* The environment.                                                        *)

(* Kubelets and evictions take nothing away that was there.                *)
LEMMA KubeletFamily ==
  ASSUME NEW s \in Schedulers, Counting(s), NEW p \in PodNames, KubeletStep(p) \/ End(p)
  PROVE  Family(s)'
<1>1. /\ PodsOK /\ Kin /\ Used \subseteq PodNames /\ Expands(s) /\ informer[s] \in Informer
      /\ \A q \in Used : pods[q] \in Pod
  BY CountingFacts
<1> DEFINE Alive == {"Pending", "Stuck", "Running", "Failed"}
           Dead == {"Terminating", "Gone"}
<1>2. \E from \in SUBSET Phases, to \in Phases :
        /\ PhaseStep(p, from, to)
        /\ (from \subseteq Alive /\ to \in Alive) \/ (from \subseteq Dead /\ to \in Dead)
  <2>1. CASE KubeletStart(p)
    <3>1. /\ PhaseStep(p, {"Pending", "Stuck"}, "Running") /\ "Running" \in Alive \cap Phases
          /\ {"Pending", "Stuck"} \subseteq Alive \cap Phases
      BY <2>1 DEF KubeletStart, Phases
    <3> QED
      BY <3>1
  <2>2. CASE PendTooLong(p)
    <3>1. /\ PhaseStep(p, {"Pending"}, "Stuck") /\ "Stuck" \in Alive \cap Phases
          /\ {"Pending"} \subseteq Alive \cap Phases
      BY <2>2 DEF PendTooLong, Phases
    <3> QED
      BY <3>1
  <2>3. CASE Terminated(p)
    <3>1. /\ PhaseStep(p, {"Terminating"}, "Gone") /\ "Gone" \in Dead \cap Phases
          /\ {"Terminating"} \subseteq Dead \cap Phases
      BY <2>3 DEF Terminated, Phases
    <3> QED
      BY <3>1
  <2>4. CASE End(p)
    <3>1. PhaseStep(p, {"Running"}, "Failed")
      BY <2>4 DEF End, Counting, ConstantsAssumption, Alone
    <3>2. {"Running"} \subseteq Alive \cap Phases /\ "Failed" \in Alive \cap Phases
      BY DEF Phases
    <3> QED
      BY <3>1, <3>2
  <2> QED
    BY <2>1, <2>2, <2>3, <2>4 DEF KubeletStep
<1>3. PICK from \in SUBSET Phases, to \in Phases :
        /\ PhaseStep(p, from, to)
        /\ (from \subseteq Alive /\ to \in Alive) \/ (from \subseteq Dead /\ to \in Dead)
  BY <1>2
<1>4. /\ PodsKept /\ UNCHANGED <<addEvents, memory, informer, ticker>>
      /\ \A q \in PodNames : q # p => pods'[q] = pods[q]
      /\ pods[p].phase \in from
  BY <1>1, <1>3, PhaseStepFacts
<1>5. p \in Used /\ pods'[p].phase = to /\ pods'[p].node = pods[p].node
  BY <1>1, <1>3, <1>4, UsedFacts DEF PhaseStep, PodsOK, Pod
<1>6. Used' = Used
  BY <1>1, <1>3, <1>4, <1>5 DEF Used, Phases
<1>7. \A q \in Used : (There(q)' <=> There(q)) /\ (Over(q)' <=> Over(q))
  <2> SUFFICES ASSUME NEW q \in Used
               PROVE  (There(q)' <=> There(q)) /\ (Over(q)' <=> Over(q))
    OBVIOUS
  <2>1. CASE q = p
    BY <1>3, <1>4, <1>5, <2>1 DEF There, Over
  <2>2. CASE q # p
    BY <1>1, <1>4, <2>2 DEF There, Over
  <2> QED
    BY <2>1, <2>2
<1>8. \A q \in Used : pods'[q].node = pods[q].node
  BY <1>1, <1>4, <1>5
<1>9. \A q \in Used : There(q)' \/ Over(q)'
  BY <1>1, <1>7 DEF Kin
<1>10. Settled /\ Steady /\ SameEvents(s)
  BY <1>4, <1>6, <1>7, <1>8, <1>9 DEF Settled, Steady, PodsKept, SameEvents
<1>11. informer[s].pc = "expand" => informer[s].left \in Nat /\ informer[s].left <= informer[s].left
  BY <1>1 DEF Informer
<1> QED
  BY <1>1, <1>4, <1>10, <1>11, InformerSettled DEF Expands

(* A template that is submitted asks for nothing until it is handled.      *)
LEMMA SubmitFamily ==
  ASSUME NEW s \in Schedulers, Counting(s), NEW a \in Apps, NEW k \in Manifests, Submit(a, k, s)
  PROVE  Family(s)'
<1> DEFINE new == [app |-> a, kind |-> "template", cluster |-> Home[s], node |-> None,
                   phase |-> "Pending", from |-> None]
<1>1. /\ PodsOK /\ EventsOK /\ Used \subseteq PodNames /\ Kin /\ Known(s) /\ Expands(s)
  BY CountingFacts
<1>2. k = "template"
  BY DEF Counting, Alone
<1>3. PICK x \in PodNames \ Used : x = NewName
  BY <1>1, UsedFacts DEF Submit, Added
<1>4. /\ pods' = [pods EXCEPT ![x] = new] /\ addEvents'[s] = addEvents[s] \cup {x}
      /\ UNCHANGED <<memory, informer, ticker>>
  BY <1>2, <1>3 DEF Submit, Added
<1>5. pods'[x] = new /\ \A p \in PodNames : p # x => pods'[p] = pods[p]
  BY <1>1, <1>3, <1>4 DEF PodsOK
<1>6. Used' = Used \cup {x} /\ \A p \in Used : pods'[p] = pods[p]
  BY <1>1, <1>3, <1>5 DEF Used
<1>7. \A p \in Used : (There(p)' <=> There(p)) /\ (Over(p)' <=> Over(p))
  BY <1>6 DEF There, Over
<1>8. Kin'
  <2>1. There(x)'
    BY <1>5 DEF There
  <2>2. \A p \in Used' : There(p)' \/ Over(p)'
    BY <1>1, <1>6, <1>7, <2>1 DEF Kin
  <2>3. \A p \in Used' : \/ pods'[p].kind = "generated"
                         \/ pods'[p].kind = "template" /\ pods'[p].node = None
    BY <1>1, <1>5, <1>6 DEF Kin
  <2> QED
    BY <2>2, <2>3 DEF Kin
<1>9. Steady /\ Lasting
  BY <1>6, <1>7 DEF Steady, Lasting
<1>10. /\ desiredApps'[s] = desiredApps[s] /\ podsByName'[s] = podsByName[s]
       /\ ticker'[s] = ticker[s] /\ informer'[s] = informer[s]
  BY <1>4 DEF memory
<1>11. Names(s)' \subseteq Names(s) /\ Known(s)' /\ Renewed(s)'
  BY <1>9, <1>10, MemorySame DEF Enforcing
<1>12. Enforces(s)'
  BY <1>9, <1>10, <1>11, EnforcesSame
<1>13. Expands(s)'
  BY <1>1, <1>9, <1>10 DEF Expands, Replica, Lasting
<1>14. ASSUME NEW b \in Apps PROVE Enough(s, b)'
  <2>1. Requests(b)' \in {Requests(b), Requests(b) \cup {x}}
    <3>1. \A p \in PodNames : p # x => (p \in Requests(b)' <=> p \in Requests(b))
      BY <1>5, <1>6 DEF Requests
    <3> QED
      BY <1>1, <1>3, <1>6, <3>1 DEF Requests
  <2>2. IsFiniteSet(Requests(b)) => IsFiniteSet(Requests(b)')
    <3>1. IsFiniteSet(Requests(b)) => IsFiniteSet(Requests(b) \cup {x})
      BY FS_AddElement
    <3> QED
      BY <2>1, <3>1
  <2>3. Taken(s, b)' = Taken(s, b)
    <3>1. x \notin Requests(b)
      BY <1>3 DEF Requests
    <3> QED
      BY <1>4, <2>1, <3>1 DEF Taken
  <2>4. Slots(s, b)' \subseteq Slots(s, b)
    <3> SUFFICES ASSUME NEW p \in Slots(s, b)' PROVE p \in Slots(s, b)
      OBVIOUS
    <3>1. p \in Used /\ pods'[p] = pods[p]
      BY <1>5, <1>6 DEF Slots, Replica
    <3>2. There(p) \/ p \in Names(s)
      BY <1>7, <1>11, <3>1 DEF Slots
    <3> QED
      BY <3>1, <3>2 DEF Slots, Replica
  <2>5. Left(s, b)' = Left(s, b) /\ Half(s, b)' = Half(s, b) /\ Left(s, b) \in Nat
    BY <1>9, <1>10, LeftSame, HalfSame, CountingNumbers
  <2>6. Left(s, b)' \in Nat /\ Left(s, b)' <= Left(s, b)
    BY <2>5
  <2>7. SameRequests(s, b)
    BY <2>2, <2>3 DEF SameRequests
  <2> QED
    BY <2>4, <2>5, <2>6, <2>7, EnoughLess
<1> QED
  BY <1>8, <1>11, <1>12, <1>13, <1>14 DEF Family

-----------------------------------------------------------------------------
(* The whole specification.                                                *)

(* A calm run stays calm.                                                  *)
LEMMA CalmNext ==
  ASSUME IInv, Alone, Calm, Next
  PROVE  Calm'
<1>1. BudgetOK /\ ~ Fails
  BY TypeParts DEF IInv, Calm, Fails
<1> DEFINE Same == budget' = budget
<1>2. ASSUME NEW s \in Schedulers, InformerStep(s) PROVE Same
  BY <1>1, <1>2 DEF InformerStep, AddTemplate, AddPod, ExpandReplica, DeleteTemplate,
     ScheduleFails, BindLocal, CreateRemote, DeleteOriginal, Track, Panic,
     Create, CreateFails, Delete, DeleteFails, Answers
<1>3. ASSUME NEW s \in Schedulers, TickerStep(s) PROVE Same
  BY <1>1, <1>3 DEF TickerStep, Tick, ReconcileList, EnforceList, Keep, Move, MoveDelete,
     ReconcileDone, EnforceApp, EnforceDelete, Respawn, StartRespawn, EnforceAppDone,
     EnforceDone, Create, CreateFails, Delete, DeleteFails, Answers
<1>4. ASSUME NEW s \in Schedulers PROVE ~ Crash(s)
  BY DEF Crash, Calm
<1>5. ASSUME NEW p \in PodNames, KubeletStep(p) PROVE Same
  BY <1>5 DEF KubeletStep, KubeletStart, PendTooLong, Terminated, Answers
<1>6. ASSUME NEW p \in PodNames PROVE ~ Lose(p)
  BY DEF Lose, Calm
<1>7. ASSUME NEW p \in PodNames, End(p) PROVE Calm'
  BY <1>1, <1>7 DEF End, Calm, BudgetOK
<1>8. ASSUME NEW a \in Apps, NEW k \in Manifests, NEW s \in Schedulers, Submit(a, k, s)
      PROVE  Calm'
  BY <1>1, <1>8 DEF Submit, Calm, BudgetOK
<1>9. Same => Calm'
  BY DEF Calm
<1> QED
  BY <1>2, <1>3, <1>4, <1>5, <1>6, <1>7, <1>8, <1>9 DEF Next

(* At the start there is nothing to count.                                 *)
LEMMA CountInit ==
  ASSUME ConstantsAssumption, Alone, Init
  PROVE  CountInv
<1>1. Calm
  BY DEF Init, Calm, Alone
<1>2. Used = {}
  BY DEF Init, Used, NoPod
<1>3. ASSUME NEW s \in Schedulers PROVE Family(s)
  <2>1. /\ informer[s].pc = "idle" /\ ticker[s].pc = "idle"
        /\ \A d \in PodNames : podsByName[s][d] = {}
    BY DEF Init, InformerIdle, TickerIdle
  <2>2. Kin /\ Known(s) /\ Expands(s)
    BY <1>2, <2>1 DEF Kin, Known, Expands
  <2>3. Enforces(s)
    BY <2>1 DEF Enforces, Moves, Replaces, Renewed, Enforcing
  <2>4. ASSUME NEW a \in Apps PROVE Enough(s, a)
    <3>1. Slots(s, a) = {} /\ Requests(a) = {} /\ Taken(s, a) = {}
      BY <1>2 DEF Slots, Requests, Taken
    <3>2. IsFiniteSet({}) /\ Cardinality({}) = 0
      BY FS_EmptySet
    <3>3. Left(s, a) = 0 /\ Half(s, a) = 0
      BY <2>1 DEF Left, Half
    <3>4. Replicas[a] \in Nat
      BY DEF ConstantsAssumption
    <3>5. 0 + 0 <= Replicas[a] * 0 + 0
      BY <3>4
    <3> QED
      BY <3>1, <3>2, <3>3, <3>5 DEF Enough
  <2> QED
    BY <2>2, <2>3, <2>4 DEF Family
<1> QED
  BY <1>1, <1>3 DEF CountInv

(* CountInv is inductive, given IInv.                                      *)
LEMMA CountNext ==
  ASSUME IInv, ConstantsAssumption, Alone, CountInv, Next
  PROVE  CountInv'
<1>1. Calm /\ Calm'
  BY CalmNext DEF CountInv
<1> SUFFICES ASSUME NEW s \in Schedulers PROVE Family(s)'
  BY <1>1 DEF CountInv
<1>2. Counting(s)
  BY DEF Counting, CountInv
<1>3. \A u \in Schedulers : u = s
  BY DEF Alone
<1>4. ASSUME NEW u \in Schedulers, InformerStep(u) \/ TickerStep(u) PROVE Family(s)'
  <2>1. InformerStep(s) \/ TickerStep(s)
    BY <1>3, <1>4
  <2> QED
    BY <1>2, <2>1, InformerFamily, TickerFamily
<1>5. ASSUME NEW u \in Schedulers PROVE ~ Crash(u)
  BY <1>1 DEF Crash, Calm
<1>6. ASSUME NEW p \in PodNames, KubeletStep(p) \/ End(p) PROVE Family(s)'
  BY <1>2, <1>6, KubeletFamily
<1>7. ASSUME NEW p \in PodNames PROVE ~ Lose(p)
  BY <1>1 DEF Lose, Calm
<1>8. ASSUME NEW a \in Apps, NEW k \in Manifests, NEW u \in Schedulers, Submit(a, k, u)
      PROVE  Family(s)'
  <2>1. Submit(a, k, s)
    BY <1>3, <1>8
  <2> QED
    BY <1>2, <2>1, SubmitFamily
<1> QED
  BY <1>4, <1>5, <1>6, <1>7, <1>8 DEF Next

(* A run that does nothing does not lose count.                            *)
LEMMA CountStutter ==
  ASSUME IInv, ConstantsAssumption, Alone, CountInv, UNCHANGED vars
  PROVE  CountInv'
<1>1. UNCHANGED <<pods, addEvents, memory, informer, ticker>> /\ Calm'
  BY DEF vars, memory, CountInv, Calm
<1> SUFFICES ASSUME NEW s \in Schedulers PROVE Family(s)'
  BY <1>1 DEF CountInv
<1>2. Counting(s)
  BY DEF Counting, CountInv
<1>3. Kin /\ Expands(s) /\ informer[s] \in Informer
  BY <1>2, CountingFacts
<1>4. Settled /\ Steady /\ SameEvents(s)
  BY <1>1, <1>3, SameSettled DEF SameEvents
<1>5. informer[s].left \in Nat /\ informer[s].left <= informer[s].left
  BY <1>3 DEF Informer
<1> QED
  BY <1>1, <1>2, <1>3, <1>4, <1>5, InformerSettled DEF Expands

(* The replicas that are alive are among those that hold a place, and the  *)
(* templates handled among those submitted.                                *)
LEMMA CountBounds ==
  ASSUME IInv, ConstantsAssumption, Alone, CountInv
  PROVE  NoSurplus
<1> SUFFICES ASSUME NEW a \in Apps
             PROVE  Cardinality(ReplicasOf(a))
                      <= Replicas[a] * Cardinality(Requests(a)) + Cardinality(Moving)
  BY DEF NoSurplus
<1>1. PICK s : Schedulers = {s}
  BY DEF Alone
<1>2. Counting(s) /\ s \in Schedulers
  BY <1>1 DEF Counting, CountInv
<1>3. /\ IsFiniteSet(Slots(s, a)) /\ IsFiniteSet(Requests(a))
      /\ Cardinality(Slots(s, a)) + Left(s, a)
           <= Replicas[a] * Cardinality(Taken(s, a)) + Half(s, a)
  BY <1>2, CountingFacts DEF Enough
<1>4. /\ Left(s, a) \in Nat /\ Half(s, a) \in {0, 1} /\ Replicas[a] \in Nat
      /\ Cardinality(Taken(s, a)) \in Nat
  BY <1>2, CountingNumbers
<1>5. Cardinality(ReplicasOf(a)) <= Cardinality(Slots(s, a))
  <2>1. ReplicasOf(a) \in SUBSET Slots(s, a)
    BY DEF ReplicasOf, Slots, Replica, There, Live
  <2> QED
    BY <1>3, <2>1, FS_Subset
<1>6. Cardinality(Taken(s, a)) <= Cardinality(Requests(a))
  <2>1. Taken(s, a) \in SUBSET Requests(a)
    BY DEF Taken
  <2> QED
    BY <1>3, <2>1, FS_Subset
<1>7. Half(s, a) <= Cardinality(Moving) /\ Cardinality(Moving) \in Nat
  <2>1. CASE ticker[s].pc = "moveDelete"
    <3>1. Moving = {s}
      BY <1>1, <2>1 DEF Moving
    <3>2. Cardinality(Moving) = 1
      BY <3>1, FS_Singleton
    <3> QED
      BY <1>4, <3>2
  <2>2. CASE ticker[s].pc # "moveDelete"
    <3>1. Moving = {} /\ Half(s, a) = 0
      BY <1>1, <2>2 DEF Moving, Half
    <3>2. Cardinality(Moving) = 0
      BY <3>1, FS_EmptySet
    <3> QED
      BY <3>1, <3>2
  <2> QED
    BY <2>1, <2>2
<1>8. /\ Cardinality(Slots(s, a)) \in Nat /\ Cardinality(Requests(a)) \in Nat
      /\ Cardinality(ReplicasOf(a)) \in Nat
  <2>1. IsFiniteSet(ReplicasOf(a))
    <3>1. ReplicasOf(a) \in SUBSET Slots(s, a)
      BY DEF ReplicasOf, Slots, Replica, There, Live
    <3> QED
      BY <1>3, <3>1, FS_Subset
  <2> QED
    BY <1>3, <2>1, FS_CardinalityType
<1>9. \A r, m, n \in Nat : m <= n => r * m <= r * n /\ r * m \in Nat /\ r * n \in Nat
  <2> SUFFICES ASSUME NEW r \in Nat, NEW m \in Nat, NEW n \in Nat, m <= n
               PROVE  r * m <= r * n /\ r * m \in Nat /\ r * n \in Nat
    OBVIOUS
  <2>1. PICK i \in Nat : n = m + i
    <3>1. n - m \in Nat /\ n = m + (n - m)
      OBVIOUS
    <3> QED
      BY <3>1
  <2>2. r * n = r * m + r * i /\ r * m \in Nat /\ r * i \in Nat
    BY <2>1
  <2> QED
    BY <2>2
<1>10. PICK m \in Nat, n \in Nat : /\ m = Replicas[a] * Cardinality(Taken(s, a))
                                   /\ n = Replicas[a] * Cardinality(Requests(a)) /\ m <= n
  BY <1>4, <1>6, <1>8, <1>9
<1>11. Cardinality(Slots(s, a)) + Left(s, a) <= m + Half(s, a)
  BY <1>3, <1>10
<1>12. Cardinality(ReplicasOf(a)) <= n + Cardinality(Moving)
  BY <1>4, <1>5, <1>7, <1>8, <1>10, <1>11
<1> QED
  BY <1>10, <1>12

(* In one cluster with one scheduler, whatever templates of whatever apps  *)
(* are submitted, when no call fails, nothing is deleted by others and no  *)
(* pod succeeds (its containers are restarted), ReconcilePods and          *)
(* EnforceDesired together never give an app more live replicas than the   *)
(* annotations of its templates ask for, plus the copy of a move in        *)
(* progress: a replica is counted, doomed or over when EnforceDesired      *)
(* replaces a name (scheduler.go:334-372), a copy takes the name of the    *)
(* pod it was made from (scheduler.go:279-284), and a declaration that is  *)
(* replaced while EnforceDesired works on it knows no name that the new    *)
(* one knows (scheduler.go:125-132).                                       *)
THEOREM NoSurplusHolds == ASSUME Alone PROVE Spec => []NoSurplus
<1>1. Init => CountInv
  BY CountInit, ConstantsAssumption
<1>2. IInv /\ CountInv /\ [Next]_vars => CountInv'
  BY CountNext, CountStutter, ConstantsAssumption
<1>3. IInv /\ CountInv => NoSurplus
  BY CountBounds, ConstantsAssumption
<1> QED
  BY <1>1, <1>2, <1>3, Invariance, PTL DEF Spec
=============================================================================
