------------------------------ MODULE Scheduler ------------------------------
(***************************************************************************)
(* The replica life cycle of proxima-scheduler/scheduler/scheduler.go: one *)
(* scheduler process per element of Schedulers, each with two goroutines:  *)
(*   - the informer, which runs AddFunc on the pods added in its own       *)
(*     ("local") cluster: it expands a pod that asks for replicas and      *)
(*     schedules every other one;                                          *)
(*   - the ticker, which runs ReconcilePods and then EnforceDesired over   *)
(*     the pods of all clusters.                                           *)
(* They share DesiredApps, an in-memory map that no lock protects, and the *)
(* API servers of the clusters.  A step is one call of an API server with  *)
(* the in-memory bookkeeping that follows it.  Which node is chosen, and   *)
(* whether a placed pod is worth moving, is left open here.                *)
(***************************************************************************)
EXTENDS Naturals, FiniteSets

CONSTANTS
  Schedulers,   \* scheduler processes (one DaemonSet pod each)
  Clusters,     \* the clusters all of them hold a clientset for
  Home,         \* Home[s]: the cluster s calls "local"
  Nodes,        \* worker nodes of all clusters
  ClusterOf,    \* ClusterOf[n]: the cluster of node n
  Apps,         \* values of the label "app"
  Limited,      \* the apps whose pods carry max-latency-ms
  Replicas,     \* Replicas[a]: the replicas annotation of a's manifest
  Manifests,    \* kinds of pods users submit: "template" and/or "plain"
  PodNames,     \* the pod names a behaviour may use, in order of use
  Budget,       \* how many pods are submitted, calls fail, pods fail or
                \* are lost, and processes crash, in one behaviour
  Ends,         \* how containers end: a pod with restartPolicy Always, the default,
                \* may be "Failed" (evicted), but is never "Succeeded"
  None

ASSUME ConstantsAssumption ==
  /\ Home \in [Schedulers -> Clusters]
  /\ ClusterOf \in [Nodes -> Clusters]
  /\ Limited \subseteq Apps
  /\ Replicas \in [Apps -> Nat]
  /\ Manifests \subseteq {"template", "plain"}
  /\ Budget \in [submit : Nat, fault : Nat, failure : Nat, loss : Nat, crash : Nat]
  /\ Ends \subseteq {"Failed", "Succeeded"}
  /\ None \notin PodNames \cup Nodes

VARIABLES
  pods,         \* the API servers: every pod ever created, by name
  addEvents,    \* addEvents[s]: pods whose Add event s has yet to handle
  desiredApps,  \* DesiredApps of s: app -> the pod it was declared by
  podsByName,   \* PodsByName of the DesiredApp declared by a pod
  informer,     \* locals of the informer goroutine of s
  ticker,       \* locals of the ticker goroutine of s
  budget        \* what is left of Budget

memory == <<desiredApps, podsByName>>
api    == <<pods, addEvents>>
vars   == <<pods, addEvents, desiredApps, podsByName, informer, ticker, budget>>

(* "Stuck" is a pod pending for more than 60s, "Terminating" one with a    *)
(* DeletionTimestamp; a name that was never used has the record NoPod.     *)
Phases == {"Pending", "Stuck", "Running", "Failed", "Succeeded", "Terminating", "Gone"}
NoPod  == [phase |-> "Unused"]
Pod    == [app : Apps, kind : {"template", "plain", "generated"},
           cluster : Clusters, node : Nodes \cup {None},
           phase : Phases, from : PodNames \cup {None}]

Informer == [pc : {"idle", "expand", "schedule", "delete", "track"},
             pod : PodNames \cup {None}, left : Nat, copy : PodNames \cup {None}]
InformerIdle == [pc |-> "idle", pod |-> None, left |-> 0, copy |-> None]

Ticker == [pc : {"idle", "reconcile", "moveDelete", "enforce", "list", "respawn"},
           clusters : SUBSET Clusters, todo : SUBSET PodNames,
           found : SUBSET PodNames, apps : SUBSET Apps,
           pod : PodNames \cup {None}, copy : PodNames \cup {None},
           obj : PodNames \cup {None}]
TickerIdle == [pc |-> "idle", clusters |-> {}, todo |-> {}, found |-> {},
               apps |-> {}, pod |-> None, copy |-> None, obj |-> None]

TypeOK ==
  /\ pods \in [PodNames -> Pod \cup {NoPod}]
  /\ addEvents \in [Schedulers -> SUBSET PodNames]
  /\ desiredApps \in [Schedulers -> [Apps -> PodNames \cup {None}]]
  /\ podsByName \in [Schedulers -> [PodNames -> SUBSET PodNames]]
  /\ informer \in [Schedulers -> Informer]
  /\ ticker \in [Schedulers -> Ticker]
  /\ budget \in [submit : Nat, fault : Nat, failure : Nat, loss : Nat, crash : Nat]

Init ==
  /\ pods = [p \in PodNames |-> NoPod]
  /\ addEvents = [s \in Schedulers |-> {}]
  /\ desiredApps = [s \in Schedulers |-> [a \in Apps |-> None]]
  /\ podsByName = [s \in Schedulers |-> [p \in PodNames |-> {}]]
  /\ informer = [s \in Schedulers |-> InformerIdle]
  /\ ticker = [s \in Schedulers |-> TickerIdle]
  /\ budget = Budget

-----------------------------------------------------------------------------
(* The API servers.                                                        *)

Used   == {p \in PodNames : pods[p].phase # "Unused"}
NewName == CHOOSE p \in PodNames : pods[p].phase = "Unused"
Live(p) == pods[p].phase \in {"Pending", "Stuck", "Running"}
InCluster(c) == {p \in Used : pods[p].cluster = c}
(* Listed without a DeletionTimestamp.                                     *)
Present(c) == {p \in InCluster(c) : pods[p].phase \notin {"Terminating", "Gone"}}
Unscheduled(c) == {p \in Present(c) : pods[p].node = None}

(* A call that answers costs nothing; one that fails spends a fault.       *)
Answers == UNCHANGED budget
Fails   == budget.fault > 0 /\ budget' = [budget EXCEPT !.fault = @ - 1]

(* Pods(ns).Create: the new name never collides (hash of the current       *)
(* time); the Add event of a pod that has a node fails AddFunc's filter    *)
(* and is not kept.                                                        *)
Added(a, k, c, n, from) ==
  /\ Used # PodNames
  /\ pods' = [pods EXCEPT ![NewName] =
       [app |-> a, kind |-> k, cluster |-> c, node |-> n,
        phase |-> "Pending", from |-> from]]
  /\ addEvents' = [s \in Schedulers |->
       IF n = None /\ Home[s] = c THEN addEvents[s] \cup {NewName} ELSE addEvents[s]]

Create(a, k, c, n, from) == Added(a, k, c, n, from) /\ Answers
CreateFails == (Fails \/ (Used = PodNames /\ Answers)) /\ UNCHANGED api

(* Pods(ns).Delete: a placed pod terminates gracefully, one that is not    *)
(* placed or has ended is removed at once, one that is gone is NotFound.   *)
AtOnce(p) == pods[p].node = None \/ pods[p].phase \in {"Failed", "Succeeded"}
Delete(p) ==
  /\ pods[p].phase \notin {"Unused", "Gone"}
  /\ pods' = [pods EXCEPT ![p].phase = IF AtOnce(p) THEN "Gone" ELSE "Terminating"]
  /\ UNCHANGED addEvents
  /\ Answers

DeleteFails(p) == (Fails \/ (pods[p].phase = "Gone" /\ Answers)) /\ UNCHANGED api

-----------------------------------------------------------------------------
(* The informer goroutine.                                                 *)

(* MUTANT of AddTemplate: the app is not declared.                         *)
AddUndeclared(s, p) ==
  /\ informer[s].pc = "idle" /\ p \in addEvents[s] /\ pods[p].kind = "template"
  /\ addEvents' = [addEvents EXCEPT ![s] = @ \ {p}]
  /\ informer' = [informer EXCEPT ![s] =
       [pc |-> "expand", pod |-> p, left |-> Replicas[pods[p].app], copy |-> None]]
  /\ UNCHANGED <<pods, memory, ticker, budget>>

(* AddFunc, replicas annotation: declare the app (forgetting an earlier    *)
(* declaration) and start on the copies.                                   *)
AddTemplate(s, p) ==
  /\ informer[s].pc = "idle" /\ p \in addEvents[s] /\ pods[p].kind = "template"
  /\ addEvents' = [addEvents EXCEPT ![s] = @ \ {p}]
  /\ desiredApps' = [desiredApps EXCEPT ![s][pods[p].app] = p]
  /\ podsByName' = [podsByName EXCEPT ![s][p] = {}]
  /\ informer' = [informer EXCEPT ![s] =
       [pc |-> "expand", pod |-> p, left |-> Replicas[pods[p].app], copy |-> None]]
  /\ UNCHANGED <<pods, ticker, budget>>

(* MUTANT of ExpandReplica: the loop runs once more (i <= replicas).       *)
ExpandOnceMore(s) ==
  LET t == informer[s].pod IN
  /\ informer[s].pc = "expand"
  /\ Create(pods[t].app, "generated", Home[s], None, t) \/ CreateFails
  /\ informer' = [informer EXCEPT ![s].left = @ - 1]
  /\ UNCHANGED <<memory, ticker>>

(* The body of the replica loop: one Create, whose failure is only logged. *)
ExpandReplica(s) ==
  LET t == informer[s].pod IN
  /\ informer[s].pc = "expand" /\ informer[s].left > 0
  /\ \/ Create(pods[t].app, "generated", Home[s], None, t)
     \/ CreateFails
  /\ informer' = [informer EXCEPT ![s].left = @ - 1]
  /\ UNCHANGED <<memory, ticker>>

(* The template is deleted after the loop; an error is ignored.            *)
DeleteTemplate(s) ==
  /\ informer[s].pc = "expand" /\ informer[s].left = 0
  /\ Delete(informer[s].pod) \/ DeleteFails(informer[s].pod)
  /\ informer' = [informer EXCEPT ![s] = InformerIdle]
  /\ UNCHANGED <<memory, ticker>>

(* MUTANT of AddPod: a pod with the replicas annotation is scheduled too.  *)
AddAnyPod(s, p) ==
  /\ informer[s].pc = "idle" /\ p \in addEvents[s]
  /\ addEvents' = [addEvents EXCEPT ![s] = @ \ {p}]
  /\ informer' = [informer EXCEPT ![s] =
       [pc |-> "schedule", pod |-> p, left |-> 0, copy |-> None]]
  /\ UNCHANGED <<pods, memory, ticker, budget>>

(* AddFunc, generated pod or pod without the annotation: schedulePod.      *)
AddPod(s, p) ==
  /\ informer[s].pc = "idle" /\ p \in addEvents[s] /\ pods[p].kind # "template"
  /\ addEvents' = [addEvents EXCEPT ![s] = @ \ {p}]
  /\ informer' = [informer EXCEPT ![s] =
       [pc |-> "schedule", pod |-> p, left |-> 0, copy |-> None]]
  /\ UNCHANGED <<pods, memory, ticker, budget>>

(* schedulePod gives up: no scores, no suitable node, node lookup failed,  *)
(* or Bind or the remote Create failed.  Nothing retries it.               *)
ScheduleFails(s) ==
  /\ informer[s].pc = "schedule"
  /\ CreateFails
  /\ informer' = [informer EXCEPT ![s] = InformerIdle]
  /\ UNCHANGED <<memory, ticker>>

(* schedulePod, the chosen node is local: bind and return.  Bind answers   *)
(* an error when the pod is gone or already bound.                         *)
BindLocal(s, n) ==
  LET p == informer[s].pod IN
  /\ informer[s].pc = "schedule" /\ ClusterOf[n] = Home[s]
  /\ pods' = IF Live(p) /\ pods[p].node = None
             THEN [pods EXCEPT ![p].node = n] ELSE pods
  /\ informer' = [informer EXCEPT ![s] = InformerIdle]
  /\ UNCHANGED <<addEvents, memory, ticker, budget>>

(* MUTANT of CreateRemote: the original is deleted before the Create.      *)
CreateAfterDelete(s, n) ==
  /\ informer[s].pc = "schedule" /\ ClusterOf[n] # Home[s]
  /\ Delete(informer[s].pod)
  /\ informer' = [informer EXCEPT ![s] = InformerIdle]
  /\ UNCHANGED <<memory, ticker>>

(* schedulePod, the chosen node is remote: create the copy there.          *)
CreateRemote(s, n) ==
  LET p == informer[s].pod IN
  /\ informer[s].pc = "schedule" /\ ClusterOf[n] # Home[s]
  /\ Create(pods[p].app, pods[p].kind, ClusterOf[n], n, p)
  /\ informer' = [informer EXCEPT ![s].pc = "delete", ![s].copy = NewName]
  /\ UNCHANGED <<memory, ticker>>

(* ... delete the original; a failure is only logged ...                   *)
DeleteOriginal(s) ==
  /\ informer[s].pc = "delete"
  /\ Delete(informer[s].pod) \/ DeleteFails(informer[s].pod)
  /\ informer' = [informer EXCEPT ![s].pc = "track"]
  /\ UNCHANGED <<memory, ticker>>

(* The state of s after its process died and was started again: memory is  *)
(* empty and the informer lists the unplaced local pods anew.              *)
Restarted(s) ==
  /\ desiredApps' = [desiredApps EXCEPT ![s] = [a \in Apps |-> None]]
  /\ podsByName' = [podsByName EXCEPT ![s] = [p \in PodNames |-> {}]]
  /\ informer' = [informer EXCEPT ![s] = InformerIdle]
  /\ ticker' = [ticker EXCEPT ![s] = TickerIdle]
  /\ addEvents' = [addEvents EXCEPT ![s] = Unscheduled(Home[s])]
  /\ UNCHANGED pods

Declared(s, a) == desiredApps[s][a] # None

(* ... and record the copy in DesiredApps[app], whose absence is not       *)
(* checked: a nil dereference that ends the process.                       *)
Track(s) ==
  LET copy == informer[s].copy
      app  == pods[copy].app IN
  /\ informer[s].pc = "track"
  /\ Declared(s, app)
  /\ podsByName' = [podsByName EXCEPT ![s][desiredApps[s][app]] = @ \cup {copy}]
  /\ informer' = [informer EXCEPT ![s] = InformerIdle]
  /\ UNCHANGED <<api, desiredApps, ticker, budget>>

Panic(s) ==
  /\ informer[s].pc = "track" /\ ~Declared(s, pods[informer[s].copy].app)
  /\ Restarted(s)
  /\ Answers

-----------------------------------------------------------------------------
(* The ticker goroutine: ReconcilePods.                                    *)

StartEnforce(s) == [TickerIdle EXCEPT !.pc = "enforce", !.apps = {a \in Apps : Declared(s, a)}]

(* A tick: GetNodeScores answers, or ReconcilePods returns and             *)
(* EnforceDesired runs.                                                    *)
Tick(s) ==
  /\ ticker[s].pc = "idle"
  /\ \/ Answers /\ ticker' = [ticker EXCEPT ![s] =
           [TickerIdle EXCEPT !.pc = "reconcile", !.clusters = Clusters]]
     \/ Fails /\ ticker' = [ticker EXCEPT ![s] = StartEnforce(s)]
  /\ UNCHANGED <<api, memory, informer>>

(* List the pods of one more cluster; a failed list skips the cluster.     *)
(* Pods without a node or being deleted are passed over.                   *)
ReconcileList(s, c) ==
  /\ ticker[s].pc = "reconcile" /\ ticker[s].todo = {} /\ c \in ticker[s].clusters
  /\ \/ Answers /\ ticker' = [ticker EXCEPT ![s].clusters = @ \ {c},
                                            ![s].todo = Present(c) \ Unscheduled(c)]
     \/ Fails /\ ticker' = [ticker EXCEPT ![s].clusters = @ \ {c}]
  /\ UNCHANGED <<api, memory, informer>>

(* Pods with a latency limit are handled before the others of the list.    *)
NextInList(s, p) ==
  /\ ticker[s].pc = "reconcile" /\ p \in ticker[s].todo
  /\ pods[p].app \in Limited \/ \A q \in ticker[s].todo : pods[q].app \notin Limited

(* handlePodReconciliation leaves the pod where it is: its node is good    *)
(* enough, or a lookup, the choice of a node or the Create failed.         *)
Keep(s, p) ==
  /\ NextInList(s, p)
  /\ ticker' = [ticker EXCEPT ![s].todo = @ \ {p}]
  /\ UNCHANGED <<api, memory, informer, budget>>

Retracked(s, old, new) ==
  LET d == desiredApps[s][pods[old].app] IN
  IF d = None THEN podsByName
  ELSE [podsByName EXCEPT ![s][d] = (@ \ {old}) \cup {new}]

(* MUTANT of Move: the original is deleted before its copy is created.     *)
MoveBreaksFirst(s, p, n) ==
  /\ NextInList(s, p)
  /\ Delete(p)
  /\ ticker' = [ticker EXCEPT ![s].todo = @ \ {p}]
  /\ UNCHANGED <<memory, informer>>

(* reschedulePod: create a copy on the chosen node, track it instead of    *)
(* the original ...                                                        *)
Move(s, p, n) ==
  /\ NextInList(s, p)
  /\ Create(pods[p].app, pods[p].kind, ClusterOf[n], n, p)
  /\ podsByName' = Retracked(s, p, NewName)
  /\ ticker' = [ticker EXCEPT ![s].todo = @ \ {p}, ![s].pc = "moveDelete",
                              ![s].pod = p, ![s].copy = NewName]
  /\ UNCHANGED <<desiredApps, informer>>

(* ... then delete the original, or else undo the bookkeeping (the copy    *)
(* stays).                                                                 *)
MoveDelete(s) ==
  LET p == ticker[s].pod IN
  /\ ticker[s].pc = "moveDelete"
  /\ \/ Delete(p) /\ UNCHANGED podsByName
     \/ DeleteFails(p) /\ podsByName' = Retracked(s, ticker[s].copy, p)
  /\ ticker' = [ticker EXCEPT ![s].pc = "reconcile", ![s].pod = None, ![s].copy = None]
  /\ UNCHANGED <<desiredApps, informer>>

ReconcileDone(s) ==
  /\ ticker[s].pc = "reconcile" /\ ticker[s].todo = {} /\ ticker[s].clusters = {}
  /\ ticker' = [ticker EXCEPT ![s] = StartEnforce(s)]
  /\ UNCHANGED <<api, memory, informer, budget>>

-----------------------------------------------------------------------------
(* The ticker goroutine: EnforceDesired.                                   *)

(* Take the next declared app; its DesiredApp is the one found now, also   *)
(* when a new declaration replaces it meanwhile.                           *)
EnforceApp(s, a) ==
  /\ ticker[s].pc = "enforce" /\ a \in ticker[s].apps
  /\ ticker' = [ticker EXCEPT ![s].apps = @ \ {a}, ![s].pc = "list",
                              ![s].clusters = Clusters, ![s].obj = desiredApps[s][a]]
  /\ UNCHANGED <<api, memory, informer, budget>>

AppPods(c, a) == {p \in Present(c) : pods[p].app = a}
(* MUTANT of Counted: only running pods count.                             *)
CountedRunning(c, a) == {p \in AppPods(c, a) : pods[p].phase = "Running"}
Counted(c, a) == {p \in AppPods(c, a) : pods[p].phase \in {"Running", "Pending"}}
(* MUTANT of Doomed: a pod that hangs in Pending is left alone.            *)
DoomedFailed(c, a) == {p \in AppPods(c, a) : pods[p].phase = "Failed"}
Doomed(c, a)  == {p \in AppPods(c, a) : pods[p].phase \in {"Stuck", "Failed"}}

(* List the app's pods in one more cluster; a failed list skips it.        *)
EnforceList(s, c) ==
  LET a == pods[ticker[s].obj].app IN
  /\ ticker[s].pc = "list" /\ ticker[s].todo = {} /\ c \in ticker[s].clusters
  /\ \/ Answers /\ ticker' = [ticker EXCEPT ![s].clusters = @ \ {c},
                        ![s].found = @ \cup Counted(c, a), ![s].todo = Doomed(c, a)]
     \/ Fails /\ ticker' = [ticker EXCEPT ![s].clusters = @ \ {c}]
  /\ UNCHANGED <<api, memory, informer>>

(* Delete a pod the list showed as failed or pending for too long.         *)
EnforceDelete(s, p) ==
  /\ ticker[s].pc = "list" /\ p \in ticker[s].todo
  /\ Delete(p) \/ DeleteFails(p)
  /\ ticker' = [ticker EXCEPT ![s].todo = @ \ {p}]
  /\ UNCHANGED <<memory, informer>>

(* From here on todo is PodsByName as the range statement finds it.        *)
StartRespawn(s) ==
  /\ ticker[s].pc = "list" /\ ticker[s].todo = {} /\ ticker[s].clusters = {}
  /\ ticker' = [ticker EXCEPT ![s].pc = "respawn",
                              ![s].todo = podsByName[s][ticker[s].obj]]
  /\ UNCHANGED <<api, memory, informer, budget>>

(* MUTANT of Respawn: the missing name is not deleted from PodsByName.     *)
RespawnRemembers(s, p) ==
  LET d == ticker[s].obj IN
  /\ ticker[s].pc = "respawn" /\ p \in podsByName[s][d] \ ticker[s].found
  /\ Create(pods[d].app, "generated", Home[s], None, d) \/ CreateFails
  /\ UNCHANGED <<memory, informer, ticker>>

(* A tracked name that no list showed is forgotten and spawnReplica        *)
(* creates a replica; if that fails nothing remembers it.  A name the      *)
(* informer adds during the range may be visited too.                      *)
Respawn(s, p) ==
  LET d == ticker[s].obj IN
  /\ ticker[s].pc = "respawn" /\ p \in podsByName[s][d] \ ticker[s].found
  /\ podsByName' = [podsByName EXCEPT ![s][d] = @ \ {p}]
  /\ Create(pods[d].app, "generated", Home[s], None, d) \/ CreateFails
  /\ UNCHANGED <<desiredApps, informer, ticker>>

EnforceAppDone(s) ==
  LET t == ticker[s] IN
  /\ t.pc = "respawn" /\ t.todo \cap podsByName[s][t.obj] \subseteq t.found
  /\ ticker' = [ticker EXCEPT ![s] = [TickerIdle EXCEPT !.pc = "enforce", !.apps = t.apps]]
  /\ UNCHANGED <<api, memory, informer, budget>>

EnforceDone(s) ==
  /\ ticker[s].pc = "enforce" /\ ticker[s].apps = {}
  /\ ticker' = [ticker EXCEPT ![s] = TickerIdle]
  /\ UNCHANGED <<api, memory, informer, budget>>

-----------------------------------------------------------------------------
(* The environment: users, kubelets, the passage of time, failures.        *)

(* A pod is submitted in a cluster that has a scheduler.                   *)
Submit(a, k, s) ==
  /\ budget.submit > 0
  /\ Added(a, k, Home[s], None, None)
  /\ budget' = [budget EXCEPT !.submit = @ - 1]
  /\ UNCHANGED <<memory, informer, ticker>>

PhaseStep(p, from, to) ==
  /\ pods[p].phase \in from
  /\ pods' = [pods EXCEPT ![p].phase = to]
  /\ UNCHANGED <<addEvents, memory, informer, ticker>>

KubeletStart(p) ==
  /\ pods[p].phase \in {"Pending", "Stuck"} /\ pods[p].node # None
  /\ PhaseStep(p, {"Pending", "Stuck"}, "Running") /\ Answers
PendTooLong(p) == PhaseStep(p, {"Pending"}, "Stuck") /\ Answers
Terminated(p)  == PhaseStep(p, {"Terminating"}, "Gone") /\ Answers

(* The containers of a pod end; a pod vanishes behind the scheduler's back *)
(* (a user deletes it, its node is lost).                                  *)
End(p) ==
  /\ budget.failure > 0
  /\ budget' = [budget EXCEPT !.failure = @ - 1]
  /\ \E end \in Ends : PhaseStep(p, {"Running"}, end)
Lose(p) ==
  /\ budget.loss > 0
  /\ budget' = [budget EXCEPT !.loss = @ - 1]
  /\ PhaseStep(p, {"Pending", "Stuck", "Running"}, "Gone")

(* The process dies at any point (also: the Go runtime aborts on the       *)
(* unsynchronised accesses to DesiredApps) and is restarted.               *)
Crash(s) ==
  /\ budget.crash > 0
  /\ budget' = [budget EXCEPT !.crash = @ - 1]
  /\ Restarted(s)

-----------------------------------------------------------------------------
InformerStep(s) ==
  \/ \E p \in PodNames : AddTemplate(s, p) \/ AddPod(s, p)
  \/ ExpandReplica(s) \/ DeleteTemplate(s)
  \/ ScheduleFails(s)
  \/ \E n \in Nodes : BindLocal(s, n) \/ CreateRemote(s, n)
  \/ DeleteOriginal(s) \/ Track(s) \/ Panic(s)

TickerStep(s) ==
  \/ Tick(s)
  \/ \E c \in Clusters : ReconcileList(s, c) \/ EnforceList(s, c)
  \/ \E p \in PodNames : Keep(s, p) \/ (\E n \in Nodes : Move(s, p, n))
  \/ MoveDelete(s) \/ ReconcileDone(s)
  \/ \E a \in Apps : EnforceApp(s, a)
  \/ \E p \in PodNames : EnforceDelete(s, p) \/ Respawn(s, p)
  \/ StartRespawn(s) \/ EnforceAppDone(s) \/ EnforceDone(s)

KubeletStep(p) == KubeletStart(p) \/ PendTooLong(p) \/ Terminated(p)

Next ==
  \/ \E s \in Schedulers : InformerStep(s) \/ TickerStep(s) \/ Crash(s)
  \/ \E p \in PodNames : KubeletStep(p) \/ End(p) \/ Lose(p)
  \/ \E a \in Apps, k \in Manifests, s \in Schedulers : Submit(a, k, s)

Spec == Init /\ [][Next]_vars

-----------------------------------------------------------------------------
(* Properties.                                                             *)

(* The step takes the live workload pod p away.                            *)
Broken(p) ==
  /\ Live(p) /\ pods[p].kind # "template"
  /\ pods'[p].phase \in {"Terminating", "Gone"}
(* It was lost from outside, a list showed it doomed, or it has a copy.    *)
Excused(p) ==
  \/ budget'.loss # budget.loss
  \/ \E s \in Schedulers : ticker[s].pc = "list" /\ p \in ticker[s].todo
  \/ \E q \in Used : pods[q].from = p

(* reschedulePod and schedulePod create the successor of a pod before they *)
(* delete it (scheduler.go:224-230, :272-290): no scheduler takes a live   *)
(* workload pod away unless a successor was created, save for a pod that   *)
(* EnforceDesired's list had shown as failed or pending for too long.      *)
MakeBeforeBreak == [][\A p \in PodNames : Broken(p) => Excused(p)]_vars

(* AddFunc schedules a pod without the replicas annotation as it is (:161, *)
(* as k8s/deployment-nginx.yaml submits one), on any node: "Remote         *)
(* cluster, perform a deep copy and schedule" (:215).  When the copy is to *)
(* be tracked, the DesiredApps[app] that schedulePod dereferences without  *)
(* the check reschedulePod makes (:239, :280) is there.                    *)
Panics(s) == informer[s].pc = "track" /\ ~Declared(s, pods[informer[s].copy].app)
NoPanic   == \A s \in Schedulers : ~Panics(s)

(* For an app with the annotation the dereference is safe: it panics only  *)
(* after a plain pod got a copy in another cluster (its own, or one whose  *)
(* panic cost the scheduler its memory), the process was restarted, or     *)
(* another scheduler at home in the same cluster made the replica.         *)
PlainCopied == \E p \in Used : pods[p].kind = "plain" /\ pods[p].from # None
Shared(s)   == \E t \in Schedulers \ {s} : Home[t] = Home[s]
PanicExplained == \A s \in Schedulers :
  Panics(s) => PlainCopied \/ budget.crash # Budget.crash \/ Shared(s)

(* The replicas of app a that exist, the templates that asked for them,    *)
(* and the moves that are half done.                                       *)
ReplicasOf(a) == {p \in Used : pods[p].app = a /\ pods[p].kind = "generated" /\ Live(p)}
Requests(a) == {p \in Used : pods[p].app = a /\ pods[p].kind = "template"}
Moving == {s \in Schedulers : ticker[s].pc = "moveDelete"}

(* EnforceDesired's counting agrees with reschedulePod's bookkeeping, also *)
(* when a later template replaces the declaration it works on: in one      *)
(* cluster without failing calls, restarts or pods deleted by others, and  *)
(* with containers that are restarted when they end, however replicas      *)
(* fail, hang or are moved, no app gets more replicas than the annotations *)
(* of its templates ask for (plus the copy of a move in progress).         *)
NoSurplus == \A a \in Apps :
  Cardinality(ReplicasOf(a)) <= Replicas[a] * Cardinality(Requests(a)) + Cardinality(Moving)

(* Names in PodsByName of the apps s has declared.                         *)
Tracked(s) == UNION {podsByName[s][desiredApps[s][a]] : a \in {b \in Apps : Declared(s, b)}}

-----------------------------------------------------------------------------
(* The abstract life cycle: what a pod looks like from outside.            *)
LifeOf(p) ==
  CASE pods[p].phase \in {"Pending", "Stuck"} /\ pods[p].node = None -> "waiting"
    [] pods[p].phase \in {"Pending", "Stuck"} /\ pods[p].node # None -> "starting"
    [] pods[p].phase = "Running" -> "running"
    [] pods[p].phase \in {"Failed", "Succeeded"} -> "ended"
    [] pods[p].phase \in {"Terminating", "Gone"} -> "over"

Image(p) ==
  IF p \notin Used
  THEN [life |-> "unborn", kind |-> None, node |-> None, from |-> None]
  ELSE [life |-> LifeOf(p), node |-> pods[p].node, from |-> pods[p].from,
        kind |-> IF pods[p].kind = "template" THEN "request" ELSE "workload"]

Listing == {s \in Schedulers : ticker[s].pc = "list"}

R == INSTANCE Replicas WITH
  Names <- PodNames, Mishaps <- Budget.loss,
  pod <- [p \in PodNames |-> Image(p)],
  suspects <- UNION {ticker[s].todo : s \in Listing},
  mishaps <- budget.loss

(* However the goroutines of several schedulers interleave, fail half way  *)
(* and lose their memory, a pod lives the life that Replicas describes:    *)
(* what AddFunc, schedulePod, reschedulePod and EnforceDesired do together *)
(* never places a request, brings a pod back, changes a node, or takes a   *)
(* running workload away without a reason.                                 *)
Implements == R!Spec

-----------------------------------------------------------------------------
(* Fairness: both goroutines of a process that is up keep running, the     *)
(* kubelet starts and ends pods, and time passes.                          *)
FairSpec ==
  /\ Spec
  /\ \A s \in Schedulers : WF_vars(InformerStep(s)) /\ WF_vars(TickerStep(s))
  /\ \A p \in PodNames : WF_vars(KubeletStep(p))

(* A tracked pod that failed or vanished does not stay tracked: some later *)
(* tick replaces it, whatever calls fail meanwhile.                        *)
TrackedLossNoticed == \A s \in Schedulers, p \in PodNames :
  (p \in Tracked(s) /\ pods[p].phase \in {"Failed", "Gone"}) ~> p \notin Tracked(s)

(* schedulePod gives up without a retry (scheduler.go:196-204), and the    *)
(* error of a template's Delete is ignored (:157), so only EnforceDesired  *)
(* keeps an unplaced replica or a template from waiting for ever: it is    *)
(* placed in the end, as a template never is, or deleted.                  *)
Placed == {p \in Used : pods[p].node # None}
NoLimbo == \A p \in PodNames :
  (pods[p].phase # "Unused" /\ pods[p].kind # "plain")
  ~> (pods[p].phase = "Gone" \/ p \in Placed)

(* "deleting and replacing" (scheduler.go:342, :353): an app that lost a   *)
(* replica gets it back.                                                   *)
ReplicasRestored == \A s \in Schedulers, a \in Apps :
  [](Declared(s, a) => <>(Cardinality(ReplicasOf(a)) >= Replicas[a]))
=============================================================================
