------------------------------- MODULE Replicas -------------------------------
(***************************************************************************)
(* What proxima-scheduler/scheduler/scheduler.go promises of pods, told    *)
(* without schedulers, clusters, lists, Add events or memory: a request (a *)
(* pod with the replicas annotation) is never placed and only asks for     *)
(* workloads; a workload never changes its node, it is copied to another   *)
(* one; and what is there is only taken away when its copy was made, when  *)
(* it ended, or when it was seen hanging.  Scheduler implements this.      *)
(***************************************************************************)
EXTENDS Naturals

CONSTANTS Names, Nodes, Mishaps, None

VARIABLES
  pod,       \* every pod ever born, by name
  suspects,  \* pods somebody saw hanging or ended
  mishaps    \* how often something may still vanish from outside

vars == <<pod, suspects, mishaps>>

Unborn == [life |-> "unborn", kind |-> None, node |-> None, from |-> None]

Init ==
  /\ pod = [p \in Names |-> Unborn]
  /\ suspects = {}
  /\ mishaps = Mishaps

IsBorn(p) == pod[p] # Unborn
HasHeir(p) == \E q \in Names : pod[q].from = p

Birth(q, k, l, n, p) ==
  /\ ~IsBorn(q)
  /\ pod' = [pod EXCEPT ![q] = [life |-> l, kind |-> k, node |-> n, from |-> p]]
  /\ UNCHANGED <<suspects, mishaps>>

Submit(q, k) == Birth(q, k, "waiting", None, None)

(* A replica asks for its node; its request may be over by then.           *)
Replicate(q, p) == pod[p].kind = "request" /\ Birth(q, "workload", "waiting", None, p)

(* A copy is born with its node; the original may be over by then.         *)
Copy(q, p, n) == pod[p].kind = "workload" /\ Birth(q, "workload", "starting", n, p)

Bind(p, n) ==
  /\ pod[p].life = "waiting" /\ pod[p].kind = "workload"
  /\ pod' = [pod EXCEPT ![p].life = "starting", ![p].node = n]
  /\ UNCHANGED <<suspects, mishaps>>

Lives(p, from, to) == pod[p].life = from /\ pod' = [pod EXCEPT ![p].life = to]
Run(p) == Lives(p, "starting", "running") /\ UNCHANGED <<suspects, mishaps>>
End(p) == Lives(p, "running", "ended") /\ UNCHANGED <<suspects, mishaps>>

(* Only what does not run becomes suspect; by the time it is taken away it *)
(* may be running.                                                         *)
Suspect ==
  /\ suspects \subseteq suspects'
  /\ \A p \in suspects' \ suspects : pod[p].life \in {"waiting", "starting", "ended"}
  /\ UNCHANGED <<pod, mishaps>>
Dismiss == suspects' \subseteq suspects /\ UNCHANGED <<pod, mishaps>>

MayRetire(p) ==
  \/ pod[p].kind = "request"
  \/ pod[p].life = "ended"
  \/ p \in suspects
  \/ HasHeir(p)

Retire(p) ==
  /\ pod[p].life \in {"waiting", "starting", "running", "ended"} /\ MayRetire(p)
  /\ pod' = [pod EXCEPT ![p].life = "over"]
  /\ suspects' \in {suspects, suspects \ {p}}
  /\ UNCHANGED mishaps

Vanish(p) ==
  /\ mishaps > 0 /\ mishaps' = mishaps - 1
  /\ pod[p].life \in {"waiting", "starting", "running"}
  /\ pod' = [pod EXCEPT ![p].life = "over"]
  /\ UNCHANGED suspects

Next ==
  \/ Dismiss \/ Suspect
  \/ \E p \in Names : Run(p) \/ End(p) \/ Retire(p) \/ Vanish(p) \/ \E n \in Nodes : Bind(p, n)
  \/ \E q \in Names, k \in {"request", "workload"} : Submit(q, k)
  \/ \E q, p \in Names : Replicate(q, p) \/ \E n \in Nodes : Copy(q, p, n)

Spec == Init /\ [][Next]_vars
=============================================================================
