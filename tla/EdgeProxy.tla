------------------------------ MODULE EdgeProxy ------------------------------
(***************************************************************************)
(* The edge proxies of proxima-scheduler/edgeproxy/edgeproxy.go, for one   *)
(* service.  Each keeps a store of the pods it may forward a request to,   *)
(* which one refresh at a time (flightGroup) rebuilds from the clusters    *)
(* and the latencies; requests read the store while a refresh runs.  A pod *)
(* of the proxy's own cluster is called directly, any other one through    *)
(* the first edge proxy of its cluster, which chooses a pod of its own.    *)
(* A step is one call of a refresh, or one hop of a request.               *)
(***************************************************************************)
EXTENDS Integers, Sequences

CONSTANTS
  Proxies,   \* edge proxies; the one of an edge node in each cluster
  Clusters,
  Local,     \* Local[x]: the cluster of proxy x
  ProxyOf,   \* ProxyOf[c]: the edge proxy FindEdgeProxyNodePortAddress names
  Pods,      \* pods of the service
  ClusterOf, \* ClusterOf[p]: the cluster of pod p
  Requests,
  MaxHops,   \* bound: proxies a request passes before it has timed out
  Changes,   \* how often pods and latencies may change
  Faults     \* how many calls may fail

ASSUME ConstantsAssumption ==
  /\ Local \in [Proxies -> Clusters] /\ ProxyOf \in [Clusters -> Proxies]
  /\ \A c \in Clusters : Local[ProxyOf[c]] = c
  /\ ClusterOf \in [Pods -> Clusters]
  /\ MaxHops \in Nat \ {0} /\ Changes \in Nat /\ Faults \in Nat

VARIABLES
  running,   \* pods a list shows as running, with an IP and a port
  known,     \* known[x]: pods with a positive latency from x in the database
  store,     \* store[x]: the candidates of x; {} if there is no entry
  cached,    \* cached[x]: whether candidateCache of x has an entry
  flight,    \* flight[x]: locals of the refresh of x
  requests,  \* requests[r]: where request r is
  changes, faults

world == <<running, known, changes>>
vars  == <<running, known, store, cached, flight, requests, changes, faults>>

Flight == [pc : {"idle", "list", "latency", "resolve"},
           clusters : SUBSET Clusters, todo : SUBSET Pods, found : SUBSET Pods]
NoFlight == [pc |-> "idle", clusters |-> {}, todo |-> {}, found |-> {}]

(* path: the proxies the request went through; pc: what the last of them   *)
(* does.  Of the positions in path, answered are those whose proxy passed  *)
(* on a response, failed those that wrote an error of their own, and       *)
(* recorded those that sent latency data.                                  *)
Request == [pc : {"new", "choose", "pod"}, path : Seq(Proxies), pod : SUBSET Pods,
            answered : SUBSET Nat, failed : SUBSET Nat, recorded : SUBSET Nat]
NoRequest == [pc |-> "new", path |-> <<>>, pod |-> {},
              answered |-> {}, failed |-> {}, recorded |-> {}]

Hops(r) == Len(requests[r].path)
Here(r) == requests[r].path[Hops(r)]
Over(r) == requests[r].answered \cup requests[r].failed

TypeOK ==
  /\ running \subseteq Pods
  /\ known \in [Proxies -> SUBSET Pods]
  /\ store \in [Proxies -> SUBSET Pods]
  /\ cached \in [Proxies -> BOOLEAN]
  /\ flight \in [Proxies -> Flight]
  /\ requests \in [Requests -> Request]
  /\ \A r \in Requests : Over(r) \subseteq 1..Hops(r)
  /\ changes \in 0..Changes /\ faults \in 0..Faults

Init ==
  /\ running = Pods
  /\ known = [x \in Proxies |-> Pods]
  /\ store = [x \in Proxies |-> {}]
  /\ cached = [x \in Proxies |-> FALSE]
  /\ flight = [x \in Proxies |-> NoFlight]
  /\ requests = [r \in Requests |-> NoRequest]
  /\ changes = Changes /\ faults = Faults

Answers == UNCHANGED faults
Fails   == faults > 0 /\ faults' = faults - 1
Near(x) == {p \in Pods : ClusterOf[p] = Local[x]}

-----------------------------------------------------------------------------
(* refreshCandidates, inside the flight group.                             *)

(* Started by backgroundRefresh every two seconds and by ErrorHandler; a   *)
(* call that finds a flight under way only waits for its result.           *)
Refresh(x) ==
  /\ flight[x].pc = "idle"
  /\ flight' = [flight EXCEPT ![x] = [NoFlight EXCEPT !.pc = "list", !.clusters = Clusters]]
  /\ UNCHANGED <<world, store, cached, requests, faults>>

(* getPodsForService; a cluster whose list fails is passed over.           *)
ListPods(x, c) ==
  /\ flight[x].pc = "list" /\ c \in flight[x].clusters
  /\ \/ /\ Answers
        /\ flight' = [flight EXCEPT ![x].clusters = @ \ {c},
             ![x].found = @ \cup {p \in running : ClusterOf[p] = c}]
     \/ Fails /\ flight' = [flight EXCEPT ![x].clusters = @ \ {c}]
  /\ UNCHANGED <<world, store, cached, requests>>

(* The flight ends with an error, which only candidateCache hears of: an   *)
(* entry is written there, and the store stays as it is.                   *)
Failed(x) ==
  /\ flight' = [flight EXCEPT ![x] = NoFlight]
  /\ cached' = [cached EXCEPT ![x] = TRUE]

ListDone(x) ==
  /\ flight[x].pc = "list" /\ flight[x].clusters = {}
  /\ IF flight[x].found = {} THEN Failed(x)
     ELSE flight' = [flight EXCEPT ![x].pc = "latency"] /\ UNCHANGED cached
  /\ UNCHANGED <<world, store, requests, faults>>

(* Pods without a positive latency are left out; the proxies of remote     *)
(* pods are looked up one by one.                                          *)
ReadLatencies(x) ==
  LET weighted == flight[x].found \cap known[x] IN
  /\ flight[x].pc = "latency"
  /\ \/ /\ Answers
        /\ flight' = [flight EXCEPT ![x].pc = "resolve", ![x].found = weighted,
                                    ![x].todo = weighted \ Near(x)]
        /\ UNCHANGED cached
     \/ Fails /\ Failed(x)
  /\ UNCHANGED <<world, store, requests>>

ResolveProxy(x, p) ==
  /\ flight[x].pc = "resolve" /\ p \in flight[x].todo
  /\ \/ Answers /\ flight' = [flight EXCEPT ![x].todo = @ \ {p}]
     \/ Fails /\ flight' = [flight EXCEPT ![x].todo = @ \ {p}, ![x].found = @ \ {p}]
  /\ UNCHANGED <<world, store, cached, requests>>

(* MUTANT of Store: new candidates are added to the old ones.              *)
StoreMore(x) ==
  /\ flight[x].pc = "resolve" /\ flight[x].todo = {}
  /\ store' = [store EXCEPT ![x] = @ \cup flight[x].found]
  /\ flight' = [flight EXCEPT ![x] = NoFlight]
  /\ UNCHANGED <<world, cached, requests, faults>>

Store(x) ==
  /\ flight[x].pc = "resolve" /\ flight[x].todo = {}
  /\ IF flight[x].found = {} THEN Failed(x) /\ UNCHANGED store
     ELSE /\ store' = [store EXCEPT ![x] = flight[x].found]
          /\ flight' = [flight EXCEPT ![x] = NoFlight] /\ UNCHANGED cached
  /\ UNCHANGED <<world, requests, faults>>

(* The handler of /invalidate/ deletes from candidateCache.                *)
Invalidate(x) ==
  /\ cached' = [cached EXCEPT ![x] = FALSE]
  /\ UNCHANGED <<world, store, flight, requests, faults>>

-----------------------------------------------------------------------------
(* A request: preprocessRequest, the reverse proxy, and the way back.      *)

Moves(r, to) == requests' = [requests EXCEPT ![r] = to] /\ UNCHANGED <<world, store, cached, flight>>

Arrive(r, x) ==
  /\ requests[r].pc = "new"
  /\ Moves(r, [NoRequest EXCEPT !.pc = "choose", !.path = <<x>>])
  /\ Answers

Choosing(r) == requests[r].pc = "choose" /\ Hops(r) \notin Over(r)

(* getBestPod finds no candidates: an error is written to the client or to *)
(* the proxy that forwarded the request.                                   *)
NoCandidates(r) ==
  /\ Choosing(r) /\ store[Here(r)] = {}
  /\ Moves(r, [requests[r] EXCEPT !.failed = @ \cup {Hops(r)}])
  /\ Answers

(* weightedRandomSelect may choose any candidate.  A remote one is called  *)
(* through its proxy, which handles the request like one of a client.      *)
ChooseLocal(r, p) ==
  /\ Choosing(r) /\ p \in store[Here(r)] \cap Near(Here(r))
  /\ Moves(r, [requests[r] EXCEPT !.pc = "pod", !.pod = {p}])
  /\ Answers

Forward(r, p) ==
  /\ Choosing(r) /\ p \in store[Here(r)] \ Near(Here(r))
  /\ Hops(r) < MaxHops
  /\ Moves(r, [requests[r] EXCEPT !.path = Append(@, ProxyOf[ClusterOf[p]])])
  /\ Answers

(* MUTANT of Waits: it may not have called anyone yet.                     *)
WaitsAnyhow(r, i) == i \notin Over(r)
(* The i-th proxy has called the next one, or the last one its pod, and    *)
(* has heard nothing.                                                      *)
Waits(r, i) ==
  /\ i \in 1..Hops(r) \ Over(r)
  /\ i < Hops(r) \/ requests[r].pc = "pod"

(* The error of a proxy is a response to the one before it.                *)
Responds(r, i) ==
  IF i < Hops(r) THEN i + 1 \in Over(r) ELSE requests[r].pod \subseteq running

(* ModifyResponse skips a response whose request has X-Proxima-Forwarded   *)
(* set, by an earlier proxy or by this one, unless is_first_proxy is set,  *)
(* as it is by every proxy that forwards.                                  *)
Forwards(path, i)  == i < Len(path)
HasHeader(path, i) == i > 1 \/ Forwards(path, i)
(* MUTANT of Records: is_first_proxy is not looked at.                     *)
RecordsUnmarked(path, i) == ~HasHeader(path, i)
Records(path, i)   == ~HasHeader(path, i) \/ Forwards(path, i)

(* A proxy may get its response after the one before it has given up; it   *)
(* records it all the same, and nobody reads what it writes.               *)
ModifyResponse(r, i) ==
  /\ Waits(r, i) /\ Responds(r, i)
  /\ Moves(r, [requests[r] EXCEPT !.answered = @ \cup {i},
       !.recorded = IF Records(requests[r].path, i) THEN @ \cup {i} ELSE @])
  /\ Answers

(* The i-th proxy cannot reach what it called, waits no longer, or is no   *)
(* longer waited for; those it called only learn of it later, if at all.   *)
(* It answers without latency data (and starts a refresh, as may happen at *)
(* any time).                                                              *)
ErrorHandler(r, i) ==
  /\ Waits(r, i)
  /\ Moves(r, [requests[r] EXCEPT !.failed = @ \cup {i}])
  /\ Answers

-----------------------------------------------------------------------------
(* Pods start and stop; pings appear and run dry.                          *)
Change ==
  /\ changes > 0 /\ changes' = changes - 1
  /\ \E p \in Pods :
       \/ running' = (running \ {p}) \cup ({p} \ running) /\ UNCHANGED known
       \/ \E x \in Proxies :
            known' = [known EXCEPT ![x] = (@ \ {p}) \cup ({p} \ @)] /\ UNCHANGED running
  /\ UNCHANGED <<store, cached, flight, requests, faults>>

RefreshStep(x) ==
  \/ Refresh(x) \/ ListDone(x) \/ ReadLatencies(x) \/ Store(x)
  \/ \E c \in Clusters : ListPods(x, c)
  \/ \E p \in Pods : ResolveProxy(x, p)

RequestStep(r) ==
  \/ NoCandidates(r)
  \/ \E p \in Pods : ChooseLocal(r, p) \/ Forward(r, p)
  \/ \E i \in 1..MaxHops : ModifyResponse(r, i) \/ ErrorHandler(r, i)

Next ==
  \/ \E x \in Proxies : RefreshStep(x) \/ Invalidate(x)
  \/ \E r \in Requests : RequestStep(r) \/ (\E x \in Proxies : Arrive(r, x))
  \/ Change

Spec == Init /\ [][Next]_vars

(* The background refresh keeps running.                                   *)
FairSpec == Spec /\ \A x \in Proxies : WF_vars(RefreshStep(x))

-----------------------------------------------------------------------------
(* Properties.                                                             *)

(* "These metrics should be recorded by source edge proxies"               *)
(* (edgeproxy.go:166-167): when the proxy that the client sent a request   *)
(* to has answered, it has recorded it, forwarded or not, and also if the  *)
(* response was the error of a proxy further on, unless it gave up itself; *)
(* the proxy that calls the pod for another one never records it, not even *)
(* when the pod's response comes after the source gave up.                 *)
SourceRecords == \A r \in Requests :
  /\ 1 \in Over(r) => (1 \in requests[r].recorded <=> 1 \notin requests[r].failed)
  /\ Hops(r) > 1 => Hops(r) \notin requests[r].recorded

(* ... and so has no other proxy on the way.                               *)
OnlySourceRecords == \A r \in Requests : requests[r].recorded \subseteq {1}

(* Whatever failed or went stale before: as long as a pod is left that x   *)
(* can use, the candidates of x end up as the pods it can use; the store   *)
(* is only ever replaced, and a flight always ends.                        *)
Usable(x) == running \cap known[x]
StoreCatchesUp == \A x \in Proxies : <>[](Usable(x) # {} => store[x] = Usable(x))
=============================================================================
