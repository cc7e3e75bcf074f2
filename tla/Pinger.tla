-------------------------------- MODULE Pinger --------------------------------
(***************************************************************************)
(* The pingers of proxima-scheduler/pinger/pinger.go: a DaemonSet pod on   *)
(* the edge node of each cluster.  Every interval a pinger lists the nodes *)
(* of its cluster, pings them and the other edge nodes, and writes the     *)
(* latencies to the database.  Nobody pings a node of another cluster: its *)
(* latency from edge e is what e measured to that cluster's edge, read     *)
(* from the database, plus what that edge measured to the node; it is the  *)
(* other pinger that adds the two up and writes them on behalf of e.       *)
(*                                                                         *)
(* A step is one call of the API server or the database, or one round of   *)
(* pings, with the bookkeeping that follows it.                            *)
(***************************************************************************)
EXTENDS Database, FiniteSets

CONSTANTS
  Site,      \* Site[n]: the edge node of the cluster of node n
  Position,  \* Position[e]: where the configuration lists an edge node
  Changes,   \* bound: nodes that come, go, fall silent or answer again,
             \* and pingers that stop, in one behaviour
  Faults     \* bound: calls that fail

ASSUME ConstantsAssumption ==
  /\ Site \in [Nodes -> Edges] /\ Position \in [Edges -> Nat]
  /\ Changes \in Nat /\ Faults \in Nat

VARIABLES
  present,     \* nodes the API servers list
  answering,   \* nodes and edge nodes that answer a ping
  pings,       \* the database
  addr,        \* Addr of the pinger at an edge
  latencies,   \* Latencies
  aggregated,  \* AggregatedLatencies
  round,       \* where the goroutine of Run is
  due,         \* whether ticker.C holds a tick
  changes, faults

world == <<present, answering, changes>>
maps  == <<addr, latencies, aggregated>>
vars  == <<present, answering, pings, addr, latencies, aggregated, round, due, changes, faults>>

Round == [pc : {"down", "start", "idle", "ping", "aggregate"},
          discovered : BOOLEAN, todo : SUBSET Edges]
At(pc) == [pc |-> pc, discovered |-> FALSE, todo |-> {}]

NoLatencies  == [d \in Targets |-> "none"]
NoAggregates == [e \in Edges |-> NoLatencies]

TypeOK ==
  /\ present \subseteq Nodes /\ answering \subseteq Targets
  /\ pings \in Pings
  /\ addr \in [Edges -> SUBSET Nodes]
  /\ latencies \in [Edges -> [Targets -> Latencies]]
  /\ aggregated \in [Edges -> [Edges -> [Targets -> Latencies]]]
  /\ round \in [Edges -> Round]
  /\ due \in [Edges -> BOOLEAN]
  /\ changes \in 0..Changes /\ faults \in 0..Faults

Init ==
  /\ present \in SUBSET Nodes /\ answering = Targets
  /\ pings = NoPings
  /\ addr = [e \in Edges |-> {}]
  /\ latencies = [e \in Edges |-> NoLatencies]
  /\ aggregated = [e \in Edges |-> NoAggregates]
  /\ round = [e \in Edges |-> At("start")]
  /\ due = [e \in Edges |-> FALSE]
  /\ changes = Changes /\ faults = Faults

Answers == UNCHANGED faults
Fails   == faults > 0 /\ faults' = faults - 1

(* ObtainEdgeProxies: the configured edge nodes but for the own one.       *)
EdgeProxies(e) == Edges \ {e}
Up(e) == round[e].pc # "down"

-----------------------------------------------------------------------------
(* updateAddresses, when the pinger starts and at the start of each round. *)

(* The nodes of the cluster, also the one the pinger runs on.              *)
DiscoverNodes(e) == {n \in present : Site[n] = e} \cup {e}

(* MUTANT of Discovered: the node of the pinger itself is not skipped.     *)
DiscoveredHost(e) == DiscoverNodes(e)
Discovered(e) == DiscoverNodes(e) \ {e}

(* MUTANT of RemoveAddress: the latency is kept.                           *)
RemoveOnlyAddress(e, gone) ==
  latencies' = [latencies EXCEPT ![e] = [d \in Targets |->
    IF d \in Discovered(e) \ addr[e] THEN "zero" ELSE @[d]]]

(* AddAddress and RemoveAddress for the nodes that came and went.          *)
RemoveAddress(e, gone) ==
  latencies' = [latencies EXCEPT ![e] = [d \in Targets |->
    IF d \in gone THEN "none"
    ELSE IF d \in Discovered(e) \ addr[e] THEN "zero" ELSE @[d]]]

(* MUTANT of Forget: only nodes that went lose their aggregates.           *)
ForgetGone(e, known, gone) ==
  [ep \in Edges |-> [d \in Targets |->
     IF ep \in EdgeProxies(e) /\ d \in gone THEN "none" ELSE aggregated[e][ep][d]]]

(* The aggregates of every address known so far are deleted, too.          *)
Forget(e, known, gone) ==
  [ep \in Edges |-> [d \in Targets |->
     IF ep \in EdgeProxies(e) /\ d \in known THEN "none" ELSE aggregated[e][ep][d]]]

(* A list that fails leaves everything as it is, the aggregates included.  *)
UpdateAddresses(e) ==
  LET found == Discovered(e)
      gone  == addr[e] \ found
      next  == IF round[e].pc = "start" THEN "idle" ELSE "ping" IN
  /\ round[e].pc = "start" \/ (round[e].pc = "idle" /\ due[e])
  /\ due' = [due EXCEPT ![e] = FALSE]
  /\ \/ /\ Answers
        /\ addr' = [addr EXCEPT ![e] = found]
        /\ RemoveAddress(e, gone)
        /\ aggregated' = [aggregated EXCEPT ![e] = Forget(e, addr[e] \cup found, gone)]
        /\ round' = [round EXCEPT ![e] = [At(next) EXCEPT !.discovered = next = "ping"]]
     \/ /\ Fails
        /\ round' = [round EXCEPT ![e] = At(next)]
        /\ UNCHANGED maps
  /\ UNCHANGED <<world, pings>>

-----------------------------------------------------------------------------
(* PingAll and SaveLatenciesToDB.                                          *)

(* MUTANT of Pinged: the other edge nodes are not pinged.                  *)
PingedNodes(e) == addr[e] \cap answering
(* A target that does not answer keeps the latency it had.                 *)
Pinged(e) == (addr[e] \cup EdgeProxies(e)) \cap answering

PingAll(e) ==
  /\ round[e].pc = "ping"
  /\ latencies' = [latencies EXCEPT ![e] =
       [d \in Targets |-> IF d \in Pinged(e) THEN "positive" ELSE @[d]]]
  /\ \/ Answers /\ pings' = SavePingTime(pings, latencies'[e], e)
     \/ Fails /\ UNCHANGED pings
  /\ round' = [round EXCEPT ![e].pc = "aggregate", ![e].todo = EdgeProxies(e)]
  /\ UNCHANGED <<world, addr, aggregated, due>>

-----------------------------------------------------------------------------
(* AggregateLatencies and SaveAggregatedLatenciesToDB.                     *)

(* MUTANT of Summed: latencies to edge nodes are added up, too.            *)
SummedAll(e) == Targets
(* IsEdgeProxy: latencies to edge nodes are not added up.                  *)
Summed(e) == Targets \ EdgeProxies(e)

(* The latency from the next edge to this one, in the order of the         *)
(* configuration; without it that edge is passed over.                     *)
AggregateLatencies(e, ep) ==
  LET toCurrent == GetLatency(pings, ep, e) IN
  /\ round[e].pc = "aggregate" /\ ep \in round[e].todo
  /\ \A f \in round[e].todo : Position[ep] <= Position[f]
  /\ \/ /\ Answers /\ toCurrent # "none"
        /\ aggregated' = [aggregated EXCEPT ![e][ep] = [d \in Targets |->
             IF d \in Summed(e) /\ latencies[e][d] # "none"
             THEN Plus(toCurrent, latencies[e][d]) ELSE @[d]]]
     \/ (Fails \/ (Answers /\ toCurrent = "none")) /\ UNCHANGED aggregated
  /\ round' = [round EXCEPT ![e].todo = @ \ {ep}]
  /\ UNCHANGED <<world, pings, addr, latencies, due>>

SaveAggregated(e) ==
  /\ round[e].pc = "aggregate" /\ round[e].todo = {}
  /\ \/ Answers /\ pings' = SaveAggregatedLatencies(pings, aggregated[e])
     \/ Fails /\ UNCHANGED pings
  /\ round' = [round EXCEPT ![e] = At("idle")]
  /\ UNCHANGED <<world, maps, due>>

-----------------------------------------------------------------------------
(* The environment.                                                        *)

(* An interval passes.  A round is over by then: fewer than five targets   *)
(* let the two seconds of a ping pass.                                     *)
Tick ==
  /\ \A e \in Edges : ~due[e] /\ round[e].pc \notin {"ping", "aggregate"}
  /\ due' = [e \in Edges |-> round[e].pc \notin {"down", "start"}]
  /\ pings' = PingsOlder(pings)
  /\ UNCHANGED <<world, maps, round, faults>>

Change ==
  /\ changes > 0 /\ changes' = changes - 1
  /\ \/ \E n \in Nodes :
          /\ present' = IF n \in present THEN present \ {n} ELSE present \cup {n}
          /\ UNCHANGED answering
     \/ \E d \in Targets :
          /\ answering' = IF d \in answering THEN answering \ {d} ELSE answering \cup {d}
          /\ UNCHANGED present
  /\ UNCHANGED <<pings, maps, round, due, faults>>

(* A pinger dies at any point, and may be started again with empty maps.   *)
Stop(e) ==
  /\ changes > 0 /\ changes' = changes - 1
  /\ Up(e)
  /\ round' = [round EXCEPT ![e] = At("down")]
  /\ due' = [due EXCEPT ![e] = FALSE]
  /\ addr' = [addr EXCEPT ![e] = {}]
  /\ latencies' = [latencies EXCEPT ![e] = NoLatencies]
  /\ aggregated' = [aggregated EXCEPT ![e] = NoAggregates]
  /\ UNCHANGED <<present, answering, pings, faults>>
Start(e) ==
  /\ ~Up(e)
  /\ round' = [round EXCEPT ![e] = At("start")]
  /\ UNCHANGED <<world, pings, maps, due, faults>>

Step(e) ==
  \/ UpdateAddresses(e) \/ PingAll(e)
  \/ \E ep \in Edges : AggregateLatencies(e, ep)
  \/ SaveAggregated(e)

Next ==
  \/ \E e \in Edges : Step(e) \/ Stop(e) \/ Start(e)
  \/ Tick \/ Change

Spec == Init /\ [][Next]_vars

(* A pinger that is up goes on, and time passes; nothing says that a       *)
(* pinger that stopped is started again.                                   *)
FairSpec == Spec /\ WF_vars(Tick) /\ \A e \in Edges : WF_vars(Step(e))

-----------------------------------------------------------------------------
(* Properties.                                                             *)

(* The three maps stay in step over rounds in which nodes come and go and  *)
(* lists fail: latencies are kept for just the known addresses and edges,  *)
(* aggregates for known addresses and other edges only (pinger.go:66-80,   *)
(* :123-135).  Whatever is left over would be saved again for ever.        *)
TablesInStep == \A e \in Edges :
  /\ \A n \in Nodes : latencies[e][n] # "none" <=> n \in addr[e]
  /\ \A ep \in Edges, d \in Targets :
       aggregated[e][ep][d] # "none" => ep # e /\ d \in addr[e]

(* After a list that answered, what is added up in a round is all that is  *)
(* saved in it: an edge that has not yet answered in this round has no     *)
(* aggregate of an earlier one (:129-134).                                 *)
AggregatesOfThisRound == \A e \in Edges :
  round[e].pc = "aggregate" /\ round[e].discovered =>
    \A ep \in round[e].todo, d \in Targets : aggregated[e][ep][d] = "none"

InWindow(e, n) == GetAveragePingTimeByEdges(pings)[e][n] # "none"

(* A node that leaves for good drops out of every window a reader looks    *)
(* at, for every edge, although each pinger writes its maps again in every *)
(* round and others write on behalf of an edge.                            *)
GoneForgotten == []<>(\A n \in Nodes, e \in Edges : InWindow(e, n) => n \in present)

(* A latency from an edge is only written anew by the pinger that measures *)
(* it, or, to a node of another cluster, by the pinger there and, if its   *)
(* list answered, while the database holds what that edge measured to it   *)
(* (:198-202).  Sums never become terms of somebody else's sums, which     *)
(* would keep each other alive for ever: the host is no address of its     *)
(* own (:110), and other edges are left out of a sum (:206).               *)
Renewed(e, d) == \/ pings'[e][d].last < pings[e][d].last
                 \/ pings'[e][d].positive < pings[e][d].positive
Measures(e)   == round[e].pc = "ping" /\ round'[e].pc = "aggregate"
Adds(f, e, n) == /\ f # e /\ round[f].pc = "aggregate" /\ n \in addr[f]
                 /\ round[f].discovered => pings[e][f].last <= Hour
RenewedFirstHand == [][\A e \in Edges, d \in Targets : Renewed(e, d) =>
  Measures(e) \/ (d \in Nodes /\ \E f \in Edges : Adds(f, e, d))]_vars

(* An edge whose pinger stopped for good drops out, too: the others write  *)
(* on its behalf only as long as the database holds a latency it measured  *)
(* itself, and never feed each other with what they added up.              *)
StoppedForgotten == []<>(\A n \in Nodes, e \in Edges : InWindow(e, n) => Up(e))

(* Every edge gets a latency to every node, also of other clusters, that   *)
(* an edge proxy can use, if the pingers of both and the pings along the   *)
(* way work.                                                               *)
Reachable(e, n) ==
  /\ Up(e) /\ Up(Site[n])
  /\ n \in present /\ {n, Site[n]} \subseteq answering
ReachableMeasured == []<>(\A e \in Edges, n \in Nodes :
  Reachable(e, n) => GetAverageLatenciesForEdge(pings, e)[n] = "positive")
=============================================================================
