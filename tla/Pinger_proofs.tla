----------------------------- MODULE Pinger_proofs -----------------------------
(* What holds of Pinger for every number of edges, nodes, changes and      *)
(* failing calls, and for every length of the windows.                     *)
EXTENDS Pinger, TLAPS

(* A pinger neither knows nor measures its own node, and adds up for the   *)
(* other edges only.                                                       *)
OthersOnly(e) ==
  /\ addr[e] \subseteq Nodes
  /\ latencies[e][e] = "none"
  /\ round[e].todo \subseteq EdgeProxies(e)

LatenciesInStep(e) == \A n \in Nodes : latencies[e][n] # "none" <=> n \in addr[e]
AggregatesInStep(e) == \A ep \in Edges, d \in Targets :
  aggregated[e][ep][d] # "none" => ep # e /\ d \in addr[e]

(* A list that answered leaves no aggregate, and until an edge has         *)
(* answered in the round there is none of it.                              *)
NoAggregateOf(e, ep) == \A d \in Targets : aggregated[e][ep][d] = "none"
FreshRound(e) == round[e].discovered =>
  /\ round[e].pc \in {"ping", "aggregate"}
  /\ round[e].pc = "ping" => \A ep \in Edges : NoAggregateOf(e, ep)
  /\ round[e].pc = "aggregate" => \A ep \in round[e].todo : NoAggregateOf(e, ep)

InStep(e) == OthersOnly(e) /\ LatenciesInStep(e) /\ AggregatesInStep(e) /\ FreshRound(e)
IInv == TypeOK /\ \A e \in Edges : InStep(e)

-----------------------------------------------------------------------------
(* The database.                                                           *)

(* Points that are written keep a series well formed.                      *)
LEMMA WritePointType ==
  ASSUME NEW row \in PingRow, NEW l \in Latencies
  PROVE  WritePoint(row, l) \in PingRow
<1>1. 0 \in Ages
  BY WindowsAssumption DEF Ages, Never
<1>2. CASE l = "none"
  BY <1>2 DEF WritePoint
<1>3. CASE l = "zero"
  BY <1>1, <1>3 DEF WritePoint, PingRow
<1>4. CASE l = "positive"
  BY <1>1, <1>4 DEF WritePoint, PingRow
<1> QED
  BY <1>2, <1>3, <1>4 DEF Latencies, Latency

(* So do the latencies of an edge, ...                                     *)
LEMMA SavePingTimeType ==
  ASSUME NEW rows \in Pings, NEW l \in [Targets -> Latencies], NEW e \in Edges
  PROVE  SavePingTime(rows, l, e) \in Pings
<1>1. [d \in Targets |-> WritePoint(rows[e][d], l[d])] \in [Targets -> PingRow]
  BY WritePointType DEF Pings
<1> QED
  BY <1>1 DEF SavePingTime, Pings

(* ... a table of aggregates, ...                                          *)
LEMMA SaveAggregatedType ==
  ASSUME NEW rows \in Pings, NEW l \in [Edges -> [Targets -> Latencies]]
  PROVE  SaveAggregatedLatencies(rows, l) \in Pings
  BY WritePointType DEF SaveAggregatedLatencies, Pings

(* ... and the passage of time.                                            *)
LEMMA PingsOlderType ==
  ASSUME NEW rows \in Pings
  PROVE  PingsOlder(rows) \in Pings
<1>1. \A age \in Ages : Older(age) \in Ages
  BY WindowsAssumption DEF Older, Ages, Never
<1> QED
  BY <1>1 DEF PingsOlder, Pings, PingRow

-----------------------------------------------------------------------------
(* Steps of one pinger.                                                    *)

(* The tables of a pinger that a step leaves alone stay in step.           *)
LEMMA InStepKept ==
  ASSUME NEW e \in Edges, InStep(e),
         addr'[e] = addr[e], latencies'[e] = latencies[e],
         aggregated'[e] = aggregated[e], round'[e] = round[e]
  PROVE  InStep(e)'
  BY DEF InStep, OthersOnly, LatenciesInStep, AggregatesInStep, FreshRound, NoAggregateOf

(* updateAddresses.                                                        *)
LEMMA UpdateAddressesInStep ==
  ASSUME IInv, NEW e \in Edges, UpdateAddresses(e)
  PROVE  /\ addr' \in [Edges -> SUBSET Nodes]
         /\ latencies' \in [Edges -> [Targets -> Latencies]]
         /\ aggregated' \in [Edges -> [Edges -> [Targets -> Latencies]]]
         /\ round' \in [Edges -> Round]
         /\ \A f \in Edges : InStep(f)'
<1> DEFINE found == Discovered(e)
           next  == IF round[e].pc = "start" THEN "idle" ELSE "ping"
<1>0. /\ addr \in [Edges -> SUBSET Nodes] /\ round \in [Edges -> Round]
      /\ latencies \in [Edges -> [Targets -> Latencies]]
      /\ aggregated \in [Edges -> [Edges -> [Targets -> Latencies]]]
      /\ \A f \in Edges : InStep(f)
      /\ Nodes \subseteq Targets /\ Edges \subseteq Targets /\ e \notin Nodes
  BY WindowsAssumption DEF IInv, TypeOK, Targets
<1>1. found \subseteq Nodes
  BY DEF Discovered, DiscoverNodes, IInv, TypeOK
<1>2. /\ At(next) \in Round /\ At(next).todo = {} /\ ~At(next).discovered
      /\ [At(next) EXCEPT !.discovered = next = "ping"] \in Round
      /\ [At(next) EXCEPT !.discovered = next = "ping"].todo = {}
      /\ [At(next) EXCEPT !.discovered = next = "ping"].pc = next
      /\ [At(next) EXCEPT !.discovered = next = "ping"].discovered => next = "ping"
  BY DEF At, Round
<1> HIDE DEF next
<1>3. CASE /\ addr' = [addr EXCEPT ![e] = found]
           /\ RemoveAddress(e, addr[e] \ found)
           /\ aggregated' = [aggregated EXCEPT ![e] = Forget(e, addr[e] \cup found, addr[e] \ found)]
           /\ round' = [round EXCEPT ![e] = [At(next) EXCEPT !.discovered = next = "ping"]]
  <2>1. /\ addr' \in [Edges -> SUBSET Nodes] /\ addr'[e] = found
        /\ \A f \in Edges : f # e => addr'[f] = addr[f]
    BY <1>0, <1>1, <1>3
  <2>2. /\ latencies' \in [Edges -> [Targets -> Latencies]]
        /\ \A f \in Edges : f # e => latencies'[f] = latencies[f]
        /\ \A d \in Targets : latencies'[e][d] =
             IF d \in addr[e] \ found THEN "none"
             ELSE IF d \in found \ addr[e] THEN "zero" ELSE latencies[e][d]
    BY <1>0, <1>3 DEF RemoveAddress, Latencies, Latency
  <2>3. /\ aggregated' \in [Edges -> [Edges -> [Targets -> Latencies]]]
        /\ \A f \in Edges : f # e => aggregated'[f] = aggregated[f]
        /\ \A ep \in Edges, d \in Targets : aggregated'[e][ep][d] =
             IF ep \in EdgeProxies(e) /\ d \in addr[e] \cup found
             THEN "none" ELSE aggregated[e][ep][d]
    <3>1. Forget(e, addr[e] \cup found, addr[e] \ found) \in [Edges -> [Targets -> Latencies]]
      BY <1>0 DEF Forget, Latencies, Latency
    <3> QED
      BY <1>0, <1>3, <3>1 DEF Forget
  <2>4. /\ round' \in [Edges -> Round] /\ round'[e].todo = {} /\ round'[e].pc = next
        /\ round'[e].discovered => next = "ping"
        /\ \A f \in Edges : f # e => round'[f] = round[f]
    BY <1>0, <1>2, <1>3
  <2> HIDE DEF found
  <2>5. \A ep \in Edges, d \in Targets : aggregated'[e][ep][d] = "none"
    BY <1>0, <2>3 DEF InStep, AggregatesInStep, EdgeProxies
  <2>6. OthersOnly(e)'
    <3>1. e \notin found /\ e \notin addr[e] /\ latencies[e][e] = "none"
      BY <1>0, <1>1 DEF InStep, OthersOnly
    <3> QED
      BY <1>0, <1>1, <2>1, <2>2, <2>4, <3>1 DEF OthersOnly
  <2>7. LatenciesInStep(e)'
    BY <1>0, <2>1, <2>2 DEF InStep, LatenciesInStep
  <2>8. AggregatesInStep(e)' /\ FreshRound(e)'
    BY <2>4, <2>5 DEF AggregatesInStep, FreshRound, NoAggregateOf
  <2> QED
    BY <1>0, <2>1, <2>2, <2>3, <2>4, <2>6, <2>7, <2>8, InStepKept DEF InStep
<1>4. CASE round' = [round EXCEPT ![e] = At(next)] /\ UNCHANGED maps
  <2>1. /\ round' \in [Edges -> Round] /\ round'[e].todo = {} /\ ~round'[e].discovered
        /\ \A f \in Edges : f # e => round'[f] = round[f]
        /\ UNCHANGED <<addr, latencies, aggregated>>
    BY <1>0, <1>2, <1>4 DEF maps
  <2>2. InStep(e)'
    BY <1>0, <2>1 DEF InStep, OthersOnly, LatenciesInStep, AggregatesInStep, FreshRound
  <2> QED
    BY <1>0, <2>1, <2>2, InStepKept
<1> QED
  BY <1>3, <1>4 DEF UpdateAddresses, next

(* PingAll: what is pinged is known, or another edge.                      *)
LEMMA PingAllInStep ==
  ASSUME IInv, NEW e \in Edges, PingAll(e)
  PROVE  /\ latencies' \in [Edges -> [Targets -> Latencies]]
         /\ round' \in [Edges -> Round]
         /\ \A f \in Edges : InStep(f)'
<1>0. /\ round \in [Edges -> Round] /\ round[e].pc = "ping"
      /\ latencies \in [Edges -> [Targets -> Latencies]]
      /\ UNCHANGED <<addr, aggregated>>
      /\ \A f \in Edges : InStep(f)
      /\ Nodes \subseteq Targets /\ Edges \subseteq Targets /\ Nodes \cap Edges = {}
  BY WindowsAssumption DEF IInv, TypeOK, Targets, PingAll
<1>1. /\ latencies' \in [Edges -> [Targets -> Latencies]]
      /\ \A f \in Edges : f # e => latencies'[f] = latencies[f]
      /\ \A d \in Targets : latencies'[e][d] =
           IF d \in Pinged(e) THEN "positive" ELSE latencies[e][d]
  BY <1>0 DEF PingAll, Latencies, Latency
<1>2. /\ round' \in [Edges -> Round]
      /\ \A f \in Edges : f # e => round'[f] = round[f]
      /\ round'[e].pc = "aggregate" /\ round'[e].todo = EdgeProxies(e)
      /\ round'[e].discovered = round[e].discovered
  BY <1>0 DEF PingAll, Round, EdgeProxies
<1>3. OthersOnly(e)' /\ LatenciesInStep(e)'
  BY <1>0, <1>1, <1>2 DEF InStep, OthersOnly, LatenciesInStep, Pinged, EdgeProxies
<1>4. AggregatesInStep(e)' /\ FreshRound(e)'
  BY <1>0, <1>2 DEF InStep, AggregatesInStep, FreshRound, NoAggregateOf, EdgeProxies
<1> QED
  BY <1>0, <1>1, <1>2, <1>3, <1>4, InStepKept DEF InStep

(* AggregateLatencies: what has a latency is known, or an edge that is not *)
(* added up.                                                               *)
LEMMA AggregateInStep ==
  ASSUME IInv, NEW e \in Edges, NEW ep \in Edges, AggregateLatencies(e, ep)
  PROVE  /\ aggregated' \in [Edges -> [Edges -> [Targets -> Latencies]]]
         /\ round' \in [Edges -> Round]
         /\ \A f \in Edges : InStep(f)'
<1> DEFINE toCurrent == GetLatency(pings, ep, e)
           sums == [d \in Targets |->
             IF d \in Summed(e) /\ latencies[e][d] # "none"
             THEN Plus(toCurrent, latencies[e][d]) ELSE aggregated[e][ep][d]]
<1>0. /\ round \in [Edges -> Round] /\ round[e].pc = "aggregate" /\ ep \in round[e].todo
      /\ aggregated \in [Edges -> [Edges -> [Targets -> Latencies]]]
      /\ UNCHANGED <<addr, latencies>>
      /\ \A f \in Edges : InStep(f)
  BY DEF IInv, TypeOK, AggregateLatencies
<1>1. /\ round' \in [Edges -> Round]
      /\ \A f \in Edges : f # e => round'[f] = round[f]
      /\ round'[e].pc = "aggregate" /\ round'[e].todo = round[e].todo \ {ep}
      /\ round'[e].discovered = round[e].discovered
  <2> DEFINE r == [round[e] EXCEPT !.todo = @ \ {ep}]
  <2>1. round[e] \in Round /\ round[e].todo \ {ep} \in SUBSET Edges
    BY <1>0 DEF Round
  <2>2. /\ r \in Round /\ r.pc = round[e].pc /\ r.todo = round[e].todo \ {ep}
        /\ r.discovered = round[e].discovered
    BY <2>1 DEF Round
  <2>3. round' = [round EXCEPT ![e] = r]
    BY DEF AggregateLatencies
  <2> HIDE DEF r
  <2> QED
    BY <1>0, <2>2, <2>3
<1>2. OthersOnly(e)' /\ LatenciesInStep(e)'
  BY <1>0, <1>1 DEF InStep, OthersOnly, LatenciesInStep
<1>3. CASE aggregated' = aggregated
  <2>1. AggregatesInStep(e)' /\ FreshRound(e)'
    BY <1>0, <1>1, <1>3 DEF InStep, AggregatesInStep, FreshRound, NoAggregateOf
  <2> QED
    BY <1>0, <1>1, <1>2, <1>3, <2>1, InStepKept DEF InStep
<1>4. CASE aggregated' = [aggregated EXCEPT ![e][ep] = sums]
  <2>1. sums \in [Targets -> Latencies]
    BY <1>0 DEF Plus, Latencies, Latency
  <2>2. \A d \in Targets : sums[d] # "none" => d \in addr[e]
    <3>1. \A d \in Summed(e) : latencies[e][d] # "none" => d \in addr[e]
      BY <1>0 DEF InStep, OthersOnly, LatenciesInStep, Summed, EdgeProxies, Targets
    <3> QED
      BY <1>0, <3>1 DEF InStep, AggregatesInStep
  <2> HIDE DEF sums
  <2>3. /\ aggregated' \in [Edges -> [Edges -> [Targets -> Latencies]]]
        /\ \A f \in Edges : f # e => aggregated'[f] = aggregated[f]
        /\ aggregated'[e][ep] = sums
        /\ \A x \in Edges : x # ep => aggregated'[e][x] = aggregated[e][x]
    BY <1>0, <1>4, <2>1
  <2>4. AggregatesInStep(e)'
    BY <1>0, <2>2, <2>3 DEF InStep, OthersOnly, AggregatesInStep, EdgeProxies
  <2>5. FreshRound(e)'
    <3>1. FreshRound(e) /\ ep \notin round'[e].todo
      BY <1>0, <1>1 DEF InStep
    <3>2. \A x \in round'[e].todo : x \in Edges /\ x # ep /\ aggregated'[e][x] = aggregated[e][x]
      BY <1>0, <1>1, <2>3 DEF Round
    <3> QED
      BY <1>0, <1>1, <3>1, <3>2 DEF FreshRound, NoAggregateOf
  <2> QED
    BY <1>0, <1>1, <1>2, <2>3, <2>4, <2>5, InStepKept DEF InStep
<1> QED
  BY <1>0, <1>3, <1>4 DEF AggregateLatencies

(* A pinger that stops, or starts, has empty maps.                         *)
LEMMA EmptyInStep ==
  ASSUME NEW e \in Edges, addr'[e] = {}, latencies'[e] = NoLatencies,
         aggregated'[e] = NoAggregates, NEW pc, round'[e] = At(pc)
  PROVE  InStep(e)'
<1>1. /\ \A d \in Targets : latencies'[e][d] = "none"
      /\ \A ep \in Edges, d \in Targets : aggregated'[e][ep][d] = "none"
      /\ Edges \subseteq Targets /\ Nodes \subseteq Targets
  BY DEF NoLatencies, NoAggregates, Targets
<1>2. round'[e].todo = {} /\ ~round'[e].discovered
  BY DEF At
<1> QED
  BY <1>1, <1>2 DEF InStep, OthersOnly, LatenciesInStep, AggregatesInStep, FreshRound

-----------------------------------------------------------------------------
(* The invariant.                                                          *)

(* Nothing is known at first.                                              *)
LEMMA InitInv == Init => IInv
<1> SUFFICES ASSUME Init PROVE IInv
  OBVIOUS
<1>1. NoLatencies \in [Targets -> Latencies] /\ NoAggregates \in [Edges -> [Targets -> Latencies]]
  BY DEF NoLatencies, NoAggregates, Latencies
<1>2. NoPings \in Pings
  BY WindowsAssumption DEF NoPings, Pings, PingRow, Ages, Never
<1>3. At("start") \in Round
  BY DEF At, Round
<1>4. TypeOK
  BY <1>1, <1>2, <1>3, ConstantsAssumption DEF Init, TypeOK
<1>5. ASSUME NEW e \in Edges PROVE InStep(e)
  <2>1. /\ \A d \in Targets : latencies[e][d] = "none"
        /\ \A ep \in Edges, d \in Targets : aggregated[e][ep][d] = "none"
        /\ Edges \subseteq Targets /\ Nodes \subseteq Targets
    BY DEF Init, NoLatencies, NoAggregates, Targets
  <2>2. addr[e] = {} /\ round[e].todo = {} /\ ~round[e].discovered
    BY DEF Init, At
  <2> QED
    BY <2>1, <2>2 DEF InStep, OthersOnly, LatenciesInStep, AggregatesInStep, FreshRound
<1> QED
  BY <1>4, <1>5 DEF IInv

(* IInv is inductive.                                                      *)
LEMMA NextInv == ASSUME IInv, [Next]_vars PROVE IInv'
<1>0. /\ present \subseteq Nodes /\ answering \subseteq Targets /\ pings \in Pings
      /\ addr \in [Edges -> SUBSET Nodes]
      /\ latencies \in [Edges -> [Targets -> Latencies]]
      /\ aggregated \in [Edges -> [Edges -> [Targets -> Latencies]]]
      /\ round \in [Edges -> Round] /\ due \in [Edges -> BOOLEAN]
      /\ changes \in 0..Changes /\ faults \in 0..Faults
      /\ Changes \in Nat /\ Faults \in Nat
      /\ \A f \in Edges : InStep(f)
  BY ConstantsAssumption DEF IInv, TypeOK
<1>1. Answers \/ Fails => faults' \in 0..Faults
  BY <1>0 DEF Answers, Fails
<1>2. ASSUME NEW e \in Edges, UpdateAddresses(e) PROVE IInv'
  <2>1. /\ UNCHANGED <<present, answering, changes, pings>> /\ due' \in [Edges -> BOOLEAN]
        /\ faults' \in 0..Faults
    BY <1>0, <1>1, <1>2 DEF UpdateAddresses, world
  <2> QED
    BY <1>0, <1>2, <2>1, UpdateAddressesInStep DEF IInv, TypeOK
<1>3. ASSUME NEW e \in Edges, PingAll(e) PROVE IInv'
  <2>1. PICK l \in [Targets -> Latencies] : l = latencies'[e]
    BY <1>3, PingAllInStep
  <2>2. pings' \in Pings
    <3>1. pings' = SavePingTime(pings, l, e) \/ pings' = pings
      BY <1>3, <2>1 DEF PingAll
    <3>2. pings \in Pings
      BY <1>0
    <3> QED
      BY <2>1, <3>1, <3>2, SavePingTimeType
  <2>3. /\ UNCHANGED <<present, answering, changes, addr, aggregated, due>>
        /\ faults' \in 0..Faults
    BY <1>1, <1>3 DEF PingAll, world
  <2> QED
    BY <1>0, <1>3, <2>2, <2>3, PingAllInStep DEF IInv, TypeOK
<1>4. ASSUME NEW e \in Edges, NEW ep \in Edges, AggregateLatencies(e, ep) PROVE IInv'
  <2>1. /\ UNCHANGED <<present, answering, changes, addr, latencies, pings, due>>
        /\ faults' \in 0..Faults
    BY <1>1, <1>4 DEF AggregateLatencies, world
  <2> QED
    BY <1>0, <1>4, <2>1, AggregateInStep DEF IInv, TypeOK
<1>5. ASSUME NEW e \in Edges, SaveAggregated(e) PROVE IInv'
  <2>1. pings' \in Pings
    <3>1. pings' = SaveAggregatedLatencies(pings, aggregated[e]) \/ pings' = pings
      BY <1>5 DEF SaveAggregated
    <3>2. pings \in Pings /\ aggregated[e] \in [Edges -> [Targets -> Latencies]]
      BY <1>0
    <3> QED
      BY <3>1, <3>2, SaveAggregatedType
  <2>2. /\ UNCHANGED <<present, answering, changes, addr, latencies, aggregated, due>>
        /\ faults' \in 0..Faults
    BY <1>1, <1>5 DEF SaveAggregated, world, maps
  <2>3. /\ round' \in [Edges -> Round] /\ round'[e].todo = {} /\ ~round'[e].discovered
        /\ \A f \in Edges : f # e => round'[f] = round[f]
    BY <1>0, <1>5 DEF SaveAggregated, At, Round
  <2>4. InStep(e)'
    BY <1>0, <2>2, <2>3 DEF InStep, OthersOnly, LatenciesInStep, AggregatesInStep, FreshRound
  <2>5. \A f \in Edges : InStep(f)'
    BY <1>0, <2>2, <2>3, <2>4, InStepKept
  <2> QED
    BY <1>0, <2>1, <2>2, <2>3, <2>5 DEF IInv, TypeOK
<1>6. ASSUME NEW e \in Edges, Stop(e) PROVE IInv'
  <2>1. /\ addr' = [addr EXCEPT ![e] = {}] /\ latencies' = [latencies EXCEPT ![e] = NoLatencies]
        /\ aggregated' = [aggregated EXCEPT ![e] = NoAggregates]
        /\ round' = [round EXCEPT ![e] = At("down")] /\ due' = [due EXCEPT ![e] = FALSE]
        /\ UNCHANGED <<present, answering, pings, faults>> /\ changes' \in 0..Changes
    BY <1>0, <1>6 DEF Stop
  <2>2. /\ NoLatencies \in [Targets -> Latencies]
        /\ NoAggregates \in [Edges -> [Targets -> Latencies]] /\ At("down") \in Round
    BY DEF NoLatencies, NoAggregates, Latencies, At, Round
  <2>3. TypeOK'
    BY <1>0, <2>1, <2>2 DEF TypeOK
  <2>4. InStep(e)'
    BY <1>0, <2>1, EmptyInStep
  <2>5. \A f \in Edges : InStep(f)'
    BY <1>0, <2>1, <2>4, InStepKept
  <2> QED
    BY <2>3, <2>5 DEF IInv
<1>7. ASSUME NEW e \in Edges, Start(e) PROVE IInv'
  <2>1. /\ round' = [round EXCEPT ![e] = At("start")]
        /\ UNCHANGED <<present, answering, changes, pings, addr, latencies, aggregated, due, faults>>
    BY <1>7 DEF Start, world, maps
  <2>2. At("start") \in Round /\ At("start").todo = {} /\ ~At("start").discovered
    BY DEF At, Round
  <2>3. InStep(e)'
    BY <1>0, <2>1, <2>2 DEF InStep, OthersOnly, LatenciesInStep, AggregatesInStep, FreshRound
  <2>4. \A f \in Edges : InStep(f)'
    BY <1>0, <2>1, <2>3, InStepKept
  <2> QED
    BY <1>0, <2>1, <2>2, <2>4 DEF IInv, TypeOK
<1>8. CASE Tick
  <2>1. /\ due' \in [Edges -> BOOLEAN] /\ pings' \in Pings
        /\ UNCHANGED <<present, answering, changes, addr, latencies, aggregated, round, faults>>
    BY <1>0, <1>8, PingsOlderType DEF Tick, world, maps
  <2>2. \A f \in Edges : InStep(f)'
    BY <1>0, <2>1, InStepKept
  <2> QED
    BY <1>0, <2>1, <2>2 DEF IInv, TypeOK
<1>9. CASE Change
  <2>1. /\ present' \subseteq Nodes /\ answering' \subseteq Targets /\ changes' \in 0..Changes
        /\ UNCHANGED <<pings, addr, latencies, aggregated, round, due, faults>>
    BY <1>0, <1>9 DEF Change, maps
  <2>2. \A f \in Edges : InStep(f)'
    BY <1>0, <2>1, InStepKept
  <2> QED
    BY <1>0, <2>1, <2>2 DEF IInv, TypeOK
<1>10. CASE UNCHANGED vars
  <2>1. UNCHANGED <<present, answering, pings, addr, latencies, aggregated, round, due, changes, faults>>
    BY <1>10 DEF vars
  <2>2. \A f \in Edges : InStep(f)'
    BY <1>0, <2>1, InStepKept
  <2> QED
    BY <1>0, <2>1, <2>2 DEF IInv, TypeOK
<1> QED
  BY <1>2, <1>3, <1>4, <1>5, <1>6, <1>7, <1>8, <1>9, <1>10 DEF Next, Step

(* The inductive invariant of the pingers.                                 *)
THEOREM Invariance == Spec => []IInv
  BY InitInv, NextInv, PTL DEF Spec

(* Addresses, maps, rounds and the database are what they are taken for.   *)
THEOREM TypeCorrect == Spec => []TypeOK
<1>1. IInv => TypeOK
  BY DEF IInv
<1> QED
  BY <1>1, Invariance, PTL

(* Over rounds in which nodes come and go, lists fail and pingers stop,    *)
(* latencies are kept for just the known addresses, and aggregates for     *)
(* known addresses and other edges only (pinger.go:66-80, :123-135).       *)
THEOREM TablesInStepHolds == Spec => []TablesInStep
<1>1. IInv => TablesInStep
  BY DEF IInv, InStep, LatenciesInStep, AggregatesInStep, TablesInStep
<1> QED
  BY <1>1, Invariance, PTL

(* After a list that answered, no aggregate of an earlier round is saved   *)
(* for an edge that has not yet answered in this one (pinger.go:129-134).  *)
THEOREM AggregatesOfThisRoundHolds == Spec => []AggregatesOfThisRound
<1>1. IInv => AggregatesOfThisRound
  BY DEF IInv, InStep, FreshRound, NoAggregateOf, AggregatesOfThisRound
<1> QED
  BY <1>1, Invariance, PTL
-----------------------------------------------------------------------------
(* Whose latencies are written anew.                                       *)

(* A sum of this round rests on a latency that the database still holds:   *)
(* it gets no older before the round is over.                              *)
Heard(e) == round[e].pc = "aggregate" /\ round[e].discovered =>
  \A ep \in Edges : NoAggregateOf(e, ep) \/ pings[ep][e].last <= Hour
HInv == IInv /\ \A e \in Edges : Heard(e)

(* Writing a point makes a series younger, if there is one to write.       *)
LEMMA WritePointYounger ==
  ASSUME NEW row \in PingRow, NEW l \in Latencies
  PROVE  /\ WritePoint(row, l).last <= row.last
         /\ WritePoint(row, l).positive <= row.positive
         /\ l = "none" => WritePoint(row, l) = row
<1>1. row.last \in Nat /\ row.positive \in Nat
  BY WindowsAssumption DEF PingRow, Ages, Never
<1>2. CASE l = "none"
  BY <1>1, <1>2 DEF WritePoint
<1>3. CASE l = "zero"
  BY <1>1, <1>3 DEF WritePoint, PingRow
<1>4. CASE l = "positive"
  BY <1>1, <1>4 DEF WritePoint
<1> QED
  BY <1>2, <1>3, <1>4 DEF Latencies, Latency

(* The rows of the database in a step, PingAll: its own are written, ...   *)
LEMMA PingAllRows ==
  ASSUME IInv, NEW e \in Edges, PingAll(e)
  PROVE  /\ \A ep \in Edges, d \in Targets : pings'[ep][d].last <= pings[ep][d].last
         /\ \A ep \in Edges \ {e} : pings'[ep] = pings[ep]
<1>1. pings \in Pings
  BY DEF IInv, TypeOK
<1>2. PICK l \in [Targets -> Latencies] : l = latencies'[e]
  BY PingAllInStep
<1>3. CASE pings' = pings
  <2>1. \A ep \in Edges, d \in Targets : pings[ep][d].last \in Nat
    BY <1>1, WindowsAssumption DEF Pings, PingRow, Ages, Never
  <2> QED
    BY <1>3, <2>1
<1>4. CASE pings' = SavePingTime(pings, l, e)
  <2>1. /\ \A ep \in Edges \ {e} : pings'[ep] = pings[ep]
        /\ \A d \in Targets : pings'[e][d] = WritePoint(pings[e][d], l[d])
    BY <1>1, <1>4 DEF SavePingTime, Pings
  <2>2. \A ep \in Edges, d \in Targets : pings[ep][d] \in PingRow /\ pings[ep][d].last \in Nat
    BY <1>1, WindowsAssumption DEF Pings, PingRow, Ages, Never
  <2>3. \A d \in Targets : l[d] \in Latencies
    BY <1>2
  <2>4. \A d \in Targets : pings'[e][d].last <= pings[e][d].last
    BY <2>1, <2>2, <2>3, WritePointYounger
  <2> QED
    BY <2>1, <2>2, <2>4
<1> QED
  BY <1>2, <1>3, <1>4 DEF PingAll

(* ... SaveAggregated: those it has sums of.                               *)
LEMMA SaveAggregatedRows ==
  ASSUME IInv, NEW e \in Edges, SaveAggregated(e)
  PROVE  \A ep \in Edges, d \in Targets :
           /\ pings'[ep][d].last <= pings[ep][d].last
           /\ aggregated[e][ep][d] = "none" => pings'[ep][d] = pings[ep][d]
<1>1. /\ pings \in Pings
      /\ \A ep \in Edges, d \in Targets : aggregated[e][ep][d] \in Latencies
  BY DEF IInv, TypeOK
<1>2. \A ep \in Edges, d \in Targets : pings[ep][d] \in PingRow /\ pings[ep][d].last \in Nat
  BY <1>1, WindowsAssumption DEF Pings, PingRow, Ages, Never
<1>3. CASE pings' = pings
  BY <1>2, <1>3
<1>4. CASE pings' = SaveAggregatedLatencies(pings, aggregated[e])
  <2>1. \A ep \in Edges, d \in Targets :
          pings'[ep][d] = WritePoint(pings[ep][d], aggregated[e][ep][d])
    BY <1>4 DEF SaveAggregatedLatencies
  <2> QED
    BY <1>1, <1>2, <2>1, WritePointYounger
<1> QED
  BY <1>3, <1>4 DEF SaveAggregated

(* What another pinger's round rests on, in a step that leaves that round  *)
(* alone and lets no time pass.                                            *)
LEMMA HeardKept ==
  ASSUME HInv, NEW e \in Edges, \A ep \in Edges : pings'[ep][e].last <= pings[ep][e].last,
         pings' \in Pings, aggregated'[e] = aggregated[e], round'[e] = round[e]
  PROVE  Heard(e)'
<1>1. Heard(e) /\ pings \in Pings /\ Edges \subseteq Targets
  BY DEF HInv, IInv, TypeOK, Targets
<1>2. \A ep \in Edges : pings'[ep][e].last \in Nat /\ pings[ep][e].last \in Nat /\ Hour \in Nat
  BY <1>1, WindowsAssumption DEF Pings, PingRow, Ages, Never
<1> QED
  BY <1>1, <1>2 DEF Heard, NoAggregateOf

(* HInv is inductive.                                                      *)
LEMMA NextHeard == ASSUME HInv, [Next]_vars PROVE HInv'
<1>0. /\ IInv /\ IInv' /\ \A e \in Edges : Heard(e)
      /\ pings \in Pings /\ pings' \in Pings /\ round \in [Edges -> Round]
      /\ aggregated \in [Edges -> [Edges -> [Targets -> Latencies]]]
      /\ Edges \subseteq Targets
  BY NextInv DEF HInv, IInv, TypeOK, Targets
<1>1. /\ \A ep, e \in Edges : pings[ep][e].last \in Nat
      /\ pings' = pings => \A ep, e \in Edges : pings'[ep][e].last <= pings[ep][e].last
  <2>1. \A ep \in Edges : pings[ep] \in [Targets -> PingRow]
    BY <1>0 DEF Pings
  <2>2. \A row \in PingRow : row.last \in Nat
    BY WindowsAssumption DEF PingRow, Ages, Never
  <2>3. \A ep, e \in Edges : pings[ep][e].last \in Nat
    BY <1>0, <2>1, <2>2
  <2> QED
    BY <2>3
<1> SUFFICES \A f \in Edges : Heard(f)'
  BY <1>0 DEF HInv
<1>2. ASSUME NEW e \in Edges, UpdateAddresses(e) \/ Stop(e) \/ Start(e) PROVE \A f \in Edges : Heard(f)'
  <2>1. /\ pings' = pings /\ round'[e].pc # "aggregate"
        /\ \A f \in Edges : f # e => aggregated'[f] = aggregated[f] /\ round'[f] = round[f]
    BY <1>0, <1>2 DEF UpdateAddresses, Stop, Start, maps, At
  <2>2. Heard(e)'
    BY <2>1 DEF Heard
  <2>3. \A f \in Edges : f # e => Heard(f)'
    BY <1>0, <1>1, <2>1, HeardKept
  <2> QED
    BY <2>2, <2>3
<1>3. ASSUME NEW e \in Edges, PingAll(e) PROVE \A f \in Edges : Heard(f)'
  <2>1. /\ round[e].pc = "ping" /\ round'[e].discovered = round[e].discovered
        /\ aggregated' = aggregated
        /\ \A f \in Edges : f # e => round'[f] = round[f]
    BY <1>0, <1>3 DEF PingAll, Round
  <2>2. Heard(e)'
    <3>1. round[e].discovered => \A ep \in Edges : NoAggregateOf(e, ep)
      BY <1>0, <2>1 DEF IInv, InStep, FreshRound
    <3> QED
      BY <2>1, <3>1 DEF Heard, NoAggregateOf
  <2> QED
    BY <1>0, <1>3, <2>1, <2>2, PingAllRows, HeardKept
<1>4. ASSUME NEW e \in Edges, NEW ep \in Edges, AggregateLatencies(e, ep)
      PROVE  \A f \in Edges : Heard(f)'
  <2>1. /\ pings' = pings /\ round[e].pc = "aggregate" /\ round'[e].discovered = round[e].discovered
        /\ \A f \in Edges : f # e => aggregated'[f] = aggregated[f] /\ round'[f] = round[f]
        /\ \A q \in Edges : q # ep => aggregated'[e][q] = aggregated[e][q]
        /\ aggregated' # aggregated => GetLatency(pings, ep, e) # "none"
    BY <1>0, <1>4 DEF AggregateLatencies, Round
  <2>2. GetLatency(pings, ep, e) # "none" => pings[ep][e].last <= Hour
    <3>1. pings[ep][e].last \in Nat /\ Hour \in Nat
      BY <1>1, WindowsAssumption
    <3>2. pings[ep][e].last > Hour => GetLatency(pings, ep, e) = "none"
      BY DEF GetLatency
    <3> QED
      BY <3>1, <3>2
  <2>3. Heard(e)'
    <3>1. Heard(e)
      BY <1>0
    <3>2. \A q \in Edges : aggregated'[e][q] = aggregated[e][q] \/ pings[q][e].last <= Hour
      BY <2>1, <2>2
    <3>3. round'[e].discovered =>
            \A q \in Edges : NoAggregateOf(e, q)' \/ pings'[q][e].last <= Hour
      BY <2>1, <3>1, <3>2 DEF Heard, NoAggregateOf
    <3> QED
      BY <3>3 DEF Heard
  <2>4. \A f \in Edges : f # e => Heard(f)'
    BY <1>0, <1>1, <2>1, HeardKept
  <2> QED
    BY <2>3, <2>4
<1>5. ASSUME NEW e \in Edges, SaveAggregated(e) PROVE \A f \in Edges : Heard(f)'
  <2>1. /\ round'[e].pc # "aggregate" /\ aggregated' = aggregated
        /\ \A f \in Edges : f # e => round'[f] = round[f]
    BY <1>0, <1>5 DEF SaveAggregated, maps, At
  <2>2. Heard(e)'
    BY <2>1 DEF Heard
  <2> QED
    BY <1>0, <1>5, <2>1, <2>2, SaveAggregatedRows, HeardKept
<1>6. CASE Tick
  BY <1>6 DEF Tick, Heard
<1>7. CASE Change \/ UNCHANGED vars
  <2>1. UNCHANGED <<pings, aggregated, round>>
    BY <1>7 DEF Change, maps, vars
  <2> QED
    BY <1>0, <1>1, <2>1, HeardKept
<1> QED
  BY <1>2, <1>3, <1>4, <1>5, <1>6, <1>7 DEF Next, Step

(* The step that writes a latency anew.                                    *)
LEMMA RenewedBy ==
  ASSUME HInv, [Next]_vars, NEW e \in Edges, NEW d \in Targets, Renewed(e, d)
  PROVE  Measures(e) \/ (d \in Nodes /\ \E f \in Edges : Adds(f, e, d))
<1>0. /\ IInv /\ \A f \in Edges : Heard(f) /\ InStep(f)
      /\ pings \in Pings /\ round \in [Edges -> Round] /\ WindowsAssumption
  BY WindowsAssumption DEF HInv, IInv, TypeOK
<1>1. /\ pings[e][d] \in PingRow /\ pings[e][d].last \in Ages /\ pings[e][d].positive \in Ages
      /\ \A a \in Ages : a \in Nat /\ ~(a < a) /\ ~(Older(a) < a)
  BY <1>0, WindowsAssumption DEF Pings, PingRow, Ages, Never, Older
<1>2. pings'[e][d] # pings[e][d]
  BY <1>1 DEF Renewed
<1>3. ASSUME NEW f \in Edges, PingAll(f) PROVE Measures(e)
  <2>1. f = e
    BY <1>0, <1>2, <1>3, PingAllRows
  <2> QED
    BY <1>0, <1>3, <2>1 DEF PingAll, Measures, Round
<1>4. ASSUME NEW f \in Edges, SaveAggregated(f)
      PROVE  d \in Nodes /\ Adds(f, e, d)
  <2>1. round[f].pc = "aggregate" /\ aggregated[f][e][d] # "none"
    BY <1>0, <1>2, <1>4, SaveAggregatedRows DEF SaveAggregated
  <2>2. e # f /\ d \in addr[f] /\ addr[f] \subseteq Nodes
    BY <1>0, <2>1 DEF InStep, AggregatesInStep, OthersOnly
  <2>3. round[f].discovered => pings[e][f].last <= Hour
    BY <1>0, <2>1 DEF Heard, NoAggregateOf
  <2> QED
    BY <2>1, <2>2, <2>3 DEF Adds
<1>5. ~Tick
  <2> SUFFICES ASSUME Tick PROVE FALSE
    OBVIOUS
  <2>1. /\ pings'[e][d].last = Older(pings[e][d].last)
        /\ pings'[e][d].positive = Older(pings[e][d].positive)
    BY DEF Tick, PingsOlder
  <2> QED
    BY <1>1, <2>1 DEF Renewed
<1>6. \E f \in Edges : PingAll(f) \/ SaveAggregated(f)
  BY <1>2, <1>5 DEF Next, Step, UpdateAddresses, AggregateLatencies, Stop, Start, Change, vars
<1> QED
  BY <1>3, <1>4, <1>6

(* A latency from an edge is written anew only by the pinger that measures *)
(* it or, to a node of another cluster, by the pinger there while the      *)
(* database holds what that edge measured to it (pinger.go:198-202, :206): *)
(* sums do not keep each other alive.                                      *)
THEOREM RenewedFirstHandHolds == Spec => RenewedFirstHand
<1>1. Init => HInv
  <2>1. At("start").pc = "start"
    BY DEF At
  <2>2. ASSUME Init PROVE \A e \in Edges : round[e].pc # "aggregate"
    BY <2>1, <2>2 DEF Init
  <2> QED
    BY <2>2, InitInv DEF HInv, Heard
<1>2. HInv /\ [Next]_vars => HInv'
  BY NextHeard
<1>3. HInv /\ [Next]_vars => [\A e \in Edges, d \in Targets : Renewed(e, d) =>
        Measures(e) \/ (d \in Nodes /\ \E f \in Edges : Adds(f, e, d))]_vars
  BY RenewedBy
<1> QED
  BY <1>1, <1>2, <1>3, PTL DEF Spec, RenewedFirstHand
=============================================================================
