------------------------------- MODULE Database -------------------------------
(***************************************************************************)
(* The InfluxDB wrapper of proxima-scheduler/util/db.go, as far as the     *)
(* queries tell its contents apart: of a series of pings only how long ago *)
(* its last point and its last positive point were written, of a series of *)
(* scores its last point.  Times are ages, in ticks of the module that     *)
(* uses the tables, and stop growing once no query reaches back so far.    *)
(***************************************************************************)
EXTENDS Naturals

CONSTANTS
  Edges,      \* addresses of the edge nodes, the tag "edge_proxy"
  Nodes,      \* addresses of the other nodes
  HalfMinute, \* how far GetAverageLatenciesForEdge reaches back (30s)
  TwoMinutes, \* ... GetAveragePingTimeByEdges (2m)
  Hour        \* ... GetLatency (1h) and GetNodeScore (60m)

ASSUME WindowsAssumption ==
  /\ HalfMinute \in Nat /\ TwoMinutes \in Nat /\ Hour \in Nat
  /\ HalfMinute <= TwoMinutes /\ TwoMinutes <= Hour
  /\ Edges \cap Nodes = {}

Targets == Edges \cup Nodes
Never   == Hour + 1
Ages    == 0..Never
Older(age) == IF age = Never THEN Never ELSE age + 1

(* A latency in milliseconds is only told apart by whether it is positive; *)
(* "none" is a key that a map does not have.                               *)
Latency   == {"zero", "positive"}
Latencies == Latency \cup {"none"}
Plus(k, l) == IF k = "zero" /\ l = "zero" THEN "zero" ELSE "positive"

-----------------------------------------------------------------------------
(* The measurement ping_times, by edge_proxy and node.                     *)
PingRow  == [last : Ages, positive : Ages]
Pings    == [Edges -> [Targets -> PingRow]]
NoPings  == [e \in Edges |-> [d \in Targets |-> [last |-> Never, positive |-> Never]]]
PingsOlder(pings) == [e \in Edges |-> [d \in Targets |->
  [last |-> Older(pings[e][d].last), positive |-> Older(pings[e][d].positive)]]]

WritePoint(row, l) ==
  CASE l = "none"     -> row
    [] l = "zero"     -> [row EXCEPT !.last = 0]
    [] l = "positive" -> [last |-> 0, positive |-> 0]

(* latencies: node -> latency, of one edge; or edge -> node -> latency.    *)
SavePingTime(pings, latencies, edge) ==
  [pings EXCEPT ![edge] = [d \in Targets |-> WritePoint(@[d], latencies[d])]]
SaveAggregatedLatencies(pings, latencies) ==
  [e \in Edges |-> [d \in Targets |-> WritePoint(pings[e][d], latencies[e][d])]]

(* The last point of the hour, or "none".                                  *)
GetLatency(pings, source, destination) ==
  LET row == pings[source][destination] IN
  IF row.last > Hour THEN "none"
  ELSE IF row.last = row.positive THEN "positive" ELSE "zero"

(* A mean over a window exists if it holds a point, and is positive if it  *)
(* holds a positive one.                                                   *)
Mean(row, window) ==
  IF row.last > window THEN "none"
  ELSE IF row.positive <= window THEN "positive" ELSE "zero"
GetAverageLatenciesForEdge(pings, edge) == [d \in Targets |-> Mean(pings[edge][d], HalfMinute)]
GetAveragePingTimeByEdges(pings) ==
  [e \in Edges |-> [d \in Targets |-> Mean(pings[e][d], TwoMinutes)]]
=============================================================================
