---------------------------- MODULE MetricsWorker ----------------------------
(***************************************************************************)
(* The metrics worker of an edge proxy                                     *)
(* (proxima-scheduler/edgeproxy/metricsworker.go): request handlers send   *)
(* latency data over a bounded channel, one goroutine counts them in a     *)
(* ring of buckets per pod, another one saves and rotates the rings every  *)
(* flushInterval.  metricsMutex makes the handling of one datum and one    *)
(* flush atomic.  Services are not told apart: the code keeps one map of   *)
(* pods for each and treats all alike.                                     *)
(*                                                                         *)
(* Times are ages, in ticks, and stop growing where the code no longer     *)
(* tells them apart, so that the model runs for ever.                      *)
(***************************************************************************)
EXTENDS Integers, Sequences, FiniteSets, Functions

CONSTANTS
  Pods,        \* target urls
  Latencies,   \* what a response may have taken
  BufferSize,  \* capacity of metricsChan (100)
  Buckets,     \* length of the rings (5)
  Minute,      \* ticks per minute
  Flush,       \* flushInterval in ticks (one minute)
  Stale,       \* staleThreshold in ticks (15 minutes)
  MaxCount,    \* bound: requests of a pod that are counted at a time
  None

ASSUME ConstantsAssumption ==
  /\ Latencies \subseteq Nat
  /\ BufferSize \in Nat /\ Buckets \in Nat \ {0} /\ Minute \in Nat \ {0}
  /\ Flush \in Nat \ {0} /\ Stale \in Nat /\ MaxCount \in Nat
  /\ IsFiniteSet(Pods)
(* There are five buckets of a minute, a flush every minute, and the       *)
(* threshold of 15 minutes exceeds the five.                               *)
ASSUME TimesAssumption ==
  /\ Buckets > 3 /\ Flush <= Minute /\ Buckets * Minute <= Stale

VARIABLES
  metricsChan,  \* data sent and not yet handled
  metrics,      \* serviceMetrics: the record of a pod, or None
  flushIn,      \* ticks until the next flush
  saved,        \* what the last flush saved: requests per pod, and "ALL"
  handled       \* history: how many requests were counted how long ago

vars == <<metricsChan, metrics, flushIn, saved, handled>>

Ring    == 0..(Buckets - 1)
Window  == Buckets * Minute
Data    == [pod : Pods, latency : Latencies]
Metrics == [updated : 0..(Stale + 1), bucket : 0..Window, index : Ring,
            rpm : [Ring -> Nat], lat : [Ring -> Nat]]
ASSUME NoneAssumption == None \notin Metrics \cup Nat

Fresh   == [updated |-> 0, bucket |-> 0, index |-> 0,
            rpm |-> [i \in Ring |-> 0], lat |-> [i \in Ring |-> 0]]

TypeOK ==
  /\ metricsChan \in Seq(Data) /\ Len(metricsChan) <= BufferSize
  /\ metrics \in [Pods -> Metrics \cup {None}]
  /\ flushIn \in 0..Flush
  /\ saved \in [pods : [Pods -> Nat], all : Nat \cup {None}]
  /\ handled \in [Pods -> [0..Window -> Nat]]

Init ==
  /\ metricsChan = <<>>
  /\ metrics = [p \in Pods |-> None]
  /\ flushIn = Flush
  /\ saved = [pods |-> [p \in Pods |-> 0], all |-> None]
  /\ handled = [p \in Pods |-> [a \in 0..Window |-> 0]]

-----------------------------------------------------------------------------
(* MUTANT of SendLatencyData: the channel is not bounded.                  *)
SendUnbounded(d) ==
  /\ metricsChan' = Append(metricsChan, d)
  /\ UNCHANGED <<metrics, flushIn, saved, handled>>

(* SendLatencyData never waits: a full channel loses the datum.            *)
SendLatencyData(d) ==
  /\ Len(metricsChan) < BufferSize
  /\ metricsChan' = Append(metricsChan, d)
  /\ UNCHANGED <<metrics, flushIn, saved, handled>>
Drop == Len(metricsChan) = BufferSize /\ UNCHANGED vars

(* Turn the ring k buckets on, emptying the ones it comes to.              *)
Turn(m, k) ==
  LET emptied == {(m.index + i) % Buckets : i \in 1..k} IN
  [m EXCEPT !.index = (@ + k) % Buckets,
            !.rpm = [i \in Ring |-> IF i \in emptied THEN 0 ELSE @[i]],
            !.lat = [i \in Ring |-> IF i \in emptied THEN 0 ELSE @[i]]]

(* processMetrics turns the ring by the whole minutes since it last did.   *)
Elapsed(m) == m.bucket \div Minute
Shifted(m) == IF Elapsed(m) = 0 THEN m ELSE [Turn(m, Elapsed(m)) EXCEPT !.bucket = 0]
Counted(m, l) == [m EXCEPT !.updated = 0, !.rpm[m.index] = @ + 1, !.lat[m.index] = @ + l]

(* processMetrics, one datum; it is dated now, not when it was sent.       *)
ProcessMetrics ==
  /\ metricsChan # <<>>
  /\ LET d == Head(metricsChan)
         m == IF metrics[d.pod] = None THEN Fresh ELSE metrics[d.pod] IN
     /\ metrics' = [metrics EXCEPT ![d.pod] = Counted(Shifted(m), d.latency)]
     /\ handled' = [handled EXCEPT ![d.pod][0] = @ + 1]
  /\ metricsChan' = Tail(metricsChan)
  /\ UNCHANGED <<flushIn, saved>>

-----------------------------------------------------------------------------
(* What calculateAverageRPM divides by five.                               *)
Requests(m) == IF m = None THEN 0 ELSE SumFunction(m.rpm)

(* flushMetrics turns every ring by one bucket ...                         *)
(* MUTANT of Rotated: LatencyBuckets is not emptied.                       *)
RotatedHalf(m) == [Turn(m, 1) EXCEPT !.lat = m.lat]
(* MUTANT of Rotated: the bucket the ring leaves is emptied.               *)
RotatedLeft(m) == [m EXCEPT !.index = (@ + 1) % Buckets, !.rpm[m.index] = 0, !.lat[m.index] = 0]
(* MUTANT of Rotated: the bucket the ring comes to is not emptied.         *)
RotatedFull(m) == [m EXCEPT !.index = (@ + 1) % Buckets]
Rotated(m) == Turn(m, 1)

(* ... and forgets a pod that had no request for too long.                 *)
(* MUTANT of Expired: the threshold is in the wrong unit.                  *)
ExpiredSoon(m) == m.updated > Minute
Expired(m) == m.updated > Stale

(* Save every pod, turn its ring or forget it, then save the total of what *)
(* is left; a total of zero is not saved.                                  *)
FlushMetrics ==
  LET total == SumFunction([p \in Pods |-> Requests(metrics'[p])]) IN
  /\ flushIn = 0 /\ flushIn' = Flush
  /\ metrics' = [p \in Pods |->
       IF metrics[p] = None \/ Expired(metrics[p]) THEN None ELSE Rotated(metrics[p])]
  /\ saved' = [pods |-> [p \in Pods |-> Requests(metrics[p])],
               all  |-> IF total = 0 THEN None ELSE total]
  /\ UNCHANGED <<metricsChan, handled>>

-----------------------------------------------------------------------------
(* Time passes; a flush that is due comes first.                           *)
Capped(n, max) == IF n < max THEN n + 1 ELSE max

Tick ==
  /\ flushIn > 0 /\ flushIn' = flushIn - 1
  /\ metrics' = [p \in Pods |-> IF metrics[p] = None THEN None ELSE
       [metrics[p] EXCEPT !.updated = Capped(@, Stale + 1), !.bucket = Capped(@, Window)]]
  /\ handled' = [p \in Pods |-> [a \in 0..Window |-> IF a = 0 THEN 0 ELSE handled[p][a - 1]]]
  /\ UNCHANGED <<metricsChan, saved>>

Request(d) ==
  /\ SumFunction(handled[d.pod]) + Len(metricsChan) < MaxCount
  /\ SendLatencyData(d)

Next == (\E d \in Data : Request(d)) \/ Drop \/ ProcessMetrics \/ FlushMetrics \/ Tick

Spec == Init /\ [][Next]_vars

-----------------------------------------------------------------------------
(* Properties.                                                             *)

(* The two rings of a pod stay in step: both loops of processMetrics and   *)
(* flushMetrics empty the same buckets, so the latency in a bucket is that *)
(* of its requests and the average of calculateAverageLatency lies between *)
(* the least and the greatest latency.                                     *)
RingsInStep == \A p \in Pods : metrics[p] # None =>
  \A i \in Ring : \E lo, hi \in Latencies :
    /\ lo * metrics[p].rpm[i] <= metrics[p].lat[i]
    /\ metrics[p].lat[i] <= hi * metrics[p].rpm[i]

(* No request counts for longer than the window of the rings: although     *)
(* both goroutines turn a ring, each flush empties one bucket.             *)
OldForgotten == \A p \in Pods : Requests(metrics[p]) <= SumFunction(handled[p])

(* "last 5 minutes time buckets" (metricsworker.go:21): a request of that  *)
(* time still counts, but for the minute that the current bucket may lack  *)
(* and for a late flush.                                                   *)
RecentCounted == \A p \in Pods :
  Requests(metrics[p]) >= SumFunctionOnSet(handled[p], 0..(Window - Flush - Minute))

(* A pod that gets requests again is not forgotten: a flush drops only     *)
(* pods none of whose requests is recent (Stale exceeds the window).       *)
ForgetsOnlyIdle == [][ \A p \in Pods : (metrics[p] # None /\ metrics'[p] = None)
                        => Requests(metrics[p]) = 0 ]_vars

(* The ALL row is added up after its rings were turned (:159-184), so it   *)
(* lacks what the oldest buckets held, but never a request that was        *)
(* counted since the last flush: what the score worker reads as the load   *)
(* of an edge has its latest minute.                                       *)
Total(row) == IF row.all = None THEN 0 ELSE row.all
LatestInTotal == [][ flushIn = 0 /\ flushIn' = Flush =>
  Total(saved') >= SumFunction([p \in Pods |-> SumFunctionOnSet(handled[p], 0..Flush)]) ]_vars
=============================================================================
