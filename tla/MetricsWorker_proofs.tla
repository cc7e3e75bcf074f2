-------------------------- MODULE MetricsWorker_proofs --------------------------
(* What holds of MetricsWorker for all pods, latencies and ring lengths.   *)
EXTENDS MetricsWorker, Sums_proofs, SequenceTheorems

(* How many turns ago a bucket was the current one, and the buckets that   *)
(* were current at most j turns ago.                                       *)
Distance(index, i) == IF i <= index THEN index - i ELSE index + Buckets - i
Recent(index, j) == {i \in Ring : Distance(index, i) <= j}

(* How old a request may be that counts in these buckets: there was a      *)
(* flush, which turns the ring, every Flush ticks.                         *)
Reach(j, fl) == (j + 1) * Flush - fl

InStep(m) == \A i \in Ring : \E lo, hi \in Latencies :
  lo * m.rpm[i] <= m.lat[i] /\ m.lat[i] <= hi * m.rpm[i]
Dated(m, h, fl) == \A j \in Ring :
  SumFunctionOnSet(m.rpm, Recent(m.index, j)) <= SumFunctionOnSet(h, 0..Reach(j, fl))
(* No request was counted since a pod was updated.                         *)
Untouched(m, h) == \A a \in 0..Window : a < m.updated => h[a] = 0

PodOK(m, h, fl) == InStep(m) /\ Dated(m, h, fl) /\ Untouched(m, h)
IInv == TypeOK /\ \A p \in Pods : metrics[p] # None => PodOK(metrics[p], handled[p], flushIn)

Histories == [0..Window -> Nat]

-----------------------------------------------------------------------------
(* Numbers.                                                                *)

(* The assumptions, as the provers need them.                              *)
LEMMA Positive ==
  /\ Buckets \in Nat \ {0} /\ Minute \in Nat \ {0} /\ Flush \in Nat \ {0} /\ Stale \in Nat
  /\ Window \in Nat /\ Ring = 0..(Buckets - 1) /\ IsFiniteSet(Ring) /\ IsFiniteSet(0..Window)
  /\ Window <= Stale /\ Flush <= Minute /\ 0 \in Ring
<1>1. Window \in Nat
  BY ConstantsAssumption DEF Window
<1> QED
  BY <1>1, ConstantsAssumption, TimesAssumption, FS_Interval DEF Window, Ring

(* The buckets reach back no longer than the window.                       *)
LEMMA ReachInWindow ==
  ASSUME NEW j \in Ring, NEW fl \in 0..Flush
  PROVE  /\ Reach(j, fl) \in 0..Window
         /\ \A k \in 0..j : Reach(j - k, fl) <= Reach(j, fl)
         /\ Reach(j, fl) \in Nat
<1>1. j + 1 \in Nat /\ j + 1 <= Buckets /\ j \in Nat
  BY Positive
<1>2. (j + 1) * Flush <= Buckets * Minute
  <2>1. \A a, b, c, d \in Nat : a <= b /\ c <= d => a * c <= b * d
    OBVIOUS
  <2> QED
    BY <1>1, <2>1, Positive
<1>3. (j + 1) * Flush = j * Flush + Flush /\ j * Flush \in Nat
  BY <1>1, Positive
<1>4. ASSUME NEW k \in 0..j PROVE Reach(j - k, fl) <= Reach(j, fl)
  <2>1. j - k + 1 \in Nat /\ j - k + 1 <= j + 1
    BY <1>1
  <2>2. (j - k + 1) * Flush <= (j + 1) * Flush
    BY <1>1, <2>1, Positive
  <2> QED
    BY <1>1, <2>1, <2>2, Positive DEF Reach
<1> QED
  BY <1>2, <1>3, <1>4, Positive DEF Reach, Window

(* A distance is less than a turn.                                         *)
LEMMA DistanceType ==
  ASSUME NEW index \in Ring, NEW i \in Ring
  PROVE  Distance(index, i) \in Ring /\ Distance(index, i) \in Nat /\ Distance(index, index) = 0
  BY Positive DEF Distance

(* The remainder of less than two turns.                                   *)
LEMMA Remainder ==
  ASSUME NEW B \in Nat \ {0}, NEW x \in 0..(B - 1), NEW i \in 1..B
  PROVE  (x + i) % B = IF x + i < B THEN x + i ELSE x + i - B
  OBVIOUS

(* A quotient that is at most B.                                           *)
LEMMA Quotient ==
  ASSUME NEW B \in Nat \ {0}, NEW M \in Nat \ {0}, NEW x \in 0..(B * M)
  PROVE  x \div M \in 0..B
  OBVIOUS

(* Where a ring comes to, and what it passes.                              *)
LEMMA TurnDistance ==
  ASSUME NEW index \in Ring, NEW k \in 1..Buckets
  PROVE  LET new == (index + k) % Buckets
             emptied == {(index + i) % Buckets : i \in 1..k}
         IN  /\ new \in Ring /\ emptied \subseteq Ring
             /\ \A i \in Ring : i \notin emptied => Distance(index, i) = Distance(new, i) - k
             /\ \A i \in emptied : Distance(index, i) >= Buckets - k
<1> DEFINE new == (index + k) % Buckets
           emptied == {(index + i) % Buckets : i \in 1..k}
<1>3. \A i \in 1..k : (index + i) % Buckets = IF index + i < Buckets THEN index + i
                                                ELSE index + i - Buckets
  <2> TAKE i \in 1..k
  <2>1. Buckets \in Nat \ {0} /\ index \in 0..(Buckets - 1) /\ i \in 1..Buckets
    BY Positive
  <2> QED
    BY <2>1, Remainder
<1>4. new = IF index + k < Buckets THEN index + k ELSE index + k - Buckets
  BY <1>3
<1>5. new \in Ring /\ emptied \subseteq Ring
  BY <1>3, <1>4, Positive
<1>6. ASSUME NEW i \in Ring, i \notin emptied PROVE Distance(index, i) = Distance(new, i) - k
  <2>1. \A n \in 1..k : i # IF index + n < Buckets THEN index + n ELSE index + n - Buckets
    BY <1>3, <1>6
  <2>2. ASSUME i <= index PROVE (i + Buckets - index) \notin 1..k
    <3>1. PICK n \in Int : n = i + Buckets - index
      BY Positive
    <3>2. index + n = i + Buckets /\ ~ (index + n < Buckets) /\ index + n - Buckets = i
      BY <3>1, Positive
    <3> QED
      BY <2>1, <3>1, <3>2
  <2>3. ASSUME i > index PROVE (i - index) \notin 1..k
    <3>1. PICK n \in Int : n = i - index
      BY Positive
    <3>2. index + n = i /\ index + n < Buckets
      BY <3>1, Positive
    <3> QED
      BY <2>1, <3>1, <3>2
  <2> HIDE DEF new, emptied
  <2> QED
    BY <1>4, <2>2, <2>3, Positive DEF Distance
<1>7. ASSUME NEW i \in emptied PROVE Distance(index, i) >= Buckets - k
  <2>1. PICK n \in 1..k : i = IF index + n < Buckets THEN index + n ELSE index + n - Buckets
    BY <1>3
  <2> HIDE DEF new, emptied
  <2> QED
    BY <2>1, Positive DEF Distance
<1> QED
  BY <1>5, <1>6, <1>7

-----------------------------------------------------------------------------
(* Rings.                                                                  *)

(* A turn empties buckets, in both rings the same.                         *)
LEMMA TurnFields ==
  ASSUME NEW m \in Metrics, NEW k \in 1..Buckets
  PROVE  \E emptied \in SUBSET Ring :
           /\ Turn(m, k) \in Metrics
           /\ Turn(m, k).updated = m.updated /\ Turn(m, k).bucket = m.bucket
           /\ \A i \in Ring : /\ Turn(m, k).rpm[i] = IF i \in emptied THEN 0 ELSE m.rpm[i]
                              /\ Turn(m, k).lat[i] = IF i \in emptied THEN 0 ELSE m.lat[i]
           /\ \A i \in Ring : i \notin emptied =>
                Distance(m.index, i) = Distance(Turn(m, k).index, i) - k
           /\ \A i \in emptied : Distance(m.index, i) >= Buckets - k
<1>0. m.index \in Ring /\ m.rpm \in [Ring -> Nat] /\ m.lat \in [Ring -> Nat]
  BY DEF Metrics
<1>1. PICK new, emptied : new = (m.index + k) % Buckets
                          /\ emptied = {(m.index + i) % Buckets : i \in 1..k}
  OBVIOUS
<1>2. /\ new \in Ring /\ emptied \subseteq Ring
      /\ \A i \in Ring : i \notin emptied => Distance(m.index, i) = Distance(new, i) - k
      /\ \A i \in emptied : Distance(m.index, i) >= Buckets - k
  BY <1>0, <1>1, TurnDistance
<1>3. PICK rpm, lat : /\ rpm = [i \in Ring |-> IF i \in emptied THEN 0 ELSE m.rpm[i]]
                      /\ lat = [i \in Ring |-> IF i \in emptied THEN 0 ELSE m.lat[i]]
  OBVIOUS
<1>4. rpm \in [Ring -> Nat] /\ lat \in [Ring -> Nat]
  BY <1>0, <1>3
<1>5. Turn(m, k) = [m EXCEPT !.index = new, !.rpm = rpm, !.lat = lat]
  BY <1>1, <1>3 DEF Turn
<1>6. /\ Turn(m, k) \in Metrics
      /\ Turn(m, k).updated = m.updated /\ Turn(m, k).bucket = m.bucket
      /\ Turn(m, k).index = new /\ Turn(m, k).rpm = rpm /\ Turn(m, k).lat = lat
  BY <1>2, <1>4, <1>5 DEF Metrics
<1> QED
  BY <1>2, <1>3, <1>6

(* A turn keeps the rings in step.                                         *)
LEMMA TurnInStep ==
  ASSUME NEW m \in Metrics, NEW k \in 1..Buckets, InStep(m)
  PROVE  InStep(Turn(m, k))
<1>1. SUFFICES ASSUME NEW i \in Ring
               PROVE  \E lo, hi \in Latencies : /\ lo * Turn(m, k).rpm[i] <= Turn(m, k).lat[i]
                                                /\ Turn(m, k).lat[i] <= hi * Turn(m, k).rpm[i]
  BY DEF InStep
<1>2. \/ Turn(m, k).rpm[i] = 0 /\ Turn(m, k).lat[i] = 0
      \/ Turn(m, k).rpm[i] = m.rpm[i] /\ Turn(m, k).lat[i] = m.lat[i]
  BY TurnFields
<1>3. PICK lo \in Latencies, hi \in Latencies : lo * m.rpm[i] <= m.lat[i] /\ m.lat[i] <= hi * m.rpm[i]
  BY DEF InStep
<1>4. lo \in Nat /\ hi \in Nat
  BY ConstantsAssumption
<1>5. CASE Turn(m, k).rpm[i] = 0 /\ Turn(m, k).lat[i] = 0
  <2>1. lo * 0 <= 0 /\ 0 <= hi * 0
    BY <1>4
  <2> QED
    BY <1>5, <2>1
<1> QED
  BY <1>2, <1>3, <1>5

(* Counts of requests are numbers.                                         *)
LEMMA RingSums ==
  ASSUME NEW m \in Metrics, NEW n \in Ring
  PROVE  /\ SumFunctionOnSet(m.rpm, Recent(m.index, n)) \in Nat
         /\ IsFiniteSet(Recent(m.index, n)) /\ Recent(m.index, n) \subseteq Ring
         /\ \A x \in Recent(m.index, n) : m.rpm[x] \in Nat
<1>1. Recent(m.index, n) \subseteq Ring
  BY DEF Recent
<1>2. \A x \in Recent(m.index, n) : m.rpm[x] \in Nat
  BY <1>1 DEF Metrics
<1>3. IsFiniteSet(Recent(m.index, n))
  BY <1>1, Positive, FS_Subset
<1>4. SumFunctionOnSet(m.rpm, Recent(m.index, n)) \in Nat
  BY <1>2, <1>3, SumType
<1> QED
  BY <1>1, <1>2, <1>3, <1>4

(* What the most recent buckets hold was in as many fewer before a turn.   *)
LEMMA TurnRecent ==
  ASSUME NEW m \in Metrics, NEW k \in 1..Buckets, NEW j \in Ring
  PROVE  LET sum == SumFunctionOnSet(Turn(m, k).rpm, Recent(Turn(m, k).index, j))
         IN  IF j < k THEN sum = 0
             ELSE j - k \in Ring /\ sum <= SumFunctionOnSet(m.rpm, Recent(m.index, j - k))
<1> DEFINE t == Turn(m, k)
           T == Recent(t.index, j)
<1>1. PICK emptied \in SUBSET Ring :
        /\ t \in Metrics
        /\ \A i \in Ring : t.rpm[i] = IF i \in emptied THEN 0 ELSE m.rpm[i]
        /\ \A i \in Ring : i \notin emptied => Distance(m.index, i) = Distance(t.index, i) - k
  BY TurnFields
<1> DEFINE R == T \ emptied
<1>2. /\ m.index \in Ring /\ t.index \in Ring
      /\ m.rpm \in [Ring -> Nat] /\ t.rpm \in [Ring -> Nat]
  BY <1>1 DEF Metrics
<1> HIDE DEF t
<1>3. T \subseteq Ring /\ R \subseteq Ring /\ IsFiniteSet(T) /\ IsFiniteSet(R)
  <2>1. T \subseteq Ring
    BY DEF Recent
  <2> QED
    BY <2>1, Positive, FS_Subset
<1>4. SumFunctionOnSet(t.rpm, T) = SumFunctionOnSet(t.rpm, R)
  <2>1. R \in SUBSET T /\ (\A x \in T : t.rpm[x] \in Nat) /\ \A x \in T \ R : t.rpm[x] = 0
    BY <1>1, <1>2, <1>3
  <2> HIDE DEF T, R
  <2> QED
    BY <1>3, <2>1, SumSupport
<1>5. SumFunctionOnSet(t.rpm, R) = SumFunctionOnSet(m.rpm, R)
  <2>1. \A x \in R : t.rpm[x] = m.rpm[x]
    BY <1>1, <1>3
  <2> HIDE DEF R
  <2> QED
    BY <1>3, <2>1, SumSame
<1>6. \A i \in R : Distance(m.index, i) <= j - k /\ Distance(m.index, i) >= 0
  <2> TAKE i \in R
  <2>1. i \in Ring /\ i \notin emptied /\ Distance(t.index, i) <= j
    BY <1>3 DEF Recent
  <2>2. Distance(m.index, i) \in Nat /\ Distance(t.index, i) \in Nat
    BY <1>2, <2>1, DistanceType
  <2>3. Distance(m.index, i) = Distance(t.index, i) - k
    BY <1>1, <2>1
  <2>4. j \in Nat /\ k \in Nat
    BY Positive
  <2> QED
    BY <2>1, <2>2, <2>3, <2>4
<1>7. CASE j < k
  <2>1. R = {}
    <3>1. SUFFICES ASSUME NEW i \in R PROVE FALSE
      OBVIOUS
    <3>2. Distance(m.index, i) \in Nat
      BY <1>2, <1>3, DistanceType
    <3> QED
      BY <1>6, <1>7, <3>2, Positive
  <2> QED
    BY <1>4, <1>7, <2>1, SumEmpty DEF t
<1>8. CASE ~ (j < k)
  <2>1. j - k \in Ring
    BY <1>8, Positive
  <2>2. R \subseteq Recent(m.index, j - k)
    BY <1>3, <1>6 DEF Recent
  <2>3. IsFiniteSet(Recent(m.index, j - k)) /\ Recent(m.index, j - k) \subseteq Ring
    <3>1. Recent(m.index, j - k) \subseteq Ring
      BY DEF Recent
    <3> QED
      BY <3>1, Positive, FS_Subset
  <2>4. SumFunctionOnSet(m.rpm, R) <= SumFunctionOnSet(m.rpm, Recent(m.index, j - k))
    <3>1. \A x \in Recent(m.index, j - k) : m.rpm[x] \in Nat
      BY <1>2, <2>3
    <3> HIDE DEF R
    <3> QED
      BY <2>2, <2>3, <3>1, SumSubset
  <2> QED
    BY <1>4, <1>5, <1>8, <2>1, <2>4 DEF t
<1> QED
  BY <1>7, <1>8

-----------------------------------------------------------------------------
(* What the handlers do to one pod.                                        *)

(* Sums over a history.                                                    *)
LEMMA HistorySums ==
  ASSUME NEW h \in Histories, NEW b \in 0..Window
  PROVE  /\ SumFunctionOnSet(h, 0..b) \in Nat
         /\ \A a \in 0..b : SumFunctionOnSet(h, 0..a) <= SumFunctionOnSet(h, 0..b)
<1>1. IsFiniteSet(0..b) /\ \A x \in 0..b : h[x] \in Nat
  <2>1. b \in Int /\ 0..b \subseteq 0..Window
    BY Positive
  <2>2. IsFiniteSet(0..b)
    BY <2>1, FS_Interval
  <2> QED
    BY <2>1, <2>2 DEF Histories
<1>2. \A a \in 0..b : 0..a \in SUBSET (0..b)
  BY Positive
<1> QED
  BY <1>1, <1>2, SumType, SumSubset

(* A turn leaves no bucket that reaches back further.                      *)
LEMMA TurnDated ==
  ASSUME NEW m \in Metrics, NEW k \in 1..Buckets, NEW h \in Histories,
         NEW fl \in 0..Flush, NEW new \in 0..Flush, Dated(m, h, fl),
         \A j \in Ring : j >= k => Reach(j - k, fl) <= Reach(j, new)
  PROVE  Dated(Turn(m, k), h, new)
<1>1. SUFFICES ASSUME NEW j \in Ring
               PROVE  SumFunctionOnSet(Turn(m, k).rpm, Recent(Turn(m, k).index, j))
                        <= SumFunctionOnSet(h, 0..Reach(j, new))
  BY DEF Dated
<1>2. Reach(j, new) \in 0..Window
  BY ReachInWindow
<1>3. SumFunctionOnSet(h, 0..Reach(j, new)) \in Nat
  BY <1>2, HistorySums
<1>4. CASE j < k
  <2>1. SumFunctionOnSet(Turn(m, k).rpm, Recent(Turn(m, k).index, j)) = 0
    BY <1>4, TurnRecent
  <2> QED
    BY <1>3, <2>1
<1>5. CASE ~ (j < k)
  <2>1. /\ j - k \in Ring
        /\ SumFunctionOnSet(Turn(m, k).rpm, Recent(Turn(m, k).index, j))
             <= SumFunctionOnSet(m.rpm, Recent(m.index, j - k))
    BY <1>5, TurnRecent
  <2>2. SumFunctionOnSet(m.rpm, Recent(m.index, j - k)) <= SumFunctionOnSet(h, 0..Reach(j - k, fl))
    BY <2>1 DEF Dated
  <2>3. Reach(j - k, fl) \in 0..Window
    BY <2>1, ReachInWindow
  <2>4. Reach(j - k, fl) <= Reach(j, new)
    BY <1>5, Positive
  <2>5. Reach(j - k, fl) \in 0..Reach(j, new)
    BY <1>2, <2>3, <2>4, Positive
  <2>6. SumFunctionOnSet(h, 0..Reach(j - k, fl)) <= SumFunctionOnSet(h, 0..Reach(j, new))
    BY <1>2, <2>5, HistorySums
  <2>7. \A n \in Ring : SumFunctionOnSet(m.rpm, Recent(m.index, n)) \in Nat
    BY RingSums
  <2>8. SumFunctionOnSet(h, 0..Reach(j - k, fl)) \in Nat
    BY <2>3, HistorySums
  <2>9. SumFunctionOnSet(Turn(m, k).rpm, Recent(Turn(m, k).index, j)) \in Nat
    <3>1. Turn(m, k) \in Metrics
      BY TurnFields
    <3> QED
      BY <3>1, RingSums
  <2> QED
    BY <1>3, <2>1, <2>2, <2>6, <2>7, <2>8, <2>9
<1> QED
  BY <1>4, <1>5

(* processMetrics turns the ring by at most its length.                    *)
LEMMA ShiftedOK ==
  ASSUME NEW m \in Metrics, NEW h \in Histories, NEW fl \in 0..Flush, PodOK(m, h, fl)
  PROVE  Shifted(m) \in Metrics /\ PodOK(Shifted(m), h, fl)
<1>1. Elapsed(m) \in 0..Buckets
  <2>1. m.bucket \in 0..(Buckets * Minute)
    BY DEF Metrics, Window
  <2> QED
    BY <2>1, Quotient, Positive DEF Elapsed
<1>2. CASE Elapsed(m) = 0
  BY <1>2 DEF Shifted
<1>3. CASE Elapsed(m) # 0
  <2>1. PICK k \in 1..Buckets : k = Elapsed(m)
    BY <1>1, <1>3, Positive
  <2>2. PICK t : t = Turn(m, k)
    OBVIOUS
  <2>3. t \in Metrics /\ t.updated = m.updated
    BY <2>2, TurnFields
  <2>4. Shifted(m) = [t EXCEPT !.bucket = 0]
    BY <1>3, <2>1, <2>2 DEF Shifted
  <2>5. /\ Shifted(m) \in Metrics
        /\ Shifted(m).rpm = t.rpm /\ Shifted(m).lat = t.lat /\ Shifted(m).index = t.index
        /\ Shifted(m).updated = m.updated
    <3>1. 0 \in 0..Window
      BY Positive
    <3> QED
      BY <2>3, <2>4, <3>1 DEF Metrics
  <2>6. InStep(t)
    BY <2>2, TurnInStep DEF PodOK
  <2>7. Dated(t, h, fl)
    <3>1. ASSUME NEW j \in Ring, j >= k PROVE Reach(j - k, fl) <= Reach(j, fl)
      <4>1. k \in 0..j
        BY <3>1, Positive
      <4> QED
        BY <4>1, ReachInWindow
    <3> QED
      BY <2>2, <3>1, TurnDated DEF PodOK
  <2> QED
    BY <2>5, <2>6, <2>7 DEF PodOK, InStep, Dated, Untouched
<1> QED
  BY <1>2, <1>3

(* flushMetrics turns the ring by one bucket.                              *)
LEMMA RotatedOK ==
  ASSUME NEW m \in Metrics, NEW h \in Histories, PodOK(m, h, 0)
  PROVE  Rotated(m) \in Metrics /\ PodOK(Rotated(m), h, Flush)
<1>1. 1 \in 1..Buckets /\ 0 \in 0..Flush /\ Flush \in 0..Flush
  BY Positive
<1>2. \A j \in Ring : j >= 1 => Reach(j - 1, 0) <= Reach(j, Flush)
  BY Positive DEF Reach
<1>3. Dated(Turn(m, 1), h, Flush)
  BY <1>1, <1>2, TurnDated DEF PodOK
<1>4. InStep(Turn(m, 1)) /\ Turn(m, 1) \in Metrics /\ Turn(m, 1).updated = m.updated
  BY <1>1, TurnFields, TurnInStep DEF PodOK
<1> QED
  BY <1>3, <1>4 DEF PodOK, Untouched, Rotated

(* A new pod has counted nothing.                                          *)
LEMMA FreshOK ==
  ASSUME NEW l \in Latencies, NEW h \in Histories, NEW fl \in 0..Flush
  PROVE  Fresh \in Metrics /\ PodOK(Fresh, h, fl)
<1>1. Fresh \in Metrics
  BY Positive DEF Fresh, Metrics
<1>2. InStep(Fresh)
  <2>1. l * 0 <= 0 /\ 0 <= l * 0
    BY ConstantsAssumption
  <2> QED
    BY <2>1 DEF InStep, Fresh
<1>3. Dated(Fresh, h, fl)
  <2>1. SUFFICES ASSUME NEW j \in Ring
                 PROVE  SumFunctionOnSet(Fresh.rpm, Recent(Fresh.index, j))
                          <= SumFunctionOnSet(h, 0..Reach(j, fl))
    BY DEF Dated
  <2>2. SumFunctionOnSet(Fresh.rpm, Recent(Fresh.index, j)) = 0
    <3>1. /\ IsFiniteSet(Recent(Fresh.index, j))
          /\ \A x \in Recent(Fresh.index, j) : Fresh.rpm[x] = 0
      BY <1>1, RingSums DEF Fresh
    <3>2. SumFunctionOnSet(Fresh.rpm, Recent(Fresh.index, j)) = SumFunctionOnSet(Fresh.rpm, {})
      BY <3>1, SumSupport
    <3> QED
      BY <3>2, SumEmpty
  <2>3. SumFunctionOnSet(h, 0..Reach(j, fl)) \in Nat
    BY ReachInWindow, HistorySums
  <2> QED
    BY <2>2, <2>3
<1>4. Untouched(Fresh, h)
  BY Positive DEF Untouched, Fresh
<1> QED
  BY <1>1, <1>2, <1>3, <1>4 DEF PodOK

(* A bucket that counts one more request stays in step.                    *)
LEMMA CountInStep ==
  ASSUME NEW lo \in Nat, NEW l \in Nat, NEW r \in Nat, NEW s \in Nat
  PROVE  /\ lo * r <= s => \E n \in {lo, l} : n * (r + 1) <= s + l
         /\ s <= lo * r => \E n \in {lo, l} : s + l <= n * (r + 1)
<1>1. lo * (r + 1) = lo * r + lo /\ l * (r + 1) = l * r + l
  OBVIOUS
<1>2. (l <= lo => l * r <= lo * r) /\ (lo <= l => lo * r <= l * r)
  OBVIOUS
<1>3. lo * r \in Nat /\ l * r \in Nat
  OBVIOUS
<1> QED
  BY <1>1, <1>2, <1>3

(* A history g that has one more request now.                              *)
OneMore(h, g) == g[0] = h[0] + 1 /\ \A a \in 0..Window : a # 0 => g[a] = h[a]

(* ... as processMetrics makes it ...                                      *)
LEMMA OneMoreIs ==
  ASSUME NEW h \in Histories
  PROVE  [h EXCEPT ![0] = @ + 1] \in Histories /\ OneMore(h, [h EXCEPT ![0] = @ + 1])
<1>1. 0 \in 0..Window
  BY Positive
<1>2. h[0] + 1 \in Nat
  BY <1>1 DEF Histories
<1> QED
  BY <1>1, <1>2 DEF Histories, OneMore

(* ... has a sum that is one more.                                         *)
LEMMA OneMoreSum ==
  ASSUME NEW h \in Histories, NEW g \in Histories, OneMore(h, g), NEW b \in 0..Window
  PROVE  SumFunctionOnSet(g, 0..b) = SumFunctionOnSet(h, 0..b) + 1
<1>1. 0..b \subseteq 0..Window /\ 0 \in 0..b
  BY Positive
<1>2. \A x \in 0..b : h[x] \in Nat /\ g[x] \in Nat
  BY <1>1 DEF Histories
<1>3. \A x \in 0..b : x # 0 => h[x] = g[x]
  BY <1>1 DEF OneMore
<1>4. IsFiniteSet(0..b)
  BY FS_Interval
<1>5. SumFunctionOnSet(g, 0..b) + h[0] = SumFunctionOnSet(h, 0..b) + g[0]
  <2> DEFINE S == 0..b
  <2>1. 0 \in S /\ IsFiniteSet(S) /\ (\A x \in S : h[x] \in Nat /\ g[x] \in Nat)
    BY <1>1, <1>2, <1>4
  <2>2. \A x \in S : 0 # x => h[x] = g[x]
    BY <1>3
  <2> HIDE DEF S
  <2>3. SumFunctionOnSet(g, S) + h[0] = SumFunctionOnSet(h, S) + g[0]
    BY <2>1, <2>2, SumChange
  <2> QED
    BY <2>3 DEF S
<1>6. SumFunctionOnSet(g, 0..b) \in Nat /\ SumFunctionOnSet(h, 0..b) \in Nat
  BY HistorySums
<1> QED
  BY <1>1, <1>2, <1>5, <1>6 DEF OneMore

(* A request is counted in the current bucket and dated now.               *)
LEMMA CountedOK ==
  ASSUME NEW m \in Metrics, NEW l \in Latencies, NEW h \in Histories, NEW fl \in 0..Flush,
         PodOK(m, h, fl), NEW g \in Histories, OneMore(h, g)
  PROVE  Counted(m, l) \in Metrics /\ PodOK(Counted(m, l), g, fl)
<1>0. /\ m.index \in Ring /\ m.rpm \in [Ring -> Nat] /\ m.lat \in [Ring -> Nat]
      /\ 0 \in 0..Window /\ h \in [0..Window -> Nat] /\ l \in Nat /\ Latencies \subseteq Nat
  <2>1. m.index \in Ring /\ m.rpm \in [Ring -> Nat] /\ m.lat \in [Ring -> Nat]
    BY DEF Metrics
  <2>2. 0 \in 0..Window
    BY Positive
  <2>3. l \in Nat /\ Latencies \subseteq Nat
    BY ConstantsAssumption
  <2> QED
    BY <2>1, <2>2, <2>3 DEF Histories
<1>1. g[0] = h[0] + 1 /\ \A a \in 0..Window : a # 0 => g[a] = h[a]
  BY DEF OneMore
<1>2. PICK i \in Ring : i = m.index
  BY <1>0
<1>3. PICK r \in Nat, s \in Nat : r = m.rpm[i] + 1 /\ s = m.lat[i] + l
  BY <1>0
<1>4. PICK rpm, lat : rpm = [m.rpm EXCEPT ![i] = r] /\ lat = [m.lat EXCEPT ![i] = s]
  OBVIOUS
<1>5. /\ rpm \in [Ring -> Nat] /\ lat \in [Ring -> Nat] /\ rpm[i] = r /\ lat[i] = s
      /\ \A x \in Ring : x # i => rpm[x] = m.rpm[x] /\ lat[x] = m.lat[x]
  BY <1>0, <1>4
<1>6. Counted(m, l) = [m EXCEPT !.updated = 0, !.rpm = rpm, !.lat = lat]
  BY <1>2, <1>3, <1>4 DEF Counted
<1>7. PICK c : c = Counted(m, l)
  OBVIOUS
<1>8. c \in Metrics /\ c.updated = 0 /\ c.rpm = rpm /\ c.lat = lat /\ c.index = i
  <2>1. 0 \in 0..(Stale + 1)
    BY Positive
  <2> QED
    BY <1>2, <1>5, <1>6, <1>7, <2>1 DEF Metrics
<1>9. InStep(c)
  <2>1. SUFFICES ASSUME NEW x \in Ring
                 PROVE  \E lo, hi \in Latencies : lo * rpm[x] <= lat[x] /\ lat[x] <= hi * rpm[x]
    BY <1>8 DEF InStep
  <2>2. PICK lo \in Latencies, hi \in Latencies :
          lo * m.rpm[x] <= m.lat[x] /\ m.lat[x] <= hi * m.rpm[x]
    BY DEF PodOK, InStep
  <2>3. CASE x = i
    <3>1. lo \in Nat /\ hi \in Nat /\ m.rpm[i] \in Nat /\ m.lat[i] \in Nat
      BY <1>0
    <3>2. \E n \in {lo, l} : n * r <= s
      BY <1>0, <1>3, <2>2, <2>3, <3>1, CountInStep
    <3>3. \E n \in {hi, l} : s <= n * r
      BY <1>0, <1>3, <2>2, <2>3, <3>1, CountInStep
    <3> QED
      BY <1>5, <2>3, <3>2, <3>3
  <2>4. CASE x # i
    BY <1>5, <2>2, <2>4
  <2> QED
    BY <2>3, <2>4
<1>10. Dated(c, g, fl)
  <2>1. SUFFICES ASSUME NEW j \in Ring
                 PROVE  SumFunctionOnSet(rpm, Recent(i, j)) <= SumFunctionOnSet(g, 0..Reach(j, fl))
    BY <1>8 DEF Dated
  <2>2. i \in Recent(i, j)
    BY DistanceType, Positive DEF Recent
  <2>3. /\ IsFiniteSet(Recent(i, j)) /\ Recent(i, j) \subseteq Ring
        /\ SumFunctionOnSet(m.rpm, Recent(i, j)) \in Nat
    BY <1>2, RingSums
  <2>4. SumFunctionOnSet(rpm, Recent(i, j)) + m.rpm[i] = SumFunctionOnSet(m.rpm, Recent(i, j)) + r
    <3>1. \A x \in Recent(i, j) : /\ m.rpm[x] \in Nat /\ rpm[x] \in Nat
                                  /\ x # i => m.rpm[x] = rpm[x]
      BY <1>0, <1>5, <2>3
    <3>2. IsFiniteSet(Recent(i, j)) /\ i \in Recent(i, j)
      BY <1>5, <2>2, <2>3
    <3>3. SumFunctionOnSet(rpm, Recent(i, j)) + m.rpm[i] = SumFunctionOnSet(m.rpm, Recent(i, j)) + rpm[i]
      BY <3>1, <3>2, SumChange
    <3> QED
      BY <1>5, <3>3
  <2>5. Reach(j, fl) \in 0..Window
    BY ReachInWindow
  <2>6. SumFunctionOnSet(g, 0..Reach(j, fl)) = SumFunctionOnSet(h, 0..Reach(j, fl)) + 1
    BY <2>5, OneMoreSum
  <2>7. SumFunctionOnSet(m.rpm, Recent(i, j)) <= SumFunctionOnSet(h, 0..Reach(j, fl))
    BY <1>2 DEF PodOK, Dated
  <2>8. SumFunctionOnSet(rpm, Recent(i, j)) \in Nat
    BY <1>8, RingSums
  <2>9. SumFunctionOnSet(h, 0..Reach(j, fl)) \in Nat
    BY <2>5, HistorySums
  <2>10. m.rpm[i] \in Nat /\ r = m.rpm[i] + 1
    BY <1>0, <1>3
  <2> QED
    BY <2>3, <2>4, <2>6, <2>7, <2>8, <2>9, <2>10
<1>11. Untouched(c, g)
  BY <1>8, Positive DEF Untouched
<1> QED
  BY <1>7, <1>8, <1>9, <1>10, <1>11 DEF PodOK

(* What a tick does to a pod and to its history.                           *)
Aged(m) == [m EXCEPT !.updated = Capped(@, Stale + 1), !.bucket = Capped(@, Window)]
Later(h) == [a \in 0..Window |-> IF a = 0 THEN 0 ELSE h[a - 1]]

(* A history that is a tick later has the same sums, a tick later.         *)
LEMMA LaterSums ==
  ASSUME NEW h \in Histories, NEW b \in 0..Window, b # Window
  PROVE  Later(h) \in Histories /\ SumFunctionOnSet(Later(h), 0..(b + 1)) = SumFunctionOnSet(h, 0..b)
<1>1. h \in [0..Window -> Nat] /\ Window \in Nat
  BY Positive DEF Histories
<1>2. \A a \in 0..Window : Later(h)[a] = IF a = 0 THEN 0 ELSE h[a - 1]
  BY DEF Later
<1>3. Later(h) \in [0..Window -> Nat]
  BY <1>1 DEF Later
<1> DEFINE G == {n \in Nat : n < Window =>
                   SumFunctionOnSet(Later(h), 0..(n + 1)) = SumFunctionOnSet(h, 0..n)}
<1>4. \A n \in Nat : n + 1 <= Window =>
        SumFunctionOnSet(Later(h), 0..(n + 1)) = h[n] + SumFunctionOnSet(Later(h), 0..n)
  <2> TAKE n \in Nat
  <2>1. HAVE n + 1 <= Window
  <2>2. 0..(n + 1) = (0..n) \cup {n + 1} /\ n + 1 \notin 0..n
    OBVIOUS
  <2>3. \A x \in (0..n) \cup {n + 1} : Later(h)[x] \in Nat
    BY <1>1, <1>3, <2>1, <2>2
  <2>4. IsFiniteSet(0..n)
    BY FS_Interval
  <2>5. Later(h)[n + 1] = h[n]
    BY <1>1, <1>2, <2>1
  <2>6. SumFunctionOnSet(Later(h), (0..n) \cup {n + 1})
          = Later(h)[n + 1] + SumFunctionOnSet(Later(h), 0..n)
    BY <2>2, <2>3, <2>4, SumAddOn
  <2> QED
    BY <2>2, <2>5, <2>6
<1>5. \A n \in Nat : n + 1 <= Window =>
        SumFunctionOnSet(h, 0..(n + 1)) = h[n + 1] + SumFunctionOnSet(h, 0..n)
  <2> TAKE n \in Nat
  <2>1. HAVE n + 1 <= Window
  <2>2. 0..(n + 1) = (0..n) \cup {n + 1} /\ n + 1 \notin 0..n
    OBVIOUS
  <2>3. \A x \in (0..n) \cup {n + 1} : h[x] \in Nat
    BY <1>1, <2>1, <2>2
  <2>4. IsFiniteSet(0..n)
    BY FS_Interval
  <2> QED
    BY <2>2, <2>3, <2>4, SumAddOn
<1>6. 0 \in G
  <2>1. CASE 0 < Window
    <3>1. \A f : f[0] \in Nat => SumFunctionOnSet(f, 0..0) = f[0]
      <4> TAKE f
      <4>1. HAVE f[0] \in Nat
      <4>2. 0..0 = {} \cup {0} /\ IsFiniteSet({})
        BY FS_EmptySet
      <4>3. SumFunctionOnSet(f, {} \cup {0}) = f[0] + SumFunctionOnSet(f, {})
        BY <4>1, <4>2, SumAddOn
      <4> QED
        BY <4>1, <4>2, <4>3, SumEmpty
    <3>2. Later(h)[0] = 0 /\ h[0] \in Nat
      BY <1>1, <1>2
    <3>3. SumFunctionOnSet(Later(h), 0..(0 + 1)) = h[0] + SumFunctionOnSet(Later(h), 0..0)
      <4>1. 0 \in Nat /\ 0 + 1 <= Window
        BY <1>1, <2>1
      <4> QED
        BY <1>4, <4>1
    <3>4. SumFunctionOnSet(Later(h), 0..0) = 0 /\ SumFunctionOnSet(h, 0..0) = h[0]
      BY <3>1, <3>2
    <3> QED
      BY <3>2, <3>3, <3>4
  <2> QED
    BY <1>1, <2>1
<1>7. ASSUME NEW n \in Nat, n \in G PROVE n + 1 \in G
  <2>1. SUFFICES ASSUME n + 1 < Window
                 PROVE  SumFunctionOnSet(Later(h), 0..(n + 1 + 1)) = SumFunctionOnSet(h, 0..(n + 1))
    OBVIOUS
  <2>2. SumFunctionOnSet(Later(h), 0..(n + 1)) = SumFunctionOnSet(h, 0..n)
    BY <1>1, <1>7, <2>1
  <2>3. SumFunctionOnSet(Later(h), 0..(n + 1 + 1)) = h[n + 1] + SumFunctionOnSet(Later(h), 0..(n + 1))
    BY <1>1, <1>4, <2>1
  <2>4. SumFunctionOnSet(h, 0..(n + 1)) = h[n + 1] + SumFunctionOnSet(h, 0..n)
    BY <1>1, <1>5, <2>1
  <2> QED
    BY <2>2, <2>3, <2>4
<1>8. Nat \subseteq G
  <2> HIDE DEF G
  <2> QED
    BY <1>6, <1>7, NatSetInduction
<1>9. b \in G /\ b < Window
  BY <1>1, <1>8
<1> QED
  BY <1>3, <1>9 DEF Histories

(* A tick makes a pod and its history older.                               *)
LEMMA AgedOK ==
  ASSUME NEW m \in Metrics, NEW h \in Histories, NEW fl \in 1..Flush, PodOK(m, h, fl)
  PROVE  /\ Later(h) \in Histories
         /\ Aged(m) \in Metrics /\ PodOK(Aged(m), Later(h), fl - 1)
<1>0. fl \in 0..Flush /\ fl - 1 \in 0..Flush /\ fl \in Nat
  BY Positive
<1>1. Later(h) \in Histories
  BY Positive DEF Later, Histories
<1>2. PICK u \in 0..(Stale + 1), b \in 0..Window :
        /\ Aged(m) = [m EXCEPT !.updated = u, !.bucket = b]
        /\ u <= m.updated + 1
  <2>1. m.updated \in 0..(Stale + 1) /\ m.bucket \in 0..Window
    BY DEF Metrics
  <2>2. /\ Capped(m.updated, Stale + 1) \in 0..(Stale + 1)
        /\ Capped(m.updated, Stale + 1) <= m.updated + 1
        /\ Capped(m.bucket, Window) \in 0..Window
    BY <2>1, Positive DEF Capped
  <2> QED
    BY <2>2 DEF Aged
<1>3. /\ Aged(m) \in Metrics /\ Aged(m).updated = u
      /\ Aged(m).rpm = m.rpm /\ Aged(m).lat = m.lat /\ Aged(m).index = m.index
  BY <1>2 DEF Metrics
<1>4. InStep(Aged(m))
  BY <1>3 DEF PodOK, InStep
<1>5. Dated(Aged(m), Later(h), fl - 1)
  <2>1. SUFFICES ASSUME NEW j \in Ring
                 PROVE  SumFunctionOnSet(m.rpm, Recent(m.index, j))
                          <= SumFunctionOnSet(Later(h), 0..Reach(j, fl - 1))
    BY <1>3 DEF Dated
  <2>2. Reach(j, fl) \in 0..Window /\ Reach(j, fl - 1) \in 0..Window
    BY <1>0, ReachInWindow
  <2>3. Reach(j, fl - 1) = Reach(j, fl) + 1
    BY <1>0, Positive DEF Reach
  <2>4. Reach(j, fl) # Window
    BY <2>2, <2>3, Positive
  <2>5. SumFunctionOnSet(Later(h), 0..(Reach(j, fl) + 1)) = SumFunctionOnSet(h, 0..Reach(j, fl))
    BY <2>2, <2>4, LaterSums
  <2> QED
    BY <2>3, <2>5 DEF PodOK, Dated
<1>6. Untouched(Aged(m), Later(h))
  <2>1. SUFFICES ASSUME NEW a \in 0..Window, a < u, a # 0 PROVE h[a - 1] = 0
    BY <1>3 DEF Untouched, Later
  <2>2. a - 1 \in 0..Window /\ a - 1 < m.updated
    <3>1. m.updated \in Nat /\ u \in Nat
      BY Positive DEF Metrics
    <3> QED
      BY <1>2, <2>1, <3>1, Positive
  <2> QED
    BY <2>2 DEF PodOK, Untouched
<1> QED
  BY <1>1, <1>3, <1>4, <1>5, <1>6 DEF PodOK

(* A pod counts no more requests than its history has, and once it expires *)
(* it counts none.                                                         *)
LEMMA PodBound ==
  ASSUME NEW m \in Metrics, NEW h \in Histories, NEW fl \in 0..Flush, PodOK(m, h, fl)
  PROVE  /\ Requests(m) \in Nat /\ SumFunction(h) \in Nat
         /\ Requests(m) <= SumFunction(h)
         /\ Expired(m) => Requests(m) = 0
<1>1. SumFunction(m.rpm) = SumFunctionOnSet(m.rpm, Ring) /\ Requests(m) = SumFunction(m.rpm)
  <2>1. DOMAIN m.rpm = Ring
    BY DEF Metrics
  <2> QED
    BY <2>1, NoneAssumption DEF SumFunction, Requests
<1>2. SumFunction(h) = SumFunctionOnSet(h, 0..Window)
  BY DEF SumFunction, Histories
<1>3. PICK j \in Ring : j = Buckets - 1
  BY Positive
<1>4. Recent(m.index, j) = Ring
  <2>1. m.index \in Ring
    BY DEF Metrics
  <2>2. \A i \in Ring : Distance(m.index, i) <= j
    <3> TAKE i \in Ring
    <3>1. PICK n : n = Distance(m.index, i)
      OBVIOUS
    <3>2. n \in 0..(Buckets - 1)
      BY <2>1, <3>1, DistanceType, Positive
    <3> QED
      BY <1>3, <3>1, <3>2, Positive
  <2> QED
    BY <2>2 DEF Recent
<1>5. SumFunctionOnSet(m.rpm, Ring) <= SumFunctionOnSet(h, 0..Reach(j, fl))
  BY <1>4 DEF PodOK, Dated
<1>6. /\ Reach(j, fl) \in 0..Window /\ Window \in 0..Window
  BY ReachInWindow, Positive
<1>7. /\ SumFunctionOnSet(h, 0..Reach(j, fl)) <= SumFunctionOnSet(h, 0..Window)
      /\ SumFunctionOnSet(h, 0..Reach(j, fl)) \in Nat
      /\ SumFunctionOnSet(h, 0..Window) \in Nat
  BY <1>6, HistorySums
<1>8. SumFunctionOnSet(m.rpm, Ring) \in Nat
  BY <1>4, RingSums
<1>9. ASSUME Expired(m) PROVE SumFunctionOnSet(h, 0..Window) = 0
  <2>1. \A a \in 0..Window : a < m.updated
    <3>1. m.updated \in Nat /\ m.updated > Stale
      BY <1>9, Positive DEF Expired, Metrics
    <3> QED
      BY <3>1, Positive
  <2>2. \A a \in 0..Window : h[a] = 0
    BY <2>1 DEF PodOK, Untouched
  <2>3. SumFunctionOnSet(h, 0..Window) = SumFunctionOnSet(h, {})
    BY <2>2, Positive, SumSupport
  <2> QED
    BY <2>3, SumEmpty
<1> QED
  BY <1>1, <1>2, <1>5, <1>7, <1>8, <1>9

-----------------------------------------------------------------------------
(* The invariant.                                                          *)

(* Nothing has been counted at first.                                      *)
LEMMA InitInv == Init => IInv
<1> SUFFICES ASSUME Init PROVE IInv
  OBVIOUS
<1>1. TypeOK
  BY Positive, ConstantsAssumption DEF Init, TypeOK
<1> QED
  BY <1>1 DEF Init, IInv

(* A datum is sent.                                                        *)
LEMMA RequestInv == ASSUME IInv, NEW d \in Data, Request(d) PROVE IInv'
<1>1. metricsChan' \in Seq(Data) /\ Len(metricsChan') <= BufferSize
  BY ConstantsAssumption DEF IInv, TypeOK, Request, SendLatencyData
<1> QED
  BY <1>1 DEF IInv, TypeOK, Request, SendLatencyData

(* A datum is counted, and no pod is lost.                                 *)
LEMMA ProcessInv ==
  ASSUME IInv, ProcessMetrics
  PROVE  IInv' /\ \A p \in Pods : metrics[p] # None => metrics'[p] \in Metrics
<1>0. /\ metricsChan \in Seq(Data) /\ metricsChan # <<>> /\ Len(metricsChan) <= BufferSize
      /\ metrics \in [Pods -> Metrics \cup {None}] /\ flushIn \in 0..Flush
      /\ handled \in [Pods -> Histories]
  BY DEF IInv, TypeOK, ProcessMetrics, Histories
<1>1. PICK d \in Data : d = Head(metricsChan)
  BY <1>0
<1>2. PICK q \in Pods, l \in Latencies : q = d.pod /\ l = d.latency
  BY DEF Data
<1>3. PICK m : m = IF metrics[q] = None THEN Fresh ELSE metrics[q]
  OBVIOUS
<1>4. PICK g : g = [handled[q] EXCEPT ![0] = @ + 1]
  OBVIOUS
<1>5. PICK c : c = Counted(Shifted(m), l)
  OBVIOUS
<1>6. /\ metrics' = [metrics EXCEPT ![q] = c] /\ handled' = [handled EXCEPT ![q] = g]
      /\ metricsChan' = Tail(metricsChan) /\ UNCHANGED <<flushIn, saved>>
  BY <1>1, <1>2, <1>3, <1>4, <1>5 DEF ProcessMetrics
<1>7. handled[q] \in Histories
  BY <1>0
<1>8. m \in Metrics /\ PodOK(m, handled[q], flushIn)
  BY <1>0, <1>3, <1>7, FreshOK DEF IInv
<1>9. Shifted(m) \in Metrics /\ PodOK(Shifted(m), handled[q], flushIn)
  BY <1>0, <1>7, <1>8, ShiftedOK
<1>10. g \in Histories /\ OneMore(handled[q], g)
  BY <1>4, <1>7, OneMoreIs
<1>11. c \in Metrics /\ PodOK(c, g, flushIn)
  BY <1>0, <1>5, <1>7, <1>9, <1>10, CountedOK
<1>12. metricsChan' \in Seq(Data) /\ Len(metricsChan') <= BufferSize
  BY <1>0, <1>6, ConstantsAssumption
<1>13. metrics' \in [Pods -> Metrics \cup {None}] /\ handled' \in [Pods -> Histories]
  BY <1>0, <1>6, <1>10, <1>11
<1>14. ASSUME NEW p \in Pods, metrics'[p] # None PROVE PodOK(metrics'[p], handled'[p], flushIn')
  <2>1. CASE p = q
    BY <1>0, <1>6, <1>11, <2>1
  <2>2. CASE p # q
    BY <1>0, <1>6, <1>14, <2>2 DEF IInv
  <2> QED
    BY <2>1, <2>2
<1>15. \A p \in Pods : metrics[p] # None => metrics'[p] \in Metrics
  BY <1>0, <1>6, <1>11
<1> QED
  BY <1>0, <1>6, <1>12, <1>13, <1>14, <1>15 DEF IInv, TypeOK, Histories

(* The rings are saved and turned.                                         *)
LEMMA FlushInv == ASSUME IInv, FlushMetrics PROVE IInv'
<1>0. /\ metrics \in [Pods -> Metrics \cup {None}] /\ handled \in [Pods -> Histories]
      /\ flushIn = 0 /\ flushIn' = Flush /\ 0 \in 0..Flush /\ UNCHANGED <<metricsChan, handled>>
      /\ metrics' = [p \in Pods |->
           IF metrics[p] = None \/ Expired(metrics[p]) THEN None ELSE Rotated(metrics[p])]
  BY Positive DEF IInv, TypeOK, FlushMetrics, Histories
<1>1. ASSUME NEW p \in Pods, metrics[p] # None
      PROVE  /\ Rotated(metrics[p]) \in Metrics /\ PodOK(Rotated(metrics[p]), handled[p], Flush)
  BY <1>0, <1>1, RotatedOK DEF IInv
<1>2. metrics' \in [Pods -> Metrics \cup {None}]
  BY <1>0, <1>1
<1>3. \A p \in Pods : metrics'[p] # None => PodOK(metrics'[p], handled'[p], flushIn')
  BY <1>0, <1>1
<1>4. \A m \in Metrics \cup {None} : Requests(m) \in Nat
  <2> TAKE m \in Metrics \cup {None}
  <2>1. CASE m = None
    BY <2>1 DEF Requests
  <2>2. CASE m # None
    <3>1. m.rpm \in [Ring -> Nat] /\ DOMAIN m.rpm = Ring
      BY <2>2 DEF Metrics
    <3>2. SumFunctionOnSet(m.rpm, Ring) \in Nat
      BY <3>1, Positive, SumType
    <3> QED
      BY <2>2, <3>1, <3>2 DEF Requests, SumFunction
  <2> QED
    BY <2>1, <2>2
<1>5. saved' \in [pods : [Pods -> Nat], all : Nat \cup {None}]
  <2>1. PICK f : f = [p \in Pods |-> Requests(metrics'[p])]
    OBVIOUS
  <2>2. f \in [Pods -> Nat]
    BY <1>2, <1>4, <2>1
  <2>3. SumFunction(f) \in Nat
    BY <2>2, SumType, ConstantsAssumption DEF SumFunction
  <2>4. PICK r \in [Pods -> Nat] : r = [p \in Pods |-> Requests(metrics[p])]
    BY <1>0, <1>4
  <2>5. saved' = [pods |-> r, all |-> IF SumFunction(f) = 0 THEN None ELSE SumFunction(f)]
    BY <2>1, <2>4 DEF FlushMetrics
  <2> QED
    BY <2>3, <2>5
<1> QED
  BY <1>0, <1>2, <1>3, <1>5, Positive DEF IInv, TypeOK

(* Time passes.                                                            *)
LEMMA TickInv == ASSUME IInv, Tick PROVE IInv'
<1>0. /\ metrics \in [Pods -> Metrics \cup {None}] /\ handled \in [Pods -> Histories]
      /\ flushIn \in 1..Flush /\ flushIn' = flushIn - 1 /\ UNCHANGED <<metricsChan, saved>>
      /\ metrics' = [p \in Pods |-> IF metrics[p] = None THEN None ELSE Aged(metrics[p])]
      /\ handled' = [p \in Pods |-> Later(handled[p])]
  <2>1. flushIn \in 0..Flush /\ flushIn > 0 => flushIn \in 1..Flush
    BY Positive
  <2>2. /\ metrics' = [p \in Pods |-> IF metrics[p] = None THEN None ELSE Aged(metrics[p])]
        /\ handled' = [p \in Pods |-> Later(handled[p])]
    BY DEF Tick, Aged, Later
  <2> QED
    BY <2>1, <2>2 DEF IInv, TypeOK, Tick, Histories
<1>1. ASSUME NEW p \in Pods, metrics[p] # None
      PROVE  Aged(metrics[p]) \in Metrics /\ PodOK(Aged(metrics[p]), Later(handled[p]), flushIn - 1)
  BY <1>0, <1>1, AgedOK DEF IInv
<1>2. metrics' \in [Pods -> Metrics \cup {None}]
  BY <1>0, <1>1
<1>3. \A h \in Histories : Later(h) \in Histories
  BY Positive DEF Later, Histories
<1>4. handled' \in [Pods -> Histories]
  BY <1>0, <1>3
<1>5. \A p \in Pods : metrics'[p] # None => PodOK(metrics'[p], handled'[p], flushIn')
  BY <1>0, <1>1
<1>6. flushIn' \in 0..Flush
  BY <1>0, Positive
<1> QED
  BY <1>0, <1>2, <1>4, <1>5, <1>6 DEF IInv, TypeOK, Histories

(* IInv is inductive.                                                      *)
LEMMA NextInv == ASSUME IInv, [Next]_vars PROVE IInv'
<1>1. CASE UNCHANGED vars
  BY <1>1 DEF vars, IInv, TypeOK
<1> QED
  BY <1>1, RequestInv, ProcessInv, FlushInv, TickInv DEF Next, Drop

(* The inductive invariant of the rings.                                   *)
THEOREM Invariance == Spec => []IInv
  BY InitInv, NextInv, PTL DEF Spec

(* The channel, the rings and what is saved are well typed, and the        *)
(* channel holds no more than its capacity.                                *)
THEOREM TypeCorrect == Spec => []TypeOK
<1>1. IInv => TypeOK
  BY DEF IInv
<1> QED
  BY <1>1, Invariance, PTL

(* The two rings of a pod stay in step, whichever goroutine turned them:   *)
(* the average latency lies between the least and the greatest latency     *)
(* (metricsworker.go:85-93, :159-161).                                     *)
THEOREM RingsInStepHolds == Spec => []RingsInStep
<1>1. IInv => RingsInStep
  BY DEF IInv, RingsInStep, PodOK, InStep
<1> QED
  BY <1>1, Invariance, PTL

(* No request counts for longer than the window of the rings, as each      *)
(* flush empties one bucket.                                               *)
THEOREM OldForgottenHolds == Spec => []OldForgotten
<1>1. ASSUME IInv, NEW p \in Pods PROVE Requests(metrics[p]) <= SumFunction(handled[p])
  <2>1. metrics[p] \in Metrics \cup {None} /\ handled[p] \in Histories /\ flushIn \in 0..Flush
    BY <1>1 DEF IInv, TypeOK, Histories
  <2>2. CASE metrics[p] = None
    <3>1. SumFunction(handled[p]) \in Nat
      BY <2>1, HistorySums, Positive DEF SumFunction, Histories
    <3> QED
      BY <2>2, <3>1 DEF Requests
  <2>3. CASE metrics[p] # None
    BY <1>1, <2>1, <2>3, PodBound DEF IInv
  <2> QED
    BY <2>2, <2>3
<1>2. IInv => OldForgotten
  BY <1>1 DEF OldForgotten
<1> QED
  BY <1>2, Invariance, PTL

(* A flush forgets only a pod none of whose requests still counts          *)
(* (metricsworker.go:163), so a pod that is used again is not lost.        *)
THEOREM ForgetsOnlyIdleHolds == Spec => ForgetsOnlyIdle
<1>1. ASSUME IInv, [Next]_vars, NEW p \in Pods, metrics[p] # None, metrics'[p] = None
      PROVE  Requests(metrics[p]) = 0
  <2>0. /\ metrics[p] \in Metrics /\ handled[p] \in Histories /\ flushIn \in 0..Flush
        /\ metrics \in [Pods -> Metrics \cup {None}] /\ PodOK(metrics[p], handled[p], flushIn)
    BY <1>1 DEF IInv, TypeOK, Histories
  <2>1. CASE FlushMetrics
    <3>1. Rotated(metrics[p]) \in Metrics
      <4>1. flushIn = 0
        BY <2>1 DEF FlushMetrics
      <4> QED
        BY <2>0, <4>1, RotatedOK
    <3>2. Expired(metrics[p])
      BY <1>1, <2>1, <3>1, NoneAssumption DEF FlushMetrics
    <3> QED
      BY <2>0, <3>2, PodBound
  <2>2. CASE Tick
    <3>1. flushIn \in 1..Flush /\ metrics'[p] = Aged(metrics[p])
      <4>1. flushIn \in 0..Flush /\ flushIn > 0
        BY <2>0, <2>2 DEF Tick
      <4>2. flushIn \in 1..Flush
        BY <4>1, Positive
      <4>3. metrics' = [q \in Pods |-> IF metrics[q] = None THEN None ELSE Aged(metrics[q])]
        BY <2>2 DEF Tick, Aged
      <4> QED
        BY <1>1, <4>2, <4>3
    <3> QED
      BY <1>1, <2>0, <3>1, AgedOK, NoneAssumption
  <2>3. CASE ProcessMetrics
    <3>1. metrics'[p] \in Metrics
      BY <1>1, <2>3, ProcessInv
    <3> QED
      BY <1>1, <3>1, NoneAssumption
  <2>4. CASE UNCHANGED metrics
    BY <1>1, <2>4
  <2> QED
    BY <1>1, <2>1, <2>2, <2>3, <2>4 DEF Next, Drop, Request, SendLatencyData, vars
<1>2. IInv /\ [Next]_vars => [ \A p \in Pods : (metrics[p] # None /\ metrics'[p] = None)
                                  => Requests(metrics[p]) = 0 ]_vars
  BY <1>1
<1> QED
  BY <1>2, Invariance, PTL DEF Spec, ForgetsOnlyIdle

-----------------------------------------------------------------------------
(* The latest requests.  Both goroutines turn a ring, so a request that was *)
(* counted since the last flush may be two turns back: one of that flush,  *)
(* in whose tick it was counted, and one of processMetrics, which turns a  *)
(* ring at most once in the time.  The first disjunct that holds of Latest *)
(* tells how far that has come, e ticks after the flush.                   *)
Latest(m, h, e) ==
  LET sum == SumFunctionOnSet(h, 0..e) IN
  \/ sum = 0
  \/ sum <= SumFunctionOnSet(m.rpm, Recent(m.index, 1)) /\ m.bucket < Minute + e
  \/ sum <= SumFunctionOnSet(m.rpm, Recent(m.index, 2)) /\ m.bucket < e
(* The requests of this tick are in the current bucket, unless a flush has *)
(* just turned it.                                                         *)
Current(m, h, e) == h[0] > 0 => m.bucket < Minute /\ (e > 0 => h[0] <= m.rpm[m.index])
(* A pod without a record has had no request that could count.             *)
Kept(m, h, e) == IF m = None THEN \A a \in 0..Window : h[a] = 0
                 ELSE Latest(m, h, e) /\ Current(m, h, e)
KInv == IInv /\ \A p \in Pods : Kept(metrics[p], handled[p], Flush - flushIn)

(* A single turn keeps what the buckets hold that it does not come to.     *)
LEMMA TurnHolds ==
  ASSUME NEW m \in Metrics, NEW j \in Ring, j + 1 \in Ring
  PROVE  SumFunctionOnSet(m.rpm, Recent(m.index, j))
           <= SumFunctionOnSet(Turn(m, 1).rpm, Recent(Turn(m, 1).index, j + 1))
<1> DEFINE t == Turn(m, 1)
           S == Recent(m.index, j)
           T == Recent(t.index, j + 1)
<1>0. 1 \in 1..Buckets
  BY Positive
<1>1. PICK emptied \in SUBSET Ring :
        /\ t \in Metrics
        /\ \A i \in Ring : t.rpm[i] = IF i \in emptied THEN 0 ELSE m.rpm[i]
        /\ \A i \in Ring : i \notin emptied => Distance(m.index, i) = Distance(t.index, i) - 1
        /\ \A i \in emptied : Distance(m.index, i) >= Buckets - 1
  BY <1>0, TurnFields
<1> HIDE DEF t
<1>2. m.index \in Ring /\ t.index \in Ring
  BY <1>1 DEF Metrics
<1>3. S \subseteq Ring /\ IsFiniteSet(S) /\ T \subseteq Ring /\ IsFiniteSet(T)
      /\ \A x \in T : t.rpm[x] \in Nat
  BY <1>1, RingSums
<1>4. ASSUME NEW i \in S PROVE i \notin emptied /\ i \in T
  <2>1. PICK a, b : a = Distance(m.index, i) /\ b = Distance(t.index, i)
    OBVIOUS
  <2>2. a \in 0..(Buckets - 1) /\ b \in 0..(Buckets - 1) /\ i \in Ring
    BY <1>2, <1>3, <2>1, DistanceType, Positive
  <2>3. a <= j /\ j \in Nat /\ j + 1 <= Buckets - 1
    BY <2>1, Positive DEF Recent
  <2>4. i \notin emptied
    BY <1>1, <2>1, <2>2, <2>3, Positive
  <2>5. a = b - 1
    BY <1>1, <2>1, <2>2, <2>4
  <2>6. b <= j + 1
    BY <2>2, <2>3, <2>5, Positive
  <2> QED
    BY <2>1, <2>2, <2>4, <2>6 DEF Recent
<1>5. SumFunctionOnSet(m.rpm, S) = SumFunctionOnSet(t.rpm, S)
  <2>1. \A x \in S : m.rpm[x] = t.rpm[x]
    BY <1>1, <1>3, <1>4
  <2> HIDE DEF S
  <2> QED
    BY <1>3, <2>1, SumSame
<1>6. SumFunctionOnSet(t.rpm, S) <= SumFunctionOnSet(t.rpm, T)
  <2>1. S \in SUBSET T
    BY <1>4
  <2> HIDE DEF S, T
  <2> QED
    BY <1>3, <2>1, SumSubset
<1> QED
  BY <1>5, <1>6 DEF t

(* One, two and three are buckets.                                         *)
LEMMA FewTurns == 1 \in Ring /\ 2 \in Ring /\ 3 \in Ring /\ 1 \in 1..Buckets
  BY Positive, TimesAssumption

(* The time since the last flush is in the window.                         *)
LEMMA FlushInWindow == \A e \in 0..Flush : e \in 0..Window /\ e + 1 <= Window + 1 /\ Flush <= Window
<1>1. Buckets * Minute >= 1 * Minute
  BY Positive
<1> QED
  BY <1>1, Positive DEF Window

(* Quotients of zero and one.                                              *)
LEMMA SmallQuotient ==
  ASSUME NEW x \in Nat, NEW M \in Nat \ {0}
  PROVE  (x \div M = 0 <=> x < M) /\ (x >= M /\ x < 2 * M => x \div M = 1)
  OBVIOUS

(* More buckets hold more.                                                 *)
LEMMA RecentGrows ==
  ASSUME NEW m \in Metrics, NEW j \in Ring
  PROVE  /\ SumFunctionOnSet(m.rpm, Recent(m.index, j)) <= SumFunctionOnSet(m.rpm, Ring)
         /\ m.rpm[m.index] <= SumFunctionOnSet(m.rpm, Recent(m.index, j))
         /\ m.rpm[m.index] \in Nat /\ SumFunctionOnSet(m.rpm, Ring) \in Nat
<1>1. m.rpm \in [Ring -> Nat] /\ m.index \in Ring
  BY DEF Metrics
<1>2. /\ IsFiniteSet(Recent(m.index, j)) /\ Recent(m.index, j) \subseteq Ring
      /\ \A x \in Recent(m.index, j) : m.rpm[x] \in Nat
  BY RingSums
<1>3. SumFunctionOnSet(m.rpm, Ring) \in Nat
      /\ SumFunctionOnSet(m.rpm, Recent(m.index, j)) <= SumFunctionOnSet(m.rpm, Ring)
  BY <1>1, <1>2, Positive, SumSubset, SumType
<1>4. m.index \in Recent(m.index, j)
  <2>1. Distance(m.index, m.index) = 0
    BY <1>1, DistanceType
  <2>2. 0 <= j
    BY Positive
  <2> QED
    BY <1>1, <2>1, <2>2 DEF Recent
<1>5. SumFunctionOnSet(m.rpm, Recent(m.index, j))
        = m.rpm[m.index] + SumFunctionOnSet(m.rpm, Recent(m.index, j) \ {m.index})
  BY <1>2, <1>4, SumTakeOut
<1>6. SumFunctionOnSet(m.rpm, Recent(m.index, j) \ {m.index}) \in Nat
  <2>1. IsFiniteSet(Recent(m.index, j) \ {m.index})
    BY <1>2, FS_RemoveElement
  <2> QED
    BY <1>2, <2>1, SumType
<1> QED
  BY <1>1, <1>3, <1>5, <1>6

(* What Latest compares are numbers.                                       *)
LEMMA LatestTypes ==
  ASSUME NEW m \in Metrics
  PROVE  /\ SumFunctionOnSet(m.rpm, Recent(m.index, 1)) \in Nat
         /\ SumFunctionOnSet(m.rpm, Recent(m.index, 2)) \in Nat
         /\ m.rpm[m.index] \in Nat /\ m.bucket \in Nat
<1>1. 1 \in Ring /\ 2 \in Ring
  BY FewTurns
<1>2. SumFunctionOnSet(m.rpm, Recent(m.index, 1)) \in Nat
  BY <1>1, RingSums
<1>3. SumFunctionOnSet(m.rpm, Recent(m.index, 2)) \in Nat
  BY <1>1, RingSums
<1>4. m.rpm[m.index] \in Nat /\ m.bucket \in Nat
  BY Positive DEF Metrics
<1> QED
  BY <1>2, <1>3, <1>4

(* The pod's record after processMetrics has turned its ring.              *)
LEMMA ShiftedLatest ==
  ASSUME NEW m \in Metrics, NEW h \in Histories, NEW e \in 0..Flush,
         Latest(m, h, e), Current(m, h, e)
  PROVE  /\ Shifted(m) \in Metrics /\ Shifted(m).bucket < Minute
         /\ Latest(Shifted(m), h, e) /\ Current(Shifted(m), h, e)
<1>1. m.bucket \in Nat /\ m.bucket <= Buckets * Minute /\ e \in Nat /\ e <= Minute
  BY Positive DEF Metrics, Window
<1>2. /\ Elapsed(m) \in 0..Buckets
      /\ Elapsed(m) = 0 <=> m.bucket < Minute
      /\ m.bucket >= Minute /\ m.bucket < 2 * Minute => Elapsed(m) = 1
  <2>1. m.bucket \in 0..(Buckets * Minute)
    BY DEF Metrics, Window
  <2>2. Elapsed(m) \in 0..Buckets
    BY <2>1, Quotient, Positive DEF Elapsed
  <2> QED
    BY <1>1, <2>2, SmallQuotient, Positive DEF Elapsed
<1>3. CASE Elapsed(m) = 0
  BY <1>2, <1>3 DEF Shifted
<1>4. CASE Elapsed(m) # 0
  <2>1. PICK k \in 1..Buckets : k = Elapsed(m)
    BY <1>2, <1>4, Positive
  <2>2. PICK t : t = Turn(m, k)
    OBVIOUS
  <2>3. t \in Metrics
    BY <2>2, TurnFields
  <2>4. Shifted(m) = [t EXCEPT !.bucket = 0]
    BY <1>4, <2>1, <2>2 DEF Shifted
  <2>5. PICK s \in Metrics : s = Shifted(m) /\ s.rpm = t.rpm /\ s.index = t.index /\ s.bucket = 0
    <3>1. 0 \in 0..Window
      BY Positive
    <3> QED
      BY <2>3, <2>4, <3>1 DEF Metrics
  <2>6. ~ (m.bucket < Minute)
    BY <1>2, <1>4
  <2>7. ~ (h[0] > 0)
    BY <2>6 DEF Current
  <2>8. CASE SumFunctionOnSet(h, 0..e) = 0
    BY <2>5, <2>7, <2>8, Positive DEF Latest, Current
  <2>9. CASE SumFunctionOnSet(h, 0..e) # 0
    <3>1. /\ m.bucket < Minute + e
          /\ SumFunctionOnSet(h, 0..e) <= SumFunctionOnSet(m.rpm, Recent(m.index, 1))
      BY <1>1, <2>6, <2>9, Positive DEF Latest
    <3>2. k = 1 /\ 0 < e
      BY <1>1, <1>2, <2>1, <2>6, <3>1, Positive
    <3>3. SumFunctionOnSet(m.rpm, Recent(m.index, 1)) <= SumFunctionOnSet(t.rpm, Recent(t.index, 2))
      <4>1. t = Turn(m, 1) /\ 1 \in Ring /\ 1 + 1 \in Ring /\ 1 + 1 = 2
        BY <2>2, <3>2, FewTurns
      <4>2. SumFunctionOnSet(m.rpm, Recent(m.index, 1))
              <= SumFunctionOnSet(t.rpm, Recent(t.index, 1 + 1))
        BY <4>1, TurnHolds
      <4> QED
        BY <4>1, <4>2
    <3>4. /\ SumFunctionOnSet(m.rpm, Recent(m.index, 1)) \in Nat
          /\ SumFunctionOnSet(t.rpm, Recent(t.index, 2)) \in Nat
      BY <2>3, FewTurns, RingSums
    <3>5. SumFunctionOnSet(h, 0..e) \in Nat
      BY <1>1, Positive, HistorySums, FlushInWindow
    <3>6. SumFunctionOnSet(h, 0..e) <= SumFunctionOnSet(t.rpm, Recent(t.index, 2))
      BY <3>1, <3>3, <3>4, <3>5
    <3> QED
      BY <2>5, <2>7, <3>2, <3>6, Positive DEF Latest, Current
  <2> QED
    BY <2>8, <2>9
<1> QED
  BY <1>3, <1>4

(* What counting does to a record.                                         *)
LEMMA CountedFields ==
  ASSUME NEW m \in Metrics, NEW l \in Latencies
  PROVE  LET c == Counted(m, l) IN
         /\ c.index = m.index /\ c.bucket = m.bucket /\ c.rpm[m.index] = m.rpm[m.index] + 1
         /\ \A j \in Ring : SumFunctionOnSet(c.rpm, Recent(m.index, j))
                              = SumFunctionOnSet(m.rpm, Recent(m.index, j)) + 1
<1>0. m.index \in Ring /\ m.rpm \in [Ring -> Nat]
  BY DEF Metrics
<1>1. PICK r \in Nat : r = m.rpm[m.index] + 1
  BY <1>0
<1>2. PICK rpm : rpm = [m.rpm EXCEPT ![m.index] = r]
  OBVIOUS
<1>3. /\ rpm \in [Ring -> Nat] /\ rpm[m.index] = r
      /\ \A x \in Ring : x # m.index => m.rpm[x] = rpm[x]
  BY <1>0, <1>2
<1>4. /\ Counted(m, l).index = m.index /\ Counted(m, l).bucket = m.bucket
      /\ Counted(m, l).rpm = rpm
  BY <1>1, <1>2 DEF Counted, Metrics
<1>5. ASSUME NEW j \in Ring
      PROVE  SumFunctionOnSet(rpm, Recent(m.index, j)) = SumFunctionOnSet(m.rpm, Recent(m.index, j)) + 1
  <2>1. PICK S : S = Recent(m.index, j)
    OBVIOUS
  <2>2. IsFiniteSet(S) /\ S \subseteq Ring /\ SumFunctionOnSet(m.rpm, S) \in Nat
    BY <2>1, RingSums
  <2>3. m.index \in S
    <3>1. Distance(m.index, m.index) = 0 /\ 0 <= j
      BY <1>0, DistanceType, Positive
    <3> QED
      BY <1>0, <2>1, <3>1 DEF Recent
  <2>4. \A x \in S : m.rpm[x] \in Nat /\ rpm[x] \in Nat
    BY <1>0, <1>3, <2>2
  <2>5. \A x \in S : x # m.index => m.rpm[x] = rpm[x]
    BY <1>3, <2>2
  <2>6. SumFunctionOnSet(rpm, S) + m.rpm[m.index] = SumFunctionOnSet(m.rpm, S) + rpm[m.index]
    BY <2>2, <2>3, <2>4, <2>5, SumChange
  <2>7. SumFunctionOnSet(rpm, S) \in Nat
    BY <2>2, <2>4, SumType
  <2> QED
    BY <1>1, <1>3, <2>1, <2>2, <2>3, <2>4, <2>6, <2>7
<1> QED
  BY <1>1, <1>3, <1>4, <1>5

(* A request that is counted is one of the latest.                         *)
LEMMA CountedLatest ==
  ASSUME NEW m \in Metrics, NEW l \in Latencies, NEW h \in Histories, NEW e \in 0..Flush,
         m.bucket < Minute, Latest(m, h, e), Current(m, h, e), NEW g \in Histories, OneMore(h, g)
  PROVE  Latest(Counted(m, l), g, e) /\ Current(Counted(m, l), g, e)
<1>1. PICK c : c = Counted(m, l)
  OBVIOUS
<1>2. /\ c.index = m.index /\ c.bucket = m.bucket /\ c.rpm[m.index] = m.rpm[m.index] + 1
      /\ \A j \in Ring : SumFunctionOnSet(c.rpm, Recent(m.index, j))
                           = SumFunctionOnSet(m.rpm, Recent(m.index, j)) + 1
  BY <1>1, CountedFields
<1>3. /\ SumFunctionOnSet(m.rpm, Recent(m.index, 1)) \in Nat
      /\ SumFunctionOnSet(m.rpm, Recent(m.index, 2)) \in Nat
      /\ m.rpm[m.index] \in Nat /\ m.bucket \in Nat
  BY LatestTypes
<1>4. SumFunctionOnSet(h, 0..e) \in Nat /\ SumFunctionOnSet(g, 0..e) = SumFunctionOnSet(h, 0..e) + 1
  BY FlushInWindow, HistorySums, OneMoreSum
<1>5. h[0] \in Nat /\ g[0] = h[0] + 1
  BY Positive DEF Histories, OneMore
<1>6. Latest(c, g, e)
  <2>1. e \in Nat /\ 1 \in Ring /\ 2 \in Ring /\ Minute \in Nat
    BY FewTurns, Positive
  <2> QED
    BY <1>2, <1>3, <1>4, <2>1 DEF Latest
<1>7. Current(c, g, e)
  BY <1>2, <1>3, <1>5 DEF Current
<1> QED
  BY <1>1, <1>6, <1>7

(* A tick makes the latest requests no later than the flush.               *)
LEMMA AgedLatest ==
  ASSUME NEW m \in Metrics, NEW h \in Histories, NEW e \in 0..(Flush - 1),
         Latest(m, h, e)
  PROVE  Latest(Aged(m), Later(h), e + 1) /\ Current(Aged(m), Later(h), e + 1)
<1>1. e \in 0..Window /\ e # Window /\ e \in Nat
  BY FlushInWindow, Positive
<1>2. SumFunctionOnSet(Later(h), 0..(e + 1)) = SumFunctionOnSet(h, 0..e)
  BY <1>1, LaterSums
<1>3. PICK b \in Nat : /\ Aged(m).bucket = b /\ b <= m.bucket + 1 /\ m.bucket \in Nat
                       /\ Aged(m).rpm = m.rpm /\ Aged(m).index = m.index
  BY Positive DEF Aged, Metrics, Capped
<1>4. Latest(Aged(m), Later(h), e + 1)
  BY <1>1, <1>2, <1>3, Positive DEF Latest
<1>5. Later(h)[0] = 0
  BY Positive DEF Later
<1> QED
  BY <1>4, <1>5 DEF Current

(* A flush turns the ring, and counts anew from this tick ...              *)
LEMMA RotatedLatest ==
  ASSUME NEW m \in Metrics, NEW h \in Histories, Current(m, h, Flush)
  PROVE  Latest(Rotated(m), h, 0) /\ Current(Rotated(m), h, 0)
<1>1. PICK t : t = Turn(m, 1)
  OBVIOUS
<1>2. t \in Metrics /\ t.bucket = m.bucket
  BY <1>1, FewTurns, TurnFields
<1>3. SumFunctionOnSet(h, 0..0) = h[0] /\ h[0] \in Nat
  <2>1. h[0] \in Nat
    BY Positive DEF Histories
  <2>2. 0..0 = {} \cup {0} /\ IsFiniteSet({})
    BY FS_EmptySet
  <2>3. SumFunctionOnSet(h, {} \cup {0}) = h[0] + SumFunctionOnSet(h, {})
    BY <2>1, <2>2, SumAddOn
  <2> QED
    BY <2>1, <2>2, <2>3, SumEmpty
<1>4. m.rpm[m.index] <= SumFunctionOnSet(t.rpm, Recent(t.index, 1))
  <2>1. m.rpm[m.index] <= SumFunctionOnSet(m.rpm, Recent(m.index, 0)) /\ m.rpm[m.index] \in Nat
    BY Positive, RecentGrows
  <2>2. SumFunctionOnSet(m.rpm, Recent(m.index, 0)) <= SumFunctionOnSet(t.rpm, Recent(t.index, 0 + 1))
    BY <1>1, Positive, FewTurns, TurnHolds
  <2>3. /\ SumFunctionOnSet(m.rpm, Recent(m.index, 0)) \in Nat
        /\ SumFunctionOnSet(t.rpm, Recent(t.index, 1)) \in Nat
    BY <1>2, Positive, FewTurns, RingSums
  <2> QED
    BY <2>1, <2>2, <2>3
<1>5. CASE h[0] = 0
  BY <1>1, <1>3, <1>5 DEF Latest, Current, Rotated
<1>6. CASE h[0] # 0
  <2>1. h[0] > 0 /\ Flush > 0
    BY <1>3, <1>6, Positive
  <2>2. m.bucket < Minute /\ h[0] <= m.rpm[m.index]
    BY <2>1 DEF Current
  <2>3. /\ SumFunctionOnSet(t.rpm, Recent(t.index, 1)) \in Nat /\ m.rpm[m.index] \in Nat
        /\ m.bucket \in Nat
    BY <1>2, LatestTypes
  <2>4. h[0] <= SumFunctionOnSet(t.rpm, Recent(t.index, 1))
    BY <1>3, <1>4, <2>2, <2>3
  <2>5. t.bucket < Minute + 0
    BY <1>2, <2>2, <2>3, Positive
  <2>6. Latest(t, h, 0)
    BY <1>3, <2>4, <2>5 DEF Latest
  <2>7. Current(t, h, 0)
    BY <1>2, <2>2 DEF Current
  <2> QED
    BY <1>1, <2>6, <2>7 DEF Rotated
<1> QED
  BY <1>5, <1>6

(* ... but still holds what was counted since the last one.                *)
LEMMA RotatedHolds ==
  ASSUME NEW m \in Metrics, NEW h \in Histories, Latest(m, h, Flush)
  PROVE  Rotated(m) \in Metrics /\ SumFunctionOnSet(h, 0..Flush) <= Requests(Rotated(m))
<1>1. PICK t : t = Turn(m, 1)
  OBVIOUS
<1>2. t \in Metrics
  BY <1>1, FewTurns, TurnFields
<1>3. Requests(t) = SumFunctionOnSet(t.rpm, Ring)
  <2>1. DOMAIN t.rpm = Ring /\ t # None
    BY <1>2, NoneAssumption DEF Metrics
  <2> QED
    BY <2>1 DEF Requests, SumFunction
<1>4. ASSUME NEW j \in Ring, j + 1 \in Ring
      PROVE  SumFunctionOnSet(m.rpm, Recent(m.index, j)) <= SumFunctionOnSet(t.rpm, Ring)
  <2>1. /\ SumFunctionOnSet(m.rpm, Recent(m.index, j)) <= SumFunctionOnSet(t.rpm, Recent(t.index, j + 1))
        /\ SumFunctionOnSet(t.rpm, Recent(t.index, j + 1)) <= SumFunctionOnSet(t.rpm, Ring)
    BY <1>1, <1>2, <1>4, TurnHolds, RecentGrows
  <2>2. /\ SumFunctionOnSet(m.rpm, Recent(m.index, j)) \in Nat
        /\ SumFunctionOnSet(t.rpm, Recent(t.index, j + 1)) \in Nat
        /\ SumFunctionOnSet(t.rpm, Ring) \in Nat
    BY <1>2, <1>4, RingSums, RecentGrows
  <2> QED
    BY <2>1, <2>2
<1>5. /\ SumFunctionOnSet(m.rpm, Recent(m.index, 1)) <= SumFunctionOnSet(t.rpm, Ring)
      /\ SumFunctionOnSet(m.rpm, Recent(m.index, 2)) <= SumFunctionOnSet(t.rpm, Ring)
  BY <1>4, FewTurns
<1>6. /\ SumFunctionOnSet(m.rpm, Recent(m.index, 1)) \in Nat
      /\ SumFunctionOnSet(m.rpm, Recent(m.index, 2)) \in Nat
      /\ SumFunctionOnSet(t.rpm, Ring) \in Nat
      /\ SumFunctionOnSet(h, 0..Flush) \in Nat
  <2>1. 1 \in Ring /\ Flush \in 0..Window /\ Flush \in 0..Flush
    BY FewTurns, FlushInWindow, Positive
  <2>2. SumFunctionOnSet(t.rpm, Ring) \in Nat
    BY <1>2, <2>1, RecentGrows
  <2>3. SumFunctionOnSet(h, 0..Flush) \in Nat
    BY <2>1, HistorySums
  <2> QED
    BY <2>2, <2>3, LatestTypes
<1>7. SumFunctionOnSet(h, 0..Flush) <= SumFunctionOnSet(t.rpm, Ring)
  BY <1>5, <1>6 DEF Latest
<1> QED
  BY <1>1, <1>2, <1>3, <1>7 DEF Rotated

-----------------------------------------------------------------------------
(* The invariant of the latest requests.                                   *)

(* A sum of nothing.                                                       *)
LEMMA NoHistory ==
  ASSUME NEW h \in Histories, \A a \in 0..Window : h[a] = 0, NEW b \in 0..Window
  PROVE  SumFunctionOnSet(h, 0..b) = 0
<1>1. PICK S : S = 0..b
  OBVIOUS
<1>2. IsFiniteSet(S) /\ \A x \in S : h[x] = 0
  <2>1. b \in Int /\ 0..b \subseteq 0..Window
    BY Positive
  <2> QED
    BY <1>1, <2>1, FS_Interval
<1>3. SumFunctionOnSet(h, S) = SumFunctionOnSet(h, {})
  <2>1. /\ \A x \in S : h[x] \in Nat
        /\ {} \in SUBSET S /\ \A x \in S \ {} : h[x] = 0
    BY <1>2
  <2> QED
    BY <1>2, <2>1, SumSupport
<1> QED
  BY <1>1, <1>3, SumEmpty

(* At first there is no record, and no request.                            *)
LEMMA InitKept == Init => KInv
  BY InitInv DEF Init, KInv, Kept

(* What a record becomes that a datum is counted in.                       *)
LEMMA ProcessKept == ASSUME KInv, ProcessMetrics PROVE KInv'
<1>0. /\ metricsChan \in Seq(Data) /\ metricsChan # <<>>
      /\ metrics \in [Pods -> Metrics \cup {None}] /\ flushIn \in 0..Flush
      /\ handled \in [Pods -> Histories] /\ flushIn' = flushIn
  BY DEF KInv, IInv, TypeOK, ProcessMetrics, Histories
<1>1. PICK d \in Data : d = Head(metricsChan)
  BY <1>0
<1>2. PICK q \in Pods, l \in Latencies : q = d.pod /\ l = d.latency
  BY DEF Data
<1>3. PICK m : m = IF metrics[q] = None THEN Fresh ELSE metrics[q]
  OBVIOUS
<1>4. PICK g : g = [handled[q] EXCEPT ![0] = @ + 1]
  OBVIOUS
<1>5. PICK c : c = Counted(Shifted(m), l)
  OBVIOUS
<1>6. metrics' = [metrics EXCEPT ![q] = c] /\ handled' = [handled EXCEPT ![q] = g]
  BY <1>1, <1>2, <1>3, <1>4, <1>5 DEF ProcessMetrics
<1>7. PICK h \in Histories : h = handled[q]
  BY <1>0
<1>8. PICK e \in 0..Flush : e = Flush - flushIn
  BY <1>0, Positive
<1>9. m \in Metrics /\ Latest(m, h, e) /\ Current(m, h, e)
  <2>1. CASE metrics[q] = None
    <3>1. \A a \in 0..Window : h[a] = 0
      BY <1>7, <2>1 DEF KInv, Kept
    <3>2. SumFunctionOnSet(h, 0..e) = 0 /\ h[0] = 0
      BY <3>1, NoHistory, FlushInWindow, Positive
    <3>3. m \in Metrics
      BY <1>0, <1>3, <1>7, <2>1, FreshOK
    <3> QED
      BY <3>2, <3>3 DEF Latest, Current
  <2>2. CASE metrics[q] # None
    BY <1>0, <1>3, <1>7, <1>8, <2>2 DEF KInv, Kept
  <2> QED
    BY <2>1, <2>2
<1>10. /\ Shifted(m) \in Metrics /\ Shifted(m).bucket < Minute
       /\ Latest(Shifted(m), h, e) /\ Current(Shifted(m), h, e)
  BY <1>9, ShiftedLatest
<1>11. g \in Histories /\ OneMore(h, g)
  BY <1>4, <1>7, OneMoreIs
<1>12. Latest(c, g, e) /\ Current(c, g, e)
  BY <1>5, <1>10, <1>11, CountedLatest
<1>13. IInv'
  BY ProcessInv DEF KInv
<1>14. c # None
  <2>1. c = metrics'[q] /\ handled[q] = h
    BY <1>0, <1>6, <1>7
  <2>2. m \in Metrics /\ metrics' \in [Pods -> Metrics \cup {None}]
    BY <1>9, <1>13 DEF IInv, TypeOK
  <2>3. c \in Metrics
    <3>1. h \in Histories /\ PodOK(m, h, flushIn)
      BY <1>0, <1>3, <1>7, FreshOK DEF KInv, IInv
    <3>2. Shifted(m) \in Metrics /\ PodOK(Shifted(m), h, flushIn)
      BY <1>0, <1>9, <3>1, ShiftedOK
    <3> QED
      BY <1>0, <1>5, <1>11, <3>2, CountedOK
  <2> QED
    BY <2>3, NoneAssumption
<1>15. ASSUME NEW p \in Pods PROVE Kept(metrics'[p], handled'[p], Flush - flushIn')
  <2>1. CASE p = q
    BY <1>0, <1>6, <1>8, <1>12, <1>14, <2>1 DEF Kept
  <2>2. CASE p # q
    BY <1>0, <1>6, <2>2 DEF KInv
  <2> QED
    BY <2>1, <2>2
<1> QED
  BY <1>13, <1>15 DEF KInv

(* What a pod's record becomes when it is flushed.                         *)
LEMMA FlushedHolds ==
  ASSUME KInv, FlushMetrics, NEW p \in Pods
  PROVE  /\ Kept(metrics'[p], handled[p], 0)
         /\ Requests(metrics'[p]) \in Nat /\ SumFunctionOnSet(handled[p], 0..Flush) \in Nat
         /\ SumFunctionOnSet(handled[p], 0..Flush) <= Requests(metrics'[p])
<1>0. /\ metrics[p] \in Metrics \cup {None} /\ handled[p] \in Histories
      /\ flushIn = 0 /\ Flush - 0 = Flush /\ Flush \in 0..Flush /\ Flush \in 0..Window
      /\ 0 \in 0..Flush
      /\ metrics'[p] = IF metrics[p] = None \/ Expired(metrics[p]) THEN None
                       ELSE Rotated(metrics[p])
  <2>1. Flush - 0 = Flush /\ Flush \in 0..Flush /\ Flush \in 0..Window /\ 0 \in 0..Flush
    BY Positive, FlushInWindow
  <2>2. /\ metrics[p] \in Metrics \cup {None} /\ handled[p] \in Histories
    BY DEF KInv, IInv, TypeOK, Histories
  <2>3. /\ flushIn = 0
        /\ metrics' = [q \in Pods |->
             IF metrics[q] = None \/ Expired(metrics[q]) THEN None ELSE Rotated(metrics[q])]
    BY DEF FlushMetrics
  <2> QED
    BY <2>1, <2>2, <2>3
<1>1. SumFunctionOnSet(handled[p], 0..Flush) \in Nat
  BY <1>0, HistorySums
<1>2. CASE metrics[p] = None \/ Expired(metrics[p])
  <2>1. \A a \in 0..Window : handled[p][a] = 0
    <3>1. CASE metrics[p] = None
      BY <3>1 DEF KInv, Kept
    <3>2. CASE metrics[p] # None
      <4>1. Untouched(metrics[p], handled[p]) /\ Expired(metrics[p]) /\ metrics[p] \in Metrics
        BY <1>0, <1>2, <3>2 DEF KInv, IInv, PodOK
      <4>2. metrics[p].updated \in Nat /\ metrics[p].updated > Stale
        BY <4>1, Positive DEF Metrics, Expired
      <4>3. \A a \in 0..Window : a < metrics[p].updated
        BY <4>2, Positive
      <4> QED
        BY <4>1, <4>3 DEF Untouched
    <3> QED
      BY <3>1, <3>2
  <2>2. SumFunctionOnSet(handled[p], 0..Flush) = 0
    BY <1>0, <2>1, NoHistory
  <2> QED
    BY <1>0, <1>2, <2>1, <2>2 DEF Kept, Requests
<1>3. CASE ~ (metrics[p] = None \/ Expired(metrics[p]))
  <2>1. PICK m \in Metrics, h \in Histories : m = metrics[p] /\ h = handled[p]
    BY <1>0, <1>3
  <2>2. /\ Latest(m, h, Flush) /\ Current(m, h, Flush) /\ PodOK(m, h, 0)
        /\ metrics'[p] = Rotated(m)
    <3>1. Kept(metrics[p], handled[p], Flush) /\ PodOK(metrics[p], handled[p], 0)
      BY <1>0, <1>3 DEF KInv, IInv
    <3> QED
      BY <1>0, <1>3, <2>1, <3>1 DEF Kept
  <2>3. Latest(Rotated(m), h, 0) /\ Current(Rotated(m), h, 0)
    BY <2>2, RotatedLatest
  <2>4. Rotated(m) \in Metrics /\ SumFunctionOnSet(h, 0..Flush) <= Requests(Rotated(m))
    BY <2>2, RotatedHolds
  <2>5. Requests(Rotated(m)) \in Nat
    <3>1. Requests(Rotated(m)) = SumFunctionOnSet(Rotated(m).rpm, Ring)
      BY <2>4, NoneAssumption DEF Requests, SumFunction, Metrics
    <3> QED
      BY <2>4, <3>1, RecentGrows, Positive
  <2>6. Rotated(m) # None
    BY <2>4, NoneAssumption
  <2> QED
    BY <1>1, <2>1, <2>2, <2>3, <2>4, <2>5, <2>6 DEF Kept
<1> QED
  BY <1>2, <1>3

(* A flush starts a new time.                                              *)
LEMMA FlushKept == ASSUME KInv, FlushMetrics PROVE KInv'
<1>1. IInv'
  BY FlushInv DEF KInv
<1>2. Flush - flushIn' = 0 /\ handled' = handled
  BY Positive DEF FlushMetrics
<1>3. ASSUME NEW p \in Pods PROVE Kept(metrics'[p], handled'[p], Flush - flushIn')
  BY <1>2, FlushedHolds
<1> QED
  BY <1>1, <1>3 DEF KInv

(* Time passes.                                                            *)
LEMMA TickKept == ASSUME KInv, Tick PROVE KInv'
<1>0. /\ metrics \in [Pods -> Metrics \cup {None}] /\ handled \in [Pods -> Histories]
      /\ flushIn \in 1..Flush /\ flushIn' = flushIn - 1
      /\ metrics' = [p \in Pods |-> IF metrics[p] = None THEN None ELSE Aged(metrics[p])]
      /\ handled' = [p \in Pods |-> Later(handled[p])]
  <2>1. flushIn \in 0..Flush /\ flushIn > 0 => flushIn \in 1..Flush
    BY Positive
  <2>2. /\ metrics' = [p \in Pods |-> IF metrics[p] = None THEN None ELSE Aged(metrics[p])]
        /\ handled' = [p \in Pods |-> Later(handled[p])]
    BY DEF Tick, Aged, Later
  <2> QED
    BY <2>1, <2>2 DEF KInv, IInv, TypeOK, Tick, Histories
<1>1. IInv'
  BY TickInv DEF KInv
<1>2. PICK e \in 0..(Flush - 1) : e = Flush - flushIn /\ e + 1 = Flush - flushIn'
  BY <1>0, Positive
<1>3. ASSUME NEW p \in Pods PROVE Kept(metrics'[p], handled'[p], Flush - flushIn')
  <2>0. PICK h \in Histories : h = handled[p] /\ handled'[p] = Later(h)
    BY <1>0
  <2>1. CASE metrics[p] = None
    <3>1. metrics'[p] = None /\ \A a \in 0..Window : h[a] = 0
      BY <1>0, <2>0, <2>1 DEF KInv, Kept
    <3>2. \A a \in 0..Window : a # 0 => a - 1 \in 0..Window
      BY Positive
    <3>3. \A a \in 0..Window : Later(h)[a] = 0
      BY <3>1, <3>2 DEF Later
    <3> QED
      BY <2>0, <3>1, <3>3 DEF Kept
  <2>2. CASE metrics[p] # None
    <3>1. PICK m \in Metrics : m = metrics[p] /\ metrics'[p] = Aged(m)
      BY <1>0, <2>2
    <3>2. Latest(m, h, e)
      BY <1>2, <2>0, <2>2, <3>1 DEF KInv, Kept
    <3>3. Latest(Aged(m), Later(h), e + 1) /\ Current(Aged(m), Later(h), e + 1)
      BY <3>2, AgedLatest
    <3>4. Aged(m) # None
      <4>1. PodOK(m, h, flushIn)
        BY <2>0, <2>2, <3>1 DEF KInv, IInv
      <4> QED
        BY <1>0, <4>1, AgedOK, NoneAssumption
    <3> QED
      BY <1>2, <2>0, <3>1, <3>3, <3>4 DEF Kept
  <2> QED
    BY <2>1, <2>2
<1> QED
  BY <1>1, <1>3 DEF KInv

(* KInv is inductive.                                                      *)
LEMMA NextKept == ASSUME KInv, [Next]_vars PROVE KInv'
<1>1. CASE UNCHANGED <<metrics, flushIn, handled>>
  <2>1. IInv'
    BY NextInv DEF KInv
  <2> QED
    BY <1>1, <2>1 DEF KInv
<1> QED
  BY <1>1, ProcessKept, FlushKept, TickKept DEF Next, Drop, Request, SendLatencyData, vars

(* What a flush saves as the total of all pods is no less than what was    *)
(* counted since the last flush (metricsworker.go:159-184), although the   *)
(* oldest buckets were emptied before.                                     *)
THEOREM LatestInTotalHolds == Spec => LatestInTotal
<1>1. ASSUME KInv, [Next]_vars, flushIn = 0, flushIn' = Flush
      PROVE  Total(saved') >= SumFunction([p \in Pods |-> SumFunctionOnSet(handled[p], 0..Flush)])
  <2>1. FlushMetrics
    <3>1. flushIn' # flushIn /\ ~ (flushIn > 0)
      BY <1>1, Positive
    <3> QED
      BY <1>1, <3>1 DEF Next, Drop, Request, SendLatencyData, ProcessMetrics, Tick, vars
  <2>2. PICK f : f = [p \in Pods |-> SumFunctionOnSet(handled[p], 0..Flush)]
    OBVIOUS
  <2>3. PICK g : g = [p \in Pods |-> Requests(metrics'[p])]
    OBVIOUS
  <2>4. \A p \in Pods : f[p] \in Nat /\ g[p] \in Nat /\ f[p] <= g[p]
    BY <1>1, <2>1, <2>2, <2>3, FlushedHolds
  <2>5. SumFunctionOnSet(f, Pods) <= 1 * SumFunctionOnSet(g, Pods)
    <3>1. \A p \in Pods : f[p] \in Nat /\ g[p] \in Nat /\ f[p] <= 1 * g[p]
      BY <2>4
    <3> QED
      BY <3>1, SumScaled, ConstantsAssumption
  <2>6. SumFunctionOnSet(f, Pods) \in Nat /\ SumFunctionOnSet(g, Pods) \in Nat
    BY <2>4, SumType, ConstantsAssumption
  <2>7. SumFunction(f) = SumFunctionOnSet(f, Pods) /\ SumFunction(g) = SumFunctionOnSet(g, Pods)
    BY <2>2, <2>3 DEF SumFunction
  <2>8. PICK n \in Nat : n = SumFunction(g)
    BY <2>6, <2>7
  <2>9. saved'.all = IF n = 0 THEN None ELSE n
    BY <2>1, <2>3, <2>8 DEF FlushMetrics
  <2>10. Total(saved') = n
    BY <2>9, NoneAssumption DEF Total
  <2> QED
    BY <2>2, <2>5, <2>6, <2>7, <2>8, <2>10
<1>2. KInv /\ [Next]_vars =>
        [ flushIn = 0 /\ flushIn' = Flush =>
            Total(saved') >= SumFunction([p \in Pods |-> SumFunctionOnSet(handled[p], 0..Flush)]) ]_vars
  BY <1>1
<1> QED
  BY <1>2, InitKept, NextKept, PTL DEF Spec, LatestInTotal
=============================================================================
