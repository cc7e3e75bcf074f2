---------------------------- MODULE EdgeProxy_proofs ----------------------------
(* What holds of EdgeProxy for every number of proxies, pods, requests and *)
(* hops, and whatever changes and fails.                                   *)
EXTENDS EdgeProxy, SequenceTheorems, TLAPS

(* A proxy is over once, answers last of all, and is recorded if it        *)
(* answered and forwarded, or is the only one; the last one, while it      *)
(* still chooses, has forwarded nothing.                                   *)
OverOnce(q) ==
  /\ q.answered \cup q.failed \subseteq 1..Len(q.path)
  /\ q.answered \cap q.failed = {}
Noted(q) ==
  /\ q.recorded \subseteq q.answered
  /\ \A i \in q.answered : i < Len(q.path) \/ i = 1 => i \in q.recorded
  /\ Len(q.path) > 1 => Len(q.path) \notin q.recorded
NotYet(q) ==
  /\ q.pc = "choose" => Len(q.path) \notin q.answered
  /\ q.pc # "new" => q.path # <<>>

RequestOK(q) == OverOnce(q) /\ Noted(q) /\ NotYet(q)
IInv == TypeOK /\ \A r \in Requests : RequestOK(requests[r])

-----------------------------------------------------------------------------
(* Requests.                                                               *)

(* The parts of a request.                                                 *)
LEMMA RequestParts ==
  ASSUME NEW q \in Request
  PROVE  /\ q.path \in Seq(Proxies) /\ Len(q.path) \in Nat /\ q.pod \subseteq Pods
         /\ q.answered \subseteq Nat /\ q.failed \subseteq Nat /\ q.recorded \subseteq Nat
         /\ q.path # <<>> => Len(q.path) >= 1
<1>1. /\ q.path \in Seq(Proxies) /\ q.pod \subseteq Pods
      /\ q.answered \subseteq Nat /\ q.failed \subseteq Nat /\ q.recorded \subseteq Nat
  BY DEF Request
<1> QED
  BY <1>1, EmptySeq, LenProperties

(* A request that arrives.                                                 *)
LEMMA ArriveOK ==
  ASSUME NEW x \in Proxies, NEW q, q = [NoRequest EXCEPT !.pc = "choose", !.path = <<x>>]
  PROVE  q \in Request /\ RequestOK(q)
<1>1. <<x>> \in Seq(Proxies) /\ Len(<<x>>) = 1 /\ <<x>> # <<>>
  OBVIOUS
<1>2. PICK path \in Seq(Proxies) : path = <<x>>
  BY <1>1
<1>3. Len(path) = 1 /\ path # <<>>
  BY <1>1, <1>2
<1> DEFINE u == [pc |-> "choose", path |-> path, pod |-> {},
                 answered |-> {}, failed |-> {}, recorded |-> {}]
<1>4. u \in Request
  BY DEF Request
<1>5. RequestOK(u)
  BY <1>3 DEF RequestOK, OverOnce, Noted, NotYet
<1>6. q = u
  BY <1>2 DEF NoRequest
<1> QED
  BY <1>4, <1>5, <1>6

(* A request that is forwarded: who was over before the last proxy has     *)
(* forwarded it and has recorded it.                                       *)
LEMMA ForwardOK ==
  ASSUME NEW q \in Request, RequestOK(q), q.pc = "choose", NEW to \in Proxies,
         Len(q.path) \notin q.answered \cup q.failed,
         NEW u, u = [q EXCEPT !.path = Append(q.path, to)]
  PROVE  u \in Request /\ RequestOK(u)
<1>1. /\ q.path \in Seq(Proxies) /\ Len(q.path) \in Nat /\ Len(q.path) >= 1
  BY RequestParts DEF RequestOK, NotYet
<1>2. PICK path : path = Append(q.path, to)
  OBVIOUS
<1>3. path \in Seq(Proxies) /\ Len(path) = Len(q.path) + 1
  BY <1>1, <1>2, AppendProperties
<1>4. /\ u.path = path /\ u.pc = "choose" /\ u.answered = q.answered
      /\ u.failed = q.failed /\ u.recorded = q.recorded
  BY <1>2 DEF Request
<1>5. u \in Request
  BY <1>2, <1>3 DEF Request
<1>6. path # <<>>
  BY <1>1, <1>3, EmptySeq
<1>7. OverOnce(u)
  BY <1>1, <1>3, <1>4 DEF RequestOK, OverOnce
<1>8. Noted(u)
  <2>1. \A i \in q.answered : i \in 1..Len(q.path) /\ i < Len(q.path)
    BY <1>1 DEF RequestOK, OverOnce
  <2>2. Len(path) \notin q.recorded
    BY <1>1, <1>3, <2>1 DEF RequestOK, Noted
  <2> QED
    BY <1>4, <2>1, <2>2 DEF RequestOK, Noted
<1>9. NotYet(u)
  BY <1>1, <1>3, <1>4, <1>6 DEF NotYet, RequestOK, OverOnce
<1> QED
  BY <1>5, <1>7, <1>8, <1>9 DEF RequestOK

(* A request whose i-th proxy fails.                                       *)
LEMMA FailedOK ==
  ASSUME NEW q \in Request, RequestOK(q), NEW i \in 1..Len(q.path),
         i \notin q.answered,
         NEW u, u = [q EXCEPT !.failed = q.failed \cup {i}]
  PROVE  u \in Request /\ RequestOK(u)
<1>1. Len(q.path) \in Nat /\ q.failed \subseteq Nat
  BY RequestParts
<1>2. PICK f : f = q.failed \cup {i}
  OBVIOUS
<1>3. f \in SUBSET Nat
  BY <1>1, <1>2
<1>4. /\ u \in Request /\ u.path = q.path /\ u.pc = q.pc /\ u.answered = q.answered
      /\ u.failed = f /\ u.recorded = q.recorded
  BY <1>2, <1>3 DEF Request
<1> QED
  BY <1>2, <1>4 DEF RequestOK, OverOnce, Noted, NotYet

(* A request whose i-th proxy passes on a response: it is recorded there   *)
(* if the proxy forwarded it, or is the only one.                          *)
LEMMA AnsweredOK ==
  ASSUME NEW q \in Request, RequestOK(q), NEW i \in 1..Len(q.path),
         i \notin q.answered \cup q.failed, i < Len(q.path) \/ q.pc = "pod",
         NEW w, w = IF Records(q.path, i) THEN q.recorded \cup {i} ELSE q.recorded,
         NEW u, u = [q EXCEPT !.answered = q.answered \cup {i}, !.recorded = w]
  PROVE  u \in Request /\ RequestOK(u)
<1>1. Len(q.path) \in Nat /\ q.answered \subseteq Nat /\ q.recorded \subseteq Nat
  BY RequestParts
<1>2. PICK a : a = q.answered \cup {i}
  OBVIOUS
<1>3. a \in SUBSET Nat /\ w \in SUBSET Nat
  BY <1>1, <1>2
<1>4. /\ u \in Request /\ u.path = q.path /\ u.pc = q.pc /\ u.answered = a
      /\ u.failed = q.failed /\ u.recorded = w
  BY <1>2, <1>3 DEF Request
<1>5. /\ q.recorded \subseteq w /\ w \subseteq q.recorded \cup {i}
      /\ i < Len(q.path) \/ i = 1 => i \in w
      /\ i = Len(q.path) /\ Len(q.path) > 1 => w = q.recorded
  BY <1>1 DEF Records, HasHeader, Forwards
<1>6. OverOnce(u)
  BY <1>2, <1>4 DEF RequestOK, OverOnce
<1>7. Noted(u)
  BY <1>2, <1>4, <1>5 DEF RequestOK, Noted
<1>8. NotYet(u)
  BY <1>1, <1>2, <1>4 DEF RequestOK, NotYet
<1> QED
  BY <1>4, <1>6, <1>7, <1>8 DEF RequestOK

-----------------------------------------------------------------------------
(* The invariant.                                                          *)

(* A step that keeps its request sound preserves IInv.                     *)
LEMMA MovesInv ==
  ASSUME IInv, NEW r \in Requests, NEW u \in Request, RequestOK(u), Moves(r, u), Answers
  PROVE  IInv'
<1>1. /\ requests \in [Requests -> Request] /\ requests' = [requests EXCEPT ![r] = u]
      /\ UNCHANGED <<running, known, store, cached, flight, changes, faults>>
  BY DEF IInv, TypeOK, Moves, world, Answers
<1>2. TypeOK'
  BY <1>1 DEF IInv, TypeOK, RequestOK, OverOnce, Over, Hops
<1>3. \A s \in Requests : RequestOK(requests'[s])
  BY <1>1 DEF IInv
<1> QED
  BY <1>2, <1>3 DEF IInv

(* Every step of a request preserves IInv.                                 *)
LEMMA RequestInv ==
  ASSUME IInv, NEW r \in Requests, RequestStep(r) \/ (\E x \in Proxies : Arrive(r, x))
  PROVE  IInv'
<1> DEFINE q == requests[r]
<1>1. q \in Request /\ RequestOK(q)
  BY DEF IInv, TypeOK
<1>2. ASSUME NEW x \in Proxies, Arrive(r, x) PROVE IInv'
  BY <1>2, ArriveOK, MovesInv DEF Arrive
<1>3. CASE NoCandidates(r)
  <2> DEFINE n == Len(q.path)
             u == [q EXCEPT !.failed = q.failed \cup {n}]
  <2>1. /\ q.pc = "choose" /\ n \notin q.answered /\ Moves(r, u) /\ Answers
    BY <1>3 DEF NoCandidates, Choosing, Hops, Over
  <2>2. n \in 1..n
    BY <1>1, <2>1, RequestParts DEF RequestOK, NotYet
  <2>3. u \in Request /\ RequestOK(u)
    BY <1>1, <2>1, <2>2, FailedOK
  <2> QED
    BY <2>1, <2>3, MovesInv
<1>4. ASSUME NEW p \in Pods, ChooseLocal(r, p) PROVE IInv'
  <2> DEFINE u == [q EXCEPT !.pc = "pod", !.pod = {p}]
  <2>1. /\ q.pc = "choose" /\ Moves(r, u) /\ Answers
    BY <1>4 DEF ChooseLocal, Choosing
  <2> HIDE DEF q
  <2>2. /\ u \in Request /\ u.pc = "pod" /\ u.path = q.path /\ u.recorded = q.recorded
        /\ u.answered = q.answered /\ u.failed = q.failed
    BY <1>1 DEF Request
  <2> HIDE DEF u
  <2>3. RequestOK(u)
    BY <1>1, <2>1, <2>2 DEF RequestOK, OverOnce, Noted, NotYet
  <2> QED
    BY <2>1, <2>2, <2>3, MovesInv
<1>5. ASSUME NEW p \in Pods, Forward(r, p) PROVE IInv'
  <2> DEFINE u == [q EXCEPT !.path = Append(q.path, ProxyOf[ClusterOf[p]])]
  <2>1. /\ q.pc = "choose" /\ Len(q.path) \notin q.answered \cup q.failed
        /\ Moves(r, u) /\ Answers
    BY <1>5 DEF Forward, Choosing, Hops, Over
  <2>2. ProxyOf[ClusterOf[p]] \in Proxies
    BY ConstantsAssumption
  <2>3. u \in Request /\ RequestOK(u)
    BY <1>1, <2>1, <2>2, ForwardOK
  <2> QED
    BY <2>1, <2>3, MovesInv
<1>6. ASSUME NEW i \in 1..MaxHops, ErrorHandler(r, i) PROVE IInv'
  <2> DEFINE u == [q EXCEPT !.failed = q.failed \cup {i}]
  <2>1. i \in 1..Len(q.path) /\ i \notin q.answered /\ Moves(r, u) /\ Answers
    BY <1>6 DEF ErrorHandler, Waits, Hops, Over
  <2>2. u \in Request /\ RequestOK(u)
    BY <1>1, <2>1, FailedOK
  <2> QED
    BY <2>1, <2>2, MovesInv
<1>7. ASSUME NEW i \in 1..MaxHops, ModifyResponse(r, i) PROVE IInv'
  <2> DEFINE w == IF Records(q.path, i) THEN q.recorded \cup {i} ELSE q.recorded
             u == [q EXCEPT !.answered = q.answered \cup {i}, !.recorded = w]
  <2>1. /\ i \in 1..Len(q.path) /\ i \notin q.answered \cup q.failed
        /\ i < Len(q.path) \/ q.pc = "pod"
        /\ Moves(r, u) /\ Answers
    BY <1>7 DEF ModifyResponse, Waits, Hops, Over
  <2>2. u \in Request /\ RequestOK(u)
    BY <1>1, <2>1, AnsweredOK
  <2> QED
    BY <2>1, <2>2, MovesInv
<1> QED
  BY <1>2, <1>3, <1>4, <1>5, <1>6, <1>7 DEF RequestStep

(* What is not a step of a request leaves the requests alone.              *)
LEMMA OtherInv ==
  ASSUME IInv, UNCHANGED requests,
         running' \subseteq Pods, known' \in [Proxies -> SUBSET Pods],
         store' \in [Proxies -> SUBSET Pods], cached' \in [Proxies -> BOOLEAN],
         flight' \in [Proxies -> Flight], changes' \in 0..Changes, faults' \in 0..Faults
  PROVE  IInv'
  BY DEF IInv, TypeOK, Over, Hops

(* The steps of a refresh preserve IInv.                                   *)
LEMMA RefreshInv ==
  ASSUME IInv, NEW x \in Proxies, RefreshStep(x) \/ Invalidate(x)
  PROVE  IInv'
<1>0. /\ running \subseteq Pods /\ known \in [Proxies -> SUBSET Pods]
      /\ store \in [Proxies -> SUBSET Pods] /\ cached \in [Proxies -> BOOLEAN]
      /\ flight \in [Proxies -> Flight] /\ changes \in 0..Changes /\ faults \in 0..Faults
      /\ Faults \in Nat /\ flight[x] \in Flight
  BY ConstantsAssumption DEF IInv, TypeOK
<1>1. NoFlight \in Flight /\ [NoFlight EXCEPT !.pc = "list", !.clusters = Clusters] \in Flight
  BY DEF NoFlight, Flight
<1>2. Answers \/ Fails => faults' \in 0..Faults
  BY <1>0 DEF Answers, Fails
<1>3. ASSUME NEW f \in Flight, flight' = [flight EXCEPT ![x] = f], Answers \/ Fails,
             UNCHANGED <<world, store, requests>>, cached' \in [Proxies -> BOOLEAN]
      PROVE  IInv'
  BY <1>0, <1>2, <1>3, OtherInv DEF world
<1>4. Failed(x) => /\ flight' = [flight EXCEPT ![x] = NoFlight]
                   /\ cached' \in [Proxies -> BOOLEAN]
  BY <1>0 DEF Failed
<1>5. CASE Refresh(x)
  BY <1>0, <1>1, <1>3, <1>5 DEF Refresh, Answers
<1>6. ASSUME NEW c \in Clusters, ListPods(x, c) PROVE IInv'
  <2> DEFINE f == [flight[x] EXCEPT !.clusters = @ \ {c},
                     !.found = @ \cup {p \in running : ClusterOf[p] = c}]
             g == [flight[x] EXCEPT !.clusters = @ \ {c}]
  <2>1. f \in Flight /\ g \in Flight
    BY <1>0 DEF Flight
  <2>2. /\ flight' = [flight EXCEPT ![x] = f] \/ flight' = [flight EXCEPT ![x] = g]
        /\ (Answers \/ Fails) /\ UNCHANGED <<world, store, cached, requests>>
    BY <1>6 DEF ListPods
  <2> HIDE DEF f, g
  <2> QED
    BY <1>0, <1>3, <2>1, <2>2
<1>7. CASE ListDone(x)
  <2> DEFINE f == [flight[x] EXCEPT !.pc = "latency"]
  <2>1. f \in Flight
    BY <1>0 DEF Flight
  <2>2. /\ Failed(x) \/ (flight' = [flight EXCEPT ![x] = f] /\ UNCHANGED cached)
        /\ Answers /\ UNCHANGED <<world, store, requests>>
    BY <1>7 DEF ListDone, Answers
  <2> HIDE DEF f
  <2> QED
    BY <1>0, <1>1, <1>3, <1>4, <2>1, <2>2
<1>8. CASE ReadLatencies(x)
  <2> DEFINE w == flight[x].found \cap known[x]
             f == [flight[x] EXCEPT !.pc = "resolve", !.found = w, !.todo = w \ Near(x)]
  <2>1. f \in Flight
    BY <1>0 DEF Flight
  <2>2. /\ (Fails /\ Failed(x)) \/ (Answers /\ flight' = [flight EXCEPT ![x] = f] /\ UNCHANGED cached)
        /\ UNCHANGED <<world, store, requests>>
    BY <1>8 DEF ReadLatencies
  <2> HIDE DEF f
  <2> QED
    BY <1>0, <1>1, <1>3, <1>4, <2>1, <2>2
<1>9. ASSUME NEW p \in Pods, ResolveProxy(x, p) PROVE IInv'
  <2> DEFINE f == [flight[x] EXCEPT !.todo = @ \ {p}]
             g == [flight[x] EXCEPT !.todo = @ \ {p}, !.found = @ \ {p}]
  <2>1. f \in Flight /\ g \in Flight
    BY <1>0 DEF Flight
  <2>2. /\ flight' = [flight EXCEPT ![x] = f] \/ flight' = [flight EXCEPT ![x] = g]
        /\ (Answers \/ Fails) /\ UNCHANGED <<world, store, cached, requests>>
    BY <1>9 DEF ResolveProxy
  <2> HIDE DEF f, g
  <2> QED
    BY <1>0, <1>3, <2>1, <2>2
<1>10. CASE Store(x)
  <2>1. CASE Failed(x) /\ UNCHANGED store
    BY <1>1, <1>3, <1>4, <1>10, <2>1 DEF Store, Answers
  <2>2. CASE /\ store' = [store EXCEPT ![x] = flight[x].found]
             /\ flight' = [flight EXCEPT ![x] = NoFlight] /\ UNCHANGED cached
    <3>1. flight[x].found \in SUBSET Pods
      BY <1>0 DEF Flight
    <3>2. /\ store' \in [Proxies -> SUBSET Pods] /\ flight' \in [Proxies -> Flight]
          /\ UNCHANGED <<running, known, changes, cached, requests, faults>>
      BY <1>0, <1>1, <1>10, <2>2, <3>1 DEF Store, world
    <3> QED
      BY <1>0, <3>2, OtherInv
  <2> QED
    BY <1>10, <2>1, <2>2 DEF Store
<1>11. CASE Invalidate(x)
  BY <1>0, <1>11, OtherInv DEF Invalidate, world
<1> QED
  BY <1>5, <1>6, <1>7, <1>8, <1>9, <1>10, <1>11 DEF RefreshStep

(* IInv holds at first: nothing is under way.                              *)
LEMMA InitInv == Init => IInv
<1> SUFFICES ASSUME Init PROVE IInv
  OBVIOUS
<1>1. NoFlight \in Flight /\ NoRequest \in Request /\ RequestOK(NoRequest)
  BY DEF NoFlight, Flight, NoRequest, Request, RequestOK, OverOnce, Noted, NotYet
<1> QED
  BY <1>1, ConstantsAssumption DEF Init, IInv, TypeOK, Over, Hops, NoRequest

(* IInv is inductive.                                                      *)
LEMMA NextInv == ASSUME IInv, [Next]_vars PROVE IInv'
<1>1. CASE Change
  <2>1. /\ running \subseteq Pods /\ known \in [Proxies -> SUBSET Pods]
        /\ store \in [Proxies -> SUBSET Pods] /\ cached \in [Proxies -> BOOLEAN]
        /\ flight \in [Proxies -> Flight] /\ changes \in 0..Changes /\ faults \in 0..Faults
        /\ Changes \in Nat
    BY ConstantsAssumption DEF IInv, TypeOK
  <2>2. /\ changes' \in 0..Changes /\ running' \subseteq Pods
        /\ known' \in [Proxies -> SUBSET Pods]
        /\ UNCHANGED <<store, cached, flight, requests, faults>>
    BY <1>1, <2>1 DEF Change
  <2> QED
    BY <2>1, <2>2, OtherInv
<1>2. CASE UNCHANGED vars
  BY <1>2 DEF vars, world, IInv, TypeOK, Over, Hops
<1> QED
  BY <1>1, <1>2, RefreshInv, RequestInv DEF Next

(* The inductive invariant of the edge proxies.                            *)
THEOREM Invariance == Spec => []IInv
  BY InitInv, NextInv, PTL DEF Spec

(* Stores, refreshes and requests are what they are taken for.             *)
THEOREM TypeCorrect == Spec => []TypeOK
<1>1. IInv => TypeOK
  BY DEF IInv
<1> QED
  BY <1>1, Invariance, PTL

(* A proxy that a client sent a request to and that answers has recorded   *)
(* it, unless it gave up itself, and the proxy that called the pod for     *)
(* another one has not, for any number of hops, whoever failed or gave up  *)
(* on the way and however late a response comes (edgeproxy.go:163-219).    *)
THEOREM SourceRecordsHolds == Spec => []SourceRecords
<1>1. IInv => SourceRecords
  <2> SUFFICES ASSUME IInv, NEW r \in Requests
               PROVE  /\ 1 \in Over(r) =>
                           (1 \in requests[r].recorded <=> 1 \notin requests[r].failed)
                      /\ Hops(r) > 1 => Hops(r) \notin requests[r].recorded
    BY DEF SourceRecords
  <2>1. OverOnce(requests[r]) /\ Noted(requests[r])
    BY DEF IInv, RequestOK
  <2> QED
    BY <2>1 DEF OverOnce, Noted, Over, Hops
<1> QED
  BY <1>1, Invariance, PTL
=============================================================================
