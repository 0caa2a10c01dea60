-------------------------- MODULE Dashboard_proofs --------------------------
(***************************************************************************)
(* Proofs about the dashboard's polling: its type invariant, and that the  *)
(* Loading... and Refreshing... indicators are always backed by a fetch   *)
(* still in flight, for any URLs and any bounds.                           *)
(***************************************************************************)
EXTENDS Dashboard, TLAPS

(* Inductive invariant: the spinner invariant needs the types of the       *)
(* counters and of the interval's closure.                                 *)
IInv == TypeOK /\ SpinnerBackedByFetch

(***************************************************************************)
(* Starting a fetch of kind f keeps every other count and raises f's.      *)
(***************************************************************************)
LEMMA StartFetchCounts ==
    ASSUME TypeOK, NEW url \in Urls, NEW initial \in BOOLEAN,
           StartFetch(url, initial)
    PROVE  /\ inflight' \in [Fetch -> 0..MaxInFlight]
           /\ \A g \in Fetch : inflight'[g] >= inflight[g]
           /\ inflight'[[url |-> url, initial |-> initial]] > 0
<1> DEFINE f == [url |-> url, initial |-> initial]
<1>1. f \in Fetch
  BY DEF Fetch
<1>2. inflight \in [Fetch -> 0..MaxInFlight] /\ inflight[f] < MaxInFlight
  BY <1>1 DEF StartFetch, TypeOK
<1>3. inflight' = [inflight EXCEPT ![f] = @ + 1]
  BY DEF StartFetch
<1>4. MaxInFlight \in Nat
  BY DashboardAssumption
<1>5. inflight' \in [Fetch -> 0..MaxInFlight]
  BY <1>1, <1>2, <1>3, <1>4
<1>6. \A g \in Fetch : inflight'[g] >= inflight[g]
  BY <1>1, <1>2, <1>3
<1>7. inflight'[f] > 0
  BY <1>1, <1>2, <1>3
<1> QED
  BY <1>5, <1>6, <1>7

LEMMA InitIInv == Init => IInv
<1> SUFFICES ASSUME Init PROVE IInv
  OBVIOUS
<1> DEFINE f0 == [url |-> DefaultUrl, initial |-> TRUE]
<1>1. f0 \in Fetch
  BY DashboardAssumption DEF Fetch
<1>a. inflight \in [Fetch -> 0..MaxInFlight]
  <2>1. MaxInFlight \in Nat \ {0}
    BY DashboardAssumption
  <2> QED
    BY <2>1 DEF Init
<1>b. timer \in Fetch /\ dataUrl \in Urls /\ nodes \in Urls \cup {NoData}
  BY <1>1, DashboardAssumption DEF Init
<1>c. urlChanges \in 0..MaxUrlChanges
  BY DashboardAssumption DEF Init
<1>2. TypeOK
  BY <1>a, <1>b, <1>c DEF Init, TypeOK
<1>3. SpinnerBackedByFetch
  BY <1>1 DEF Init, SpinnerBackedByFetch
<1> QED
  BY <1>2, <1>3 DEF IInv

LEMMA NextIInv == IInv /\ [Next]_vars => IInv'
<1> SUFFICES ASSUME IInv, [Next]_vars PROVE IInv'
  OBVIOUS
<1> USE DashboardAssumption DEF IInv
<1>1. CASE Tick
  <2>1. timer.url \in Urls /\ timer.initial \in BOOLEAN
    BY DEF TypeOK, Fetch
  <2>2. /\ inflight' \in [Fetch -> 0..MaxInFlight]
        /\ \A g \in Fetch : inflight'[g] >= inflight[g]
        /\ inflight'[[url |-> timer.url, initial |-> timer.initial]] > 0
    BY <1>1, <2>1, StartFetchCounts DEF Tick
  <2>3. TypeOK'
    BY <1>1, <2>2 DEF Tick, StartFetch, TypeOK
  <2>4. SpinnerBackedByFetch'
    BY <1>1, <2>1, <2>2 DEF Tick, StartFetch, SpinnerBackedByFetch, TypeOK, Fetch
  <2> QED
    BY <2>3, <2>4
<1>2. CASE RefreshNow
  <2>1. dataUrl \in Urls /\ isInitialLoad \in BOOLEAN
    BY DEF TypeOK
  <2>2. /\ inflight' \in [Fetch -> 0..MaxInFlight]
        /\ \A g \in Fetch : inflight'[g] >= inflight[g]
        /\ inflight'[[url |-> dataUrl, initial |-> isInitialLoad]] > 0
    BY <1>2, <2>1, StartFetchCounts DEF RefreshNow
  <2>3. TypeOK'
    BY <1>2, <2>2 DEF RefreshNow, StartFetch, TypeOK
  <2>4. SpinnerBackedByFetch'
    BY <1>2, <2>1, <2>2 DEF RefreshNow, StartFetch, SpinnerBackedByFetch, TypeOK, Fetch
  <2> QED
    BY <2>3, <2>4
<1>3. ASSUME NEW u \in Urls, ChangeUrl(u) PROVE IInv'
  <2>1. isInitialLoad \in BOOLEAN
    BY DEF TypeOK
  <2>2. /\ inflight' \in [Fetch -> 0..MaxInFlight]
        /\ \A g \in Fetch : inflight'[g] >= inflight[g]
        /\ inflight'[[url |-> u, initial |-> isInitialLoad]] > 0
    BY <1>3, <2>1, StartFetchCounts DEF ChangeUrl
  <2>3. TypeOK'
    BY <1>3, <2>1, <2>2 DEF ChangeUrl, StartFetch, TypeOK, Fetch
  <2>4. SpinnerBackedByFetch'
    BY <1>3, <2>1, <2>2 DEF ChangeUrl, StartFetch, SpinnerBackedByFetch, TypeOK, Fetch
  <2> QED
    BY <2>3, <2>4
<1>4. CASE ChangeInterval
  BY <1>4 DEF ChangeInterval, TypeOK, SpinnerBackedByFetch, Fetch
<1>5. ASSUME NEW f \in Fetch, NEW ok \in BOOLEAN, Complete(f, ok) PROVE IInv'
  <2>1. inflight' = [inflight EXCEPT ![f] = @ - 1] /\ inflight[f] > 0
    BY <1>5 DEF Complete
  <2>2. \A g \in Fetch : g # f => inflight'[g] = inflight[g]
    <3>1. inflight \in [Fetch -> 0..MaxInFlight]
      BY DEF TypeOK
    <3> QED
      BY <2>1, <3>1
  <2>3. TypeOK'
    <3>1. inflight \in [Fetch -> 0..MaxInFlight] /\ MaxInFlight \in Nat
      BY DEF TypeOK
    <3>2. inflight' \in [Fetch -> 0..MaxInFlight]
      BY <2>1, <3>1
    <3>3. nodes' \in Urls \cup {NoData}
      BY <1>5 DEF Complete, TypeOK, Fetch
    <3> QED
      BY <1>5, <3>2, <3>3 DEF Complete, TypeOK
  <2>4. loading' => \E g \in Fetch : g.initial /\ inflight'[g] > 0
    <3> SUFFICES ASSUME loading' PROVE \E g \in Fetch : g.initial /\ inflight'[g] > 0
      OBVIOUS
    <3>1. loading /\ ~f.initial
      BY <1>5 DEF Complete
    <3>2. PICK g \in Fetch : g.initial /\ inflight[g] > 0
      BY <3>1 DEF SpinnerBackedByFetch
    <3>3. g # f
      BY <3>1, <3>2
    <3> QED
      BY <2>2, <3>2, <3>3
  <2>5. ~refreshing'
    BY <1>5 DEF Complete
  <2> QED
    BY <2>3, <2>4, <2>5 DEF SpinnerBackedByFetch
<1>6. CASE UNCHANGED vars
  BY <1>6 DEF vars, TypeOK, SpinnerBackedByFetch
<1> QED
  BY <1>1, <1>2, <1>3, <1>4, <1>5, <1>6 DEF Next

(***************************************************************************)
(* The polling's indicators: in every reachable state, Loading... is up   *)
(* only while a fetch of an initial-load closure is in flight, and        *)
(* Refreshing... only while a fetch of a refresh closure is, for any set  *)
(* of URLs and any bound on the fetches in flight.                        *)
(***************************************************************************)
THEOREM SpinnerSafe == Spec => []SpinnerBackedByFetch
<1>1. IInv => SpinnerBackedByFetch
  BY DEF IInv
<1> QED
  BY InitIInv, NextIInv, <1>1, PTL DEF Spec

(* Type correctness of the polling model.                                  *)
THEOREM DashboardTypeCorrect == Spec => []TypeOK
<1>1. IInv => TypeOK
  BY DEF IInv
<1> QED
  BY InitIInv, NextIInv, <1>1, PTL DEF Spec

-----------------------------------------------------------------------------
(***************************************************************************)
(* Refinement of PollingAbstract.  The interval always holds a closure of *)
(* the current URL (both effects depend on dataUrl), which is what makes  *)
(* a tick an abstract Request; RInv adds that fact to IInv.               *)
(***************************************************************************)
RInv == IInv /\ timer.url = dataUrl

(* Starting a fetch of url adds one abstract pending request for url.      *)
LEMMA StartFetchPending ==
    ASSUME TypeOK, NEW url \in Urls, NEW initial \in BOOLEAN,
           StartFetch(url, initial)
    PROVE  Pending' = [Pending EXCEPT ![url] = @ + 1]
<1> DEFINE f == [url |-> url, initial |-> initial]
           T(u) == [url |-> u, initial |-> TRUE]
           F(u) == [url |-> u, initial |-> FALSE]
<1>1. inflight \in [Fetch -> 0..MaxInFlight] /\ f \in Fetch
  BY DEF TypeOK, Fetch
<1>2. inflight' = [inflight EXCEPT ![f] = @ + 1]
  BY DEF StartFetch
<1>3. \A u \in Urls : T(u) \in Fetch /\ F(u) \in Fetch /\ T(u) # F(u)
  BY DEF Fetch
<1>4. \A g \in Fetch : inflight'[g] = IF g = f THEN inflight[g] + 1 ELSE inflight[g]
  BY <1>1, <1>2
<1>5. ASSUME NEW u \in Urls
      PROVE  inflight'[T(u)] + inflight'[F(u)]
             = IF u = url THEN inflight[T(u)] + inflight[F(u)] + 1
                          ELSE inflight[T(u)] + inflight[F(u)]
  <2>1. inflight[T(u)] \in Nat /\ inflight[F(u)] \in Nat
    BY <1>1, <1>3
  <2>2. CASE u = url /\ initial
    <3>1. T(u) = f /\ F(u) # f
      BY <2>2
    <3> QED
      BY <1>3, <1>4, <2>1, <2>2, <3>1
  <2>3. CASE u = url /\ ~initial
    <3>1. F(u) = f /\ T(u) # f
      BY <2>3
    <3> QED
      BY <1>3, <1>4, <2>1, <2>3, <3>1
  <2>4. CASE u # url
    <3>1. T(u) # f /\ F(u) # f
      BY <2>4
    <3> QED
      BY <1>3, <1>4, <2>4, <3>1
  <2> QED
    BY <2>2, <2>3, <2>4
<1> QED
  BY <1>5 DEF Pending

LEMMA InitRefines == Init => Abs!AInit
<1> SUFFICES ASSUME Init PROVE Abs!AInit
  OBVIOUS
<1>1. \A u \in Urls : [url |-> u, initial |-> FALSE] # [url |-> DefaultUrl, initial |-> TRUE]
  OBVIOUS
<1>2. Pending = [u \in Urls |-> IF u = DefaultUrl THEN 1 ELSE 0]
  BY <1>1 DEF Init, Pending, Fetch
<1> QED
  BY <1>2 DEF Init, Abs!AInit

LEMMA InitRInv == Init => RInv
BY InitIInv DEF Init, RInv

LEMMA NextRInv == RInv /\ [Next]_vars => RInv'
<1> SUFFICES ASSUME RInv, [Next]_vars PROVE RInv'
  OBVIOUS
<1>1. IInv'
  BY NextIInv DEF RInv
<1>2. timer'.url = dataUrl'
  BY DEF RInv, Next, vars, Tick, RefreshNow, ChangeUrl, ChangeInterval, Complete
<1> QED
  BY <1>1, <1>2 DEF RInv

LEMMA NextRefines == RInv /\ [Next]_vars => [Abs!ANext]_Abs!avars
<1> SUFFICES ASSUME RInv, [Next]_vars PROVE [Abs!ANext]_Abs!avars
  OBVIOUS
<1> USE DashboardAssumption
<1>0. TypeOK
  BY DEF RInv, IInv
<1>1. CASE Tick
  <2>1. timer.url = dataUrl /\ timer.initial \in BOOLEAN /\ dataUrl \in Urls
    BY <1>0 DEF RInv, TypeOK, Fetch
  <2>2. Pending' = [Pending EXCEPT ![dataUrl] = @ + 1]
    BY <1>0, <1>1, <2>1, StartFetchPending DEF Tick
  <2> QED
    BY <1>1, <2>2 DEF Tick, Abs!ANext, Abs!Request
<1>2. CASE RefreshNow
  <2>1. isInitialLoad \in BOOLEAN /\ dataUrl \in Urls
    BY <1>0 DEF TypeOK
  <2>2. Pending' = [Pending EXCEPT ![dataUrl] = @ + 1]
    BY <1>0, <1>2, <2>1, StartFetchPending DEF RefreshNow
  <2> QED
    BY <1>2, <2>2 DEF RefreshNow, Abs!ANext, Abs!Request
<1>3. ASSUME NEW u \in Urls, ChangeUrl(u) PROVE [Abs!ANext]_Abs!avars
  <2>1. isInitialLoad \in BOOLEAN
    BY <1>0 DEF TypeOK
  <2>2. Pending' = [Pending EXCEPT ![u] = @ + 1]
    BY <1>0, <1>3, <2>1, StartFetchPending DEF ChangeUrl
  <2>3. Abs!Edit(u)
    BY <1>3, <2>2 DEF ChangeUrl, Abs!Edit
  <2> QED
    BY <2>3 DEF Abs!ANext
<1>4. CASE ChangeInterval
  BY <1>4 DEF ChangeInterval, Abs!avars, Pending
<1>5. ASSUME NEW f \in Fetch, NEW ok \in BOOLEAN, Complete(f, ok)
      PROVE  [Abs!ANext]_Abs!avars
  <2> DEFINE T(u) == [url |-> u, initial |-> TRUE]
             F(u) == [url |-> u, initial |-> FALSE]
  <2>0. PICK v \in Urls, b \in BOOLEAN : f = [url |-> v, initial |-> b]
    BY DEF Fetch
  <2>1. inflight \in [Fetch -> 0..MaxInFlight] /\ f.url = v
    BY <1>0, <2>0 DEF TypeOK
  <2>2. inflight' = [inflight EXCEPT ![f] = @ - 1] /\ inflight[f] > 0
    BY <1>5 DEF Complete
  <2>3. \A g \in Fetch : inflight'[g] = IF g = f THEN inflight[g] - 1 ELSE inflight[g]
    BY <2>1, <2>2
  <2>4. \A u \in Urls : T(u) \in Fetch /\ F(u) \in Fetch /\ T(u) # F(u)
    BY DEF Fetch
  <2>5. ASSUME NEW u \in Urls
        PROVE  inflight'[T(u)] + inflight'[F(u)]
               = IF u = v THEN inflight[T(u)] + inflight[F(u)] - 1
                          ELSE inflight[T(u)] + inflight[F(u)]
    <3>1. inflight[T(u)] \in Nat /\ inflight[F(u)] \in Nat
      BY <2>1, <2>4
    <3>2. CASE u = v /\ b
      <4>1. T(u) = f /\ F(u) # f
        BY <2>0, <3>2
      <4>2. inflight'[T(u)] = inflight[T(u)] - 1 /\ inflight'[F(u)] = inflight[F(u)]
        BY <2>3, <2>4, <4>1
      <4> QED
        BY <3>1, <3>2, <4>2
    <3>3. CASE u = v /\ ~b
      <4>1. F(u) = f /\ T(u) # f
        BY <2>0, <3>3
      <4> QED
        BY <2>3, <2>4, <3>1, <3>3, <4>1
    <3>4. CASE u # v
      <4>1. T(u) # f /\ F(u) # f
        BY <2>0, <3>4
      <4> QED
        BY <2>3, <2>4, <3>4, <4>1
    <3> QED
      BY <3>2, <3>3, <3>4
  <2>6. Pending[v] > 0
    <3>1. inflight[T(v)] \in Nat /\ inflight[F(v)] \in Nat
      BY <2>1, <2>4
    <3>2. inflight[T(v)] + inflight[F(v)] > 0
      <4>1. CASE b
        <5>1. inflight[T(v)] > 0
          BY <2>0, <2>2, <4>1
        <5> QED
          BY <3>1, <5>1
      <4>2. CASE ~b
        <5>1. inflight[F(v)] > 0
          BY <2>0, <2>2, <4>2
        <5> QED
          BY <3>1, <5>1
      <4> QED
        BY <4>1, <4>2
    <3>3. Pending[v] = inflight[T(v)] + inflight[F(v)]
      BY DEF Pending
    <3> QED
      BY <3>2, <3>3
  <2>7. Pending' = [Pending EXCEPT ![v] = @ - 1]
    <3>1. /\ Pending' = [u \in Urls |-> inflight'[T(u)] + inflight'[F(u)]]
          /\ Pending = [u \in Urls |-> inflight[T(u)] + inflight[F(u)]]
      BY DEF Pending
    <3>2. ASSUME NEW u \in Urls
          PROVE  Pending'[u] = [Pending EXCEPT ![v] = @ - 1][u]
      <4>1. /\ Pending'[u] = inflight'[T(u)] + inflight'[F(u)]
            /\ Pending[u] = inflight[T(u)] + inflight[F(u)]
            /\ DOMAIN Pending = Urls
        BY <3>1
      <4>2. CASE u = v
        <5>1. [Pending EXCEPT ![v] = @ - 1][u] = Pending[u] - 1
          BY <4>1, <4>2
        <5>2. inflight'[T(u)] + inflight'[F(u)] = inflight[T(u)] + inflight[F(u)] - 1
          BY <2>5, <4>2
        <5>3. Pending'[u] = Pending[u] - 1
          <6>1. inflight[T(u)] \in Nat /\ inflight[F(u)] \in Nat
            BY <2>1, <2>4
          <6> QED
            BY <4>1, <5>2, <6>1
        <5> QED
          BY <5>1, <5>3
      <4>3. CASE u # v
        <5>1. [Pending EXCEPT ![v] = @ - 1][u] = Pending[u]
          BY <4>1, <4>3
        <5>2. inflight'[T(u)] + inflight'[F(u)] = inflight[T(u)] + inflight[F(u)]
          BY <2>5, <4>3
        <5> QED
          BY <4>1, <5>1, <5>2
      <4> QED
        BY <4>2, <4>3
    <3>3. DOMAIN Pending' = Urls /\ DOMAIN [Pending EXCEPT ![v] = @ - 1] = Urls
      BY <3>1
    <3> QED
      BY <3>1, <3>2, <3>3, Zenon
  <2>8. Abs!Settle(v, ok)
    BY <1>5, <2>1, <2>6, <2>7 DEF Complete, Abs!Settle
  <2> QED
    BY <2>8 DEF Abs!ANext
<1>6. CASE UNCHANGED vars
  BY <1>6 DEF vars, Abs!avars, Pending
<1> QED
  BY <1>1, <1>2, <1>3, <1>4, <1>5, <1>6 DEF Next

(***************************************************************************)
(* The dashboard's polling implements PollingAbstract under the mapping   *)
(* Pending: every fetch it starts is for the URL in the input, and the   *)
(* chart's data is always the answer of a fetch that settled, for any    *)
(* URLs and bounds.                                                       *)
(***************************************************************************)
THEOREM Refinement == Spec => ImplementsPolling
<1>1. Init => Abs!AInit /\ RInv
  BY InitRefines, InitRInv
<1>2. RInv /\ [][Next]_vars => [][Abs!ANext]_Abs!avars
  BY NextRInv, NextRefines, PTL
<1> QED
  BY <1>1, <1>2, PTL DEF Spec, ImplementsPolling, Abs!ASpec

=============================================================================
