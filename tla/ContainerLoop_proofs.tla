------------------------- MODULE ContainerLoop_proofs -------------------------
(***************************************************************************)
(* Proofs about the container loop of adjustResources: that a DaemonSet's *)
(* requests are never written, that a workload the statistics do not     *)
(* know loses its CPU limits and nothing else, that a pod that is not a  *)
(* DaemonSet's and came in valid is admitted valid, and that a response   *)
(* admits each container passed once through the decisions, in its place. *)
(* All rest on ShapeInv and on what one write-back of the loop does to    *)
(* the concatenated list.                                                  *)
(***************************************************************************)
EXTENDS AdjustResources_proofs

(***************************************************************************)
(* Writing container i back (SetContainer) changes element i of           *)
(* [...containers, ...initContainers] and no other, whichever of the two  *)
(* lists it came from.                                                     *)
(***************************************************************************)
LEMMA SetContainerAccess ==
    ASSUME NEW p \in PodType, NEW i \in 1..Len(AllContainers(p)),
           NEW c \in ContainerType
    PROVE  /\ Len(SetContainer(p, i, c).containers) = Len(p.containers)
           /\ Len(AllContainers(SetContainer(p, i, c))) = Len(AllContainers(p))
           /\ \A j \in 1..Len(AllContainers(p)) :
                 AllContainers(SetContainer(p, i, c))[j] =
                    IF j = i THEN c ELSE AllContainers(p)[j]
<1> DEFINE s == p.containers
           t == p.initContainers
<1>1. s \in Seq(ContainerType) /\ t \in Seq(ContainerType)
  BY DEF PodType
<1>2. Len(AllContainers(p)) = Len(s) + Len(t)
  BY <1>1 DEF AllContainers
<1>3. CASE i <= Len(s)
  <2> DEFINE s2 == [s EXCEPT ![i] = c]
  <2>1. SetContainer(p, i, c).containers = s2
        /\ SetContainer(p, i, c).initContainers = t
    BY <1>3 DEF SetContainer, PodType
  <2>2. s2 \in Seq(ContainerType) /\ Len(s2) = Len(s)
    BY <1>1, <1>3
  <2>3. AllContainers(SetContainer(p, i, c)) = s2 \o t
    BY <2>1 DEF AllContainers
  <2>4. Len(s2 \o t) = Len(s) + Len(t)
    BY <1>1, <2>2
  <2>5. ASSUME NEW j \in 1..Len(AllContainers(p))
        PROVE  (s2 \o t)[j] = IF j = i THEN c ELSE (s \o t)[j]
    <3>1. CASE j <= Len(s)
      BY <1>1, <1>2, <1>3, <2>2, <3>1
    <3>2. CASE ~(j <= Len(s))
      BY <1>1, <1>2, <1>3, <2>2, <3>2
    <3> QED
      BY <3>1, <3>2
  <2>6. Len(SetContainer(p, i, c).containers) = Len(s)
    BY <2>1, <2>2
  <2> QED
    BY <1>2, <2>3, <2>4, <2>5, <2>6 DEF AllContainers
<1>4. CASE ~(i <= Len(s))
  <2> DEFINE n == i - Len(s)
             t2 == [t EXCEPT ![n] = c]
  <2>0. n \in 1..Len(t)
    <3>1. Len(s) \in Nat /\ Len(t) \in Nat
      BY <1>1, LenProperties
    <3> QED
      BY <1>2, <1>4, <3>1, IndexShift
  <2>1. SetContainer(p, i, c).containers = s
        /\ SetContainer(p, i, c).initContainers = t2
    BY <1>4 DEF SetContainer, PodType
  <2>2. t2 \in Seq(ContainerType) /\ Len(t2) = Len(t)
    BY <1>1, <2>0
  <2>3. AllContainers(SetContainer(p, i, c)) = s \o t2
    BY <2>1 DEF AllContainers
  <2>4. Len(s \o t2) = Len(s) + Len(t)
    BY <1>1, <2>2
  <2>5. ASSUME NEW j \in 1..Len(AllContainers(p))
        PROVE  (s \o t2)[j] = IF j = i THEN c ELSE (s \o t)[j]
    <3>1. CASE j <= Len(s)
      BY <1>1, <1>2, <1>4, <2>2, <3>1
    <3>2. CASE ~(j <= Len(s))
      BY <1>1, <1>2, <1>4, <2>0, <2>2, <3>2
    <3> QED
      BY <3>1, <3>2
  <2>6. Len(SetContainer(p, i, c).containers) = Len(s)
    BY <2>1
  <2> QED
    BY <1>2, <2>3, <2>4, <2>5, <2>6 DEF AllContainers
<1> QED
  BY <1>3, <1>4

(* Stripping the scheduling constraints leaves the containers alone.       *)
LEMMA StripKeepsContainers ==
    ASSUME NEW p \in PodType, NEW a
    PROVE  AllContainers([p EXCEPT !.topology = FALSE, !.affinity = a]) = AllContainers(p)
  BY DEF PodType, AllContainers

(***************************************************************************)
(* For a DaemonSet, one pass of the loop writes limits only: the CPU      *)
(* decision's DaemonSet branch deletes the CPU limit, the memory          *)
(* decision's sets the memory limit, and neither touches a request.       *)
(***************************************************************************)
LEMMA DaemonSetPassKeepsRequests ==
    ASSUME NEW c \in ContainerType, NEW ws \in WorkloadStatType \cup {Null}
    PROVE  /\ AdjustedContainer(c, "DaemonSet", ws).c.reqCpu = c.reqCpu
           /\ AdjustedContainer(c, "DaemonSet", ws).c.reqMem = c.reqMem
<1>1. CASE ws = Null
  BY <1>1 DEF AdjustedContainer, ContainerType
<1>2. CASE ws # Null
  <2> DEFINE cs == FindContainerStat(ws, c.name)
  <2>1. cs \in ContainerStatType \cup {Null}
    BY <1>2, FindContainerStatType
  <2>2. CASE cs = Null \/ cs.cpu = Null \/ cs.mem = Null
    BY <1>2, <2>2 DEF AdjustedContainer
  <2>3. CASE ~(cs = Null \/ cs.cpu = Null \/ cs.mem = Null)
    <3> DEFINE cpu == CpuDecision(c, "DaemonSet", cs)
               mem == MemoryDecision(cpu.c, "DaemonSet", cs)
    <3>1. cs \in ContainerStatType /\ cs.cpu # Null /\ cs.mem # Null
      BY <2>1, <2>3
    <3>2. cpu.c \in ContainerType /\ cpu.c.reqCpu = c.reqCpu /\ cpu.c.reqMem = c.reqMem
      <4>1. cpu.c \in ContainerType
        BY <3>1, DecisionTypes
      <4>2. cpu.c.reqCpu = c.reqCpu /\ cpu.c.reqMem = c.reqMem
        BY DEF CpuDecision, ContainerType
      <4> QED
        BY <4>1, <4>2
    <3>3. mem.c.reqCpu = cpu.c.reqCpu /\ mem.c.reqMem = cpu.c.reqMem
      BY <3>2 DEF MemoryDecision, ContainerType
    <3>4. AdjustedContainer(c, "DaemonSet", ws).c = mem.c
      BY <1>2, <2>3 DEF AdjustedContainer
    <3> QED
      BY <3>2, <3>3, <3>4
  <2> QED
    BY <2>2, <2>3
<1> QED
  BY <1>1, <1>2

(***************************************************************************)
(* ShapeInv holds initially and is preserved; its type part is TypeInv.   *)
(***************************************************************************)
LEMMA ShapeInvInit == Init => ShapeInv
  BY TypeInvInit DEF Init, ShapeInv

LEMMA ShapeInvStep == ShapeInv /\ [Next]_vars => ShapeInv'
<1> SUFFICES ASSUME ShapeInv, [Next]_vars PROVE ShapeInv'
  OBVIOUS
<1>0. TypeInv'
  BY TypeInvStep DEF ShapeInv
<1> USE <1>0 DEF ShapeInv
<1>1. CASE Receive
  BY <1>1 DEF Receive
<1>2. CASE Screen
  <2>1. pod = req.object
    BY <1>2 DEF Screen, TypeInv
  <2> QED
    BY <1>2, <2>1 DEF Screen, Exit, ReturnUnchanged
<1>3. CASE Resolve
  <2>1. pod \in PodType /\ pod = req.object
    BY <1>3 DEF Resolve, TypeInv
  <2> QED
    BY <1>3, <2>1 DEF Resolve, ReturnUnchanged
<1>4. CASE FetchStats
  BY <1>4 DEF FetchStats, Exit
<1>5. CASE CheckHpa
  BY <1>5 DEF CheckHpa, ReturnUnchanged
<1>6. CASE StripScheduling
  BY <1>6 DEF StripScheduling
<1>7. CASE AdjustContainer
  BY <1>7 DEF AdjustContainer
<1>8. CASE FinishContainers
  BY <1>8 DEF FinishContainers
<1>9. CASE Respond
  BY <1>9 DEF Respond
<1>10. CASE UNCHANGED vars
  BY <1>10 DEF vars
<1> QED
  BY <1>1, <1>2, <1>3, <1>4, <1>5, <1>6, <1>7, <1>8, <1>9, <1>10 DEF Next

-----------------------------------------------------------------------------
(* Every pod keeps its own requests.                                       *)
LEMMA RequestsKeptRefl ==
    ASSUME NEW q
    PROVE  RequestsKept(q, q)
  BY DEF RequestsKept

LEMMA DsInvInit == Init => DsInv
  BY ShapeInvInit DEF Init, DsInv, IsDaemonSet

LEMMA DsInvStep == DsInv /\ [Next]_vars => DsInv'
<1> SUFFICES ASSUME DsInv, [Next]_vars PROVE DsInv'
  OBVIOUS
<1>0. ShapeInv'
  BY ShapeInvStep DEF DsInv
<1> USE <1>0 DEF DsInv
<1>1. CASE Receive
  BY <1>1 DEF Receive, IsDaemonSet
<1>2. CASE Screen
  <2>1. workload = Null
    BY <1>2 DEF Screen, ShapeInv
  <2> QED
    BY <1>2, <2>1 DEF Screen, Exit, ReturnUnchanged, IsDaemonSet
<1>3. CASE Resolve
  <2>1. workload = Null
    BY <1>3 DEF Resolve, ShapeInv
  <2> QED
    BY <1>3, <2>1 DEF Resolve, ReturnUnchanged, IsDaemonSet
<1>4. CASE FetchStats
  <2>1. RequestsKept(req.object, req.object)
    BY RequestsKeptRefl
  <2> QED
    BY <1>4, <2>1 DEF FetchStats, Exit, IsDaemonSet
<1>5. CASE CheckHpa
  <2>1. pod = req.object
    BY <1>5 DEF CheckHpa, ShapeInv
  <2>2. RequestsKept(pod, req.object)
    BY <2>1, RequestsKeptRefl
  <2> QED
    BY <1>5, <2>2 DEF CheckHpa, ReturnUnchanged, IsDaemonSet
<1>6. CASE StripScheduling
  <2>1. pod = req.object /\ pod \in PodType
    BY <1>6 DEF StripScheduling, ShapeInv, TypeInv
  <2>2. AllContainers(pod') = AllContainers(pod)
    BY <1>6, <2>1, StripKeepsContainers DEF StripScheduling
  <2>3. RequestsKept(pod', req.object)
    BY <2>1, <2>2 DEF RequestsKept
  <2> QED
    BY <1>6, <2>3 DEF StripScheduling, IsDaemonSet
<1>7. CASE AdjustContainer
  <2>1. CASE IsDaemonSet
    <3> DEFINE c == AllContainers(pod)[k]
               step == AdjustedContainer(c, workload.kind, wstat)
               q == AllContainers(req.object)
    <3>1. pod \in PodType /\ k \in 1..Len(AllContainers(pod))
      BY <1>7 DEF AdjustContainer, ShapeInv, TypeInv, TypeOK
    <3>2. c \in ContainerType /\ wstat \in WorkloadStatType \cup {Null}
      BY <3>1, ContainerAccessTypes, SeqElemType DEF ShapeInv, TypeInv, TypeOK
    <3>3. step.c \in ContainerType
      BY <3>2, AdjustedContainerType
    <3>4. step.c.reqCpu = c.reqCpu /\ step.c.reqMem = c.reqMem
      BY <2>1, <3>2, DaemonSetPassKeepsRequests DEF IsDaemonSet
    <3>5. pod' = SetContainer(pod, k, step.c)
      BY <1>7 DEF AdjustContainer
    <3>6. /\ Len(AllContainers(pod')) = Len(AllContainers(pod))
          /\ \A j \in 1..Len(AllContainers(pod)) :
                AllContainers(pod')[j] = IF j = k THEN step.c ELSE AllContainers(pod)[j]
      BY <3>1, <3>3, <3>5, SetContainerAccess
    <3>7. RequestsKept(pod, req.object)
      BY <1>7, <2>1 DEF AdjustContainer
    <3>8. RequestsKept(pod', req.object)
      BY <3>4, <3>6, <3>7 DEF RequestsKept
    <3> QED
      BY <1>7, <2>1, <3>8 DEF AdjustContainer, IsDaemonSet
  <2>2. CASE ~IsDaemonSet
    BY <1>7, <2>2 DEF AdjustContainer, IsDaemonSet
  <2> QED
    BY <2>1, <2>2
<1>8. CASE FinishContainers
  BY <1>8 DEF FinishContainers, IsDaemonSet
<1>9. CASE Respond
  <2>1. RequestsKept(req.object, req.object)
    BY RequestsKeptRefl
  <2> QED
    BY <1>9, <2>1 DEF Respond, IsDaemonSet
<1>10. CASE UNCHANGED vars
  BY <1>10 DEF vars, IsDaemonSet
<1> QED
  BY <1>1, <1>2, <1>3, <1>4, <1>5, <1>6, <1>7, <1>8, <1>9, <1>10 DEF Next

(***************************************************************************)
(* The DaemonSet branches of the CPU and memory decisions: whenever a     *)
(* request for a DaemonSet's pod has been answered, every container of   *)
(* the admitted pod has the CPU and memory requests it came in with, for *)
(* every set of requests and snapshots.                                   *)
(***************************************************************************)
THEOREM DaemonSetRequestsSafe == Spec => []DaemonSetRequestsKept
<1>1. DsInv => DaemonSetRequestsKept
  BY DEF DsInv, Done, IsDaemonSet, RequestsKept, DaemonSetRequestsKept
<1> QED
  BY DsInvInit, DsInvStep, <1>1, PTL DEF Spec

-----------------------------------------------------------------------------
(* Without a workload stat, a pass of the loop removes the CPU limit.      *)
LEMMA UnknownPass ==
    ASSUME NEW c, NEW kind
    PROVE  AdjustedContainer(c, kind, Null) = [c |-> [c EXCEPT !.limCpu = NoQty], changed |-> TRUE]
  BY DEF AdjustedContainer

LEMMA UInvInit == Init => UInv
  BY ShapeInvInit DEF Init, UInv, UnknownWorkload

LEMMA UInvStep == UInv /\ [Next]_vars => UInv'
<1> SUFFICES ASSUME UInv, [Next]_vars PROVE UInv'
  OBVIOUS
<1>0. ShapeInv'
  BY ShapeInvStep DEF UInv
<1> USE <1>0 DEF UInv
<1>1. CASE Receive
  BY <1>1 DEF Receive, UnknownWorkload
<1>2. CASE Screen
  <2>1. workload = Null
    BY <1>2 DEF Screen, ShapeInv
  <2> QED
    BY <1>2, <2>1 DEF Screen, Exit, ReturnUnchanged, UnknownWorkload
<1>3. CASE Resolve
  <2>1. workload = Null
    BY <1>3 DEF Resolve, ShapeInv
  <2> QED
    BY <1>3, <2>1 DEF Resolve, ReturnUnchanged, UnknownWorkload
<1>4. CASE FetchStats
  BY <1>4 DEF FetchStats, Exit
<1>5. CASE CheckHpa
  BY <1>5 DEF CheckHpa, ReturnUnchanged, UnknownWorkload
<1>6. CASE StripScheduling
  <2>1. CASE UnknownWorkload
    <3>1. pod = req.object /\ pod \in PodType
      BY <1>6 DEF StripScheduling, ShapeInv, TypeInv
    <3>2. AllContainers(pod') = AllContainers(req.object)
      BY <1>6, <3>1, StripKeepsContainers DEF StripScheduling
    <3>3. Len(AllContainers(req.object)) \in Nat
      BY <3>1, ContainerAccessTypes
    <3>4. LimitsDropped(pod', req.object, 1)
      BY <3>2 DEF LimitsDropped
    <3> QED
      BY <1>6, <2>1, <3>3, <3>4 DEF StripScheduling, UnknownWorkload
  <2>2. CASE ~UnknownWorkload
    BY <1>6, <2>2 DEF StripScheduling, UnknownWorkload
  <2> QED
    BY <2>1, <2>2
<1>7. CASE AdjustContainer
  <2>1. CASE UnknownWorkload
    <3> DEFINE q == AllContainers(req.object)
               c == AllContainers(pod)[k]
               d == [c EXCEPT !.limCpu = NoQty]
    <3>1. pod \in PodType /\ k \in 1..Len(AllContainers(pod)) /\ req.object \in PodType
      BY <1>7, <2>1 DEF AdjustContainer, ShapeInv, TypeInv, TypeOK, UnknownWorkload
    <3>2. LimitsDropped(pod, req.object, k) /\ k \in 1..(Len(q) + 1)
      BY <1>7, <2>1 DEF AdjustContainer
    <3>3. c \in ContainerType /\ d \in ContainerType
      <4>1. c \in ContainerType
        BY <3>1, ContainerAccessTypes, SeqElemType
      <4>2. NoQty \in QtyOrAbsent
        BY DEF QtyOrAbsent
      <4> QED
        BY <4>1, <4>2 DEF ContainerType
    <3>4. c = q[k]
      <4>1. k \in 1..Len(q) /\ ~(k < k)
        BY <3>1, <3>2 DEF LimitsDropped
      <4>2. \A j \in 1..Len(q) : AllContainers(pod)[j] =
                IF j < k THEN [q[j] EXCEPT !.limCpu = NoQty] ELSE q[j]
        BY <3>2 DEF LimitsDropped
      <4> QED
        BY <4>1, <4>2
    <3>5. pod' = SetContainer(pod, k, d) /\ changed' /\ k' = k + 1
      <4>1. wstat = Null
        BY <2>1 DEF UnknownWorkload
      <4>2. AdjustedContainer(c, workload.kind, wstat) = [c |-> d, changed |-> TRUE]
        BY <4>1, UnknownPass
      <4>3. /\ pod' = SetContainer(pod, k, AdjustedContainer(c, workload.kind, wstat).c)
            /\ changed' = (changed \/ AdjustedContainer(c, workload.kind, wstat).changed)
            /\ k' = k + 1
        BY <1>7 DEF AdjustContainer
      <4>4. AdjustedContainer(c, workload.kind, wstat).c = d
            /\ AdjustedContainer(c, workload.kind, wstat).changed = TRUE
        BY <4>2
      <4> QED
        BY <4>3, <4>4, Zenon
    <3>6. /\ Len(AllContainers(pod')) = Len(AllContainers(pod))
          /\ \A j \in 1..Len(AllContainers(pod)) :
                AllContainers(pod')[j] = IF j = k THEN d ELSE AllContainers(pod)[j]
      BY <3>1, <3>3, <3>5, SetContainerAccess
    <3>7. LimitsDropped(pod', req.object, k + 1)
      <4>1. Len(AllContainers(pod')) = Len(q)
        BY <3>2, <3>6 DEF LimitsDropped
      <4>2. ASSUME NEW j \in 1..Len(q)
            PROVE  AllContainers(pod')[j] = IF j < k + 1 THEN [q[j] EXCEPT !.limCpu = NoQty]
                                                         ELSE q[j]
        <5>1. CASE j = k
          BY <3>2, <3>4, <3>6, <5>1 DEF LimitsDropped
        <5>2. CASE j # k
          <6>1. AllContainers(pod')[j] = AllContainers(pod)[j]
            BY <3>2, <3>6, <5>2 DEF LimitsDropped
          <6>2. AllContainers(pod)[j] = IF j < k THEN [q[j] EXCEPT !.limCpu = NoQty] ELSE q[j]
            BY <3>2 DEF LimitsDropped
          <6>3. (j < k + 1) = (j < k)
            BY <3>1, <5>2
          <6> QED
            BY <6>1, <6>2, <6>3
        <5> QED
          BY <5>1, <5>2
      <4> QED
        BY <4>1, <4>2 DEF LimitsDropped
    <3>8. k + 1 \in 1..(Len(q) + 1)
      BY <3>1, <3>2 DEF LimitsDropped
    <3> QED
      BY <1>7, <2>1, <3>5, <3>7, <3>8 DEF AdjustContainer, UnknownWorkload
  <2>2. CASE ~UnknownWorkload
    BY <1>7, <2>2 DEF AdjustContainer, UnknownWorkload
  <2> QED
    BY <2>1, <2>2
<1>8. CASE FinishContainers
  <2>1. CASE UnknownWorkload
    <3>1. Len(AllContainers(pod)) = Len(AllContainers(req.object))
          /\ k \in 1..(Len(AllContainers(req.object)) + 1)
      BY <1>8, <2>1 DEF FinishContainers, LimitsDropped
    <3>2. k = Len(AllContainers(req.object)) + 1
      BY <1>8, <3>1 DEF FinishContainers
    <3> QED
      BY <1>8, <2>1, <3>2 DEF FinishContainers, UnknownWorkload
  <2>2. CASE ~UnknownWorkload
    BY <1>8, <2>2 DEF FinishContainers, UnknownWorkload
  <2> QED
    BY <2>1, <2>2
<1>9. CASE Respond
  <2>1. CASE UnknownWorkload
    <3> DEFINE n == Len(AllContainers(req.object)) + 1
    <3>1. k = n /\ LimitsDropped(pod, req.object, k) /\ (k > 1 => changed)
      BY <1>9, <2>1 DEF Respond
    <3>2. CASE changed
      BY <1>9, <2>1, <3>1, <3>2 DEF Respond, UnknownWorkload
    <3>3. CASE ~changed
      <4>1. Len(AllContainers(req.object)) = 0
        <5>1. req.object \in PodType
          BY <2>1 DEF ShapeInv, UnknownWorkload
        <5>2. Len(AllContainers(req.object)) \in Nat
          BY <5>1, ContainerAccessTypes
        <5> QED
          BY <3>1, <3>3, <5>2
      <4>2. LimitsDropped(req.object, req.object, n)
        BY <4>1 DEF LimitsDropped
      <4> QED
        BY <1>9, <2>1, <3>3, <4>2 DEF Respond, UnknownWorkload
    <3> QED
      BY <3>2, <3>3
  <2>2. CASE ~UnknownWorkload
    BY <1>9, <2>2 DEF Respond, UnknownWorkload
  <2> QED
    BY <2>1, <2>2
<1>10. CASE UNCHANGED vars
  BY <1>10 DEF vars, UnknownWorkload
<1> QED
  BY <1>1, <1>2, <1>3, <1>4, <1>5, <1>6, <1>7, <1>8, <1>9, <1>10 DEF Next

(***************************************************************************)
(* The branch of adjustResources for a workload the statistics do not     *)
(* know: whenever such a request has been answered, each container of    *)
(* the admitted pod is the one that came in with its CPU limit removed,  *)
(* and nothing else of it changed, for every set of requests and          *)
(* snapshots.                                                              *)
(***************************************************************************)
THEOREM UnknownWorkloadSafe == Spec => []UnknownWorkloadOnlyLosesCpuLimits
<1>1. UInv => UnknownWorkloadOnlyLosesCpuLimits
  <2> SUFFICES ASSUME UInv, Done, outcome # "exited", workload # Null, wstat = Null,
                      NEW i \in 1..Len(AllContainers(req.object))
               PROVE  AllContainers(admitted)[i] = [AllContainers(req.object)[i] EXCEPT !.limCpu = NoQty]
    BY DEF UnknownWorkloadOnlyLosesCpuLimits
  <2>1. LimitsDropped(admitted, req.object, Len(AllContainers(req.object)) + 1)
    BY DEF UInv, Done, UnknownWorkload
  <2>2. i < Len(AllContainers(req.object)) + 1
    OBVIOUS
  <2> QED
    BY <2>1, <2>2 DEF LimitsDropped
<1> QED
  BY UInvInit, UInvStep, <1>1, PTL DEF Spec

-----------------------------------------------------------------------------
(***************************************************************************)
(* The memory rewrite of a non-DaemonSet container: the recommended limit *)
(* is at least twice the recommended request, so after both are rounded   *)
(* to whole megabytes by memoryBytesToMB, Kubernetes reads a limit no     *)
(* smaller than the request.                                               *)
(***************************************************************************)
LEMMA RoundMonotone ==
    ASSUME NEW a \in Nat, NEW b \in Nat, a <= b
    PROVE  Round(a, 1000 * 1000) <= Round(b, 1000 * 1000)
  BY DEF Round

LEMMA MemoryRewriteValid ==
    ASSUME NEW cs \in ContainerStatType, cs.cpu # Null, cs.mem # Null
    PROVE  KubeBytes(MemoryBytesToMB(RecommendedMemoryBytes(cs)))
             <= KubeBytes(MemoryBytesToMB(RecommendedMemoryLimitBytes(cs)))
<1> DEFINE rm == RecommendedMemory(cs)
           rl == Larger(RecommendedMemoryLimit(cs), 16 * StatScale)
           f == 1000000 \div StatScale
<1>1. rm \in Nat
  BY DEF ContainerStatType, Stat, RecommendedMemory, Truthy
<1>2. RecommendedMemoryLimit(cs) \in Nat /\ rm <= RecommendedMemoryLimit(cs)
  BY <1>1 DEF ContainerStatType, Stat, RecommendedMemoryLimit, Truthy, Larger
<1>3. rl \in Nat /\ rm <= rl /\ f \in Nat
  <2>1. StatScale \in Nat /\ StatScale > 0
    BY StatScaleAssumption
  <2>2. f \in Nat
    BY <2>1
  <2>3. 16 * StatScale \in Nat
    BY <2>1
  <2>4. RecommendedMemoryLimit(cs) <= rl /\ rl \in Nat
    BY <1>2, <2>3 DEF Larger
  <2> QED
    BY <1>1, <1>2, <2>2, <2>4
<1>4. rm * f <= rl * f /\ rm * f \in Nat /\ rl * f \in Nat
  BY <1>1, <1>3
<1>5. RecommendedMemoryBytes(cs) = rm * f /\ RecommendedMemoryLimitBytes(cs) = rl * f
  BY DEF RecommendedMemoryBytes, RecommendedMemoryLimitBytes, MBToBytes
<1>6. Round(rm * f, 1000 * 1000) <= Round(rl * f, 1000 * 1000)
  BY <1>4, RoundMonotone
<1>7. \A x \in Nat : KubeBytes(MemoryBytesToMB(x)) = Round(x, 1000 * 1000) * (1000 * 1000)
  BY DEF KubeBytes, MemoryBytesToMB, KubeFactor
<1>8. Round(rm * f, 1000 * 1000) \in Nat /\ Round(rl * f, 1000 * 1000) \in Nat
  BY <1>4 DEF Round
<1> QED
  BY <1>4, <1>5, <1>6, <1>7, <1>8


(***************************************************************************)
(* One pass of the container loop keeps a valid container of a pod that   *)
(* is not a DaemonSet's valid: the CPU decision either leaves the CPU     *)
(* fields alone or deletes the limit, the memory decision either leaves   *)
(* the memory fields alone or writes the rounded recommendation and       *)
(* limit, and neither touches the other's fields.                         *)
(***************************************************************************)
LEMMA AdjustKeepsValid ==
    ASSUME NEW c \in ContainerType, NEW kind, kind # "DaemonSet",
           NEW ws \in WorkloadStatType \cup {Null}, ContainerValid(c)
    PROVE  ContainerValid(AdjustedContainer(c, kind, ws).c)
<1>1. CASE ws = Null
  <2>1. AdjustedContainer(c, kind, ws).c = [c EXCEPT !.limCpu = NoQty]
    BY <1>1 DEF AdjustedContainer
  <2> QED
    BY <2>1 DEF ContainerValid, ContainerType
<1>2. CASE ws # Null
  <2> DEFINE cs == FindContainerStat(ws, c.name)
  <2>1. cs \in ContainerStatType \cup {Null}
    BY <1>2, FindContainerStatType
  <2>2. CASE cs = Null \/ cs.cpu = Null \/ cs.mem = Null
    BY <1>2, <2>2 DEF AdjustedContainer
  <2>3. CASE ~(cs = Null \/ cs.cpu = Null \/ cs.mem = Null)
    <3> DEFINE e == CpuDecision(c, kind, cs).c
               m == MemoryDecision(e, kind, cs).c
    <3>1. cs \in ContainerStatType /\ cs.cpu # Null /\ cs.mem # Null
      BY <2>1, <2>3
    <3>2. AdjustedContainer(c, kind, ws).c = m
      BY <1>2, <2>3 DEF AdjustedContainer
    <3>3. /\ e.reqMem = c.reqMem /\ e.limMem = c.limMem
          /\ \/ e.limCpu = NoQty
             \/ e.reqCpu = c.reqCpu /\ e.limCpu = c.limCpu
      BY DEF CpuDecision, ContainerType
    <3>4. e \in ContainerType
      BY <3>1, DecisionTypes
    <3>5. m.reqCpu = e.reqCpu /\ m.limCpu = e.limCpu
      BY <3>4 DEF MemoryDecision, ContainerType
    <3>6. \/ m.reqMem = e.reqMem /\ m.limMem = e.limMem
          \/ /\ m.reqMem = MemoryBytesToMB(RecommendedMemoryBytes(cs))
             /\ m.limMem = MemoryBytesToMB(RecommendedMemoryLimitBytes(cs))
      BY <3>4 DEF MemoryDecision, ContainerType
    <3>7. KubeBytes(MemoryBytesToMB(RecommendedMemoryBytes(cs)))
            <= KubeBytes(MemoryBytesToMB(RecommendedMemoryLimitBytes(cs)))
      BY <3>1, MemoryRewriteValid
    <3> QED
      BY <3>2, <3>3, <3>5, <3>6, <3>7 DEF ContainerValid
  <2> QED
    BY <2>2, <2>3
<1> QED
  BY <1>1, <1>2


(* A pod keeps its own valid containers valid.                              *)
LEMMA KeepsValidRefl ==
    ASSUME NEW q
    PROVE  KeepsValid(q, q)
  BY DEF KeepsValid

LEMMA VInvInit == Init => VInv
  BY ShapeInvInit DEF Init, VInv, NonDaemonSet, AdmittedPodValidOutsideDaemonSets, Done

LEMMA VInvStep == VInv /\ [Next]_vars => VInv'
<1> SUFFICES ASSUME VInv, [Next]_vars PROVE VInv'
  OBVIOUS
<1>0. ShapeInv'
  BY ShapeInvStep DEF VInv
<1> USE <1>0 DEF VInv
<1>1. CASE Receive
  BY <1>1 DEF Receive, NonDaemonSet, AdmittedPodValidOutsideDaemonSets, Done
<1>2. CASE Screen
  <2>1. workload = Null
    BY <1>2 DEF Screen, ShapeInv
  <2> QED
    BY <1>2, <2>1 DEF Screen, Exit, ReturnUnchanged, NonDaemonSet,
                      AdmittedPodValidOutsideDaemonSets, Done
<1>3. CASE Resolve
  <2>1. pc = "resolve" /\ workload = Null /\ ~changed
    BY <1>3 DEF Resolve, ShapeInv
  <2>2. CASE GetWorkloadInfoFromPod(pod) = Null /\ ReturnUnchanged
    BY <2>1, <2>2 DEF ReturnUnchanged, NonDaemonSet, AdmittedPodValidOutsideDaemonSets, Done
  <2>3. CASE /\ GetWorkloadInfoFromPod(pod) # Null
             /\ workload' = GetWorkloadInfoFromPod(pod)
             /\ pc' = "fetch"
             /\ UNCHANGED <<req, pod, wstat, changed, k, outcome, admitted>>
    BY <2>1, <2>3 DEF NonDaemonSet, AdmittedPodValidOutsideDaemonSets, Done
  <2> QED
    BY <1>3, <2>2, <2>3 DEF Resolve
<1>4. CASE FetchStats
  BY <1>4 DEF FetchStats, Exit, NonDaemonSet, AdmittedPodValidOutsideDaemonSets, Done
<1>5. CASE CheckHpa
  <2>1. pod = req.object
    BY <1>5 DEF CheckHpa, ShapeInv
  <2> QED
    BY <1>5, <2>1, KeepsValidRefl DEF CheckHpa, ReturnUnchanged, NonDaemonSet,
                                      AdmittedPodValidOutsideDaemonSets, Done
<1>6. CASE StripScheduling
  <2>1. pod = req.object /\ pod \in PodType
    BY <1>6 DEF StripScheduling, ShapeInv, TypeInv
  <2>2. AllContainers(pod') = AllContainers(req.object)
    BY <1>6, <2>1, StripKeepsContainers DEF StripScheduling
  <2>3. KeepsValid(pod', req.object)
    BY <2>2 DEF KeepsValid
  <2> QED
    BY <1>6, <2>3 DEF StripScheduling, NonDaemonSet, AdmittedPodValidOutsideDaemonSets, Done
<1>7. CASE AdjustContainer
  <2>1. workload # Null
    BY <1>7 DEF AdjustContainer
  <2>2. CASE NonDaemonSet
    <3> DEFINE q == AllContainers(req.object)
               c == AllContainers(pod)[k]
               d == AdjustedContainer(c, workload.kind, wstat).c
    <3>1. pod \in PodType /\ k \in 1..Len(AllContainers(pod))
          /\ wstat \in WorkloadStatType \cup {Null}
      BY <1>7 DEF AdjustContainer, ShapeInv, TypeInv, TypeOK
    <3>2. KeepsValid(pod, req.object)
      BY <1>7, <2>2 DEF AdjustContainer
    <3>3. c \in ContainerType
      BY <3>1, ContainerAccessTypes, SeqElemType
    <3>4. d \in ContainerType
      BY <3>1, <3>3, AdjustedContainerType
    <3>5. ContainerValid(c) => ContainerValid(d)
      BY <2>2, <3>1, <3>3, AdjustKeepsValid DEF NonDaemonSet
    <3>6. pod' = SetContainer(pod, k, d)
      BY <1>7 DEF AdjustContainer
    <3>7. /\ Len(AllContainers(pod')) = Len(AllContainers(pod))
          /\ \A j \in 1..Len(AllContainers(pod)) :
                AllContainers(pod')[j] = IF j = k THEN d ELSE AllContainers(pod)[j]
      BY <3>1, <3>4, <3>6, SetContainerAccess
    <3>8. KeepsValid(pod', req.object)
      <4>1. Len(AllContainers(pod')) = Len(q)
        BY <3>2, <3>7 DEF KeepsValid
      <4>2. ASSUME NEW j \in 1..Len(q), ContainerValid(q[j])
            PROVE  ContainerValid(AllContainers(pod')[j])
        <5>1. ContainerValid(AllContainers(pod)[j])
          BY <3>2, <4>2 DEF KeepsValid
        <5>2. CASE j = k
          BY <3>2, <3>5, <3>7, <5>1, <5>2 DEF KeepsValid
        <5>3. CASE j # k
          BY <3>2, <3>7, <5>1, <5>3 DEF KeepsValid
        <5> QED
          BY <5>2, <5>3
      <4> QED
        BY <4>1, <4>2 DEF KeepsValid
    <3> QED
      BY <1>7, <2>1, <3>8 DEF AdjustContainer, NonDaemonSet, AdmittedPodValidOutsideDaemonSets, Done
  <2>3. CASE ~NonDaemonSet
    BY <1>7, <2>1, <2>3 DEF AdjustContainer, NonDaemonSet, AdmittedPodValidOutsideDaemonSets, Done
  <2> QED
    BY <2>2, <2>3
<1>8. CASE FinishContainers
  BY <1>8 DEF FinishContainers, NonDaemonSet, AdmittedPodValidOutsideDaemonSets, Done
<1>9. CASE Respond
  <2>1. CASE ~changed
    BY <1>9, <2>1 DEF Respond, NonDaemonSet, AdmittedPodValidOutsideDaemonSets, Done
  <2>2. CASE changed /\ workload.kind = "DaemonSet"
    BY <1>9, <2>2 DEF Respond, NonDaemonSet, AdmittedPodValidOutsideDaemonSets, Done
  <2>3. CASE changed /\ workload.kind # "DaemonSet"
    <3>1. workload # Null /\ NonDaemonSet
      BY <2>3 DEF NonDaemonSet
    <3>2. KeepsValid(pod, req.object) /\ req.object \in PodType
      BY <1>9, <3>1 DEF Respond, ShapeInv
    <3>3. admitted' = pod
      BY <1>9, <2>3 DEF Respond
    <3>4. PodValid(req.object) => PodValid(pod)
      BY <3>2, InputsAssumption DEF PodValid, KeepsValid
    <3> QED
      BY <1>9, <3>3, <3>4 DEF Respond, NonDaemonSet, AdmittedPodValidOutsideDaemonSets, Done
  <2> QED
    BY <2>1, <2>2, <2>3
<1>10. CASE UNCHANGED vars
  BY <1>10 DEF vars, NonDaemonSet, AdmittedPodValidOutsideDaemonSets, Done
<1> QED
  BY <1>1, <1>2, <1>3, <1>4, <1>5, <1>6, <1>7, <1>8, <1>9, <1>10 DEF Next

(***************************************************************************)
(* The resource rewrite of adjustResources for every pod that is not a    *)
(* DaemonSet's: whenever a request has been answered for a pod whose      *)
(* containers all had their limits at least their requests, the admitted *)
(* pod has that property too, for every set of requests, every stats     *)
(* snapshot and every StatScale dividing 10^6.                             *)
(***************************************************************************)
THEOREM AdmittedValidSafe == Spec => []AdmittedPodValidOutsideDaemonSets
<1>1. VInv => AdmittedPodValidOutsideDaemonSets
  BY DEF VInv
<1> QED
  BY VInvInit, VInvStep, <1>1, PTL DEF Spec


-----------------------------------------------------------------------------
(***************************************************************************)
(* A pass of the loop that reports no change writes nothing: each of the  *)
(* CPU and memory decisions returns its container untouched when it does *)
(* not set changed, and the unknown-workload branch always sets it.       *)
(***************************************************************************)
LEMMA NoChangeNoWrite ==
    ASSUME NEW c, NEW kind, NEW ws, ~AdjustedContainer(c, kind, ws).changed
    PROVE  AdjustedContainer(c, kind, ws).c = c
<1>1. ws # Null
  BY DEF AdjustedContainer
<1> DEFINE cs == FindContainerStat(ws, c.name)
<1>2. CASE cs = Null \/ cs.cpu = Null \/ cs.mem = Null
  BY <1>1, <1>2 DEF AdjustedContainer
<1>3. CASE ~(cs = Null \/ cs.cpu = Null \/ cs.mem = Null)
  <2> DEFINE cpu == CpuDecision(c, kind, cs)
             mem == MemoryDecision(cpu.c, kind, cs)
  <2>1. AdjustedContainer(c, kind, ws) = [c |-> mem.c, changed |-> cpu.changed \/ mem.changed]
    BY <1>1, <1>3 DEF AdjustedContainer
  <2>2. ~cpu.changed /\ ~mem.changed
    <3>1. cpu.changed \in BOOLEAN /\ mem.changed \in BOOLEAN
      BY DEF CpuDecision, MemoryDecision
    <3>2. AdjustedContainer(c, kind, ws).changed = (cpu.changed \/ mem.changed)
      BY <2>1
    <3> QED
      BY <3>1, <3>2, Zenon
  <2>3. cpu.c = c
    BY <2>2 DEF CpuDecision
  <2>4. mem.c = cpu.c
    BY <2>2 DEF MemoryDecision
  <2> QED
    BY <2>1, <2>3, <2>4
<1> QED
  BY <1>2, <1>3

LEMMA LoopInvInit == Init => LoopInv
  BY ShapeInvInit DEF Init, LoopInv

LEMMA LoopInvStep == LoopInv /\ [Next]_vars => LoopInv'
<1> SUFFICES ASSUME LoopInv, [Next]_vars PROVE LoopInv'
  OBVIOUS
<1>0. ShapeInv'
  BY ShapeInvStep DEF LoopInv
<1> USE <1>0 DEF LoopInv
<1>1. CASE Receive
  BY <1>1 DEF Receive
<1>2. CASE Screen
  <2>1. workload = Null
    BY <1>2 DEF Screen, ShapeInv
  <2> QED
    BY <1>2, <2>1 DEF Screen, Exit, ReturnUnchanged
<1>3. CASE Resolve
  <2>1. workload = Null
    BY <1>3 DEF Resolve, ShapeInv
  <2> QED
    BY <1>3, <2>1 DEF Resolve, ReturnUnchanged
<1>4. CASE FetchStats
  BY <1>4 DEF FetchStats, Exit
<1>5. CASE CheckHpa
  BY <1>5 DEF CheckHpa, ReturnUnchanged, HpaGate
<1>6. CASE StripScheduling
  <2>1. pod = req.object /\ pod \in PodType
    BY <1>6 DEF StripScheduling, ShapeInv, TypeInv
  <2>2. AllContainers(pod') = AllContainers(req.object)
    BY <1>6, <2>1, StripKeepsContainers DEF StripScheduling
  <2>3. Len(AllContainers(req.object)) \in Nat
    BY <2>1, ContainerAccessTypes
  <2>5. pod'.containers = req.object.containers
    BY <1>6, <2>1 DEF StripScheduling, PodType
  <2>4. AdjustedBefore(pod, req.object, 1)'
    BY <1>6, <2>2, <2>3, <2>5 DEF StripScheduling, AdjustedBefore
  <2> QED
    BY <1>6, <2>3, <2>4 DEF StripScheduling, HpaGate
<1>7. CASE AdjustContainer
  <2>1. CASE workload # Null /\ ~HpaGate
    <3> DEFINE q == AllContainers(req.object)
               Adj(x) == AdjustedContainer(x, workload.kind, wstat)
               c == AllContainers(pod)[k]
    <3>1. pod \in PodType /\ k \in 1..Len(AllContainers(pod))
          /\ wstat \in WorkloadStatType \cup {Null}
      BY <1>7 DEF AdjustContainer, ShapeInv, TypeInv, TypeOK
    <3>2. /\ k \in 1..(Len(q) + 1)
          /\ AdjustedBefore(pod, req.object, k)
          /\ ~changed => \A i \in 1..Len(q) : i < k => ~Adj(q[i]).changed
      BY <1>7, <2>1 DEF AdjustContainer
    <3>3. c = q[k] /\ c \in ContainerType
      <4>1. k \in 1..Len(q) /\ ~(k < k)
        BY <3>1, <3>2 DEF AdjustedBefore
      <4>2. c = q[k]
        BY <3>2, <4>1 DEF AdjustedBefore
      <4> QED
        BY <3>1, <4>2, ContainerAccessTypes, SeqElemType
    <3>4. Adj(c).c \in ContainerType
      BY <3>1, <3>3, AdjustedContainerType
    <3>5. /\ pod' = SetContainer(pod, k, Adj(c).c)
          /\ changed' = (changed \/ Adj(c).changed)
          /\ k' = k + 1
          /\ UNCHANGED <<pc, req, workload, wstat>>
      BY <1>7 DEF AdjustContainer
    <3>6. /\ Len(pod'.containers) = Len(pod.containers)
          /\ Len(AllContainers(pod')) = Len(AllContainers(pod))
          /\ \A j \in 1..Len(AllContainers(pod)) :
                AllContainers(pod')[j] = IF j = k THEN Adj(c).c ELSE AllContainers(pod)[j]
      BY <3>1, <3>4, <3>5, SetContainerAccess
    <3>7. AdjustedBefore(pod', req.object, k + 1)
      <4>1. Len(AllContainers(pod')) = Len(q)
        BY <3>2, <3>6 DEF AdjustedBefore
      <4>0. Len(pod'.containers) = Len(req.object.containers)
        <5>1. Len(pod.containers) = Len(req.object.containers)
          BY <3>2 DEF AdjustedBefore
        <5>2. Len(pod'.containers) = Len(pod.containers)
          BY <3>6
        <5> QED
          BY <5>1, <5>2
      <4>2. ASSUME NEW j \in 1..Len(q)
            PROVE  AllContainers(pod')[j] = IF j < k + 1 THEN Adj(q[j]).c ELSE q[j]
        <5>1. CASE j = k
          BY <3>2, <3>3, <3>6, <5>1 DEF AdjustedBefore
        <5>2. CASE j # k
          <6>1. AllContainers(pod')[j] = AllContainers(pod)[j]
            BY <3>2, <3>6, <5>2 DEF AdjustedBefore
          <6>2. AllContainers(pod)[j] = IF j < k THEN Adj(q[j]).c ELSE q[j]
            BY <3>2 DEF AdjustedBefore
          <6>3. (j < k + 1) = (j < k)
            BY <3>1, <5>2
          <6> QED
            BY <6>1, <6>2, <6>3
        <5> QED
          BY <5>1, <5>2
      <4> QED
        BY <4>0, <4>1, <4>2 DEF AdjustedBefore
    <3>8. ~changed' => \A i \in 1..Len(q) : i < k + 1 => ~Adj(q[i]).changed
      <4> SUFFICES ASSUME ~changed', NEW i \in 1..Len(q), i < k + 1
                   PROVE  ~Adj(q[i]).changed
        OBVIOUS
      <4>1. ~changed /\ ~Adj(c).changed
        BY <3>5
      <4>2. CASE i = k
        BY <3>3, <4>1, <4>2
      <4>3. CASE i # k
        BY <3>1, <3>2, <4>1, <4>3
      <4> QED
        BY <4>2, <4>3
    <3>9. k + 1 \in 1..(Len(q) + 1)
      BY <3>1, <3>2 DEF AdjustedBefore
    <3> QED
      BY <2>1, <3>5, <3>7, <3>8, <3>9 DEF AdjustedBefore, HpaGate
  <2>2. CASE ~(workload # Null /\ ~HpaGate)
    BY <1>7, <2>2 DEF AdjustContainer, HpaGate
  <2> QED
    BY <2>1, <2>2
<1>8. CASE FinishContainers
  <2>1. CASE workload # Null /\ ~HpaGate
    <3>1. Len(AllContainers(pod)) = Len(AllContainers(req.object))
          /\ k \in 1..(Len(AllContainers(req.object)) + 1)
      BY <1>8, <2>1 DEF FinishContainers, AdjustedBefore
    <3>2. k = Len(AllContainers(req.object)) + 1
      BY <1>8, <3>1 DEF FinishContainers
    <3> QED
      BY <1>8, <2>1, <3>2 DEF FinishContainers, AdjustedBefore, HpaGate
  <2>2. CASE ~(workload # Null /\ ~HpaGate)
    BY <1>8, <2>2 DEF FinishContainers, HpaGate
  <2> QED
    BY <2>1, <2>2
<1>9. CASE Respond
  BY <1>9 DEF Respond
<1>10. CASE UNCHANGED vars
  BY <1>10 DEF vars, AdjustedBefore, HpaGate
<1> QED
  BY <1>1, <1>2, <1>3, <1>4, <1>5, <1>6, <1>7, <1>8, <1>9, <1>10 DEF Next


(***************************************************************************)
(* The write-back through the aliases of [...containers, ...initContainers] *)
(* in adjustResources and the mutate() of index.ts: every response to a   *)
(* request that reached the container loop admits the request's           *)
(* containers, init containers included, each in its place and passed    *)
(* exactly once through the decisions, for every input.                   *)
(***************************************************************************)
THEOREM ResponseAdjustsSafe == Spec => ResponseAdjustsEachContainerOnce
<1>1. ASSUME LoopInv, Respond, workload # Null, ~(wstat # Null /\ wstat.hpa)
      PROVE  EachContainerAdjusted(admitted', req.object)
  <2> DEFINE q == AllContainers(req.object)
             Adj(x) == AdjustedContainer(x, workload.kind, wstat)
  <2>1. /\ k = Len(q) + 1
        /\ AdjustedBefore(pod, req.object, k)
        /\ ~changed => \A i \in 1..Len(q) : i < k => ~Adj(q[i]).changed
    BY <1>1 DEF LoopInv, Respond, HpaGate
  <2>2. req.object \in PodType
    BY <1>1 DEF LoopInv, ShapeInv
  <2>3. Len(q) \in Nat
    BY <2>2, ContainerAccessTypes
  <2>4. CASE changed
    <3>1. admitted' = pod
      BY <1>1, <2>4 DEF Respond
    <3> QED
      BY <2>1, <2>3, <3>1 DEF AdjustedBefore, EachContainerAdjusted
  <2>5. CASE ~changed
    <3>1. admitted' = req.object
      BY <1>1, <2>5 DEF Respond
    <3>2. \A i \in 1..Len(q) : Adj(q[i]).c = q[i]
      BY <2>1, <2>3, <2>5, NoChangeNoWrite
    <3> QED
      BY <3>1, <3>2 DEF EachContainerAdjusted
  <2> QED
    BY <2>4, <2>5
<1>2. LoopInv /\ [Next]_vars
        => [Respond /\ workload # Null /\ ~(wstat # Null /\ wstat.hpa)
              => EachContainerAdjusted(admitted', req.object)]_vars
  BY <1>1
<1> QED
  BY LoopInvInit, LoopInvStep, <1>2, PTL DEF Spec, ResponseAdjustsEachContainerOnce


=============================================================================
