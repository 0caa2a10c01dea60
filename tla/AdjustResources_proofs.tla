------------------------ MODULE AdjustResources_proofs ------------------------
(***************************************************************************)
(* Proofs about the adjust-resources policy: the type invariant, from the  *)
(* lemmas that each helper of the model returns a value of the right      *)
(* shape.                                                                  *)
(***************************************************************************)
EXTENDS AdjustResources, WellFoundedInduction, SequenceTheorems, TLAPS

(***************************************************************************)
(* The linear scans: a non-empty set of indices has a first and a last    *)
(* element, from the well-foundedness of < on Nat.                         *)
(***************************************************************************)
LEMMA FirstOfLemma ==
    ASSUME NEW S \in SUBSET Nat, S # {}
    PROVE  /\ FirstOf(S) \in S
           /\ \A j \in S : FirstOf(S) <= j
<1>1. \E x \in S : \A y \in S : ~(<<y, x>> \in OpToRel(<, Nat))
  BY NatLessThanWellFounded, WFMin
<1>2. PICK x \in S : \A y \in S : ~(<<y, x>> \in OpToRel(<, Nat))
  BY <1>1
<1>3. \A y \in S : x <= y
  <2> TAKE y \in S
  <2>1. <<y, x>> \in Nat \X Nat
    OBVIOUS
  <2>2. ~(y < x)
    BY <1>2, <2>1 DEF OpToRel
  <2>3. QED
    BY <2>2
<1>4. QED
  BY <1>3 DEF FirstOf

LEMMA LastOfLemma ==
    ASSUME NEW n \in Nat, NEW S \in SUBSET (1..n), S # {}
    PROVE  /\ LastOf(S) \in S
           /\ \A j \in S : j <= LastOf(S)
<1> DEFINE T == {n - i : i \in S}
<1>1. T \subseteq Nat /\ T # {}
  <2>1. \A i \in S : n - i \in Nat
    OBVIOUS
  <2>2. QED
    BY <2>1
<1>2. PICK t \in T : \A u \in T : ~(<<u, t>> \in OpToRel(<, Nat))
  BY <1>1, NatLessThanWellFounded, WFMin
<1>3. PICK x \in S : t = n - x
  OBVIOUS
<1>4. \A y \in S : y <= x
  <2> TAKE y \in S
  <2>1. n - y \in T /\ <<n - y, t>> \in Nat \X Nat
    BY <1>1, <1>3
  <2>2. ~(n - y < t)
    BY <1>2, <2>1 DEF OpToRel
  <2>3. QED
    BY <2>2, <1>3
<1>5. QED
  BY <1>4 DEF LastOf

(* An element of a sequence at one of its indices is in its range.        *)
LEMMA SeqElemType ==
    ASSUME NEW T, NEW s \in Seq(T), NEW i \in 1..Len(s)
    PROVE  s[i] \in T
  OBVIOUS

(***************************************************************************)
(* The codec: parses give naturals, formats give canonical quantities.    *)
(***************************************************************************)
LEMMA QuantityTypes ==
    /\ \A q \in QtyOrAbsent : /\ ParseCPUToMillicores(q) \in Nat
                              /\ ParseMemoryToBytes(q) \in Nat
    /\ \A b \in Nat : MemoryBytesToMB(b) \in Qty
    /\ \A m \in Nat : MillicoresToQty(m) \in Qty
<1>1. \A u \in Suffixes : MemoryUnitFactor(u) \in Nat
  BY DEF MemoryUnitFactor
<1>2. \A q \in QtyOrAbsent : ParseCPUToMillicores(q) \in Nat
  BY DEF ParseCPUToMillicores, QtyOrAbsent, Qty
<1>3. \A q \in QtyOrAbsent : ParseMemoryToBytes(q) \in Nat
  BY <1>1 DEF ParseMemoryToBytes, QtyOrAbsent, Qty
<1>4. \A b \in Nat : Round(b, 1000 * 1000) \in Nat
  BY DEF Round
<1>5. \A b \in Nat : MemoryBytesToMB(b) \in Qty
  BY <1>4 DEF MemoryBytesToMB, Qty, Suffixes, DecimalSuffixes
<1>6. \A m \in Nat : MillicoresToQty(m) \in Qty
  BY DEF MillicoresToQty, Qty, Suffixes, DecimalSuffixes
<1>7. QED
  BY <1>2, <1>3, <1>5, <1>6

(***************************************************************************)
(* A container stat with both cpu_stats and memory_stats gives natural    *)
(* recommendations.                                                        *)
(***************************************************************************)
LEMMA RecommendationTypes ==
    ASSUME NEW cs \in ContainerStatType, cs.cpu # Null, cs.mem # Null
    PROVE  /\ RecommendedCPUMillicores(cs) \in Nat
           /\ RecommendedMemoryBytes(cs) \in Nat
           /\ RecommendedMemoryLimitBytes(cs) \in Nat
<1>1. /\ RecommendedCPU(cs) \in Nat
      /\ RecommendedMemory(cs) \in Nat
  BY DEF ContainerStatType, Stat, RecommendedCPU, RecommendedMemory, Truthy
<1>2. RecommendedMemoryLimit(cs) \in Nat
  BY <1>1 DEF ContainerStatType, Stat, RecommendedMemoryLimit, Truthy, Larger
<1>3. 1000000 \div StatScale \in Nat
  BY StatScaleAssumption
<1>4. RecommendedCPUMillicores(cs) \in Nat
  BY <1>1, StatScaleAssumption DEF RecommendedCPUMillicores, Round, Larger
<1>5. RecommendedMemoryBytes(cs) \in Nat
  BY <1>1, <1>3 DEF RecommendedMemoryBytes, MBToBytes
<1>6. RecommendedMemoryLimitBytes(cs) \in Nat
  BY <1>2, <1>3, StatScaleAssumption DEF RecommendedMemoryLimitBytes, MBToBytes, Larger
<1>7. QED
  BY <1>4, <1>5, <1>6

(* The scan over container_stats returns one of them, or null.            *)
LEMMA FindContainerStatType ==
    ASSUME NEW ws \in WorkloadStatType, NEW cname
    PROVE  FindContainerStat(ws, cname) \in ContainerStatType \cup {Null}
<1> DEFINE cs == ws.container_stats
           hits == {i \in 1..Len(cs) : cs[i].container_name = cname}
<1>1. cs \in Seq(ContainerStatType)
  BY DEF WorkloadStatType
<1>2. CASE hits = {}
  BY <1>2 DEF FindContainerStat
<1>3. CASE hits # {}
  <2>1. hits \in SUBSET Nat
    BY <1>1
  <2>2. FirstOf(hits) \in hits
    BY <1>3, <2>1, FirstOfLemma, Zenon
  <2>3. FirstOf(hits) \in 1..Len(cs)
    BY <2>2
  <2>4. cs[FirstOf(hits)] \in ContainerStatType
    BY <1>1, <2>3, SeqElemType, Zenon
  <2>5. QED
    BY <1>3, <2>4 DEF FindContainerStat
<1>4. QED
  BY <1>2, <1>3

(***************************************************************************)
(* The CPU and the memory decision keep a container a container: every    *)
(* field they write is a canonical quantity or absent.                    *)
(***************************************************************************)
LEMMA DecisionTypes ==
    ASSUME NEW c \in ContainerType, NEW kind,
           NEW cs \in ContainerStatType, cs.cpu # Null, cs.mem # Null
    PROVE  /\ CpuDecision(c, kind, cs).c \in ContainerType
           /\ CpuDecision(c, kind, cs).changed \in BOOLEAN
           /\ MemoryDecision(c, kind, cs).c \in ContainerType
           /\ MemoryDecision(c, kind, cs).changed \in BOOLEAN
<1>1. /\ RecommendedCPUMillicores(cs) \in Nat
      /\ RecommendedMemoryBytes(cs) \in Nat
      /\ RecommendedMemoryLimitBytes(cs) \in Nat
  BY RecommendationTypes
<1>2. /\ MillicoresToQty(RecommendedCPUMillicores(cs)) \in QtyOrAbsent
      /\ NoQty \in QtyOrAbsent
  BY <1>1, QuantityTypes DEF QtyOrAbsent
<1>3. CpuDecision(c, kind, cs).c \in ContainerType
  BY <1>2 DEF CpuDecision, ContainerType
<1>4. /\ ParseMemoryToBytes(c.limMem) \in Nat
      /\ ThresholdBytes \in Nat
  BY QuantityTypes DEF ContainerType, ThresholdBytes
<1>5. /\ MemoryBytesToMB(Larger(Larger(ParseMemoryToBytes(c.limMem),
                                       RecommendedMemoryLimitBytes(cs)),
                                ThresholdBytes)) \in QtyOrAbsent
      /\ MemoryBytesToMB(RecommendedMemoryBytes(cs)) \in QtyOrAbsent
      /\ MemoryBytesToMB(RecommendedMemoryLimitBytes(cs)) \in QtyOrAbsent
  <2>1. Larger(Larger(ParseMemoryToBytes(c.limMem), RecommendedMemoryLimitBytes(cs)),
               ThresholdBytes) \in Nat
    BY <1>1, <1>4 DEF Larger
  <2>2. QED
    BY <1>1, <2>1, QuantityTypes DEF QtyOrAbsent
<1>6. MemoryDecision(c, kind, cs).c \in ContainerType
  BY <1>5 DEF MemoryDecision, ContainerType
<1>7. QED
  BY <1>3, <1>6 DEF CpuDecision, MemoryDecision

(* One pass of the container loop yields a container and a flag.          *)
LEMMA AdjustedContainerType ==
    ASSUME NEW c \in ContainerType, NEW kind,
           NEW ws \in WorkloadStatType \cup {Null}
    PROVE  /\ AdjustedContainer(c, kind, ws).c \in ContainerType
           /\ AdjustedContainer(c, kind, ws).changed \in BOOLEAN
<1>1. CASE ws = Null
  <2>1. NoQty \in QtyOrAbsent
    BY DEF QtyOrAbsent
  <2>2. QED
    BY <1>1, <2>1 DEF AdjustedContainer, ContainerType
<1>2. CASE ws # Null
  <2> DEFINE cs == FindContainerStat(ws, c.name)
  <2>1. cs \in ContainerStatType \cup {Null}
    BY <1>2, FindContainerStatType
  <2>2. CASE cs = Null \/ cs.cpu = Null \/ cs.mem = Null
    BY <1>2, <2>2 DEF AdjustedContainer
  <2>3. CASE ~(cs = Null \/ cs.cpu = Null \/ cs.mem = Null)
    <3> DEFINE cpu == CpuDecision(c, kind, cs)
    <3>1. cs \in ContainerStatType /\ cs.cpu # Null /\ cs.mem # Null
      BY <2>1, <2>3
    <3>2. cpu.c \in ContainerType /\ cpu.changed \in BOOLEAN
      BY <3>1, DecisionTypes
    <3>3. /\ MemoryDecision(cpu.c, kind, cs).c \in ContainerType
          /\ MemoryDecision(cpu.c, kind, cs).changed \in BOOLEAN
      BY <3>1, <3>2, DecisionTypes
    <3>4. QED
      BY <1>2, <2>3, <3>2, <3>3 DEF AdjustedContainer
  <2>4. QED
    BY <2>2, <2>3
<1>3. QED
  BY <1>1, <1>2

(***************************************************************************)
(* The pod: the loop reads a container of the concatenation and writes it *)
(* back to the list it came from, keeping a pod a pod.                     *)
(***************************************************************************)
(* An index past the first list of a concatenation is one of the second.  *)
LEMMA IndexShift ==
    ASSUME NEW a \in Nat, NEW b \in Nat, NEW i \in 1..(a + b), ~(i <= a)
    PROVE  i - a \in 1..b
  OBVIOUS

LEMMA ContainerAccessTypes ==
    ASSUME NEW p \in PodType
    PROVE  /\ AllContainers(p) \in Seq(ContainerType)
           /\ \A i \in 1..Len(AllContainers(p)), c \in ContainerType :
                 SetContainer(p, i, c) \in PodType
<1>1. p.containers \in Seq(ContainerType) /\ p.initContainers \in Seq(ContainerType)
  BY DEF PodType
<1>2. AllContainers(p) \in Seq(ContainerType)
  BY <1>1 DEF AllContainers
<1>3. Len(AllContainers(p)) = Len(p.containers) + Len(p.initContainers)
  BY <1>1 DEF AllContainers
<1>4. ASSUME NEW i \in 1..Len(AllContainers(p)), NEW c \in ContainerType
      PROVE  SetContainer(p, i, c) \in PodType
  <2>1. CASE i <= Len(p.containers)
    <3>1. [p.containers EXCEPT ![i] = c] \in Seq(ContainerType)
      BY <1>1, <2>1
    <3>2. QED
      BY <2>1, <3>1 DEF SetContainer, PodType
  <2>2. CASE ~(i <= Len(p.containers))
    <3>0. i \in 1..(Len(p.containers) + Len(p.initContainers))
      BY <1>3
    <3>a. Len(p.containers) \in Nat /\ Len(p.initContainers) \in Nat
      BY <1>1, LenProperties
    <3>1. i - Len(p.containers) \in 1..Len(p.initContainers)
      BY <3>0, <3>a, <2>2, IndexShift
    <3>2. [p.initContainers EXCEPT ![i - Len(p.containers)] = c] \in Seq(ContainerType)
      BY <1>1, <3>1
    <3>3. QED
      BY <2>2, <3>2 DEF SetContainer, PodType
  <2>3. QED
    BY <2>1, <2>2
<1>5. QED
  BY <1>2, <1>4

(* Stripping podAntiAffinity leaves an affinity block, present or not.     *)
LEMMA StrippedAffinityType ==
    ASSUME NEW a \in AffinityType
    PROVE  StrippedAffinity(a) \in AffinityType
  BY DEF StrippedAffinity, AffinityType

(***************************************************************************)
(* The workload resolver returns a workload info or null, and the stats   *)
(* scan an entry of the snapshot or null.                                  *)
(***************************************************************************)
(* Dropping the last name segment keeps a name a name.                     *)
LEMMA StripHashSuffixType ==
    ASSUME NEW name \in Seq(STRING)
    PROVE  StripHashSuffix(name) \in Seq(STRING)
<1>1. CASE Len(name) > 1
  <2>1. \A i \in 1..(Len(name) - 1) : name[i] \in STRING
    OBVIOUS
  <2>2. SubSeq(name, 1, Len(name) - 1) \in Seq(STRING)
    BY <2>1, SubSeqProperties
  <2>3. QED
    BY <1>1, <2>2 DEF StripHashSuffix
<1>2. CASE ~(Len(name) > 1)
  BY <1>2 DEF StripHashSuffix
<1>3. QED
  BY <1>1, <1>2

LEMMA WorkloadInfoTypeLemma ==
    ASSUME NEW p \in PodType
    PROVE  GetWorkloadInfoFromPod(p) \in WorkloadInfoType \cup {Null}
<1> DEFINE refs == p.owners
           direct == {i \in 1..Len(refs) : refs[i].kind \in DirectKinds}
           rs == {i \in 1..Len(refs) : refs[i].kind = "ReplicaSet"}
<1>1. refs \in Seq(OwnerRefType) /\ p.namespace \in STRING \cup {Null}
  BY DEF PodType
<1>2. CASE direct # {}
  <2>0. direct \in SUBSET Nat
    BY <1>1
  <2>1. FirstOf(direct) \in direct
    BY <1>2, <2>0, FirstOfLemma, Zenon
  <2>2. FirstOf(direct) \in 1..Len(refs)
    BY <2>1
  <2>3. refs[FirstOf(direct)] \in OwnerRefType
    BY <1>1, <2>2, SeqElemType, Zenon
  <2>4. refs[FirstOf(direct)].kind \in DirectKinds
    BY <2>1
  <2>5. QED
    BY <1>1, <1>2, <2>3, <2>4 DEF GetWorkloadInfoFromPod, WorkloadInfoType, OwnerRefType
<1>3. CASE direct = {} /\ rs # {}
  <2>0. Len(refs) \in Nat /\ rs \in SUBSET (1..Len(refs))
    BY <1>1
  <2>1. LastOf(rs) \in rs
    BY <1>3, <2>0, LastOfLemma, Zenon
  <2>2. LastOf(rs) \in 1..Len(refs)
    BY <2>1
  <2>3. refs[LastOf(rs)] \in OwnerRefType
    BY <1>1, <2>2, SeqElemType, Zenon
  <2>4. StripHashSuffix(refs[LastOf(rs)].name) \in Seq(STRING)
    BY <2>3, StripHashSuffixType DEF OwnerRefType
  <2>5. QED
    BY <1>1, <1>3, <2>4 DEF GetWorkloadInfoFromPod, WorkloadInfoType, DirectKinds
<1>4. CASE direct = {} /\ rs = {}
  BY <1>4 DEF GetWorkloadInfoFromPod
<1>5. QED
  BY <1>2, <1>3, <1>4

LEMMA FindWorkloadStatType ==
    ASSUME NEW w, NEW snap \in Seq(WorkloadStatType)
    PROVE  FindWorkloadStat(w, snap) \in WorkloadStatType \cup {Null}
<1> DEFINE hits == {i \in 1..Len(snap) :
                      snap[i].workload = <<w.kind, w.namespace, w.name>>}
<1>1. CASE hits = {}
  BY <1>1 DEF FindWorkloadStat
<1>2. CASE hits # {}
  <2>0. hits \in SUBSET Nat
    OBVIOUS
  <2>1. FirstOf(hits) \in hits
    BY <1>2, <2>0, FirstOfLemma, Zenon
  <2>2. FirstOf(hits) \in 1..Len(snap)
    BY <2>1
  <2>3. snap[FirstOf(hits)] \in WorkloadStatType
    BY <2>2, SeqElemType, Zenon
  <2>4. QED
    BY <1>2, <2>3 DEF FindWorkloadStat
<1>3. QED
  BY <1>1, <1>2

(***************************************************************************)
(* The strengthened type invariant holds initially and is preserved by    *)
(* every step of the handler.                                              *)
(***************************************************************************)
LEMMA TypeInvInit == Init => TypeInv
<1> SUFFICES ASSUME Init PROVE TypeInv
  OBVIOUS
<1>a. pc \in PCs /\ outcome \in Outcomes
  BY DEF Init, PCs, Outcomes
<1>b. req \in Requests \cup {Null} /\ pod \in PodType \cup {Null}
  BY DEF Init
<1>c. workload \in WorkloadInfoType \cup {Null} /\ wstat \in WorkloadStatType \cup {Null}
  BY DEF Init
<1>d. changed \in BOOLEAN /\ admitted \in PodType \cup {Null}
  BY DEF Init
<1>e. k \in Nat \ {0}
  BY DEF Init
<1>1. TypeOK
  BY <1>a, <1>b, <1>c, <1>d, <1>e DEF TypeOK
<1> QED
  BY <1>1 DEF Init, TypeInv

LEMMA TypeInvStep == TypeInv /\ [Next]_vars => TypeInv'
<1> SUFFICES ASSUME TypeInv, [Next]_vars PROVE TypeInv'
  OBVIOUS
<1> USE InputsAssumption DEF TypeInv, TypeOK, PCs, Outcomes, RequestType
<1>1. CASE Receive
  <2>1. PICK r \in Requests : req' = r /\ pod' = r.object
    BY <1>1 DEF Receive
  <2>2. r.object \in PodType \cup {Null}
    BY <2>1
  <2>3. k' \in Nat \ {0}
    BY <1>1 DEF Receive
  <2> QED
    BY <1>1, <2>1, <2>2, <2>3 DEF Receive
<1>2. CASE Screen
  <2>1. req \in Requests /\ pod = req.object
    BY <1>2 DEF Screen
  <2>2. req.object \in PodType \cup {Null}
    BY <2>1
  <2> QED
    BY <1>2, <2>1, <2>2 DEF Screen, Exit, ReturnUnchanged
<1>3. CASE Resolve
  <2>1. pod \in PodType /\ req \in Requests
    BY <1>3 DEF Resolve
  <2>2. GetWorkloadInfoFromPod(pod) \in WorkloadInfoType \cup {Null}
    BY <2>1, WorkloadInfoTypeLemma
  <2> QED
    BY <1>3, <2>1, <2>2 DEF Resolve, ReturnUnchanged
<1>4. CASE FetchStats
  <2>1. pod \in PodType /\ req \in Requests
    BY <1>4 DEF FetchStats
  <2>2. \A snap \in Snapshots :
           FindWorkloadStat(workload, snap) \in WorkloadStatType \cup {Null}
    BY FindWorkloadStatType
  <2> QED
    BY <1>4, <2>1, <2>2 DEF FetchStats, Exit
<1>5. CASE CheckHpa
  BY <1>5 DEF CheckHpa, ReturnUnchanged
<1>6. CASE StripScheduling
  <2>1. pod \in PodType
    BY <1>6 DEF StripScheduling
  <2>2. StrippedAffinity(pod.affinity) \in AffinityType
    BY <2>1, StrippedAffinityType DEF PodType
  <2>3. [pod EXCEPT !.topology = FALSE,
                    !.affinity = StrippedAffinity(pod.affinity)] \in PodType
    BY <2>1, <2>2 DEF PodType
  <2> QED
    BY <1>6, <2>3 DEF StripScheduling
<1>7. CASE AdjustContainer
  <2>1. pod \in PodType /\ k \in 1..Len(AllContainers(pod))
    BY <1>7 DEF AdjustContainer
  <2>2. AllContainers(pod) \in Seq(ContainerType)
    BY <2>1, ContainerAccessTypes
  <2>3. AllContainers(pod)[k] \in ContainerType
    BY <2>1, <2>2, SeqElemType, Zenon
  <2>4. wstat \in WorkloadStatType \cup {Null}
    OBVIOUS
  <2> DEFINE step == AdjustedContainer(AllContainers(pod)[k], workload.kind, wstat)
  <2>5. step.c \in ContainerType /\ step.changed \in BOOLEAN
    BY <2>3, <2>4, AdjustedContainerType
  <2>6. SetContainer(pod, k, step.c) \in PodType
    BY <2>1, <2>5, ContainerAccessTypes
  <2> QED
    BY <1>7, <2>1, <2>5, <2>6 DEF AdjustContainer
<1>8. CASE FinishContainers
  BY <1>8 DEF FinishContainers
<1>9. CASE Respond
  BY <1>9 DEF Respond
<1>10. CASE UNCHANGED vars
  BY <1>10 DEF vars
<1> QED
  BY <1>1, <1>2, <1>3, <1>4, <1>5, <1>6, <1>7, <1>8, <1>9, <1>10 DEF Next

(***************************************************************************)
(* Type correctness of the handler: in every reachable state the request, *)
(* the working pod, the resolved workload, the stat entry, the changed    *)
(* flag and the admitted pod have the shapes the code's data has, for     *)
(* every set of requests and snapshots of the declared shapes.           *)
(***************************************************************************)
THEOREM TypeCorrect == Spec => []TypeOK
<1>1. TypeInv => TypeOK
  BY DEF TypeInv
<1> QED
  BY TypeInvInit, TypeInvStep, <1>1, PTL DEF Spec

(***************************************************************************)
(* The autoscaling gate: the strengthened invariant holds initially and   *)
(* is preserved by every step; the type part comes from TypeInvStep.      *)
(***************************************************************************)
LEMMA HpaInvInit == Init => HpaInv
  BY TypeInvInit DEF Init, HpaInv, HpaGate

LEMMA HpaInvStep == HpaInv /\ [Next]_vars => HpaInv'
<1> SUFFICES ASSUME HpaInv, [Next]_vars PROVE HpaInv'
  OBVIOUS
<1>0. TypeInv'
  BY TypeInvStep DEF HpaInv
<1> USE <1>0 DEF HpaInv, HpaGate
<1>1. CASE Receive
  BY <1>1 DEF Receive
<1>2. CASE Screen
  BY <1>2 DEF Screen, Exit, ReturnUnchanged
<1>3. CASE Resolve
  BY <1>3 DEF Resolve, ReturnUnchanged
<1>4. CASE FetchStats
  BY <1>4 DEF FetchStats, Exit
<1>5. CASE CheckHpa
  BY <1>5 DEF CheckHpa, ReturnUnchanged
<1>6. CASE StripScheduling
  BY <1>6 DEF StripScheduling
<1>7. CASE AdjustContainer
  BY <1>7 DEF AdjustContainer
<1>8. CASE FinishContainers
  BY <1>8 DEF FinishContainers
<1>9. CASE Respond
  BY <1>9 DEF Respond
<1>10. CASE UNCHANGED vars
  BY <1>10 DEF vars
<1> QED
  BY <1>1, <1>2, <1>3, <1>4, <1>5, <1>6, <1>7, <1>8, <1>9, <1>10 DEF Next

(***************************************************************************)
(* The autoscaling gate of adjustResources: whenever a request has been   *)
(* answered for a workload whose stat entry says it is autoscaled on CPU, *)
(* the pod the API server goes on with is the pod that came in. Holds    *)
(* for every set of requests and snapshots.                               *)
(***************************************************************************)
THEOREM HpaSafe == Spec => []HpaWorkloadUntouched
<1>1. HpaInv => HpaWorkloadUntouched
  BY DEF HpaInv, HpaGate, HpaWorkloadUntouched, Done
<1> QED
  BY HpaInvInit, HpaInvStep, <1>1, PTL DEF Spec

=============================================================================
