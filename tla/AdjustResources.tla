--------------------------- MODULE AdjustResources ---------------------------
(***************************************************************************)
(* The adjust-resources admission policy: adjustResources in              *)
(* resourceUtils.ts together with the policy entry point index.ts.  The    *)
(* host runtime hands the policy one admission request at a time; the     *)
(* policy screens it, resolves the pod's workload, fetches the statistics *)
(* snapshot, strips scheduling constraints, rewrites each container's      *)
(* resources, and index.ts calls mutate() when the changed flag is set.    *)
(* Each step of that handler is one action; pc says which step is next.   *)
(* Nothing survives a request except what the properties read after it.  *)
(***************************************************************************)
EXTENDS Integers, Sequences, Quantity

CONSTANTS
    Null,                 \* JavaScript null / undefined
    StatScale,            \* statistics are fixed-point numbers: value * StatScale
    ExcludedNamespaces,   \* EXCLUDED_NAMESPACES
    ExcludedPodPrefixes,  \* EXCLUDED_POD_PREFIXES, names as segment sequences
    Requests,             \* the admission requests the host can deliver
    Snapshots             \* the stats arrays the statistics endpoint can return

(* Statistics are JSON numbers; the model keeps them as integers in units  *)
(* of 1/StatScale, and StatScale divides 10^6 so MB convert to bytes       *)
(* exactly.                                                                *)
ASSUME StatScaleAssumption ==
    /\ StatScale \in Nat \ {0}
    /\ 1000000 % StatScale = 0

DirectKinds == {"Deployment", "StatefulSet", "DaemonSet"}
AffinityParts == {"nodeAffinity", "podAffinity", "podAntiAffinity"}
ThresholdBytes == 16 * 1000 * 1000

(***************************************************************************)
(* The shapes of the data: the parts of a V1Pod the policy reads or       *)
(* writes, and the schema of the statistics payload.  A pod's name is     *)
(* metadata.name, or metadata.generateName when the name is not set yet.  *)
(* topology is TRUE when topologySpreadConstraints is a non-empty list;   *)
(* affinity.parts are the rules present in an affinity block that exists  *)
(* when affinity.present.                                                  *)
(***************************************************************************)
Stat == Nat \cup {Null}
AffinityType == [present : BOOLEAN, parts : SUBSET AffinityParts]
OwnerRefType == [kind : STRING, name : Seq(STRING)]
ContainerType == [name : STRING, reqCpu : QtyOrAbsent, limCpu : QtyOrAbsent,
                  reqMem : QtyOrAbsent, limMem : QtyOrAbsent]
PodType == [name : Seq(STRING), namespace : STRING \cup {Null},
            owners : Seq(OwnerRefType), containers : Seq(ContainerType),
            initContainers : Seq(ContainerType), topology : BOOLEAN,
            affinity : AffinityType]
RequestType == [namespace : STRING, object : PodType \cup {Null}]
WorkloadInfoType == [kind : DirectKinds, namespace : STRING \cup {Null},
                     name : Seq(STRING)]
ContainerStatType == [container_name : STRING, cpu : Stat, mem : Stat,
                      predCpu : Stat, predMem : Stat, mem7 : Stat]
WorkloadStatType == [workload : DirectKinds \X (STRING \cup {Null}) \X Seq(STRING),
                     hpa : BOOLEAN, container_stats : Seq(ContainerStatType)]

ASSUME InputsAssumption ==
    /\ Null \notin PodType \cup STRING \cup Nat
    /\ NoQty \notin Qty
    /\ Requests \subseteq RequestType
    /\ Snapshots \subseteq Seq(WorkloadStatType)

(***************************************************************************)
(* Indices of a sequence's elements that satisfy a test, and the first and *)
(* last of them: the linear scans of the code.                             *)
(***************************************************************************)
FirstOf(S) == CHOOSE i \in S : \A j \in S : i <= j
LastOf(S) == CHOOSE i \in S : \A j \in S : j <= i

(***************************************************************************)
(* A Kubernetes name is a sequence of its dash-separated segments, each of *)
(* which matches [a-z0-9]+.  name.replace(/-[a-z0-9]+$/, "") drops the     *)
(* last segment when there is more than one.                               *)
(***************************************************************************)
StripHashSuffix(name) ==
    IF Len(name) > 1 THEN SubSeq(name, 1, Len(name) - 1) ELSE name

StartsWith(name, prefix) ==
    Len(prefix) <= Len(name) /\ SubSeq(name, 1, Len(prefix)) = prefix

(***************************************************************************)
(* getWorkloadInfoFromPod: the first owner reference of a direct kind      *)
(* wins; otherwise the last ReplicaSet seen, renamed to its Deployment;    *)
(* otherwise (no owners, or none recognised) null.  The namespace is      *)
(* pod.metadata.namespace, which may be absent.                            *)
(***************************************************************************)
GetWorkloadInfoFromPod(p) ==
    LET refs == p.owners
        direct == {i \in 1..Len(refs) : refs[i].kind \in DirectKinds}
        rs == {i \in 1..Len(refs) : refs[i].kind = "ReplicaSet"}
    IN  IF direct # {}
        THEN [kind |-> refs[FirstOf(direct)].kind, namespace |-> p.namespace,
              name |-> refs[FirstOf(direct)].name]
        ELSE IF rs # {}
        THEN [kind |-> "Deployment", namespace |-> p.namespace,
              name |-> StripHashSuffix(refs[LastOf(rs)].name)]
        ELSE Null

(***************************************************************************)
(* findWorkloadStat after a successful fetch: the first entry whose        *)
(* "kind/namespace/name" identifier equals the workload's.  Names hold no  *)
(* "/", so comparing the triple is comparing the string; an absent         *)
(* namespace prints as "undefined" and matches no entry.                   *)
(***************************************************************************)
FindWorkloadStat(w, snap) ==
    LET hits == {i \in 1..Len(snap) :
                   /\ w.namespace # Null
                   /\ snap[i].workload = <<w.kind, w.namespace, w.name>>}
    IN  IF hits = {} THEN Null ELSE snap[FirstOf(hits)]

(* The loop of adjustResources over workloadStat.container_stats.          *)
FindContainerStat(ws, cname) ==
    LET cs == ws.container_stats
        hits == {i \in 1..Len(cs) : cs[i].container_name = cname}
    IN  IF hits = {} THEN Null ELSE cs[FirstOf(hits)]

(***************************************************************************)
(* The recommendations of one container's statistics.  A prediction or a  *)
(* 7-day maximum is used only when JavaScript finds it truthy, so a value *)
(* of 0 counts as absent.                                                  *)
(***************************************************************************)
Truthy(v) == v # Null /\ v # 0

RecommendedCPU(cs) == IF Truthy(cs.predCpu) THEN cs.predCpu ELSE cs.cpu

RecommendedMemory(cs) == IF Truthy(cs.predMem) THEN cs.predMem ELSE cs.mem

RecommendedMemoryLimit(cs) ==
    IF Truthy(cs.mem7)
    THEN Larger(2 * cs.mem7, 2 * RecommendedMemory(cs))
    ELSE 2 * RecommendedMemory(cs)

(* Math.round(mb * 1000 * 1000): exact, as StatScale divides 10^6.         *)
MBToBytes(v) == v * (1000000 \div StatScale)

RecommendedMemoryLimitBytes(cs) ==
    MBToBytes(Larger(RecommendedMemoryLimit(cs), 16 * StatScale))

RecommendedMemoryBytes(cs) == MBToBytes(RecommendedMemory(cs))

RecommendedCPUMillicores(cs) ==
    Larger(Round(RecommendedCPU(cs) * 1000, StatScale), 1)

(* Mutant: the CPU decision without its DaemonSet branch.                  *)
CpuDecisionIgnoringKind(c, kind, cs) ==
    IF ParseCPUToMillicores(c.reqCpu) > 0
    THEN [c |-> [c EXCEPT !.reqCpu = MillicoresToQty(RecommendedCPUMillicores(cs)),
                          !.limCpu = NoQty],
          changed |-> TRUE]
    ELSE [c |-> c, changed |-> FALSE]

(***************************************************************************)
(* The CPU decision.  The code's second test,                              *)
(* Math.abs(recommended - current) >= 0, is always true, so any container *)
(* with a positive CPU request is rewritten.  A DaemonSet keeps its        *)
(* request; the limit it computes is only printed, and the CPU limit is    *)
(* deleted in both branches.                                               *)
(***************************************************************************)
CpuDecision(c, kind, cs) ==
    IF ParseCPUToMillicores(c.reqCpu) > 0
    THEN [c |-> IF kind = "DaemonSet"
                THEN [c EXCEPT !.limCpu = NoQty]
                ELSE [c EXCEPT !.reqCpu = MillicoresToQty(RecommendedCPUMillicores(cs)),
                               !.limCpu = NoQty],
          changed |-> TRUE]
    ELSE [c |-> c, changed |-> FALSE]

(* Mutant: the non-DaemonSet branch rewrites the request, not the limit.   *)
MemoryDecisionRequestOnly(c, kind, cs) ==
    LET current == ParseMemoryToBytes(c.reqMem)
        recommended == RecommendedMemoryBytes(cs)
    IN  IF current > 0 /\ Abs(recommended - current) > ThresholdBytes
        THEN [c |-> IF kind = "DaemonSet" THEN c
                    ELSE [c EXCEPT !.reqMem = MemoryBytesToMB(recommended)],
              changed |-> TRUE]
        ELSE [c |-> c, changed |-> FALSE]

(* Mutant: the DaemonSet memory branch raises the limit but does not set  *)
(* changed = true, so a pod changed only there is admitted unmodified.    *)
MemoryDecisionUnflagged(c, kind, cs) ==
    LET current == ParseMemoryToBytes(c.reqMem)
        limit == RecommendedMemoryLimitBytes(cs)
        adjust == current > 0 /\ Abs(RecommendedMemoryBytes(cs) - current) > ThresholdBytes
    IN  IF adjust /\ kind = "DaemonSet"
        THEN [c |-> [c EXCEPT !.limMem =
                       MemoryBytesToMB(Larger(Larger(ParseMemoryToBytes(c.limMem), limit),
                                              ThresholdBytes))],
              changed |-> FALSE]
        ELSE IF adjust
        THEN [c |-> [c EXCEPT !.reqMem = MemoryBytesToMB(RecommendedMemoryBytes(cs)),
                              !.limMem = MemoryBytesToMB(limit)],
              changed |-> TRUE]
        ELSE [c |-> c, changed |-> FALSE]

(***************************************************************************)
(* The memory decision: only for a positive request that differs from the *)
(* recommendation by more than 16 MB.  A DaemonSet keeps its request and  *)
(* gets the largest of its current limit, the recommended limit and 16 MB *)
(* as limit; any other kind gets the recommendation as request and the     *)
(* recommended limit as limit, both in decimal megabytes.                 *)
(***************************************************************************)
MemoryDecision(c, kind, cs) ==
    LET current == ParseMemoryToBytes(c.reqMem)
        recommended == RecommendedMemoryBytes(cs)
        limit == RecommendedMemoryLimitBytes(cs)
    IN  IF current > 0 /\ Abs(recommended - current) > ThresholdBytes
        THEN [c |-> IF kind = "DaemonSet"
                    THEN [c EXCEPT !.limMem =
                            MemoryBytesToMB(Larger(Larger(ParseMemoryToBytes(c.limMem), limit),
                                                   ThresholdBytes))]
                    ELSE [c EXCEPT !.reqMem = MemoryBytesToMB(recommended),
                                   !.limMem = MemoryBytesToMB(limit)],
              changed |-> TRUE]
        ELSE [c |-> c, changed |-> FALSE]

(* Mutant: an unknown workload loses every limit, not only the CPU one.    *)
AdjustedContainerDropsAllLimits(c, kind, ws) ==
    IF ws = Null
    THEN [c |-> [c EXCEPT !.limCpu = NoQty, !.limMem = NoQty], changed |-> TRUE]
    ELSE [c |-> c, changed |-> FALSE]

(***************************************************************************)
(* One pass of the container loop.  Without a workload stat the CPU limit  *)
(* is deleted and changed is set whether or not there was a limit; with   *)
(* one, a container without a stat, or whose cpu_stats or memory_stats is *)
(* null, is skipped; otherwise the CPU and then the memory decision run.  *)
(***************************************************************************)
AdjustedContainer(c, kind, ws) ==
    IF ws = Null
    THEN [c |-> [c EXCEPT !.limCpu = NoQty], changed |-> TRUE]
    ELSE LET cs == FindContainerStat(ws, c.name)
         IN  IF cs = Null \/ cs.cpu = Null \/ cs.mem = Null
             THEN [c |-> c, changed |-> FALSE]
             ELSE LET cpu == CpuDecision(c, kind, cs)
                      mem == MemoryDecision(cpu.c, kind, cs)
                  IN  [c |-> mem.c, changed |-> cpu.changed \/ mem.changed]

(* [...containers, ...initContainers]: the loop's elements alias the pod's. *)
AllContainers(p) == p.containers \o p.initContainers

SetContainer(p, i, c) ==
    IF i <= Len(p.containers)
    THEN [p EXCEPT !.containers[i] = c]
    ELSE [p EXCEPT !.initContainers[i - Len(p.containers)] = c]

(* Deleting podAntiAffinity, and the affinity block once nothing is left.  *)
StrippedAffinity(a) ==
    IF a.present /\ "podAntiAffinity" \in a.parts
    THEN [present |-> a.parts \cap {"nodeAffinity", "podAffinity"} # {},
          parts |-> a.parts \ {"podAntiAffinity"}]
    ELSE a

-----------------------------------------------------------------------------
VARIABLES
    pc,        \* the handler's next step; "idle" between requests
    req,       \* the admission request being handled
    pod,       \* the pod object as the handler has mutated it so far
    workload,  \* the resolved workload info, or Null
    wstat,     \* the workload's stat entry, or Null
    changed,   \* the changed flag adjustResources returns
    k,         \* index of the next container of the loop
    outcome,   \* how the last request ended
    admitted   \* the pod the API server goes on with after the policy

vars == <<pc, req, pod, workload, wstat, changed, k, outcome, admitted>>

Outcomes == {"none", "exited", "unmodified", "mutated"}

Init ==
    /\ pc = "idle"
    /\ req = Null
    /\ pod = Null
    /\ workload = Null
    /\ wstat = Null
    /\ changed = FALSE
    /\ k = 1
    /\ outcome = "none"
    /\ admitted = Null

(* The host runtime invokes the policy with the next request.              *)
Receive ==
    /\ pc = "idle"
    /\ \E r \in Requests :
          /\ req' = r
          /\ pod' = r.object
    /\ pc' = "screen"
    /\ workload' = Null
    /\ wstat' = Null
    /\ changed' = FALSE
    /\ k' = 1
    /\ outcome' = "none"
    /\ admitted' = Null

(* exit(): jsPolicy stops the script and admits the request as it came.    *)
Exit ==
    /\ pc' = "idle"
    /\ outcome' = "exited"
    /\ admitted' = req.object
    /\ UNCHANGED <<req, pod, workload, wstat, changed, k>>

(* return [false, {}]: index.ts does not call mutate().                    *)
ReturnUnchanged ==
    /\ pc' = "respond"
    /\ UNCHANGED <<req, pod, workload, wstat, changed, k, outcome, admitted>>

(***************************************************************************)
(* The checks before any work: no pod object; the request's namespace     *)
(* excluded; the pod's name (or generateName) starting with an excluded   *)
(* prefix.                                                                 *)
(***************************************************************************)
Screen ==
    /\ pc = "screen"
    /\ \/ /\ req.object = Null
          /\ ReturnUnchanged
       \/ /\ req.object # Null
          /\ \/ req.namespace \in ExcludedNamespaces
             \/ \E prefix \in ExcludedPodPrefixes : StartsWith(req.object.name, prefix)
          /\ Exit
       \/ /\ req.object # Null
          /\ req.namespace \notin ExcludedNamespaces
          /\ \A prefix \in ExcludedPodPrefixes : ~StartsWith(req.object.name, prefix)
          /\ pc' = "resolve"
          /\ UNCHANGED <<req, pod, workload, wstat, changed, k, outcome, admitted>>

Resolve ==
    /\ pc = "resolve"
    /\ \/ /\ GetWorkloadInfoFromPod(pod) = Null
          /\ ReturnUnchanged
       \/ /\ GetWorkloadInfoFromPod(pod) # Null
          /\ workload' = GetWorkloadInfoFromPod(pod)
          /\ pc' = "fetch"
          /\ UNCHANGED <<req, pod, wstat, changed, k, outcome, admitted>>

(***************************************************************************)
(* findWorkloadStat with fetchStats: the synchronous GET either fails (a   *)
(* thrown error, a non-2xx status, a body without "stats"), and the       *)
(* script exits, or returns one of the snapshots, which is scanned.       *)
(***************************************************************************)
FetchStats ==
    /\ pc = "fetch"
    /\ \/ Exit
       \/ /\ \E snap \in Snapshots : wstat' = FindWorkloadStat(workload, snap)
          /\ pc' = "hpa"
          /\ UNCHANGED <<req, pod, workload, changed, k, outcome, admitted>>

(* Mutant: the autoscaling gate dropped.                                   *)
CheckHpaDropped ==
    /\ pc = "hpa"
    /\ pc' = "strip"
    /\ UNCHANGED <<req, pod, workload, wstat, changed, k, outcome, admitted>>

CheckHpa ==
    /\ pc = "hpa"
    /\ \/ /\ wstat # Null /\ wstat.hpa
          /\ ReturnUnchanged
       \/ /\ ~(wstat # Null /\ wstat.hpa)
          /\ pc' = "strip"
          /\ UNCHANGED <<req, pod, workload, wstat, changed, k, outcome, admitted>>

(* Mutant: `delete podObject.spec.affinity` for any podAntiAffinity,       *)
(* dropping the node and pod affinity rules with it.                       *)
StripSchedulingDropsAffinity ==
    /\ pc = "strip"
    /\ pod' = [pod EXCEPT !.topology = FALSE,
                          !.affinity = IF "podAntiAffinity" \in pod.affinity.parts
                                       THEN [present |-> FALSE, parts |-> {}]
                                       ELSE pod.affinity]
    /\ changed' = (pod.topology \/ pod.affinity # StrippedAffinity(pod.affinity))
    /\ pc' = "container"
    /\ k' = 1
    /\ UNCHANGED <<req, workload, wstat, outcome, admitted>>

(* Removing non-empty topologySpreadConstraints and podAntiAffinity.       *)
StripScheduling ==
    /\ pc = "strip"
    /\ pod' = [pod EXCEPT !.topology = FALSE,
                          !.affinity = StrippedAffinity(pod.affinity)]
    /\ changed' = (pod.topology \/ pod.affinity # StrippedAffinity(pod.affinity))
    /\ pc' = "container"
    /\ k' = 1
    /\ UNCHANGED <<req, workload, wstat, outcome, admitted>>

(* One iteration of `for (const container of allContainers)`.             *)
AdjustContainer ==
    /\ pc = "container"
    /\ k <= Len(AllContainers(pod))
    /\ LET step == AdjustedContainer(AllContainers(pod)[k], workload.kind, wstat)
       IN  /\ pod' = SetContainer(pod, k, step.c)
           /\ changed' = (changed \/ step.changed)
    /\ k' = k + 1
    /\ UNCHANGED <<pc, req, workload, wstat, outcome, admitted>>

(* The end of the loop: return [changed, podObject].                      *)
FinishContainers ==
    /\ pc = "container"
    /\ k > Len(AllContainers(pod))
    /\ pc' = "respond"
    /\ UNCHANGED <<req, pod, workload, wstat, changed, k, outcome, admitted>>

(* index.ts: mutate(podObject) when changed, otherwise leave the pod.      *)
Respond ==
    /\ pc = "respond"
    /\ admitted' = IF changed THEN pod ELSE req.object
    /\ outcome' = IF changed THEN "mutated" ELSE "unmodified"
    /\ pc' = "idle"
    /\ UNCHANGED <<req, pod, workload, wstat, changed, k>>

Next ==
    \/ Receive
    \/ Screen
    \/ Resolve
    \/ FetchStats
    \/ CheckHpa
    \/ StripScheduling
    \/ AdjustContainer
    \/ FinishContainers
    \/ Respond

Spec == Init /\ [][Next]_vars

-----------------------------------------------------------------------------
(***************************************************************************)
(*                              PROPERTIES                                 *)
(***************************************************************************)
PCs == {"idle", "screen", "resolve", "fetch", "hpa", "strip", "container",
        "respond"}

TypeOK ==
    /\ pc \in PCs
    /\ req \in Requests \cup {Null}
    /\ pod \in PodType \cup {Null}
    /\ workload \in WorkloadInfoType \cup {Null}
    /\ wstat \in WorkloadStatType \cup {Null}
    /\ changed \in BOOLEAN
    /\ k \in Nat \ {0}
    /\ outcome \in Outcomes
    /\ admitted \in PodType \cup {Null}

(***************************************************************************)
(* TypeOK strengthened to be inductive: between Receive and the end of a  *)
(* request there is a request; until it has been screened the working pod *)
(* is the request's object; from screening to the end of the container    *)
(* loop there is a pod.                                                    *)
(***************************************************************************)
TypeInv ==
    /\ TypeOK
    /\ pc # "idle" => req \in Requests
    /\ pc = "screen" => pod = req.object
    /\ pc \in {"resolve", "fetch", "hpa", "strip", "container"} => pod \in PodType

(* A request has been answered and the API server holds the result.       *)
Done == pc = "idle" /\ outcome # "none"

(***************************************************************************)
(* What the API server's validation, which runs after mutating admission, *)
(* demands of a container: a limit that is set is at least the request.  *)
(* Quantities are judged by their Kubernetes value, not the policy's      *)
(* parse.                                                                  *)
(***************************************************************************)
ContainerValid(c) ==
    /\ c.reqCpu # NoQty /\ c.limCpu # NoQty
         => KubeMillicores(c.reqCpu) <= KubeMillicores(c.limCpu)
    /\ c.reqMem # NoQty /\ c.limMem # NoQty
         => KubeBytes(c.reqMem) <= KubeBytes(c.limMem)

PodValid(p) ==
    p = Null \/ \A i \in 1..Len(AllContainers(p)) : ContainerValid(AllContainers(p)[i])

(***************************************************************************)
(* Fail-open (spec section 7): the policy never turns a pod the API server *)
(* would accept into one it rejects, whatever the resource rewrite does.  *)
(***************************************************************************)
AdmittedPodValid ==
    Done /\ PodValid(req.object) => PodValid(admitted)

(***************************************************************************)
(* The same for every pod that is not a DaemonSet's: the requests and     *)
(* limits the non-DaemonSet branches write together, after rounding to    *)
(* megabytes, never leave a limit below its request.                      *)
(***************************************************************************)
AdmittedPodValidOutsideDaemonSets ==
    Done /\ PodValid(req.object) /\ (workload = Null \/ workload.kind # "DaemonSet")
      => PodValid(admitted)

(***************************************************************************)
(* A DaemonSet container's CPU and memory requests are never written, in  *)
(* any branch of the CPU or memory decision.                              *)
(***************************************************************************)
DaemonSetRequestsKept ==
    Done /\ workload # Null /\ workload.kind = "DaemonSet"
      => \A i \in 1..Len(AllContainers(req.object)) :
            /\ AllContainers(admitted)[i].reqCpu = AllContainers(req.object)[i].reqCpu
            /\ AllContainers(admitted)[i].reqMem = AllContainers(req.object)[i].reqMem

(***************************************************************************)
(* A workload autoscaled on CPU is left alone: the pod the API server     *)
(* keeps is the pod that came in, scheduling constraints included.        *)
(***************************************************************************)
HpaWorkloadUntouched ==
    Done /\ wstat # Null /\ wstat.hpa => admitted = req.object

(***************************************************************************)
(* A workload the statistics do not know (spec section 4.4, case 1): each *)
(* container loses its CPU limit and nothing else about it changes.       *)
(***************************************************************************)
UnknownWorkloadOnlyLosesCpuLimits ==
    Done /\ outcome # "exited" /\ workload # Null /\ wstat = Null
      => \A i \in 1..Len(AllContainers(req.object)) :
            AllContainers(admitted)[i] = [AllContainers(req.object)[i] EXCEPT !.limCpu = NoQty]

(***************************************************************************)
(* Spec section 8: for a workload not in the snapshot, changed is true iff *)
(* some container had a CPU limit to remove (or a scheduling constraint   *)
(* was stripped, which section 4.5 also counts as a change).              *)
(***************************************************************************)
UnknownWorkloadChangedIffLimitRemoved ==
    Done /\ outcome # "exited" /\ workload # Null /\ wstat = Null
      => (outcome = "mutated" <=>
            \/ \E i \in 1..Len(AllContainers(req.object)) :
                  AllContainers(req.object)[i].limCpu # NoQty
            \/ req.object.topology
            \/ StrippedAffinity(req.object.affinity) # req.object.affinity)

(* recommendedCPUCores as spec section 4.4.3 states it: the prediction  *)
(* whenever it is present and non-null, zero included.                     *)
SpecRecommendedCPU(cs) == IF cs.predCpu # Null THEN cs.predCpu ELSE cs.cpu

(***************************************************************************)
(* Spec section 4.4.3: a CPU prediction that is present and non-null is   *)
(* the recommendation.  After a mutated response, every container of a    *)
(* non-DaemonSet workload that had statistics and a CPU request carries   *)
(* the request computed from that recommendation.  The code's truthiness  *)
(* test (resourceUtils.ts:245) discards a prediction of 0.                *)
(***************************************************************************)
PredictionUsedWhenPresent ==
    Done /\ outcome = "mutated" /\ wstat # Null /\ workload.kind # "DaemonSet" =>
      \A i \in 1..Len(AllContainers(req.object)) :
         LET c  == AllContainers(req.object)[i]
             cs == FindContainerStat(wstat, c.name)
         IN  cs # Null /\ cs.cpu # Null /\ cs.mem # Null /\ ParseCPUToMillicores(c.reqCpu) > 0
               => AllContainers(admitted)[i].reqCpu =
                    MillicoresToQty(Larger(Round(SpecRecommendedCPU(cs) * 1000, StatScale), 1))

(***************************************************************************)
(* Each container of p is one pass of the loop applied to that of q, and  *)
(* the containers and init containers of p are those of q: none moved     *)
(* from one list to the other.                                             *)
(***************************************************************************)
EachContainerAdjusted(p, q) ==
    /\ Len(p.containers) = Len(q.containers)
    /\ Len(AllContainers(p)) = Len(AllContainers(q))
    /\ \A i \in 1..Len(AllContainers(q)) :
          AllContainers(p)[i] = AdjustedContainer(AllContainers(q)[i], workload.kind, wstat).c

(***************************************************************************)
(* The loop writes through the aliases of [...containers, ...initContainers]: *)
(* a response to a request that reached the loop admits the request's    *)
(* containers and init containers, in their places, each passed exactly  *)
(* once through the decisions: no write is lost, misplaced or repeated,  *)
(* and a pod reported unmodified is one no pass would change.             *)
(***************************************************************************)
ResponseAdjustsEachContainerOnce ==
    [][Respond /\ workload # Null /\ ~(wstat # Null /\ wstat.hpa)
         => EachContainerAdjusted(admitted', req.object)]_vars

-----------------------------------------------------------------------------
(***************************************************************************)
(* Refinement: the request is the abstract request, the handler is busy   *)
(* between Receive and its answer (Exit or Respond), and the admitted pod *)
(* is the abstract one.                                                    *)
(***************************************************************************)
Admission == INSTANCE AdmissionAbstract
           WITH areq <- req, abusy <- (pc # "idle"), aadmitted <- admitted

(***************************************************************************)
(* The handler implements AdmissionAbstract: every request is answered   *)
(* once, by exit(), by return [false, {}] or by the mutate() of index.ts, *)
(* and a mutated pod is the request's pod with its identity and           *)
(* containers kept, topology spread constraints removed and only          *)
(* podAntiAffinity taken from its affinity rules.                          *)
(***************************************************************************)
ImplementsAdmission == Admission!ASpec

(***************************************************************************)
(* HpaWorkloadUntouched strengthened to be inductive: nothing is changed  *)
(* before the autoscaling gate, no stat entry is held before the fetch,   *)
(* an autoscaled workload never gets past the gate, and once the gate has *)
(* sent it to the response the changed flag is still false.               *)
(***************************************************************************)
HpaGate == wstat # Null /\ wstat.hpa

HpaInv ==
    /\ TypeInv
    /\ pc \in {"screen", "resolve", "fetch", "hpa"} => ~changed
    /\ pc \in {"screen", "resolve", "fetch"} => wstat = Null
    /\ pc \in {"strip", "container"} => ~HpaGate
    /\ pc = "respond" /\ HpaGate => ~changed
    /\ pc = "idle" /\ HpaGate => admitted = req.object

(***************************************************************************)
(* Facts about the pod along a request that the container-loop proofs     *)
(* rest on: the workload is resolved only after screening, and from then  *)
(* on the request carries a pod; until the loop starts the working pod is *)
(* the request's object.                                                   *)
(***************************************************************************)
ShapeInv ==
    /\ TypeInv
    /\ pc \in {"screen", "resolve"} => workload = Null
    /\ workload # Null => req.object \in PodType
    /\ pc \in {"resolve", "fetch", "hpa", "strip"} => pod = req.object

IsDaemonSet == workload # Null /\ workload.kind = "DaemonSet"

(* p has q's containers, with the same CPU and memory requests.           *)
RequestsKept(p, q) ==
    /\ Len(AllContainers(p)) = Len(AllContainers(q))
    /\ \A i \in 1..Len(AllContainers(q)) :
          /\ AllContainers(p)[i].reqCpu = AllContainers(q)[i].reqCpu
          /\ AllContainers(p)[i].reqMem = AllContainers(q)[i].reqMem

(***************************************************************************)
(* DaemonSetRequestsKept strengthened to be inductive: through the loop   *)
(* and at the response the working pod keeps the requests of the pod that *)
(* came in, and so does the admitted pod.                                  *)
(***************************************************************************)
DsInv ==
    /\ ShapeInv
    /\ pc \in {"container", "respond"} /\ IsDaemonSet => RequestsKept(pod, req.object)
    /\ pc = "idle" /\ outcome # "none" /\ IsDaemonSet => RequestsKept(admitted, req.object)

UnknownWorkload == workload # Null /\ wstat = Null

(* p is q with the CPU limits of its first n - 1 containers removed.      *)
LimitsDropped(p, q, n) ==
    /\ Len(AllContainers(p)) = Len(AllContainers(q))
    /\ \A i \in 1..Len(AllContainers(q)) :
          AllContainers(p)[i] = IF i < n THEN [AllContainers(q)[i] EXCEPT !.limCpu = NoQty]
                                         ELSE AllContainers(q)[i]

(***************************************************************************)
(* UnknownWorkloadOnlyLosesCpuLimits strengthened to be inductive: the    *)
(* loop has removed the CPU limit of the containers before k and touched  *)
(* nothing else, changed is set once a container has been seen, and the   *)
(* response comes only after the last container.                          *)
(***************************************************************************)
UInv ==
    /\ ShapeInv
    /\ pc \in {"container", "respond"} /\ UnknownWorkload =>
          /\ k \in 1..(Len(AllContainers(req.object)) + 1)
          /\ LimitsDropped(pod, req.object, k)
          /\ k > 1 => changed
    /\ pc = "respond" /\ UnknownWorkload => k = Len(AllContainers(req.object)) + 1
    /\ pc = "idle" /\ outcome \notin {"none", "exited"} /\ UnknownWorkload =>
          LimitsDropped(admitted, req.object, Len(AllContainers(req.object)) + 1)

NonDaemonSet == workload # Null /\ workload.kind # "DaemonSet"

(* Every container of q that is valid is still valid in p.               *)
KeepsValid(p, q) ==
    /\ Len(AllContainers(p)) = Len(AllContainers(q))
    /\ \A i \in 1..Len(AllContainers(q)) :
          ContainerValid(AllContainers(q)[i]) => ContainerValid(AllContainers(p)[i])

(***************************************************************************)
(* AdmittedPodValidOutsideDaemonSets strengthened to be inductive: the    *)
(* steps from the stats fetch to the loop have a workload, changed is     *)
(* only set once a workload has been resolved, and during the loop and at *)
(* the response a container of a non-DaemonSet pod is valid if it came in *)
(* valid, whether or not the loop has reached it yet.                      *)
(***************************************************************************)
VInv ==
    /\ ShapeInv
    /\ pc \in {"fetch", "hpa", "strip", "container"} => workload # Null
    /\ workload = Null => ~changed
    /\ pc \in {"container", "respond"} /\ NonDaemonSet => KeepsValid(pod, req.object)
    /\ AdmittedPodValidOutsideDaemonSets


(* The loop's progress: containers before n passed once, the rest as q.  *)
AdjustedBefore(p, q, n) ==
    /\ Len(p.containers) = Len(q.containers)
    /\ Len(AllContainers(p)) = Len(AllContainers(q))
    /\ \A i \in 1..Len(AllContainers(q)) :
          AllContainers(p)[i] =
             IF i < n THEN AdjustedContainer(AllContainers(q)[i], workload.kind, wstat).c
                      ELSE AllContainers(q)[i]

(***************************************************************************)
(* What ResponseAdjustsEachContainerOnce rests on, from the moment the    *)
(* scheduling constraints are stripped: the containers before k have had *)
(* their pass and the others are as they came, changed is still false    *)
(* only if no pass so far reported a change, and the response comes only *)
(* after the last container.                                               *)
(***************************************************************************)
LoopInv ==
    /\ ShapeInv
    /\ pc \in {"container", "respond"} /\ workload # Null /\ ~HpaGate =>
          /\ k \in 1..(Len(AllContainers(req.object)) + 1)
          /\ AdjustedBefore(pod, req.object, k)
          /\ ~changed =>
                \A i \in 1..Len(AllContainers(req.object)) :
                   i < k => ~AdjustedContainer(AllContainers(req.object)[i],
                                               workload.kind, wstat).changed
    /\ pc = "respond" /\ workload # Null /\ ~HpaGate =>
          k = Len(AllContainers(req.object)) + 1

(***************************************************************************)
(* What the refinement rests on: nothing is changed before the strip      *)
(* step, the request carries a pod from the resolver on, and from the     *)
(* strip step to the response the working pod is the request's pod       *)
(* reshaped as AdmissionAbstract allows, the loop having touched only     *)
(* resources.                                                              *)
(***************************************************************************)
AdmInv ==
    /\ ShapeInv
    /\ pc \in {"screen", "resolve", "fetch", "hpa"} => ~changed
    /\ pc \in {"resolve", "fetch", "hpa", "strip", "container"} \/ (pc = "respond" /\ changed)
          => req.object \in PodType
    /\ pc = "container" \/ (pc = "respond" /\ changed) => Admission!Reshaped(pod, req.object)

=============================================================================
