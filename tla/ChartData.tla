----------------------------- MODULE ChartData -----------------------------
(***************************************************************************)
(* How the two dashboards turn one node of the /node-stats answer into a  *)
(* stacked bar of requested CPU: the Recharts page (App.tsx, chartData)   *)
(* and the Chart.js page (AppChartjs.tsx, the useMemo building datasets). *)
(* Both append an idle block up to the node's allocatable CPU; Recharts   *)
(* stacks optimized pods by name and sums the others into one "normal"   *)
(* block, Chart.js draws one dataset per pod name and takes, on each      *)
(* node, the first pod with that name.  CPU amounts are whole units.       *)
(***************************************************************************)
EXTENDS Integers, Sequences, SequencesExt, FiniteSetsExt

IdleName == "__idle__"
NormalKey == "normal"

Pod == [name : STRING, namespace : STRING, requested_cpu : Nat,
        continuous_optimization : BOOLEAN]
Node == [allocatable_cpu : Nat, pods : Seq(Pod)]

(* totalRequested: the forEach summing requested_cpu.                       *)
TotalRequested(node) ==
    FoldLeft(LAMBDA acc, p : acc + p.requested_cpu, 0, node.pods)

(* idleCpu = Math.max(0, allocatable_cpu - totalRequested).                 *)
IdleCpu(node) == Max({0, node.allocatable_cpu - TotalRequested(node)})

(* The node's pods with the idle pod appended when idleCpu > 0.           *)
WithIdle(node) ==
    IF IdleCpu(node) > 0
    THEN Append(node.pods, [name |-> IdleName, namespace |-> "",
                            requested_cpu |-> IdleCpu(node),
                            continuous_optimization |-> FALSE])
    ELSE node.pods

(* Mutant: the else dropped, an optimized pod also added to normalCpu.   *)
StackPodDoubleCounted(acc, p) ==
    IF p.name = IdleName THEN acc
    ELSE IF p.continuous_optimization
         THEN [acc EXCEPT !.stacks = (p.name :> p.requested_cpu) @@ @,
                          !.normal = @ + p.requested_cpu]
         ELSE [acc EXCEPT !.normal = @ + p.requested_cpu]

(***************************************************************************)
(* One iteration of pods.forEach building podStacks: skip the idle pod,  *)
(* an optimized pod sets podStacks[pod.name], another adds to normalCpu.  *)
(***************************************************************************)
StackPod(acc, p) ==
    IF p.name = IdleName THEN acc
    ELSE IF p.continuous_optimization
         THEN [acc EXCEPT !.stacks = (p.name :> p.requested_cpu) @@ @]
         ELSE [acc EXCEPT !.normal = @ + p.requested_cpu]

(***************************************************************************)
(* podStacks of a node: the forEach, then podStacks['normal'] = normalCpu *)
(* and podStacks['__idle__'] from pods.find of the idle pod.              *)
(***************************************************************************)
PodStacks(node) ==
    LET pods == WithIdle(node)
        acc  == FoldLeft(StackPod, [stacks |-> [n \in {} |-> 0], normal |-> 0], pods)
        base == (NormalKey :> acc.normal) @@ acc.stacks
        i    == SelectInSeq(pods, LAMBDA p : p.name = IdleName)
    IN  IF i = 0 THEN base ELSE (IdleName :> pods[i].requested_cpu) @@ base

(* The height of the Recharts bar: every key of podStacks is in allPodNames. *)
RechartsBarTotal(node) ==
    LET s == PodStacks(node) IN MapThenSumSet(LAMBDA k : s[k], DOMAIN s)

(***************************************************************************)
(* A Chart.js dataset's value on a node: perNodePods[nodeId].find of the  *)
(* pod with that name, or 0.                                               *)
(***************************************************************************)
DatasetValue(node, podName) ==
    LET pods == WithIdle(node)
        i    == SelectInSeq(pods, LAMBDA p : p.name = podName)
    IN  IF i = 0 THEN 0 ELSE pods[i].requested_cpu

(* The height of the Chart.js bar: one dataset per name in podSet.         *)
ChartjsBarTotal(node) ==
    LET pods == WithIdle(node)
    IN  MapThenSumSet(LAMBDA n : DatasetValue(node, n), {pods[i].name : i \in 1..Len(pods)})

(***************************************************************************)
(* What a bar should show, stated without the page's fold or its idle    *)
(* block: the sum of the requests of the node's pods, or its allocatable  *)
(* CPU when that is larger.  An overcommitted node shows all its requests *)
(* and nothing more.                                                       *)
(***************************************************************************)
ExpectedBar(node) ==
    LET requested == MapThenSumSet(LAMBDA i : node.pods[i].requested_cpu, DOMAIN node.pods)
    IN  IF node.allocatable_cpu > requested THEN node.allocatable_cpu ELSE requested

(* Two pods of the node carry one name (in different namespaces).          *)
NamesCollide(node) ==
    \E i, j \in 1..Len(node.pods) : i # j /\ node.pods[i].name = node.pods[j].name

=============================================================================
