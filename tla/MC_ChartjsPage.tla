--------------------------- MODULE MC_ChartjsPage ---------------------------
(***************************************************************************)
(* Answers with one node, allocatable 1 or 3, up to two pods named after  *)
(* one of two StatefulSet pods, in two namespaces, requesting 1 or 2,     *)
(* optimized or not: requests below, at and above allocatable, and every  *)
(* way two pods can share or not share a name.                           *)
(***************************************************************************)
EXTENDS ChartjsPage

MCPods ==
    [name : {"web-0", "db-0"}, namespace : {"team-a", "team-b"},
     requested_cpu : {1, 2}, continuous_optimization : BOOLEAN]

(* A pod is unique by namespace and name.                                  *)
MCNodes ==
    {nd \in [allocatable_cpu : {1, 3}, pods : BoundedSeq(MCPods, 2)] :
        \A i, j \in 1..Len(nd.pods) :
            i # j => <<nd.pods[i].namespace, nd.pods[i].name>>
                       # <<nd.pods[j].namespace, nd.pods[j].name>>}

MCPayloads == {[id \in {"ip-10-0-1-7"} |-> nd] : nd \in MCNodes}

=============================================================================
