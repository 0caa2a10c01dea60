---------------------------- MODULE ChartjsPage ----------------------------
(***************************************************************************)
(* The Chart.js page (src/frontend/src/AppChartjs.tsx): one fetch on      *)
(* mount, whose answer (or failure) is applied once; the chart is derived *)
(* from nodes by useMemo.  After the answer the page does nothing more.  *)
(***************************************************************************)
EXTENDS ChartData

CONSTANTS
    NoData,     \* the {} nodes holds before the answer
    Payloads    \* the node maps the data URL may answer with

ASSUME ChartjsPageAssumption ==
    /\ NoData \notin Payloads
    /\ \A pl \in Payloads : \A id \in DOMAIN pl : pl[id] \in Node

VARIABLES
    nodes,      \* the nodes state
    loading,    \* the loading state
    error,      \* error !== null
    pending     \* the mount effect's fetch has not settled

vars == <<nodes, loading, error, pending>>

(* After mount: initial state values, the effect's fetch sent.            *)
Init ==
    /\ nodes = NoData
    /\ loading = TRUE
    /\ error = FALSE
    /\ pending = TRUE

(* The answer: setNodes(data), setLoading(false), setError(null).          *)
Answer ==
    /\ pending
    /\ \E pl \in Payloads : nodes' = pl
    /\ loading' = FALSE
    /\ error' = FALSE
    /\ pending' = FALSE

(* A network error, a non-2xx status or bad JSON: setError, setLoading(false). *)
Fail ==
    /\ pending
    /\ error' = TRUE
    /\ loading' = FALSE
    /\ pending' = FALSE
    /\ UNCHANGED nodes

Next == Answer \/ Fail

Spec == Init /\ [][Next]_vars

-----------------------------------------------------------------------------
(* The nodes of the answer on screen.                                      *)
ShownNodes == IF nodes = NoData \/ loading \/ error THEN {} ELSE DOMAIN nodes

(***************************************************************************)
(* Each bar of either dashboard, for a node whose pods have distinct      *)
(* names, is as tall as the node's requested CPU topped up to its         *)
(* allocatable CPU: the idle block, the normal sum and the per-pod stacks *)
(* (Recharts) or per-name datasets (Chart.js) together lose nothing.     *)
(***************************************************************************)
BarsShowRequestedCpuWhenNamesDistinct ==
    \A id \in ShownNodes :
        ~NamesCollide(nodes[id]) =>
            /\ RechartsBarTotal(nodes[id]) = ExpectedBar(nodes[id])
            /\ ChartjsBarTotal(nodes[id]) = ExpectedBar(nodes[id])

(***************************************************************************)
(* Each bar shows the node's requested CPU topped up to allocatable, also *)
(* when two pods of a node share a name, as pods of one StatefulSet      *)
(* deployed in two namespaces do.                                         *)
(***************************************************************************)
BarsShowRequestedCpu ==
    \A id \in ShownNodes :
        /\ RechartsBarTotal(nodes[id]) = ExpectedBar(nodes[id])
        /\ ChartjsBarTotal(nodes[id]) = ExpectedBar(nodes[id])

=============================================================================
