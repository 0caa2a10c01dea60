CONSTANTS
    Null = Null
    NoQty = NoQty
    StatScale <- MCStatScale
    ExcludedNamespaces = {"kube-system"}
    ExcludedPodPrefixes <- MCExcludedPodPrefixes
    Requests <- MCRequests
    Snapshots <- MCSnapshots

SPECIFICATION Spec

INVARIANTS
    AdmittedPodValid
