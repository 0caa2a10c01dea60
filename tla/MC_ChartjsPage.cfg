CONSTANTS
    NoData = NoData
    Payloads <- MCPayloads
SPECIFICATION Spec
\* After its one answer the page does nothing more.
CHECK_DEADLOCK FALSE
INVARIANTS
    BarsShowRequestedCpuWhenNamesDistinct
