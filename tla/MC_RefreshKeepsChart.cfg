CONSTANTS
    Urls <- MCUrls
    DefaultUrl = "default"
    NoData = NoData
    MaxInFlight = 2
    MaxUrlChanges = 2
SPECIFICATION Spec
INVARIANTS
    RefreshKeepsChart
