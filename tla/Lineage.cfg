SPECIFICATION Spec
CHECK_DEADLOCK FALSE
CONSTANTS
    Scope = {1, 2}
    Requests <- MCRequests
    Sessions <- MCSessions
    Imports <- MCImports
    Overrides = {"superseded", "deprecated", "active"}
    MaxMarker = 4
    MaxId = 4
    MaxMarks = 1
INVARIANTS
    StoreConsistent
    IngestedWhole
PROPERTIES
    RedirectsToCurrent
