SPECIFICATION MCSpec
CONSTANT None = None
CHECK_DEADLOCK FALSE
INVARIANTS
    
    DiagnosticsAreRight
    ImpactIsWhole
