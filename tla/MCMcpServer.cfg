SPECIFICATION MCSpec
CONSTANTS
    MaxLines = 3
    QueueSize = 1
    MaxReconnects = 1
    Callers = {"prewarm", "tool"}
    Prewarm = "prewarm"
    MaxVersion = 2
    MaxBuilds = 2
CHECK_DEADLOCK FALSE
INVARIANTS
    RequestsAreKept
    BuildersAreRight

    
