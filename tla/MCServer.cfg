SPECIFICATION MCSpec
CONSTANTS
    Protocols = {1, 2}
    Runs = 2
    f = f
    g = g
    Files = {f, g}
    Includes <- MCIncludes
    Outcomes <- MCOutcomes
    Scoped = {f}
    Edits <- MCEdits
    MaxText = 2
    MaxEdits = 2
    MaxBuilds = 2
    MaxRuns = 3
    MaxCrashes = 1
INVARIANTS
    
    
    StartIsWhole
CHECK_DEADLOCK FALSE
