SPECIFICATION FairSpec
CONSTANTS
    j1 = j1   j2 = j2   j3 = j3
    fa = fa   fb = fb   s1 = s1   s2 = s2
    Jobs = {j1, j2, j3}
    Files = {fa, fb}
    Sources = {s1, s2}
    FileOf <- TwoFiles
    SourceOf <- EditAndUndo
    Raisers = {}
    MaxConcurrent = 1
    NoJob = NoJob
    NoEntry = NoEntry
CHECK_DEADLOCK FALSE
PROPERTY
    EveryCallEnds
