SPECIFICATION FairSpec
CONSTANTS
    r1 = r1   r2 = r2   fa = fa   fb = fb
    Runs = {r1, r2}
    Files = {fa, fb}
    TestFiles <- TwoFiles
    Unreadable = {fb}
    Edited = {fa}
    MaxGen = 2
CHECK_DEADLOCK FALSE
INVARIANTS
    CountsAreRight
    EndIsHonest
PROPERTY
    BulkCloses
