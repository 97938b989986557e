SPECIFICATION FairSpec
CONSTANTS
    o1 = o1   c1 = c1   c2 = c2   s1 = s1   s2 = s2   p1 = p1
    d0 = d0   None = None
    Opens = {o1}
    Changes = {c1, c2}
    Saves = {s1}
    Pulls = {p1}
    OnDisk = d0
    TextOf <- EditAndUndo
    Failing = {c1}
    HasIndexer = TRUE
    MaxReady = 2
CHECK_DEADLOCK FALSE
INVARIANTS
    TasksCanBeCancelled
    DeepRunsHaveAnEntry
    SavedFileIsIndexed
PROPERTY
    EditIsPublished
