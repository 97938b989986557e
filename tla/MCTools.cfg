SPECIFICATION MCSpec
CONSTANTS
    Calls = {"a", "b"}
    Whole = "whole"
    Isolates = {"i", "whole"}
    MaxTools = 2
    CacheSize = 1
    MaxEdits = 1
    Servers = {"s", "t", "o"}
    RootOf <- MCRootOf
    Ours = "w"
    MaxPort = 2
    Processes = {s1, s2}
    PerFile = 1
    Backups = 2
    MaxEvents = 5
    JournalMax = 1
    Phases = {"p", "q"}
    MaxEntries = 3
    MaxCrashes = 1
    None = None
    Torn = Torn
CHECK_DEADLOCK FALSE
INVARIANTS
    CallsAreAccountedFor
    
    FilesAreKept

    
