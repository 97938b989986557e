SPECIFICATION Spec
CONSTANTS
    j1 = j1   j2 = j2   j3 = j3
    fa = fa   fb = fb   s1 = s1   s2 = s2
    Jobs = {j1, j2, j3}
    Files = {fa}
    Sources = {s1, s2}
    FileOf <- OneFile
    SourceOf <- EditAndUndo
    Raisers = {j2}
    MaxConcurrent = 1
    NoJob = NoJob
    NoEntry = NoEntry
SYMMETRY SameText
CHECK_DEADLOCK FALSE
INVARIANTS
    PermitsConserved
    WorkersAreWatched
    RegistryIsLive
    AnswersMatchTheCall
    NothingTransientCached
    CallbackDiscipline
    CrashesAreReported
PROPERTY
    ServiceSpec
