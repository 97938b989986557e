SPECIFICATION MCSpec
CONSTANTS
    Parts = {"scan", "again", "one", "deep", "two", "stage", "tools", "worker", "module", "calls"}
    Files = {"t", "x", "o"}
    Reqs = {"r1", "r2", "r3"}
    FileOf <- MCFileOf
    ActionOf <- MCActionOf
    VarsOf <- MCVarsOf
    TagsOf <- MCTagsOf
    WritesOf <- MCWritesOf
    Order <- MCOrder
    Capacity = 2
    MaxText = 2
    MaxStarts = 2
    Edited = {"x"}
    Asked = {"t", "o"}
    Saves = {"s1", "s2"}
    FileOfSave <- MCSaves
    Deeps = {"d1", "d2"}
    Demands = {"q"}
    FileOfDemand <- MCDemands
    Includes <- MCIncludes
    Declares <- MCDeclares
    Variables <- MCVariables
    Requires <- MCRequires
    Exports <- MCExports
    Unparsable <- MCUnparsable
    Rfcs = {"rfc"}
    ParallelAbove = 0
    None = None
    Std = Std
    Paths <- MCPaths
    Dir <- MCDir
    Base <- MCBase
    Root = "root"
    StdNames = {"net", "order"}
    LayerSeq <- MCLayers
    LayerDirs <- MCLayerDirs
    DependsOn <- MCDependsOn
    GroupSeq <- MCGroupSeq
    Groups <- MCGroups
    Tests <- MCTests
    TestClosure <- MCClosure
    Marker = "g"
    MaxChanges = 1
    c1 = c1
    c2 = c2
    Calls = {c1, c2}
    StagedPaths <- MCStaged
    StagedBase <- MCStagedBase
    StdFile <- MCStdFile
    Sources = {"t1", "t2"}
    SourceIncludes <- MCSourceIncludes
    Modules <- MCModules
    Empty = ""
    MaxSaves = 1
    FileSeq <- MCFileSeq
    Lines <- MCLines
    MaxLines = 4
CHECK_DEADLOCK FALSE
INVARIANTS
    CachesAreFresh
    
    
    IncludesResolve
    IrIsRight
    CallsAreDual
