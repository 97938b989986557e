SPECIFICATION MCSpec
CONSTANTS
    Ids = {1, 2, 3, 4, 5, 6}
    Files = {"t", "x"}
    FileOf <- MCFileOf
    Named = {2, 3, 4, 5}
    Types = {"symbol", "type", "annotation", "requirement"}
    Texts = {0, 1, 2}
    Edges <- MCEdges
    Calls = {"edit", "save", "deep"}
    TriggerOf <- MCTriggers
    FileOfCall <- MCFilesOfCalls
    TestOf <- MCTestOf
    Exporting = {"t"}
    BulkFiles = {"t", "x"}
    Scoped = {"t", "x"}
    Edited = {"t"}
    Faulty = {"x"}
    Annotated <- MCAnnotated
    Declared <- MCDeclared
    Unparsable <- MCUnparsable
    Compiled <- MCCompiled
    EdgesIn <- MCEdgesIn
    Starts <- MCStarts
    MaxText = 2
    Workers = 4
    ParallelAbove = 1
    MaxResults = 1
    Protocols = {"p", "q"}
    FileSeq <- MCFileSeq
    Qualified <- MCQualified
    Requirements = {6}
    Symbols <- MCSymbols
    Comments <- MCComments
    TagsOf <- MCTagsOf
    SortsOf <- MCSortsOf
    Includes <- MCIncludes
    References <- MCReferences
    UnreadableFiles = {"x"}
    MaxStarts = 2
    None = None
    Threads = {t1, t2}
    SourceFiles = {"a", "b", "c", "d", "e"}
    Content <- PContent
    Imports <- PImports
    Tokens = {"{", "}", "decl", "obj"}
    MaxTokens = 7
    DeclNames <- PNames
    MaxDecls = 3
CHECK_DEADLOCK FALSE
INVARIANTS
    ModelsAreCoherent
    TierIsOfOneText
    WorkIsAccountedFor
    SessionsAreIsolated
    SymbolsAreKept
