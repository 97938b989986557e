--------------------------- MODULE SemanticAnalysis ---------------------------
(***************************************************************************)
(* What makes the semantic models: the pipeline of the LSP server          *)
(* (AnalysisPipeline), the builder of the MCP server (ModelBuilder), and   *)
(* the parser that tier 1 of the one and the scan of the other read files  *)
(* with (Parsing).  They share the SemanticModel class and no state: the   *)
(* pipeline's Declared and the builder's Symbols stand for what the parser *)
(* gives of a text.                                                        *)
(***************************************************************************)
EXTENDS AnalysisPipeline

CONSTANTS Protocols, FileSeq, Qualified, Requirements, Symbols, Comments, TagsOf, SortsOf,
          Includes, References, UnreadableFiles, MaxStarts
CONSTANTS Threads, SourceFiles, Content, Imports, Tokens, MaxTokens, DeclNames, MaxDecls,
          None

VARIABLES built, at, targets, next, skipped, index, served, starts
VARIABLES env, lock, globals, report, cwd, thread, extractor, tokens, decls

builderVars == <<built, at, targets, next, skipped, index, served, starts>>
Builder == INSTANCE ModelBuilder

\* The ids of the builder are in the order of adding.
ASSUME BuilderAssumption ==
    /\ IsFiniteSet(Ids) /\ Ids \subseteq Nat /\ Requirements \subseteq Ids
    /\ {"annotation", "requirement", "symbol", "type"} \subseteq Types
    /\ MaxStarts \in Nat /\ 0 .. MaxStarts \subseteq Texts
    /\ FileSeq \in Seq(Files) /\ Comments \in [Files -> SUBSET Ids]
    /\ \A f \in Files, n \in 1 .. MaxStarts : Symbols[<<f, n>>] \subseteq Ids \X Types

parserVars == <<env, lock, globals, report, cwd, thread, extractor, tokens, decls>>
Parser == INSTANCE Parsing WITH Includes <- Imports

\* The indexes of a model agree with its nodes, and its edges lead to nodes of it:
\* for the model of the running server and for that a start builds and merges
\* (ModelIsCoherent of AnalysisPipeline, EdgesConnectNodes of ModelBuilder).
ModelsAreCoherent == ModelIsCoherent /\ Builder!EdgesConnectNodes

\* No file and no compilation is lost from the books: the bulk run ends with every
\* file analysed or in error, the count of pending compilations is exact.
WorkIsAccountedFor == BulkAccountsForAll /\ PendingIsExact

\* Parses and compilations in this process never meet each other's state (of Parsing).
SessionsAreIsolated == Parser!SessionsAreIsolated

\* What a file declares is found by a tier (SymbolsAreFound), and is nested as it is
\* in the text by the scanner and in the tree (ScanNests, TreeIsFaithful).
SymbolsAreKept == Parser!SymbolsAreFound /\ Parser!ScanNests /\ Parser!TreeIsFaithful
=============================================================================
