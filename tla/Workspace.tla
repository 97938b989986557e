------------------------------- MODULE Workspace -------------------------------
(***************************************************************************)
(* What the server knows of the files of a workspace: the index            *)
(* (WorkspaceIndex), how an include is resolved and which layers are       *)
(* active (IncludeResolution), what a worker does in the directory that    *)
(* the resolver stages (CompileWorker), and the calls that are found of    *)
(* the indexed symbols (CallHierarchy).  The index takes the includes of a *)
(* text as resolved, the worker the directory as it is; they share no      *)
(* state.                                                                  *)
(***************************************************************************)
EXTENDS WorkspaceIndex

CONSTANTS Paths, Dir, Base, Root, StdNames, LayerSeq, LayerDirs, DependsOn, GroupSeq, Groups,
          Tests, TestClosure, Marker, None, Std, MaxChanges

VARIABLES layered, there, links, resolver, worker, ws, lspWs, stateFile, basenames,
          outdated, changes

resolutionVars == <<layered, there, links, resolver, worker, ws, lspWs, stateFile, basenames,
                    outdated, changes>>
Resolution == INSTANCE IncludeResolution WITH
    disk <- there, r <- resolver, cache <- basenames, cleared <- outdated,
    ClosureOf <- TestClosure

\* A file is not the absence of one, nor the file of the library; a layer depends on
\* declared layers.
ASSUME ResolutionAssumption ==
    /\ Paths \in Seq(Resolution!AllFiles) /\ LayerSeq \in Seq(Resolution!Layers)
    /\ DependsOn \in [Resolution!Layers -> Seq(Resolution!Layers)]
    /\ None \notin Resolution!AllFiles \cup Resolution!Layers \cup {Std}
    /\ Std \notin Resolution!AllFiles

CONSTANTS Calls, StagedPaths, StagedBase, StdFile, Sources, SourceIncludes, Modules, Empty,
          MaxSaves

VARIABLES contents, saved, link, call, saves, mod, ir

compilingVars == <<contents, saved, link, call, saves, mod, ir>>
Compiling == INSTANCE CompileWorker WITH
    Paths <- StagedPaths, Base <- StagedBase, Texts <- Sources, Includes <- SourceIncludes

\* A file of the workspace, one of the library and one of the staging directory are
\* at different paths, and a basename is that of one file of the library.
ASSUME CompilingAssumption ==
    /\ Sources # {} /\ StagedPaths \in Seq(Compiling!AllFiles) /\ None \notin Compiling!Places
    /\ Compiling!AllFiles \cap Compiling!Bases = {}
    /\ Compiling!Range(StdFile) \cap (Compiling!AllFiles \cup Compiling!Bases) = {}
    /\ \A b, c \in Compiling!LibraryNames : StdFile[b] = StdFile[c] => b = c
    /\ \A m \in Modules :
          /\ m.mixins \in Seq([mixer : DOMAIN m.actions \cup {None}, kind : {"before", "after"},
                               bad : BOOLEAN])
          /\ \A a \in DOMAIN m.actions :
                m.actions[a].body \in Seq(Compiling!Requirements \cup {"other", "bad"})

CONSTANTS FileSeq, Lines, MaxLines

VARIABLES source, indexed, callEdges

callingVars == <<source, indexed, callEdges>>
Calling == INSTANCE CallHierarchy WITH edges <- callEdges

\* What is declared and called has a name; only an inline action has a call on its line.
ASSUME CallingAssumption ==
    /\ FileSeq \in Seq(Calling!AllFiles)
    /\ \A l \in Lines : /\ l.k \in Calling!Kinds \cup {"call"} /\ l.n # ""
                        /\ l.k # "inline" => l.c = ""
    /\ None \notin [kind : Calling!Kinds, name : {l.n : l \in Lines}, file : Calling!AllFiles,
                    line : Nat]

\* An include stays in its layers and resolves in a worker as in the server; what
\* the tools answer is in the active workspace (of IncludeResolution).
IncludesResolve ==
    Resolution!ResolvesInLayers /\ Resolution!WorkerResolvesAlike /\ Resolution!ScopeIsWorkspace

\* A worker compiles the text of its call; what cannot be read of a module costs
\* nothing else (of CompileWorker).
IrIsRight == Compiling!IrIsOfItsCall /\ Compiling!FailureIsLocal

\* "Run the full Ivy compilation pipeline in an isolated process": compilations leave
\* the files of the workspace alone (of CompileWorker).
CompilationLeavesFiles == Compiling!CompilationLeavesFiles

\* Incoming and outgoing calls agree (of CallHierarchy).
CallsAreDual == Calling!CallsAreDual
=============================================================================
