----------------------------- MODULE ServerStart -----------------------------
(***************************************************************************)
(* The start of the language server: its threads (ServerLifecycle), and    *)
(* the offline index that one of them loads and that a builder writes      *)
(* meanwhile (OfflineIndex).  The threads know of an index only that it    *)
(* could be loaded, so that the two share no state.                        *)
(***************************************************************************)
EXTENDS OfflineIndex

CONSTANTS Protocols, Runs

VARIABLES init, loaded, loader, parser, indexer, prepopulated, served, cached,
          pipeline, manager, flags, deep, bulk, told, lost

lifecycleVars == <<init, loaded, loader, parser, indexer, prepopulated, served,
                   cached, pipeline, manager, flags, deep, bulk, told, lost>>
L == INSTANCE ServerLifecycle

\* However much of the analysis a start skips, the model it leaves is of the present
\* texts, except in the ways `taint' names (OfflineIndex).
ModelIsRight == SkippedModelIsRight /\ AnalysedModelIsRight

\* The threads of a start leave one model, that of the pipeline, and tell the client
\* of it (ServerLifecycle).
StartIsWhole == L!PipelineServesTheModel /\ L!ClientIsTold
=============================================================================
