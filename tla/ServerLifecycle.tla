--------------------------- MODULE ServerLifecycle ---------------------------
(***************************************************************************)
(* The threads of the language server from `initialized' to `shutdown'     *)
(* (lsp/server.py, server_setup.py, bulk_orchestrator.py): the one that    *)
(* sets the server up, the one that loads the offline indexes meanwhile,   *)
(* the deep indexing that the set-up and every reindexing start, the bulk  *)
(* analysis that follows each of those, and the handlers of shutdown and   *)
(* of ivy/reindex.  They communicate through attributes of the server that *)
(* are set without a lock, each by one assignment.                         *)
(*                                                                         *)
(* A model is known by where it comes from, "cache" or "new"; `told' says  *)
(* whether ivy/modelReady was sent after the last change of what it        *)
(* announces, which is the requirement graph and the model.                *)
(***************************************************************************)
EXTENDS Naturals

CONSTANTS Protocols,   \* protocols with an index on disk that can be loaded
          Runs         \* deep indexing runs, at least one, the first that of the set-up

VARIABLES init, loaded, loader, parser, indexer, prepopulated, served, cached,
          pipeline, manager, flags, deep, bulk, told, lost

vars == <<init, loaded, loader, parser, indexer, prepopulated, served, cached,
          pipeline, manager, flags, deep, bulk, told, lost>>

setup == <<parser, indexer, prepopulated, served, cached, pipeline, manager>>

Run == 1 .. Runs
Ready == [parser |-> FALSE, ready |-> FALSE, shutdown |-> FALSE]

Init ==
    /\ init = "resolver" /\ loaded = {} /\ loader = "none"
    /\ parser = FALSE /\ indexer = FALSE /\ prepopulated = {}
    /\ served = "none" /\ cached = FALSE /\ pipeline = "none" /\ manager = "none"
    /\ flags = Ready
    /\ deep = [r \in Run |-> "none"] /\ bulk = [r \in Run |-> "none"]
    /\ told = TRUE /\ lost = FALSE

(***************************************************************************)
(* The thread of on_initialized                                            *)
(***************************************************************************)
\* _create_resolver: without a resolver nothing else is set up.
CreateResolver(ok) ==
    /\ init = "resolver"
    /\ init' = IF ok THEN "parser" ELSE "finally"
    /\ UNCHANGED <<loaded, loader, setup, flags, deep, bulk, told, lost>>

\* _create_parser raises without Z3; with it documentSymbol may be served, and the
\* offline indexes are loaded by a thread of their own.
CreateParser(ok) ==
    /\ init = "parser"
    /\ IF ok THEN /\ parser' = TRUE /\ flags' = [flags EXCEPT !.parser = TRUE]
                  /\ loader' = "loading" /\ init' = "indexer"
             ELSE /\ init' = "finally" /\ UNCHANGED <<parser, flags, loader>>
    /\ UNCHANGED <<loaded, indexer, prepopulated, served, cached, pipeline, manager,
                   deep, bulk, told, lost>>

\* load_indexes, one protocol at a time.
LoadIndex ==
    /\ loader = "loading"
    /\ \/ /\ \E p \in Protocols \ loaded : loaded' = loaded \cup {p}
          /\ UNCHANGED loader
       \/ loaded = Protocols /\ loader' = "done" /\ UNCHANGED loaded
    /\ UNCHANGED <<init, setup, flags, deep, bulk, told, lost>>

\* Mutant: the pipeline is set up before the index is there.
CreateIndexerAfterPipeline(ok) ==
    /\ init = "indexer"
    /\ indexer' = ok
    /\ init' = IF ok THEN "ask" ELSE "finally"
    /\ served' = "new" /\ pipeline' = "new"
    /\ UNCHANGED <<loaded, loader, parser, prepopulated, cached, manager, flags, deep,
                   bulk, told, lost>>

CreateIndexer(ok) ==
    /\ init = "indexer"
    /\ indexer' = ok
    /\ init' = IF ok THEN "ask" ELSE "finally"
    /\ UNCHANGED <<loaded, loader, parser, prepopulated, served, cached, pipeline,
                   manager, flags, deep, bulk, told, lost>>

\* has_index() is true from the first protocol on, and populate_from_offline_index
\* takes what there is when it starts.
AskForIndex ==
    /\ init = "ask"
    /\ init' = IF loaded # {} THEN "populate" ELSE "scan"
    /\ UNCHANGED <<loaded, loader, setup, flags, deep, bulk, told, lost>>

\* The thread of deep indexing is started at the end of it ...
Populate ==
    /\ init = "populate"
    /\ prepopulated' = loaded
    /\ deep' = [deep EXCEPT ![1] = "running"]
    /\ told' = FALSE
    /\ init' = "assign"
    /\ UNCHANGED <<loaded, loader, parser, indexer, served, cached, pipeline, manager,
                   flags, bulk, lost>>

\* ... and before the server has the merged model, if the protocols had any.
AssignModel(any) ==
    /\ init = "assign"
    /\ cached' = any /\ served' = IF any THEN "cache" ELSE served
    /\ told' = FALSE
    /\ init' = "notify"
    /\ UNCHANGED <<loaded, loader, parser, indexer, prepopulated, pipeline, manager,
                   flags, deep, bulk, lost>>

\* index_workspace, which may raise; the set-up goes on in either case.
Scan(ok) ==
    /\ init = "scan"
    /\ deep' = IF ok THEN [deep EXCEPT ![1] = "running"] ELSE deep
    /\ told' = FALSE
    /\ init' = IF ok THEN "notify" ELSE "manager"
    /\ lost' = (lost \/ ~ok)
    /\ UNCHANGED <<loaded, loader, setup, flags, bulk>>

\* _send_model_ready_notification does nothing after the shutdown.
NotifyIndexed ==
    /\ init = "notify"
    /\ told' = (told \/ ~flags.shutdown)
    /\ init' = "manager"
    /\ UNCHANGED <<loaded, loader, setup, flags, deep, bulk, lost>>

CreateManager(ok) ==
    /\ init = "manager"
    /\ served' = IF served = "none" THEN "new" ELSE served
    /\ manager' = IF ok THEN "up" ELSE "none"
    /\ init' = "pipeline"
    /\ UNCHANGED <<loaded, loader, parser, indexer, prepopulated, cached, pipeline,
                   flags, deep, bulk, told, lost>>

CreatePipeline(ok) ==
    /\ init = "pipeline"
    /\ pipeline' = IF ok THEN served ELSE "none"
    /\ init' = "finally"
    /\ UNCHANGED <<loaded, loader, parser, indexer, prepopulated, served, cached,
                   manager, flags, deep, bulk, told, lost>>

\* The finally block of on_initialized, whatever came before.
Finally ==
    /\ init = "finally"
    /\ flags' = [flags EXCEPT !.parser = TRUE, !.ready = TRUE]
    /\ init' = "done"
    /\ UNCHANGED <<loaded, loader, setup, deep, bulk, told, lost>>

(***************************************************************************)
(* Deep indexing and bulk analysis                                         *)
(***************************************************************************)
\* Mutant: the end of a deep run starts nothing and says nothing.
EndDeepSilently(r) ==
    /\ deep[r] = "running"
    /\ deep' = [deep EXCEPT ![r] = "done"]
    /\ told' = (told /\ flags.shutdown)
    /\ UNCHANGED <<init, loaded, loader, setup, flags, bulk, lost>>

\* The end of a deep run rewires the graph and calls _start_bulk_analysis, which
\* returns when there is no pipeline yet; one that was asked to stop may do neither.
EndDeep(r) ==
    /\ deep[r] = "running"
    /\ deep' = [deep EXCEPT ![r] = "done"]
    /\ told' = (told /\ flags.shutdown)
    /\ \/ flags.shutdown /\ UNCHANGED <<bulk, lost>>
       \/ (pipeline = "none" \/ ~indexer) /\ lost' = TRUE /\ UNCHANGED bulk
       \/ /\ pipeline # "none" /\ indexer
          /\ bulk' = [bulk EXCEPT ![r] = "start"] /\ UNCHANGED lost
    /\ UNCHANGED <<init, loaded, loader, setup, flags>>

\* _run: a cached model that is fresh is announced as it is.
SkipBulk(r) ==
    /\ bulk[r] = "start" /\ cached
    /\ bulk' = [bulk EXCEPT ![r] = "done"]
    /\ told' = (told \/ ~flags.shutdown)
    /\ UNCHANGED <<init, loaded, loader, setup, flags, deep, lost>>

\* The run may fail, and is cut short by the shutdown.
Analyse(r, ok) ==
    /\ bulk[r] = "start"
    /\ bulk' = [bulk EXCEPT ![r] = IF ok THEN "analysed" ELSE "failed"]
    /\ told' = FALSE
    /\ lost' = (lost \/ ~ok)
    /\ UNCHANGED <<init, loaded, loader, setup, flags, deep>>

Announce(r) ==
    /\ bulk[r] = "analysed"
    /\ bulk' = [bulk EXCEPT ![r] = "compile"]
    /\ told' = (told \/ ~flags.shutdown)
    /\ UNCHANGED <<init, loaded, loader, setup, flags, deep, lost>>

\* _start_bulk_compilation_via_pipeline; run_bulk_tier3 submits nothing after the
\* shutdown.  (BulkCompilation has what follows.)
Compile(r) ==
    /\ bulk[r] = "compile"
    /\ bulk' = [bulk EXCEPT ![r] = "done"]
    /\ UNCHANGED <<init, loaded, loader, setup, flags, deep, told, lost>>

\* ivy/reindex: scans again and starts another deep run, beside one that runs.
Reindex(r) ==
    /\ indexer /\ deep[r] = "none" /\ r # 1 /\ ~flags.shutdown
    /\ deep' = [deep EXCEPT ![r] = "running"]
    /\ told' = FALSE
    /\ UNCHANGED <<init, loaded, loader, setup, flags, bulk, lost>>

\* on_shutdown, and what a broken pipe does: a compiler manager that is there is
\* shut down; the set-up goes on.
Shutdown ==
    /\ ~flags.shutdown
    /\ flags' = [flags EXCEPT !.shutdown = TRUE]
    /\ manager' = IF manager = "up" THEN "down" ELSE manager
    /\ UNCHANGED <<init, loaded, loader, parser, indexer, prepopulated, served, cached,
                   pipeline, deep, bulk, told, lost>>

InitStep ==
    \/ \E ok \in BOOLEAN :
          \/ CreateResolver(ok) \/ CreateParser(ok) \/ CreateIndexer(ok)
          \/ AssignModel(ok) \/ Scan(ok) \/ CreateManager(ok) \/ CreatePipeline(ok)
    \/ AskForIndex \/ Populate \/ NotifyIndexed \/ Finally

RunStep(r) == \/ EndDeep(r) \/ SkipBulk(r) \/ Announce(r) \/ Compile(r)
              \/ \E ok \in BOOLEAN : Analyse(r, ok)

Next == InitStep \/ LoadIndex \/ Shutdown
        \/ \E r \in Run : RunStep(r) \/ Reindex(r)

Spec == Init /\ [][Next]_vars

(***************************************************************************)
(* Properties                                                              *)
(***************************************************************************)
\* Whatever goes through the pipeline reaches the model that the server answers
\* from, and that model holds what was loaded from the offline indexes
\* (_prepopulate_from_offline_index, _setup_analysis_pipeline): the pipeline is
\* made last, and nothing replaces the model afterwards.
PipelineServesTheModel ==
    /\ pipeline # "none" => pipeline = served
    /\ cached => served = "cache" /\ prepopulated # {}
    /\ \A r \in Run : bulk[r] # "none" => indexer /\ pipeline # "none"

\* When all the threads are done the client has been told of the last change of the
\* model, unless the server was shut down, an analysis failed, or a deep run ended
\* before there was a pipeline, after which nothing starts the bulk analysis.
ClientIsTold ==
    init = "done" /\ ~flags.shutdown /\ ~lost
    /\ (\A r \in Run : deep[r] # "running" /\ bulk[r] \in {"none", "done"}) => told
=============================================================================
