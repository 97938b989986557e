-------------------------- MODULE ServerStart_proofs --------------------------
(***************************************************************************)
(* Proofs about the start of the language server: its threads, for any     *)
(* number of protocols and of deep indexing runs, and the offline index,   *)
(* for any files and any number of edits, builds, starts and crashes.      *)
(***************************************************************************)
EXTENDS ServerStart, TLAPS

(***************************************************************************)
(* The threads.  The pipeline is made when the model the server answers    *)
(* from is settled; and what the client has not been told of, some thread  *)
(* is still to tell.                                                       *)
(***************************************************************************)
Early == {"resolver", "parser", "indexer", "ask", "populate", "assign"}

OneModel ==
    /\ pipeline # "none" => pipeline = served /\ indexer /\ init \in {"finally", "done"}
    /\ init = "populate" => loaded # {}
    /\ init = "assign" => prepopulated # {}
    /\ init \in Early => ~cached
    /\ cached => served = "cache" /\ prepopulated # {}
    /\ init \in {"ask", "populate", "assign", "scan", "notify", "manager", "pipeline"} => indexer
    /\ \A r \in L!Run : bulk[r] # "none" => indexer /\ pipeline # "none"

SomebodyTells ==
    \/ told \/ flags.shutdown \/ lost
    \/ init \in {"assign", "notify"}
    \/ \E r \in L!Run : deep[r] = "running"
    \/ \E r \in L!Run : bulk[r] \in {"start", "analysed"}

LifecycleTypeOK ==
    /\ flags \in [parser : BOOLEAN, ready : BOOLEAN, shutdown : BOOLEAN]
    /\ {indexer, cached, told, lost} \subseteq BOOLEAN
    /\ deep \in [L!Run -> {"none", "running", "done"}]
    /\ bulk \in [L!Run -> {"none", "start", "failed", "analysed", "compile", "done"}]

LifecycleInv == LifecycleTypeOK /\ OneModel /\ SomebodyTells
-----------------------------------------------------------------------------
\* At the start there is neither a model nor anything to tell.
LEMMA LifecycleInit == L!Init => LifecycleInv
<1> SUFFICES ASSUME L!Init PROVE LifecycleInv
    OBVIOUS
<1> USE DEF L!Init
<1>1. LifecycleTypeOK
    BY DEF LifecycleTypeOK, L!Ready
<1>2. OneModel
    BY DEF OneModel, Early
<1>3. SomebodyTells
    BY DEF SomebodyTells
<1> QED BY <1>1, <1>2, <1>3 DEF LifecycleInv

\* The thread of on_initialized settles the model before it makes the pipeline.
LEMMA SetUpKeeps ==
    ASSUME LifecycleInv, L!InitStep
    PROVE  LifecycleInv'
<1> USE DEF LifecycleInv, LifecycleTypeOK, L!setup, Early
<1>1. ASSUME NEW ok \in BOOLEAN, L!CreateResolver(ok)
      PROVE  LifecycleInv'
    BY <1>1 DEF L!CreateResolver, OneModel, SomebodyTells
<1>2. ASSUME NEW ok \in BOOLEAN, L!CreateParser(ok)
      PROVE  LifecycleInv'
    BY <1>2 DEF L!CreateParser, OneModel, SomebodyTells
<1>3. ASSUME NEW ok \in BOOLEAN, L!CreateIndexer(ok)
      PROVE  LifecycleInv'
    BY <1>3 DEF L!CreateIndexer, OneModel, SomebodyTells
<1>4. ASSUME NEW ok \in BOOLEAN, L!AssignModel(ok)
      PROVE  LifecycleInv'
    BY <1>4 DEF L!AssignModel, OneModel, SomebodyTells
<1>5. ASSUME NEW ok \in BOOLEAN, L!Scan(ok)
      PROVE  LifecycleInv'
    BY <1>5 DEF L!Scan, OneModel, SomebodyTells
<1>6. ASSUME NEW ok \in BOOLEAN, L!CreateManager(ok)
      PROVE  LifecycleInv'
    BY <1>6 DEF L!CreateManager, OneModel, SomebodyTells
<1>7. ASSUME NEW ok \in BOOLEAN, L!CreatePipeline(ok)
      PROVE  LifecycleInv'
    BY <1>7 DEF L!CreatePipeline, OneModel, SomebodyTells
<1>8. CASE L!AskForIndex
    BY <1>8 DEF L!AskForIndex, OneModel, SomebodyTells
<1>9. CASE L!Populate
    BY <1>9 DEF L!Populate, OneModel, SomebodyTells
<1>10. CASE L!NotifyIndexed
    BY <1>10 DEF L!NotifyIndexed, OneModel, SomebodyTells
<1>11. CASE L!Finally
    BY <1>11 DEF L!Finally, OneModel, SomebodyTells
<1> QED BY <1>1, <1>2, <1>3, <1>4, <1>5, <1>6, <1>7, <1>8, <1>9, <1>10, <1>11 DEF L!InitStep

\* The runs leave the model alone, and each of them tells what it changed or hands
\* it to the next.
LEMMA RunsKeep ==
    ASSUME LifecycleInv, NEW r \in L!Run, L!RunStep(r) \/ L!Reindex(r)
    PROVE  LifecycleInv'
<1> USE DEF LifecycleInv, LifecycleTypeOK, L!setup
<1>1. CASE L!EndDeep(r)
    BY <1>1 DEF L!EndDeep, OneModel, SomebodyTells
<1>2. CASE L!SkipBulk(r) \/ L!Announce(r) \/ L!Compile(r)
    BY <1>2 DEF L!SkipBulk, L!Announce, L!Compile, OneModel, SomebodyTells
<1>3. ASSUME NEW ok \in BOOLEAN, L!Analyse(r, ok)
      PROVE  LifecycleInv'
    BY <1>3 DEF L!Analyse, OneModel, SomebodyTells
<1>4. CASE L!Reindex(r)
    BY <1>4 DEF L!Reindex, OneModel, SomebodyTells
<1> QED BY <1>1, <1>2, <1>3, <1>4 DEF L!RunStep

\* What the loader has loaded it keeps; after the shutdown nobody has to be told.
LEMMA OthersKeep ==
    ASSUME LifecycleInv, L!LoadIndex \/ L!Shutdown \/ UNCHANGED L!vars
    PROVE  LifecycleInv'
<1> USE DEF LifecycleInv, LifecycleTypeOK, L!setup
<1>1. CASE L!LoadIndex
    BY <1>1 DEF L!LoadIndex, OneModel, SomebodyTells
<1>2. CASE L!Shutdown
    BY <1>2 DEF L!Shutdown, OneModel, SomebodyTells
<1>3. CASE UNCHANGED L!vars
    BY <1>3 DEF L!vars, OneModel, SomebodyTells
<1> QED BY <1>1, <1>2, <1>3

\* The pipeline writes to the model the server answers from, which holds what was
\* loaded (_prepopulate_from_offline_index, _setup_analysis_pipeline), and when all
\* is quiet the client knows of the last change of it
\* (_send_model_ready_notification), for any number of protocols and of runs.
THEOREM StartWhole == L!Spec => []StartIsWhole
<1>1. LifecycleInv /\ [L!Next]_(L!vars) => LifecycleInv'
    BY SetUpKeeps, RunsKeep, OthersKeep DEF L!Next
<1>2. LifecycleInv => StartIsWhole
    BY DEF LifecycleInv, OneModel, SomebodyTells, StartIsWhole, L!PipelineServesTheModel,
           L!ClientIsTold
<1> QED BY <1>1, <1>2, LifecycleInit, PTL DEF L!Spec
-----------------------------------------------------------------------------
(***************************************************************************)
(* The offline index.  What the artifacts of an index have to say of each  *)
(* other depends on what went wrong before, which is what `taint' names:   *)
(* unless a file was edited during a build, or a builder was killed and no *)
(* build was forced since, the symbols are of the texts whose hashes are   *)
(* in the manifest; when nothing went wrong, so are the nodes of the       *)
(* model, and a time in the manifest that is the file's tells that its     *)
(* hash is the file's too.                                                 *)
(***************************************************************************)
Entries == [in : BOOLEAN, sha : Nat, time : Nat, tier : {0, 1, 3}]
FileNodes == [text : Nat, tier : {0, 1, 2, 3}]
Manifests == [Files -> Entries]
SymbolTables == [Files -> Nat]
Nodes == [Files -> FileNodes]
States == {"absent", "torn", "ok"}
Writing == {"manifest", "symbols", "pickle"}

Builders == [pc : {"idle", "classify", "extract"} \cup Writing, force : BOOLEAN,
             todo : SUBSET Files, sha : SymbolTables, man : Manifests, sym : SymbolTables,
             mod : Nodes, ok : BOOLEAN, file : SUBSET Files]
ServerStates == [pc : {"down", "loading", "loaded", "bulk", "analysed", "writing", "ready"},
            man : Manifests, indexed : BOOLEAN, cached : BOOLEAN, changed : SUBSET Files,
            model : Nodes, todo : SUBSET Files,
            how : {"none", "skipped", "full", "incremental", "fallback", "cancelled"},
            steady : BOOLEAN]

IndexTypeOK ==
    /\ text \in [Files -> Nat] /\ time \in [Files -> Nat]
    /\ manifest \in [state : States, of : Manifests]
    /\ symbols \in [state : States, of : SymbolTables]
    /\ model \in [state : States, of : Nodes]
    /\ b \in Builders /\ s \in ServerStates /\ built \in BOOLEAN

\* Nothing is known of a file that is not in a manifest, of a text that was not
\* read no nodes, and no time is later than the file's.
EntryOK(e, t) == e.time <= t /\ (~e.in => e.sha = 0)
NodesOK(nodes) == \A f \in Files : nodes[f].text = 0 => nodes[f].tier = 0

DataOK ==
    /\ \A f \in Files : EntryOK(manifest.of[f], time[f]) /\ EntryOK(b.man[f], time[f])
    /\ NodesOK(b.mod) /\ NodesOK(model.of) /\ NodesOK(s.model)

\* What a build finds out is right as long as no file is edited and what it starts
\* from is right, or not used.
Undisturbed == "edit_in_build" \notin taint /\ (b.force \/ "crash" \notin taint)

BuildIsRight ==
    b.pc \in {"extract"} \cup Writing /\ Undisturbed =>
        /\ b.todo \subseteq Existing
        /\ \A f \in Files : b.sha[f] \in {0, text[f]} /\ b.sym[f] \in {0, b.man[f].sha}
        /\ \A f \in Existing \ (b.todo \ b.file) : b.man[f].in /\ b.man[f].sha = text[f]
        /\ \A f \in Files \ Existing : b.man[f].sha = 0
        /\ b.pc \in Writing /\ b.ok => \A f \in Files : b.mod[f].text = b.man[f].sha

IsWritten ==
    /\ b.file \subseteq b.todo /\ (b.pc # "extract" => b.file = {})
    /\ b.pc \in Writing => b.todo = {}
    /\ b.pc \in {"symbols", "pickle"} => manifest = Complete(b.man)
    /\ b.pc = "pickle" => symbols = Complete(b.sym)

\* The artifacts between two builds, and while the first one is not written yet.
SymbolsAgree ==
    taint \cap {"crash", "edit_in_build"} = {} /\ b.pc # "symbols" =>
        \A f \in Files : symbols.of[f] \in {0, manifest.of[f].sha}

ModelAgrees ==
    taint = {} /\ b.pc = "idle" /\ model.state = "ok" =>
        \A f \in Files : model.of[f].text = manifest.of[f].sha

TimeTells ==
    taint = {} /\ b.pc = "idle" =>
        \A f \in Existing : manifest.of[f].in /\ manifest.of[f].time = time[f] =>
            manifest.of[f].sha = text[f]

ArtifactsInv ==
    /\ IndexTypeOK /\ DataOK /\ BuildIsRight /\ IsWritten /\ SymbolsAgree
    /\ ModelAgrees /\ TimeTells /\ IndexDescribesFiles

\* A server that is steady has what is on disk; what it knows to be unchanged is.
IsSteady == s.steady /\ s.pc # "down"
ServerIsRight ==
    /\ s.pc = "down" => s.how = "none"
    /\ IsSteady =>
        /\ b.pc = "idle"
        /\ s.indexed => s.man = manifest.of
        /\ ~s.indexed => Listed(s.man) = {}
        /\ s.cached => s.indexed
        /\ s.pc = "loading" => ~s.cached /\ s.model = None(NoNodes)
        /\ s.pc = "loading" => s.how = "none"
        /\ s.pc = "loaded" => s.how = "none"
        /\ s.pc = "loaded" /\ ~s.cached => s.model = None(NoNodes)
        /\ s.pc = "loaded" /\ s.cached /\ taint = {} =>
               /\ \A f \in Files : s.model[f].text = s.man[f].sha
               /\ \A f \in Existing \ s.changed : s.man[f].in => s.man[f].sha = text[f]
        /\ s.pc = "bulk" => s.todo = Existing
        /\ s.pc = "bulk" /\ s.how \in {"full", "incremental"} /\ taint = {} =>
               \A f \in Existing : s.model[f].tier = 3 => s.model[f].text = text[f]

IndexInv == ArtifactsInv /\ ServerIsRight /\ ModelIsRight
-----------------------------------------------------------------------------
\* At the start there is no index, and nothing has been found out.
LEMMA IndexInit == Init => IndexInv
<1> SUFFICES ASSUME Init PROVE IndexInv
    OBVIOUS
<1> USE DEF Init, Absent, None, NoEntry, NoNodes, Idle, Down, Listed
<1>1. IndexTypeOK
    BY DEF IndexTypeOK, Entries, FileNodes, Manifests, SymbolTables, Nodes, States, Writing,
           Builders, ServerStates
<1>2. DataOK
    BY DEF DataOK, EntryOK, NodesOK
<1>3. BuildIsRight /\ IsWritten
    BY DEF BuildIsRight, IsWritten, Writing
<1>4. SymbolsAgree
    BY DEF SymbolsAgree
<1>5. ModelAgrees /\ TimeTells
    <2>1. model.state # "ok" /\ \A f \in Files : manifest.of[f] = NoEntry
        OBVIOUS
    <2>2. \A f \in Files : ~manifest.of[f].in
        BY <2>1
    <2> QED BY <2>1, <2>2 DEF ModelAgrees, TimeTells, Existing
<1>6. IndexDescribesFiles /\ ServerIsRight /\ ModelIsRight
    BY DEF IndexDescribesFiles, ServerIsRight, IsSteady, ModelIsRight, SkippedModelIsRight,
           AnalysedModelIsRight
<1> QED BY <1>1, <1>2, <1>3, <1>4, <1>5, <1>6 DEF IndexInv, ArtifactsInv

\* While nobody is steady, there is nothing to say of the server.
LEMMA OnlyTheSteady ==
    ASSUME s.pc = "down" => s.how = "none", ~IsSteady
    PROVE  ServerIsRight /\ ModelIsRight
BY DEF ServerIsRight, IsSteady, ModelIsRight, SkippedModelIsRight, AnalysedModelIsRight

\* The same of the next state.
LEMMA OnlyTheSteadyNext ==
    ((s.pc = "down" => s.how = "none") /\ ~IsSteady)' => ServerIsRight' /\ ModelIsRight'
<1>1. (s.pc = "down" => s.how = "none") /\ ~IsSteady => ServerIsRight /\ ModelIsRight
    BY OnlyTheSteady
<1> QED BY <1>1, PTL

\* A builder that is at work meets no steady server.
LEMMA BuilderMeetsNone ==
    ASSUME ServerIsRight, b.pc # "idle", s' = s
    PROVE  ServerIsRight' /\ ModelIsRight'
<1>1. ~IsSteady /\ (s.pc = "down" => s.how = "none")
    BY DEF ServerIsRight
<1>2. (s'.pc = "down" => s'.how = "none") /\ ~IsSteady'
    BY <1>1 DEF IsSteady
<1> QED BY <1>2, OnlyTheSteadyNext
-----------------------------------------------------------------------------
\* A build starts with a record of its own, and without any claim.
LEMMA StartBuildKeeps ==
    ASSUME IndexInv, NEW force \in BOOLEAN, NEW all \in BOOLEAN, StartBuild(force, all)
    PROVE  IndexInv'
<1> USE DEF IndexInv, ArtifactsInv, StartBuild, diskVars, artVars
<1>1. /\ b' = [Idle EXCEPT !.pc = "classify", !.force = force]
      /\ s' = [s EXCEPT !.steady = FALSE]
      /\ UNCHANGED <<text, time, manifest, symbols, model, taint>>
    OBVIOUS
<1>2. IndexTypeOK'
    BY DEF IndexTypeOK, Idle, None, NoEntry, NoNodes, Entries, FileNodes, Manifests,
           SymbolTables, Nodes, States, Writing, Builders, ServerStates
<1>3. DataOK'
    BY DEF IndexTypeOK, DataOK, EntryOK, NodesOK, Idle, None, NoEntry, NoNodes, Entries,
           FileNodes, Manifests, SymbolTables, Nodes, States, Writing, Builders, ServerStates
<1>4. BuildIsRight' /\ IsWritten' /\ SymbolsAgree' /\ ModelAgrees' /\ TimeTells'
    BY DEF BuildIsRight, IsWritten, SymbolsAgree, ModelAgrees, TimeTells, Idle, Writing
<1>5. IndexDescribesFiles'
    BY DEF IndexDescribesFiles, Idle
<1>6. (s'.pc = "down" => s'.how = "none") /\ ~IsSteady'
    BY DEF IndexTypeOK, ServerStates, ServerIsRight, IsSteady
<1> QED BY <1>2, <1>3, <1>4, <1>5, <1>6, OnlyTheSteadyNext

\* An entry of the cache is used when its hash is the file's, and with the hash the
\* symbols of the file go.
LEMMA ClassifyKeeps ==
    ASSUME IndexInv, Classify
    PROVE  IndexInv'
<1> USE DEF IndexInv, ArtifactsInv, diskVars, artVars
<1> DEFINE valid == ~b.force /\ {manifest.state, symbols.state} = {"ok"}
           hits == {f \in Existing : valid /\ Hit(f)}
           sha == [f \in Files |-> IF valid /\ f \in Existing \ hits THEN text[f] ELSE 0]
           man == [f \in Files |-> IF f \in hits THEN manifest.of[f] ELSE NoEntry]
           sym == [f \in Files |-> IF f \in hits THEN symbols.of[f] ELSE 0]
<1>1. /\ b.pc = "classify"
      /\ b' = [b EXCEPT !.pc = "extract", !.todo = Existing \ hits, !.sha = sha,
                        !.man = man, !.sym = sym]
      /\ UNCHANGED <<text, time, manifest, symbols, model, s, taint, built>>
    BY DEF Classify
<1>2. hits \subseteq Existing /\ Existing \subseteq Files
    BY DEF Existing
<1>3. sha \in SymbolTables /\ man \in Manifests /\ sym \in SymbolTables
    BY DEF IndexTypeOK, NoEntry, Entries, FileNodes, Manifests, SymbolTables, Nodes, States,
           Writing, Builders, ServerStates
<1>4. \A f \in Files : EntryOK(man[f], time[f])
    <2> SUFFICES ASSUME NEW f \in Files PROVE EntryOK(man[f], time[f])
        OBVIOUS
    <2>1. CASE f \in hits
        BY <2>1 DEF DataOK
    <2>2. CASE f \notin hits
        <3>1. man[f] = NoEntry /\ time[f] \in Nat
            BY <2>2 DEF IndexTypeOK
        <3> QED BY <3>1 DEF EntryOK, NoEntry
    <2> QED BY <2>1, <2>2
<1>5. \A f \in Files : sha[f] \in {0, text[f]}
    OBVIOUS
<1>6. \A f \in hits : man[f].in /\ man[f].sha = text[f]
    BY <1>2 DEF Hit
<1>7. \A f \in Files \ hits : man[f].sha = 0 /\ sym[f] = 0
    BY DEF NoEntry
<1>8. Undisturbed => \A f \in Files : sym[f] \in {0, man[f].sha}
    BY <1>1, <1>2, <1>7 DEF Undisturbed, SymbolsAgree
<1> HIDE DEF hits, sha, man, sym
<1>9. /\ b'.pc = "extract" /\ b'.todo = Existing \ hits /\ b'.sha = sha /\ b'.man = man
      /\ b'.sym = sym /\ b'.mod = b.mod /\ b'.file = b.file /\ b'.force = b.force
      /\ b' \in Builders
    BY <1>1, <1>2, <1>3 DEF IndexTypeOK, Builders
<1>10. IndexTypeOK' /\ DataOK'
    BY <1>1, <1>4, <1>9 DEF IndexTypeOK, DataOK
<1>11. BuildIsRight'
    BY <1>1, <1>2, <1>5, <1>6, <1>7, <1>8, <1>9
       DEF BuildIsRight, Undisturbed, Existing, Writing, IsWritten
<1>12. IsWritten' /\ SymbolsAgree' /\ ModelAgrees' /\ TimeTells' /\ IndexDescribesFiles'
    BY <1>1, <1>2, <1>9 DEF IsWritten, SymbolsAgree, ModelAgrees, TimeTells, IndexDescribesFiles,
                        Writing
<1>13. ServerIsRight' /\ ModelIsRight'
    BY <1>1, BuilderMeetsNone
<1> QED BY <1>10, <1>11, <1>12, <1>13
\* What a step of the builder leaves of the artifacts when it writes none of them.
LEMMA NothingWritten ==
    ASSUME IndexInv, b.pc # "idle", b'.pc \notin {"idle", "symbols", "pickle"},
           b.pc \notin {"symbols", "pickle"},
           UNCHANGED <<text, time, manifest, symbols, model, s, taint, built>>
    PROVE  SymbolsAgree' /\ ModelAgrees' /\ TimeTells' /\ IndexDescribesFiles'
           /\ ServerIsRight' /\ ModelIsRight'
<1> USE DEF IndexInv, ArtifactsInv
<1>1. SymbolsAgree' /\ ModelAgrees' /\ TimeTells' /\ IndexDescribesFiles'
    BY DEF SymbolsAgree, ModelAgrees, TimeTells, IndexDescribesFiles
<1>2. ServerIsRight' /\ ModelIsRight'
    BY BuilderMeetsNone
<1> QED BY <1>1, <1>2

\* A file that is read has the hash it was classified by, if its text has stayed.
LEMMA ReadKeeps ==
    ASSUME IndexInv, NEW f \in Files, NEW outcome \in Outcomes[f], Read(f, outcome)
    PROVE  IndexInv'
<1> USE DEF IndexInv, ArtifactsInv
<1> DEFINE sha == IF b.sha[f] # 0 THEN b.sha[f] ELSE text[f]
           gone == [NoEntry EXCEPT !.in = TRUE]
           entry == [in |-> TRUE, sha |-> sha, time |-> 0, tier |-> outcome]
           found == IF outcome = 0 THEN 0 ELSE text[f]
<1>1. /\ b.pc = "extract" /\ b.file = {} /\ f \in b.todo
      /\ UNCHANGED <<text, time, manifest, symbols, model, s, taint, built>>
    <2>1. b.todo # {} => NextFile \in b.todo
        BY DEF NextFile
    <2> QED BY <2>1 DEF Read, diskVars, artVars
<1>2. text[f] = 0 => b' = [b EXCEPT !.todo = @ \ {f}, !.man[f] = gone]
    BY DEF Read
<1>3. text[f] # 0 => b' = [b EXCEPT !.file = {f}, !.sym[f] = found, !.man[f] = entry]
    BY DEF Read
<1>4. outcome \in {0, 1, 3} /\ text[f] \in Nat /\ b \in Builders /\ time[f] \in Nat
    BY OfflineAssumption DEF IndexTypeOK
<1>5. /\ gone \in Entries /\ gone.sha = 0 /\ gone.time = 0 /\ gone.in
      /\ sha \in Nat /\ found \in Nat /\ found \in {0, text[f]}
      /\ entry \in Entries /\ entry.in /\ entry.sha = sha /\ entry.time = 0
    BY <1>4 DEF NoEntry, Entries, Builders, SymbolTables
<1>6. b.sha[f] \in {0, text[f]} => sha = text[f]
    OBVIOUS
<1> HIDE DEF gone, entry, found, sha
<1>7. CASE text[f] = 0
    <2>1. /\ b' \in Builders /\ b'.pc = "extract" /\ b'.todo = b.todo \ {f}
          /\ b'.man = [b.man EXCEPT ![f] = gone] /\ b'.sha = b.sha /\ b'.sym = b.sym
          /\ b'.mod = b.mod /\ b'.file = {} /\ b'.force = b.force
        <3>1. b' = [b EXCEPT !.todo = @ \ {f}, !.man[f] = gone]
            BY <1>2, <1>7
        <3>2. b.man \in Manifests /\ [b.man EXCEPT ![f] = gone] \in Manifests
            BY <1>4, <1>5 DEF Builders, Manifests
        <3> QED BY <1>1, <1>4, <3>1, <3>2 DEF Builders
    <2>2. IndexTypeOK' /\ DataOK' /\ IsWritten'
        BY <1>1, <1>4, <1>5, <2>1 DEF IndexTypeOK, DataOK, EntryOK, IsWritten, Builders,
                        Manifests, Writing
    <2>3. f \notin Existing
        BY <1>7 DEF Existing
    <2>4. BuildIsRight'
        BY <1>1, <2>1, <2>3 DEF BuildIsRight, Undisturbed, Existing, Writing
    <2>5. b.pc # "idle" /\ b'.pc \notin {"idle", "symbols", "pickle"}
          /\ b.pc \notin {"symbols", "pickle"}
        BY <1>1, <2>1
    <2> QED BY <1>1, <2>2, <2>4, <2>5, NothingWritten
<1>8. CASE text[f] # 0
    <2>1. /\ b' \in Builders /\ b'.pc = "extract" /\ b'.todo = b.todo
          /\ b'.man = [b.man EXCEPT ![f] = entry] /\ b'.sha = b.sha
          /\ b'.sym = [b.sym EXCEPT ![f] = found]
          /\ b'.mod = b.mod /\ b'.file = {f} /\ b'.force = b.force
        <3>1. b' = [b EXCEPT !.file = {f}, !.sym[f] = found, !.man[f] = entry]
            BY <1>3, <1>8
        <3>2. /\ b.man \in Manifests /\ [b.man EXCEPT ![f] = entry] \in Manifests
              /\ b.sym \in SymbolTables /\ [b.sym EXCEPT ![f] = found] \in SymbolTables
            BY <1>4, <1>5 DEF Builders, Manifests, SymbolTables
        <3> QED BY <1>1, <1>4, <3>1, <3>2 DEF Builders
    <2>2. IndexTypeOK' /\ DataOK' /\ IsWritten'
        BY <1>1, <1>4, <1>5, <2>1 DEF IndexTypeOK, DataOK, EntryOK, IsWritten, Builders,
                        Manifests, Writing
    <2>4. BuildIsRight'
        <3> SUFFICES ASSUME Undisturbed' PROVE BuildIsRight'
            BY DEF BuildIsRight
        <3>1. Undisturbed /\ sha = text[f]
            BY <1>1, <1>6, <2>1 DEF Undisturbed, BuildIsRight
        <3>2. \A g \in Files : b'.sym[g] \in {0, b'.man[g].sha}
            BY <1>1, <1>4, <1>5, <2>1, <3>1 DEF BuildIsRight, Builders, Manifests, SymbolTables
        <3>3. \A g \in Existing \ (b'.todo \ b'.file) : b'.man[g].in /\ b'.man[g].sha = text[g]
            BY <1>1, <1>4, <1>5, <2>1, <3>1 DEF BuildIsRight, Builders, Manifests, Existing
        <3>4. \A g \in Files \ Existing : b'.man[g].sha = 0
            BY <1>1, <1>4, <1>8, <2>1, <3>1 DEF BuildIsRight, Builders, Manifests, Existing
        <3> QED BY <1>1, <2>1, <3>1, <3>2, <3>3, <3>4 DEF BuildIsRight, Existing, Writing
    <2>5. b.pc # "idle" /\ b'.pc \notin {"idle", "symbols", "pickle"}
          /\ b.pc \notin {"symbols", "pickle"}
        BY <1>1, <2>1
    <2> QED BY <1>1, <2>2, <2>4, <2>5, NothingWritten
<1> QED BY <1>7, <1>8

\* The time of the file is noted last.
LEMMA StatKeeps ==
    ASSUME IndexInv, Stat
    PROVE  IndexInv'
<1> USE DEF IndexInv, ArtifactsInv
<1>1. PICK f \in b.file :
          b' = [b EXCEPT !.file = {}, !.todo = @ \ {f},
                         !.man[f].time = IF text[f] = 0 THEN 0 ELSE time[f]]
    BY DEF Stat
<1>2. /\ b.pc = "extract" /\ f \in Files /\ f \in b.todo
      /\ UNCHANGED <<text, time, manifest, symbols, model, s, taint, built>>
    BY <1>1 DEF Stat, diskVars, artVars, IsWritten, IndexTypeOK, Builders
<1> DEFINE now == IF text[f] = 0 THEN 0 ELSE time[f]
           entry == [b.man[f] EXCEPT !.time = now]
<1>3. now \in Nat /\ now <= time[f] /\ b.man[f] \in Entries
    BY <1>2 DEF IndexTypeOK, Builders, Manifests
<1>4. entry \in Entries /\ entry.in = b.man[f].in /\ entry.sha = b.man[f].sha /\ entry.time = now
    BY <1>3 DEF Entries
<1>5. b' = [b EXCEPT !.file = {}, !.todo = @ \ {f}, !.man[f] = entry]
    BY <1>1, <1>2 DEF IndexTypeOK, Builders, Manifests
<1> HIDE DEF now, entry
<1>6. /\ b' \in Builders /\ b'.pc = "extract" /\ b'.todo = b.todo \ {f}
      /\ b'.man = [b.man EXCEPT ![f] = entry] /\ b'.sha = b.sha /\ b'.sym = b.sym
      /\ b'.mod = b.mod /\ b'.file = {} /\ b'.force = b.force
    BY <1>2, <1>4, <1>5 DEF IndexTypeOK, Builders, Manifests
<1>7. IndexTypeOK' /\ DataOK' /\ IsWritten'
    BY <1>2, <1>3, <1>4, <1>6 DEF IndexTypeOK, DataOK, EntryOK, IsWritten, Builders, Manifests,
                        Writing
<1>8. \A g \in Files : b'.man[g].in = b.man[g].in /\ b'.man[g].sha = b.man[g].sha
    BY <1>2, <1>4, <1>6 DEF IndexTypeOK, Builders, Manifests
<1>9. BuildIsRight'
    <2> SUFFICES ASSUME Undisturbed' PROVE BuildIsRight'
        BY DEF BuildIsRight
    <2>1. Undisturbed
        BY <1>2, <1>6 DEF Undisturbed
    <2>2. \A g \in Existing \ (b'.todo \ b'.file) : g \notin b.todo \ b.file
        BY <1>1, <1>2, <1>6
    <2> QED BY <1>2, <1>6, <1>8, <2>1, <2>2 DEF BuildIsRight, Existing, Writing
<1>10. b.pc # "idle" /\ b'.pc \notin {"idle", "symbols", "pickle"}
          /\ b.pc \notin {"symbols", "pickle"}
    BY <1>2, <1>6
<1> QED BY <1>2, <1>7, <1>9, <1>10, NothingWritten
\* The nodes of a file are those of its symbols, or of its text: in either case of
\* the text whose hash is in the manifest.
LEMMA BuildModelsKeeps ==
    ASSUME IndexInv, NEW fails \in BOOLEAN, BuildModels(fails)
    PROVE  IndexInv'
<1> USE DEF IndexInv, ArtifactsInv
<1> DEFINE NodesFor(f) == IF text[f] = 0 \/ ~b.man[f].in \/ fails THEN NoNodes
                          ELSE IF b.sym[f] # 0
                          THEN [text |-> b.sym[f], tier |-> b.man[f].tier]
                          ELSE [text |-> text[f], tier |-> 3]
           mod == [f \in Files |-> NodesFor(f)]
           fine == ~fails
           zeros == None(0)
<1>1. /\ b.pc = "extract" /\ b.todo = {} /\ fine \in BOOLEAN
      /\ b' = [b EXCEPT !.pc = "manifest", !.ok = fine, !.sha = zeros, !.mod = mod]
      /\ UNCHANGED <<text, time, manifest, symbols, model, s, taint, built>>
    BY DEF BuildModels, diskVars, artVars
<1>2. /\ b.man \in [Files -> Entries] /\ b.sym \in [Files -> Nat] /\ text \in [Files -> Nat]
      /\ b \in Builders /\ zeros \in SymbolTables /\ \A f \in Files : zeros[f] = 0
    BY DEF IndexTypeOK, Builders, Manifests, SymbolTables, None
<1>3. ASSUME NEW f \in Files
      PROVE  /\ NodesFor(f) \in FileNodes
             /\ NodesFor(f).text = 0 => NodesFor(f).tier = 0
             /\ text[f] = 0 => NodesFor(f).text = 0
             /\ \/ text[f] = 0
                \/ ~b.man[f].in \/ ~fine
                \/ b.sym[f] # 0 /\ NodesFor(f).text = b.sym[f]
                \/ b.sym[f] = 0 /\ NodesFor(f).text = text[f]
    <2>1. b.man[f].tier \in {0, 1, 2, 3} /\ b.sym[f] \in Nat /\ text[f] \in Nat
        BY <1>2 DEF Entries
    <2>2. CASE text[f] = 0 \/ ~b.man[f].in \/ fails
        BY <2>2 DEF NoNodes, FileNodes
    <2>3. CASE ~(text[f] = 0 \/ ~b.man[f].in \/ fails) /\ b.sym[f] # 0
        BY <2>1, <2>3 DEF FileNodes
    <2>4. CASE ~(text[f] = 0 \/ ~b.man[f].in \/ fails) /\ b.sym[f] = 0
        BY <2>1, <2>4 DEF FileNodes
    <2> QED BY <2>2, <2>3, <2>4
<1> HIDE DEF NodesFor
<1>4. mod \in Nodes /\ NodesOK(mod) /\ \A f \in Files : mod[f] = NodesFor(f)
    BY <1>3 DEF Nodes, NodesOK
<1> HIDE DEF mod, fine, zeros
<1>5. /\ b' \in Builders /\ b'.pc = "manifest" /\ b'.ok = fine /\ b'.sha = zeros
      /\ b'.mod = mod /\ b'.todo = {} /\ b'.file = b.file /\ b'.man = b.man
      /\ b'.sym = b.sym /\ b'.force = b.force
    BY <1>1, <1>2, <1>4 DEF Builders, Writing
<1>6. IndexTypeOK' /\ DataOK' /\ IsWritten'
    BY <1>1, <1>4, <1>5 DEF IndexTypeOK, DataOK, IsWritten, Writing
<1>7. BuildIsRight'
    <2> SUFFICES ASSUME Undisturbed' PROVE BuildIsRight'
        BY DEF BuildIsRight
    <2>1. Undisturbed
        BY <1>1, <1>5 DEF Undisturbed
    <2>2. /\ \A f \in Files : b.sym[f] \in {0, b.man[f].sha}
          /\ \A f \in Existing : b.man[f].in /\ b.man[f].sha = text[f]
          /\ \A f \in Files \ Existing : b.man[f].sha = 0
        BY <1>1, <2>1 DEF BuildIsRight
    <2>3. ASSUME fine, NEW f \in Files
          PROVE  mod[f].text = b.man[f].sha
        <3>1. CASE text[f] = 0
            BY <1>3, <1>4, <2>2, <2>3, <3>1 DEF Existing
        <3>2. CASE text[f] # 0
            BY <1>3, <1>4, <2>2, <2>3, <3>2 DEF Existing
        <3> QED BY <3>1, <3>2
    <2>4. Existing' = Existing /\ \A f \in Files : b'.sha[f] = 0
        BY <1>1, <1>2, <1>5 DEF Existing
    <2> QED BY <1>1, <1>5, <2>2, <2>3, <2>4 DEF BuildIsRight, IsWritten
<1>8. b.pc # "idle" /\ b'.pc \notin {"idle", "symbols", "pickle"}
          /\ b.pc \notin {"symbols", "pickle"}
    BY <1>1, <1>5
<1> QED BY <1>1, <1>6, <1>7, <1>8, NothingWritten

\* The manifest and then the symbols go to the disk as the builder has them.
LEMMA WriteArtifactKeeps ==
    ASSUME IndexInv, WriteArtifact
    PROVE  IndexInv'
<1> USE DEF IndexInv, ArtifactsInv
<1> DEFINE next == IF b.pc = "manifest" THEN "symbols" ELSE "pickle"
<1>1. /\ b.pc \in {"manifest", "symbols"} /\ b' = [b EXCEPT !.pc = next]
      /\ b.pc = "manifest" => manifest' = Complete(b.man) /\ symbols' = symbols
      /\ b.pc = "symbols" => symbols' = Complete(b.sym) /\ manifest' = manifest
      /\ UNCHANGED <<text, time, model, s, taint, built>>
    BY DEF WriteArtifact, Write, diskVars
<1>2. next \in {"symbols", "pickle"} /\ (next = "symbols" <=> b.pc = "manifest")
    BY <1>1
<1> HIDE DEF next
<1>3. /\ b' \in Builders /\ b'.pc = next /\ b'.ok = b.ok /\ b'.sha = b.sha /\ b'.mod = b.mod
      /\ b'.todo = b.todo /\ b'.file = b.file /\ b'.man = b.man /\ b'.sym = b.sym
      /\ b'.force = b.force /\ b.man \in Manifests /\ b.sym \in SymbolTables
    BY <1>1, <1>2 DEF IndexTypeOK, Builders, Writing
<1>4. IndexTypeOK' /\ DataOK'
    BY <1>1, <1>3 DEF IndexTypeOK, DataOK, Complete, States
<1>5. BuildIsRight'
    BY <1>1, <1>2, <1>3 DEF BuildIsRight, Undisturbed, Existing, Writing
<1>6. IsWritten'
    BY <1>1, <1>2, <1>3 DEF IsWritten, Writing
<1>7. SymbolsAgree'
    <2> SUFFICES ASSUME taint \cap {"crash", "edit_in_build"} = {}, b'.pc = "pickle"
                 PROVE  \A f \in Files : symbols'.of[f] \in {0, manifest'.of[f].sha}
        BY <1>1, <1>2, <1>3 DEF SymbolsAgree
    <2>1. b.pc = "symbols" /\ manifest'.of = b.man /\ symbols'.of = b.sym
        BY <1>1, <1>2, <1>3 DEF IsWritten, Complete
    <2> QED BY <2>1 DEF BuildIsRight, Undisturbed, Writing
<1>8. ModelAgrees' /\ TimeTells' /\ IndexDescribesFiles'
    BY <1>1, <1>2, <1>3 DEF ModelAgrees, TimeTells, IndexDescribesFiles
<1>9. ServerIsRight' /\ ModelIsRight'
    BY <1>1, BuilderMeetsNone
<1> QED BY <1>4, <1>5, <1>6, <1>7, <1>8, <1>9

\* The pickle is the last; what the build leaves in `taint' tells whether all that
\* is now on the disk is of the present texts.
LEMMA WritePickleKeeps ==
    ASSUME IndexInv, WritePickle
    PROVE  IndexInv'
<1> USE DEF IndexInv, ArtifactsInv
<1>1. /\ b.pc = "pickle" /\ b' = Idle /\ built' = TRUE
      /\ model' = IF b.ok /\ ~lock THEN Complete(b.mod) ELSE model
      /\ UNCHANGED <<text, time, manifest, symbols, s>>
    BY DEF WritePickle, diskVars
<1>2. /\ taint' \cap {"crash", "edit_in_build"} = {} => Undisturbed
      /\ taint' = {} => Undisturbed /\ b.ok /\ ~lock
    BY DEF WritePickle, Undisturbed
<1>3. manifest.of = b.man /\ symbols.of = b.sym /\ b.todo = {}
    BY <1>1 DEF IsWritten, Complete, Writing
<1>4. Undisturbed =>
          /\ \A f \in Files : symbols.of[f] \in {0, manifest.of[f].sha}
          /\ \A f \in Existing : manifest.of[f].in /\ manifest.of[f].sha = text[f]
          /\ b.ok => \A f \in Files : b.mod[f].text = manifest.of[f].sha
    BY <1>1, <1>3 DEF BuildIsRight, Writing
<1>5. Idle.pc = "idle" /\ Idle.file = {} /\ Idle.todo = {} /\ Idle \in Builders
      /\ Idle.man = [f \in Files |-> NoEntry] /\ NodesOK(Idle.mod)
    BY DEF Idle, None, NoEntry, NoNodes, NodesOK, Entries, FileNodes, Manifests, SymbolTables,
           Nodes, States, Writing, Builders, ServerStates
<1>6. model' \in [state : States, of : Nodes] /\ NodesOK(model'.of)
    BY <1>1 DEF IndexTypeOK, DataOK, Complete, Builders, States
<1>7. IndexTypeOK' /\ DataOK'
    <2>1. IndexTypeOK'
        BY <1>1, <1>5, <1>6 DEF IndexTypeOK
    <2>2. \A f \in Files : EntryOK(NoEntry, time[f])
        BY DEF EntryOK, NoEntry, IndexTypeOK
    <2> QED BY <1>1, <1>5, <1>6, <2>1, <2>2 DEF DataOK
<1>8. BuildIsRight' /\ IsWritten'
    BY <1>1, <1>5 DEF BuildIsRight, IsWritten, Writing
<1>9. SymbolsAgree' /\ IndexDescribesFiles' /\ TimeTells'
    BY <1>1, <1>2, <1>4 DEF SymbolsAgree, IndexDescribesFiles, TimeTells, Existing
<1>10. ModelAgrees'
    <2>1. taint' = {} => model'.of = b.mod
        BY <1>1, <1>2 DEF Complete
    <2> QED BY <1>1, <1>2, <1>4, <2>1 DEF ModelAgrees
<1>11. ServerIsRight' /\ ModelIsRight'
    BY <1>1, BuilderMeetsNone
<1> QED BY <1>7, <1>8, <1>9, <1>10, <1>11

\* A builder that is killed leaves the artifacts what they are about.
LEMMA CrashKeeps ==
    ASSUME IndexInv, Crash
    PROVE  IndexInv'
<1> USE DEF IndexInv, ArtifactsInv
<1>1. /\ b.pc \in Writing /\ b' = Idle /\ "crash" \in taint' /\ taint' # {}
      /\ manifest' \in {manifest, Torn(manifest)} /\ symbols' \in {symbols, Torn(symbols)}
      /\ model' \in {model, Torn(model)}
      /\ UNCHANGED <<text, time, s, built>>
    BY DEF Crash, diskVars, Writing
<1>2. /\ manifest \in [state : States, of : [Files -> Entries]]
      /\ symbols \in [state : States, of : [Files -> Nat]]
      /\ model \in [state : States, of : [Files -> FileNodes]]
    BY DEF IndexTypeOK, Manifests, SymbolTables, Nodes
<1>3. /\ Torn(manifest) = [state |-> "torn", of |-> manifest.of]
      /\ Torn(symbols) = [state |-> "torn", of |-> symbols.of]
      /\ Torn(model) = [state |-> "torn", of |-> model.of]
    BY <1>2 DEF Torn
<1>4. /\ manifest'.of = manifest.of /\ manifest' \in [state : States, of : Manifests]
      /\ symbols' \in [state : States, of : SymbolTables]
      /\ model'.of = model.of /\ model' \in [state : States, of : Nodes]
    BY <1>1, <1>2, <1>3 DEF States, Manifests, SymbolTables, Nodes
<1>5. Idle.pc = "idle" /\ Idle.file = {} /\ Idle.todo = {} /\ Idle \in Builders
      /\ Idle.man = [f \in Files |-> NoEntry] /\ NodesOK(Idle.mod)
    BY DEF Idle, None, NoEntry, NoNodes, NodesOK, Entries, FileNodes, Manifests, SymbolTables,
           Nodes, States, Writing, Builders, ServerStates
<1>6. IndexTypeOK' /\ DataOK'
    <2>1. IndexTypeOK'
        BY <1>1, <1>4, <1>5 DEF IndexTypeOK
    <2>2. \A f \in Files : EntryOK(NoEntry, time[f])
        BY DEF EntryOK, NoEntry, IndexTypeOK
    <2> QED BY <1>1, <1>4, <1>5, <2>1, <2>2 DEF DataOK
<1>7. BuildIsRight' /\ IsWritten'
    BY <1>1, <1>5 DEF BuildIsRight, IsWritten, Writing
<1>8. SymbolsAgree' /\ IndexDescribesFiles' /\ TimeTells' /\ ModelAgrees'
    BY <1>1 DEF SymbolsAgree, IndexDescribesFiles, TimeTells, ModelAgrees
<1>9. ServerIsRight' /\ ModelIsRight'
    BY <1>1, BuilderMeetsNone DEF Writing
<1> QED BY <1>6, <1>7, <1>8, <1>9
-----------------------------------------------------------------------------
\* An edit changes no artifact, makes no time smaller, and ends what is claimed of a
\* build; a file that is touched keeps its text.
LEMMA EditKeeps ==
    ASSUME IndexInv, NEW f \in Files, NEW t \in Texts, NEW kind \in Edits[f], Edit(f, kind, t)
    PROVE  IndexInv'
<1> USE DEF IndexInv, ArtifactsInv
<1> DEFINE touch == kind = "touch"
<1>1. /\ kind \in {"edit", "quick_edit", "remove", "touch"} /\ t \in Nat
      /\ text \in [Files -> Nat] /\ time \in [Files -> Nat]
    BY OfflineAssumption DEF IndexTypeOK, Texts
<1>2. /\ text' = [text EXCEPT ![f] = t]
      /\ time' = IF kind \in {"edit", "touch"} THEN [time EXCEPT ![f] = @ + 1] ELSE time
      /\ s' = [s EXCEPT !.steady = @ /\ touch] /\ (built' <=> built /\ touch)
      /\ taint \subseteq taint' /\ (kind = "quick_edit" => taint' # {})
      /\ b.pc # "idle" /\ ~touch => "edit_in_build" \in taint'
      /\ touch => taint' = taint
      /\ UNCHANGED <<manifest, symbols, model, b>>
    BY DEF Edit, artVars
<1>3. kind = "remove" => t = 0
    BY DEF Edit
<1>4. touch => t = text[f]
    BY DEF Edit
<1>5. built' \in BOOLEAN
    BY DEF Edit, IndexTypeOK
<1>6. touch => text' = text /\ Existing' = Existing
    BY <1>1, <1>2, <1>4 DEF Existing
<1>7. /\ text' \in [Files -> Nat] /\ time' \in [Files -> Nat]
      /\ \A g \in Files : time'[g] >= time[g]
    BY <1>1, <1>2
<1>8. s' \in ServerStates /\ s'.model = s.model /\ (touch => s' = s) /\ (~touch => ~s'.steady)
      /\ s'.pc = s.pc /\ s'.how = s.how
    <2> DEFINE steady == s.steady /\ touch
    <2>1. s \in ServerStates /\ steady \in BOOLEAN /\ s' = [s EXCEPT !.steady = steady]
        BY <1>2 DEF IndexTypeOK, ServerStates
    <2>2. (touch => steady = s.steady) /\ (~touch => steady = FALSE)
        BY <2>1 DEF ServerStates
    <2> HIDE DEF steady, touch
    <2> QED BY <2>1, <2>2 DEF ServerStates
<1> HIDE DEF touch
<1>9. IndexTypeOK'
    BY <1>2, <1>5, <1>7, <1>8 DEF IndexTypeOK
<1>10. DataOK'
    <2>1. \A g \in Files : /\ manifest.of[g].time \in Nat /\ b.man[g].time \in Nat
                           /\ time[g] \in Nat /\ time'[g] \in Nat
        BY <1>1, <1>7 DEF IndexTypeOK, Manifests, Entries, Builders
    <2> QED BY <1>2, <1>7, <1>8, <2>1 DEF DataOK, EntryOK
<1>11. BuildIsRight'
    <2>1. CASE touch
        BY <1>2, <1>6, <2>1 DEF BuildIsRight, Undisturbed
    <2>2. CASE ~touch
        BY <1>2, <2>2 DEF BuildIsRight, Undisturbed, Writing
    <2> QED BY <2>1, <2>2
<1>12. IsWritten' /\ SymbolsAgree' /\ ModelAgrees'
    BY <1>2 DEF IsWritten, SymbolsAgree, ModelAgrees
<1>13. TimeTells'
    <2> SUFFICES ASSUME taint' = {}, b.pc = "idle", NEW g \in Files, text'[g] # 0,
                        manifest.of[g].in, manifest.of[g].time = time'[g]
                 PROVE  manifest.of[g].sha = text'[g]
        BY <1>2 DEF TimeTells, Existing
    <2>1. taint = {} /\ kind # "quick_edit" /\ manifest.of[g].time <= time[g]
          /\ manifest.of[g].time \in Nat
        BY <1>2 DEF DataOK, EntryOK, IndexTypeOK, Manifests, Entries
    <2>2. g # f
        <3> SUFFICES ASSUME g = f PROVE FALSE
            OBVIOUS
        <3>1. kind # "remove"
            BY <1>1, <1>2, <1>3
        <3>2. time'[g] = time[g] + 1
            BY <1>1, <1>2, <2>1, <3>1
        <3> QED BY <1>1, <2>1, <3>2
    <2>3. text'[g] = text[g] /\ time'[g] = time[g]
        BY <1>1, <1>2, <2>2
    <2> QED BY <2>1, <2>3 DEF TimeTells, Existing
<1>14. IndexDescribesFiles'
    BY <1>2, <1>6 DEF IndexDescribesFiles
<1>15. ServerIsRight' /\ ModelIsRight'
    <2>1. CASE touch
        <3>1. UNCHANGED <<s, text, taint, manifest, b>>
            BY <1>2, <1>6, <1>8, <2>1
        <3>2. ServerIsRight'
            <4>1. IsSteady' <=> IsSteady
                BY <3>1 DEF IsSteady
            <4>2. Listed(s.man)' = Listed(s.man) /\ Existing' = Existing
                BY <3>1 DEF Listed, Existing
            <4> QED BY <3>1, <4>1, <4>2 DEF ServerIsRight
        <3>3. ModelIsRight'
            <4>1. Listed(s.man)' = Listed(s.man) /\ Existing' = Existing
                BY <3>1 DEF Listed, Existing
            <4> QED BY <3>1, <4>1 DEF ModelIsRight, SkippedModelIsRight, AnalysedModelIsRight
        <3> QED BY <3>2, <3>3
    <2>2. CASE ~touch
        <3>1. (s'.pc = "down" => s'.how = "none") /\ ~IsSteady'
            BY <1>8, <2>2 DEF IsSteady, ServerIsRight
        <3> QED BY <3>1, OnlyTheSteadyNext
    <2> QED BY <2>1, <2>2
<1> QED BY <1>9, <1>10, <1>11, <1>12, <1>13, <1>14, <1>15
-----------------------------------------------------------------------------
\* What the server does in memory leaves the artifacts as they are.
LEMMA InMemory ==
    ASSUME IndexInv, s' \in ServerStates, NodesOK(s'.model),
           UNCHANGED <<text, time, manifest, symbols, model, b, taint, built>>
    PROVE  ArtifactsInv'
<1> USE DEF IndexInv, ArtifactsInv
<1>1. IndexTypeOK' /\ DataOK'
    BY DEF IndexTypeOK, DataOK
<1>2. BuildIsRight' /\ IsWritten' /\ SymbolsAgree' /\ ModelAgrees' /\ TimeTells'
      /\ IndexDescribesFiles'
    BY DEF BuildIsRight, Undisturbed, IsWritten, SymbolsAgree, ModelAgrees, TimeTells,
           IndexDescribesFiles, Existing
<1> QED BY <1>1, <1>2

\* A server that starts beside no builder sees the manifest that there is.
LEMMA LoadManifestKeeps ==
    ASSUME IndexInv, LoadManifest
    PROVE  IndexInv'
<1> USE DEF IndexInv
<1> DEFINE indexed(man) == man.state = "ok"
           steady == b.pc = "idle"
           entries(man) == IF man.state = "ok" THEN man.of ELSE None(NoEntry)
<1>1. PICK man \in Seen(manifest, "manifest") :
          s' = [Down EXCEPT !.pc = "loading", !.indexed = indexed(man), !.steady = steady,
                            !.man = entries(man)]
    BY DEF LoadManifest
<1>2. UNCHANGED <<text, time, manifest, symbols, model, b, taint, built>>
    BY DEF LoadManifest, diskVars, artVars
<1>3. manifest \in [state : States, of : [Files -> Entries]]
    BY DEF ArtifactsInv, IndexTypeOK, Manifests
<1>4. (steady => man = manifest) /\ man.of \in Manifests
    BY <1>1, <1>3 DEF Seen, Torn, Manifests
<1>5. None(NoEntry) \in Manifests /\ \A f \in Files : ~None(NoEntry)[f].in
    BY DEF None, NoEntry, Manifests, Entries
<1> DEFINE i == indexed(man)
           e == entries(man)
<1>6. i \in BOOLEAN /\ steady \in BOOLEAN /\ e \in Manifests /\ (i => e = man.of)
      /\ (~i => \A f \in Files : ~e[f].in)
      /\ s' = [Down EXCEPT !.pc = "loading", !.indexed = i, !.steady = steady, !.man = e]
    BY <1>1, <1>4, <1>5
<1> HIDE DEF i, e, steady
<1>7. /\ s'.pc = "loading" /\ s'.indexed = i /\ s'.steady = steady /\ s'.man = e
      /\ s'.cached = FALSE /\ s'.how = "none" /\ s'.model = None(NoNodes)
    BY <1>6 DEF Down
<1>8. s' \in ServerStates /\ NodesOK(s'.model)
    BY <1>6 DEF Down, None, NoEntry, NoNodes, NodesOK, Entries, FileNodes, Manifests,
                SymbolTables, Nodes, States, Writing, Builders, ServerStates
<1>9. ServerIsRight'
    BY <1>2, <1>4, <1>6, <1>7 DEF ServerIsRight, IsSteady, Listed, steady
<1>10. ModelIsRight'
    BY <1>7 DEF ModelIsRight, SkippedModelIsRight, AnalysedModelIsRight
<1> QED BY <1>2, <1>8, <1>9, <1>10, InMemory

\* The nodes that are loaded are of the texts of the manifest, and what has its time
\* has its text.
LEMMA LoadModelKeeps ==
    ASSUME IndexInv, LoadModel
    PROVE  IndexInv'
<1> USE DEF IndexInv
<1> DEFINE hit(mod) == s.indexed /\ mod.state = "ok"
           nodes(mod) == IF hit(mod) THEN mod.of ELSE s.model
           changed == Changed(s.man)
<1>1. PICK mod \in Seen(model, "pickle") :
          s' = [s EXCEPT !.pc = "loaded", !.changed = changed, !.cached = hit(mod),
                         !.model = nodes(mod)]
    BY DEF LoadModel
<1>2. s.pc = "loading" /\ UNCHANGED <<text, time, manifest, symbols, model, b, taint, built>>
    BY DEF LoadModel, diskVars, artVars
<1>3. s \in ServerStates /\ model \in [state : States, of : Nodes] /\ changed \subseteq Files
    BY DEF ArtifactsInv, IndexTypeOK, Changed, Listed
<1>4. mod.state = "ok" => mod = model
    BY <1>1 DEF Seen, Torn
<1> DEFINE h == hit(mod)
           n == nodes(mod)
<1>5. /\ h \in BOOLEAN /\ n \in Nodes /\ NodesOK(n)
      /\ h => s.indexed /\ model.state = "ok" /\ n = model.of
      /\ ~h => n = s.model
      /\ s' = [s EXCEPT !.pc = "loaded", !.changed = changed, !.cached = h, !.model = n]
    BY <1>1, <1>3, <1>4 DEF ServerStates, ArtifactsInv, DataOK
<1> HIDE DEF h, n, changed
<1>6. /\ s' \in ServerStates /\ s'.pc = "loaded" /\ s'.changed = changed /\ s'.cached = h
      /\ s'.model = n /\ s'.man = s.man /\ s'.indexed = s.indexed /\ s'.how = s.how
      /\ s'.steady = s.steady
    BY <1>3, <1>5 DEF ServerStates
<1>7. ServerIsRight'
    <2> SUFFICES ASSUME s.steady PROVE ServerIsRight'
        BY <1>6 DEF ServerIsRight, IsSteady
    <2>1. /\ b.pc = "idle" /\ (s.indexed => s.man = manifest.of)
          /\ (~s.indexed => Listed(s.man) = {}) /\ s.how = "none" /\ s.model = None(NoNodes)
        BY <1>2 DEF ServerIsRight, IsSteady
    <2>2. ASSUME h, taint = {}
          PROVE  /\ \A f \in Files : n[f].text = s.man[f].sha
                 /\ \A f \in Existing \ changed : s.man[f].in => s.man[f].sha = text[f]
        BY <1>5, <2>1, <2>2 DEF ArtifactsInv, ModelAgrees, TimeTells, Existing, changed, Changed,
                        Listed
    <2> QED BY <1>2, <1>5, <1>6, <2>1, <2>2 DEF ServerIsRight, IsSteady, Existing, Listed
<1>8. ModelIsRight'
    <2>1. s'.how # "skipped" \/ ~s'.steady
        BY <1>2, <1>6 DEF ServerIsRight, IsSteady
    <2> QED BY <1>6, <2>1 DEF ModelIsRight, SkippedModelIsRight, AnalysedModelIsRight
<1> QED BY <1>2, <1>5, <1>6, <1>7, <1>8, InMemory

\* What the lock is taken for changes nothing that is claimed.
LEMMA TakeLockKeeps ==
    ASSUME IndexInv, TakeLock
    PROVE  IndexInv'
<1> USE DEF IndexInv
<1>1. PICK pc \in {"ready", "writing"} : s' = [s EXCEPT !.pc = pc]
    BY DEF TakeLock
<1>2. s.pc = "analysed" /\ UNCHANGED <<text, time, manifest, symbols, model, b, taint, built>>
    BY DEF TakeLock, diskVars, artVars
<1>3. s \in ServerStates /\ NodesOK(s.model)
    BY DEF ArtifactsInv, IndexTypeOK, DataOK
<1>4. /\ s' \in ServerStates /\ s'.pc = pc /\ s'.man = s.man /\ s'.indexed = s.indexed
      /\ s'.cached = s.cached /\ s'.model = s.model /\ s'.how = s.how /\ s'.steady = s.steady
    BY <1>1, <1>3 DEF ServerStates
<1>5. Listed(s.man)' = Listed(s.man) /\ Existing' = Existing
    BY <1>2, <1>4 DEF Listed, Existing
<1>6. ServerIsRight'
    BY <1>2, <1>4, <1>5 DEF ServerIsRight, IsSteady
<1>7. ModelIsRight'
    BY <1>2, <1>4, <1>5 DEF ModelIsRight, SkippedModelIsRight, AnalysedModelIsRight
<1> QED BY <1>2, <1>3, <1>4, <1>6, <1>7, InMemory

\* What is analysed again includes what is dirty.
LEMMA DirtyIsExpanded ==
    ASSUME s.changed \subseteq Files
    PROVE  Dirty \subseteq Expanded
<1>1. Dirty \subseteq Files
    BY DEF Dirty
<1> QED BY <1>1 DEF Expanded

\* A decision to skip is right when the index is, and nodes of the regex parser that
\* are kept are of files that are not dirty.
LEMMA DecideKeeps ==
    ASSUME IndexInv, Decide
    PROVE  IndexInv'
<1> USE DEF IndexInv
<1> DEFINE how == IF s.cached /\ Dirty = {} THEN "skipped"
                  ELSE IF ~s.cached THEN "full"
                  ELSE IF WithinBudget THEN "incremental" ELSE "fallback"
           pc == IF how = "skipped" THEN "ready" ELSE "bulk"
           todo == IF how = "skipped" THEN {} ELSE Existing
           nodes == IF how = "incremental"
                    THEN [f \in Files |-> IF f \in Expanded THEN NoNodes ELSE s.model[f]]
                    ELSE s.model
<1>1. /\ s.pc = "loaded"
      /\ s' = [s EXCEPT !.pc = pc, !.how = how, !.todo = todo, !.changed = {}, !.model = nodes]
      /\ UNCHANGED <<text, time, manifest, symbols, model, b, taint, built>>
    BY DEF Decide, diskVars, artVars
<1>2. s \in ServerStates /\ NodesOK(s.model) /\ DataOK
    BY DEF ArtifactsInv, IndexTypeOK, DataOK
<1>3. how \in {"skipped", "full", "incremental", "fallback"} /\ pc \in {"ready", "bulk"}
      /\ todo \subseteq Files
    BY DEF Existing
<1>4. nodes \in Nodes /\ NodesOK(nodes)
    <2>1. NoNodes \in FileNodes /\ NoNodes.tier = 0
        BY DEF NoNodes, FileNodes
    <2>2. s.model \in [Files -> FileNodes]
        BY <1>2 DEF ServerStates, Nodes
    <2> HIDE DEF how
    <2>3. CASE how = "incremental"
        <3>1. nodes \in [Files -> FileNodes]
            BY <2>1, <2>2, <2>3
        <3>2. \A f \in Files : nodes[f].text = 0 => nodes[f].tier = 0
            BY <1>2, <2>1, <2>3 DEF NodesOK
        <3> QED BY <3>1, <3>2 DEF Nodes, NodesOK
    <2>4. CASE how # "incremental"
        BY <1>2, <2>2, <2>4 DEF Nodes
    <2> QED BY <2>3, <2>4
<1>5. /\ how = "skipped" => s.cached /\ Dirty = {} /\ pc = "ready"
      /\ how = "full" => ~s.cached
      /\ how = "incremental" => s.cached
      /\ how # "incremental" => nodes = s.model
      /\ how = "incremental" =>
            nodes = [f \in Files |-> IF f \in Expanded THEN NoNodes ELSE s.model[f]]
      /\ pc = "bulk" => todo = Existing
    OBVIOUS
<1> HIDE DEF how, pc, todo, nodes
<1>6. /\ s' \in ServerStates /\ s'.pc = pc /\ s'.man = s.man /\ s'.indexed = s.indexed
      /\ s'.cached = s.cached /\ s'.model = nodes /\ s'.how = how /\ s'.steady = s.steady
      /\ s'.todo = todo
    BY <1>1, <1>2, <1>3, <1>4 DEF ServerStates
<1>7. Listed(s.man)' = Listed(s.man) /\ Existing' = Existing
    BY <1>1, <1>6 DEF Listed, Existing
\* A file of the present model that is not dirty has its present text, or no nodes.
<1>8. ASSUME IsSteady, s.cached, taint = {}, NEW f \in Existing, f \notin Dirty
      PROVE  /\ f \in Listed(s.man) => s.model[f].text = text[f]
             /\ s.model[f].tier = 3 => s.model[f].text = text[f]
    <2>1. f \in Files /\ text[f] # 0
        BY DEF Existing
    <2>2. /\ s.model[f].text = s.man[f].sha /\ s.man = manifest.of
          /\ f \notin s.changed => (s.man[f].in => s.man[f].sha = text[f])
        BY <1>1, <1>8, <2>1 DEF ServerIsRight
    <2>3. f \in s.changed => s.man[f].sha = text[f]
        BY <1>8 DEF Dirty
    <2>4. s.man[f].in => s.model[f].text = text[f]
        BY <2>2, <2>3
    <2>5. ~s.man[f].in => s.man[f].sha = 0
        BY <1>2, <2>1, <2>2 DEF DataOK, EntryOK
    <2>6. ~s.man[f].in => s.model[f].tier = 0
        BY <1>2, <2>1, <2>2, <2>5 DEF NodesOK
    <2> QED BY <2>4, <2>6 DEF Listed
<1>9. ServerIsRight'
    <2> SUFFICES ASSUME s.steady
                 PROVE  /\ b.pc = "idle"
                        /\ s.indexed => s.man = manifest.of
                        /\ ~s.indexed => Listed(s.man) = {}
                        /\ s.cached => s.indexed
                        /\ pc = "bulk" => todo = Existing
                        /\ pc = "bulk" /\ how \in {"full", "incremental"} /\ taint = {} =>
                               \A f \in Existing : nodes[f].tier = 3 => nodes[f].text = text[f]
        BY <1>1, <1>3, <1>6, <1>7 DEF ServerIsRight, IsSteady
    <2>1. IsSteady
        BY <1>1 DEF IsSteady
    <2>2. /\ b.pc = "idle"
          /\ s.indexed => s.man = manifest.of
          /\ ~s.indexed => Listed(s.man) = {}
          /\ s.cached => s.indexed
          /\ ~s.cached => s.model = None(NoNodes)
        BY <1>1, <2>1 DEF ServerIsRight
    <2>3. ASSUME how \in {"full", "incremental"}, taint = {}, NEW f \in Existing,
                 nodes[f].tier = 3
          PROVE  nodes[f].text = text[f]
        <3>1. f \in Files /\ NoNodes.tier = 0 /\ None(NoNodes)[f] = NoNodes
            BY DEF Existing, NoNodes, None
        <3>2. how = "incremental"
            BY <1>5, <2>2, <2>3, <3>1
        <3>3. f \notin Expanded /\ nodes[f] = s.model[f]
            BY <1>5, <2>3, <3>1, <3>2
        <3>4. f \notin Dirty
            BY <1>2, <3>3, DirtyIsExpanded DEF ServerStates
        <3> QED BY <1>5, <1>8, <2>1, <2>3, <3>2, <3>3, <3>4
    <2> QED BY <1>5, <2>2, <2>3
<1>10. SkippedModelIsRight'
    <2> SUFFICES ASSUME how = "skipped", s.steady, taint = {}, NEW f \in Existing,
                        f \in Listed(s.man)
                 PROVE  nodes[f].text = text[f]
        BY <1>1, <1>6, <1>7 DEF SkippedModelIsRight
    <2> QED BY <1>1, <1>5, <1>8 DEF IsSteady
<1>11. AnalysedModelIsRight'
    <2>1. ~(pc = "ready" /\ how \in {"full", "incremental"})
        BY <1>5 DEF how, pc
    <2> QED BY <1>3, <1>6, <2>1 DEF AnalysedModelIsRight
<1> QED BY <1>1, <1>4, <1>6, <1>9, <1>10, <1>11, InMemory DEF ModelIsRight
-----------------------------------------------------------------------------
\* A bulk run that was not cancelled went over all the files of a scope that there
\* are; one that was leaves what was there.
LEMMA AnalyseKeeps ==
    ASSUME IndexInv, NEW done \in SUBSET Files, Analyse(done)
    PROVE  IndexInv'
<1> USE DEF IndexInv
<1> DEFINE how == IF done = s.todo \cap Scoped THEN s.how ELSE "cancelled"
           kept(f) == f \notin done \/ text[f] = 0 \/ s.model[f].tier = 3
           nodes == [f \in Files |-> IF kept(f) THEN s.model[f]
                                     ELSE [text |-> text[f], tier |-> 2]]
<1>1. /\ s.pc = "bulk" /\ done \subseteq s.todo \cap Scoped
      /\ s' = [s EXCEPT !.pc = "analysed", !.todo = {}, !.how = how, !.model = nodes]
      /\ UNCHANGED <<text, time, manifest, symbols, model, b, taint, built>>
    BY DEF Analyse, diskVars, artVars
<1>2. /\ s \in ServerStates /\ NodesOK(s.model) /\ text \in [Files -> Nat]
      /\ s.model \in [Files -> FileNodes]
    BY DEF ArtifactsInv, IndexTypeOK, DataOK, ServerStates, Nodes
<1>3. \A f \in Files : /\ nodes[f] \in FileNodes /\ (nodes[f].text = 0 => nodes[f].tier = 0)
                       /\ kept(f) => nodes[f] = s.model[f]
                       /\ ~kept(f) => nodes[f].text = text[f]
    BY <1>2 DEF NodesOK, FileNodes
<1>4. nodes \in Nodes /\ NodesOK(nodes)
    BY <1>3 DEF Nodes, NodesOK
<1>5. how \in {s.how, "cancelled"}
      /\ (how # "cancelled" /\ s.how # "cancelled" => done = s.todo \cap Scoped)
    OBVIOUS
<1>6. how # "cancelled" => how = s.how /\ (s.how # "cancelled" => done = s.todo \cap Scoped)
    BY <1>5
<1> HIDE DEF how, nodes
<1>7. /\ s' \in ServerStates /\ s'.pc = "analysed" /\ s'.man = s.man /\ s'.indexed = s.indexed
      /\ s'.cached = s.cached /\ s'.model = nodes /\ s'.how = how /\ s'.steady = s.steady
    BY <1>1, <1>2, <1>4, <1>5 DEF ServerStates
<1>8. Listed(s.man)' = Listed(s.man) /\ Existing' = Existing
    BY <1>1, <1>7 DEF Listed, Existing
<1>9. ServerIsRight'
    BY <1>1, <1>7, <1>8 DEF ServerIsRight, IsSteady
<1>10. SkippedModelIsRight'
    <2> SUFFICES ASSUME how = "skipped", s.steady, taint = {}, NEW f \in Existing,
                        f \in Listed(s.man)
                 PROVE  nodes[f].text = text[f]
        BY <1>1, <1>7, <1>8 DEF SkippedModelIsRight
    <2>1. s.model[f].text = text[f] /\ f \in Files
        BY <1>6 DEF ModelIsRight, SkippedModelIsRight, Existing
    <2> QED BY <1>3, <2>1
<1>11. AnalysedModelIsRight'
    <2> SUFFICES ASSUME how \in {"full", "incremental"}, s.steady,
                        NEW f \in Existing \cap Scoped
                 PROVE  nodes[f].text = text[f] \/ (taint # {} /\ nodes[f].tier = 3)
        BY <1>1, <1>7, <1>8 DEF AnalysedModelIsRight
    <2>1. f \in Files /\ text[f] # 0
        BY DEF Existing
    <2>2. /\ s.todo = Existing
          /\ s.how \in {"full", "incremental"} /\ taint = {} =>
                (s.model[f].tier = 3 => s.model[f].text = text[f])
        BY <1>1 DEF ServerIsRight, IsSteady
    <2>3. s.how = how /\ f \in done
        BY <1>6, <2>2
    <2>4. kept(f) => s.model[f].tier = 3
        BY <2>1, <2>3
    <2> QED BY <1>3, <2>1, <2>2, <2>3, <2>4
<1> QED BY <1>1, <1>4, <1>7, <1>9, <1>10, <1>11, InMemory DEF ModelIsRight

\* A server that writes its model beside a builder, or one that is not what the
\* manifest says, notes it.
LEMMA WriteSharedKeeps ==
    ASSUME IndexInv, WriteShared
    PROVE  IndexInv'
<1> USE DEF IndexInv, ArtifactsInv
<1>1. /\ s.pc = "writing" /\ model' = Complete(s.model) /\ s' = [s EXCEPT !.pc = "ready"]
      /\ UNCHANGED <<text, time, manifest, symbols, b, built>>
    BY DEF WriteShared, diskVars
<1>2. /\ taint \subseteq taint' /\ taint' \subseteq taint \cup {"server_write"}
      /\ taint' = {} => b.pc = "idle" /\ \A f \in Files : s.model[f].text = manifest.of[f].sha
    BY DEF WriteShared
<1>3. s \in ServerStates
    BY DEF IndexTypeOK
<1>4. /\ s' \in ServerStates /\ s'.pc = "ready" /\ s'.man = s.man /\ s'.indexed = s.indexed
      /\ s'.cached = s.cached /\ s'.model = s.model /\ s'.how = s.how /\ s'.steady = s.steady
    BY <1>1, <1>3 DEF ServerStates
<1>5. model'.of = s.model /\ model' \in [state : States, of : Nodes]
    BY <1>1, <1>3 DEF Complete, States, ServerStates
<1>6. Listed(s.man)' = Listed(s.man) /\ Existing' = Existing
    BY <1>1, <1>4 DEF Listed, Existing
<1>7. IndexTypeOK' /\ DataOK'
    BY <1>1, <1>4, <1>5 DEF IndexTypeOK, DataOK
<1>8. BuildIsRight' /\ IsWritten'
    BY <1>1, <1>2, <1>6 DEF BuildIsRight, Undisturbed, IsWritten
<1>9. SymbolsAgree' /\ TimeTells' /\ IndexDescribesFiles'
    BY <1>1, <1>2, <1>6 DEF SymbolsAgree, TimeTells, IndexDescribesFiles
<1>10. ModelAgrees'
    BY <1>1, <1>2, <1>5 DEF ModelAgrees
<1>11. ServerIsRight'
    BY <1>1, <1>4, <1>6 DEF ServerIsRight, IsSteady
<1>12. ModelIsRight'
    BY <1>1, <1>2, <1>4, <1>6 DEF ModelIsRight, SkippedModelIsRight, AnalysedModelIsRight
<1> QED BY <1>7, <1>8, <1>9, <1>10, <1>11, <1>12

\* A server that ends may leave the pickle cut off, and makes no claim.
LEMMA StopKeeps ==
    ASSUME IndexInv, Stop
    PROVE  IndexInv'
<1> USE DEF IndexInv, ArtifactsInv
<1>1. /\ model' \in {model, Torn(model)} /\ s' = Down
      /\ UNCHANGED <<text, time, manifest, symbols, b, taint, built>>
    BY DEF Stop, diskVars
<1>2. model \in [state : States, of : [Files -> FileNodes]]
    BY DEF IndexTypeOK, Nodes
<1>3. /\ model'.of = model.of /\ model' \in [state : States, of : Nodes]
      /\ model'.state = "ok" => model' = model
    BY <1>1, <1>2 DEF Torn, States, Nodes
<1>4. s' \in ServerStates /\ NodesOK(s'.model) /\ s'.pc = "down" /\ s'.how = "none"
    BY <1>1 DEF Down, None, NoEntry, NoNodes, NodesOK, Entries, FileNodes, Manifests,
                SymbolTables, Nodes, States, Writing, Builders, ServerStates
<1>5. IndexTypeOK' /\ DataOK'
    BY <1>1, <1>3, <1>4 DEF IndexTypeOK, DataOK
<1>6. BuildIsRight' /\ IsWritten' /\ SymbolsAgree' /\ TimeTells' /\ IndexDescribesFiles'
    BY <1>1 DEF BuildIsRight, Undisturbed, IsWritten, SymbolsAgree, TimeTells,
                IndexDescribesFiles, Existing
<1>7. ModelAgrees'
    BY <1>1, <1>3 DEF ModelAgrees
<1>8. ServerIsRight' /\ ModelIsRight'
    <2>1. (s'.pc = "down" => s'.how = "none") /\ ~IsSteady'
        BY <1>4 DEF IsSteady
    <2> QED BY <2>1, OnlyTheSteadyNext
<1> QED BY <1>5, <1>6, <1>7, <1>8
-----------------------------------------------------------------------------
\* A step in which nothing happens keeps all of it.
LEMMA IdleKeeps == IndexInv /\ UNCHANGED vars => IndexInv'
<1> SUFFICES ASSUME IndexInv, UNCHANGED vars PROVE IndexInv'
    OBVIOUS
<1> USE DEF IndexInv
<1>1. UNCHANGED <<text, time, manifest, symbols, model, b, s, taint, built>>
    BY DEF vars, diskVars, artVars
<1>2. s' \in ServerStates /\ NodesOK(s'.model)
    BY <1>1 DEF ArtifactsInv, IndexTypeOK, DataOK
<1>3. Listed(s.man)' = Listed(s.man) /\ Existing' = Existing
    BY <1>1 DEF Listed, Existing
<1>4. ServerIsRight'
    BY <1>1, <1>3 DEF ServerIsRight, IsSteady
<1>5. ModelIsRight'
    BY <1>1, <1>3 DEF ModelIsRight, SkippedModelIsRight, AnalysedModelIsRight
<1> QED BY <1>1, <1>2, <1>4, <1>5, InMemory

\* For any files, and any edits, builds, starts and crashes in any order, the
\* artifacts, the builder and the server agree as far as `taint' says they do.
THEOREM IndexInductive == Spec => []IndexInv
<1>1. IndexInv /\ [Next]_vars => IndexInv'
    <2> SUFFICES ASSUME IndexInv, [Next]_vars PROVE IndexInv'
        OBVIOUS
    <2>1. ASSUME NEW f \in Files, NEW t \in Texts, NEW kind \in Edits[f], Edit(f, kind, t)
          PROVE  IndexInv'
        BY <2>1, EditKeeps
    <2>2. ASSUME NEW force \in BOOLEAN, NEW all \in BOOLEAN, StartBuild(force, all)
          PROVE  IndexInv'
        BY <2>2, StartBuildKeeps
    <2>3. ASSUME NEW f \in Files, NEW o \in Outcomes[f], Read(f, o)
          PROVE  IndexInv'
        BY <2>3, ReadKeeps
    <2>4. ASSUME NEW fails \in BOOLEAN, BuildModels(fails)
          PROVE  IndexInv'
        BY <2>4, BuildModelsKeeps
    <2>5. ASSUME NEW done \in SUBSET Files, Analyse(done)
          PROVE  IndexInv'
        BY <2>5, AnalyseKeeps
    <2>6. CASE Classify \/ Stat \/ WriteArtifact \/ WritePickle \/ Crash
        BY <2>6, ClassifyKeeps, StatKeeps, WriteArtifactKeeps, WritePickleKeeps, CrashKeeps
    <2>7. CASE LoadManifest \/ LoadModel \/ Decide
        BY <2>7, LoadManifestKeeps, LoadModelKeeps, DecideKeeps
    <2>8. CASE TakeLock \/ WriteShared \/ Stop
        BY <2>8, TakeLockKeeps, WriteSharedKeeps, StopKeeps
    <2>9. CASE UNCHANGED vars
        BY <2>9, IdleKeeps
    <2> QED BY <2>1, <2>2, <2>3, <2>4, <2>5, <2>6, <2>7, <2>8, <2>9 DEF Next
<1> QED BY <1>1, IndexInit, PTL DEF Spec

\* Unless a builder was killed or a file was edited during a build, an index built
\* after the last edit gives every file its hash, and in the other artifacts its text
\* or nothing (classify_files, _extract_one_file, write_index_artifacts).
THEOREM IndexDescribes == Spec => []IndexDescribesFiles
<1>1. IndexInv => IndexDescribesFiles
    BY DEF IndexInv, ArtifactsInv
<1> QED BY <1>1, IndexInductive, PTL

\* A start that skips the bulk analysis has a model of the present texts, and one that
\* does not skip it ends with one (_start_bulk_analysis, _validate_changes,
\* run_bulk_t1_t2), except in the ways `taint' names.
THEOREM ModelRight == Spec => []ModelIsRight
<1>1. IndexInv => ModelIsRight
    BY DEF IndexInv
<1> QED BY <1>1, IndexInductive, PTL
=============================================================================
