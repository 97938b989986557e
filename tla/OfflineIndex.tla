---------------------------- MODULE OfflineIndex ----------------------------
(***************************************************************************)
(* The .ivy-index directory of one protocol: the builder that writes it    *)
(* (lsp/index_builder.py, index_cache.py, index_writer.py), the language   *)
(* server that loads it (core/workspace/context.py,                        *)
(* lsp/offline_index_loader.py), decides what to analyse again and writes  *)
(* its model back (lsp/bulk_orchestrator.py), and the files they are       *)
(* about, which are edited meanwhile.  None of the readers and writers     *)
(* looks at more than one artifact at a time, and the lock file guards     *)
(* the pickles only.                                                       *)
(*                                                                         *)
(* A text is a number, 0 when there is no such file, and stands for its    *)
(* own hash.  A modification time is a number too, and two of them are     *)
(* equal when they are less than the tolerance of a second apart: an edit  *)
(* may leave the time where it was.  `taint' records how the artifacts may *)
(* have come to disagree.                                                  *)
(***************************************************************************)
EXTENDS Naturals, FiniteSets

CONSTANTS Files, Includes,     \* include graph: [Files -> SUBSET Files]
          Scoped,              \* files that are in the scope of a test
          Outcomes,            \* of a file: the tiers that may parse it, 0 if none
          Edits,               \* of a file: what may happen to it
          MaxText, MaxEdits, MaxBuilds, MaxRuns, MaxCrashes

ASSUME OfflineAssumption ==
    /\ IsFiniteSet(Files) /\ Includes \in [Files -> SUBSET Files]
    /\ Outcomes \in [Files -> SUBSET {0, 1, 3}]
    /\ Edits \in [Files -> SUBSET {"edit", "quick_edit", "remove", "touch"}]
    /\ {MaxText, MaxEdits, MaxBuilds, MaxRuns, MaxCrashes} \subseteq Nat

VARIABLES text, time,                      \* the files
          manifest, symbols, model,        \* the artifacts
          lock,                            \* .build.lock is held by the server
          b, s,                            \* the builder, the server
          taint, built, counts

diskVars == <<text, time>>
artVars == <<manifest, symbols, model>>
vars == <<text, time, manifest, symbols, model, lock, b, s, taint, built,
          counts>>

Texts == 0 .. MaxText
None(v) == [f \in Files |-> v]
NoEntry == [in |-> FALSE, sha |-> 0, time |-> 0, tier |-> 0]
NoNodes == [text |-> 0, tier |-> 0]

\* An artifact on disk: absent, cut off in the middle, or complete.
Absent(v) == [state |-> "absent", of |-> None(v)]
Torn(a) == [state |-> "torn", of |-> [f \in Files |-> a.of[f]]]
Complete(v) == [state |-> "ok", of |-> v]

Idle == [pc |-> "idle", force |-> FALSE, todo |-> {}, sha |-> None(0),
         man |-> None(NoEntry), sym |-> None(0), mod |-> None(NoNodes),
         ok |-> FALSE, file |-> {}]
Down == [pc |-> "down", man |-> None(NoEntry), indexed |-> FALSE,
         cached |-> FALSE, changed |-> {}, model |-> None(NoNodes), todo |-> {},
         how |-> "none", steady |-> TRUE]

Init == /\ text = None(1)
        /\ time = None(1)
        /\ manifest = Absent(NoEntry) /\ symbols = Absent(0)
        /\ model = Absent(NoNodes)
        /\ lock = FALSE /\ b = Idle /\ s = Down
        /\ taint = {} /\ built = FALSE
        /\ counts = [edits |-> 0, builds |-> 0, starts |-> 0, crashes |-> 0]

(***************************************************************************)
(* The user                                                                *)
(***************************************************************************)
\* A file gets another text, or goes, or is saved as it was.  Not every edit moves
\* the modification time by more than the tolerance.
Edit(f, kind, t) ==
    /\ kind \in Edits[f] /\ counts.edits < MaxEdits
    /\ CASE kind \in {"edit", "quick_edit"} -> t \notin {0, text[f]}
         [] kind = "remove" -> t = 0 /\ text[f] # 0
         [] kind = "touch" -> t = text[f] /\ t # 0
    /\ text' = [text EXCEPT ![f] = t]
    /\ time' = IF kind \in {"edit", "touch"} THEN [time EXCEPT ![f] = @ + 1] ELSE time
    /\ taint' = taint \cup ({kind} \cap {"quick_edit"})
                      \cup (IF b.pc # "idle" /\ kind # "touch" THEN {"edit_in_build"}
                            ELSE {})
    /\ built' = (built /\ kind = "touch")
    /\ s' = [s EXCEPT !.steady = @ /\ kind = "touch"]
    /\ counts' = [counts EXCEPT !.edits = @ + 1]
    /\ UNCHANGED <<artVars, lock, b>>

(***************************************************************************)
(* Staleness                                                               *)
(***************************************************************************)
Listed(man) == {f \in Files : man[f].in}

\* _check_staleness and check_status: a file that is not in the manifest is not
\* looked at.
Changed(man) == {f \in Listed(man) : text[f] = 0 \/ man[f].time # time[f]}

Fresh(man) == Listed(man) # {} /\ Changed(man) = {}

(***************************************************************************)
(* IndexBuilder                                                            *)
(***************************************************************************)
Existing == {f \in Files : text[f] # 0}

\* build_all skips an index that is fresh unless it is forced; build_protocol
\* does not ask.  Without files there is nothing to do.
StartBuild(force, all) ==
    /\ b.pc = "idle" /\ counts.builds < MaxBuilds
    /\ counts.builds + counts.starts < MaxRuns
    /\ Existing # {}
    /\ all /\ ~force => ~(manifest.state = "ok" /\ Fresh(manifest.of))
    /\ b' = [Idle EXCEPT !.pc = "classify", !.force = force]
    /\ s' = [s EXCEPT !.steady = FALSE]
    /\ counts' = [counts EXCEPT !.builds = @ + 1]
    /\ UNCHANGED <<diskVars, artVars, lock, taint, built>>

\* Mutant: an entry of the cache is a hit whatever its hash.
HitOfAnyHash(f) ==
    /\ manifest.of[f].in /\ manifest.of[f].sha # 0
    /\ symbols.of[f] # 0

Hit(f) == /\ manifest.of[f].sha = text[f]
          /\ manifest.of[f].in /\ symbols.of[f] # 0

\* load_cached_index and classify_files.  A hit keeps its entry as it was, the
\* old modification time included; a miss notes the hash of the file as it is
\* now, unless the whole cache is set aside.
Classify ==
    /\ b.pc = "classify"
    /\ LET valid == ~b.force /\ {manifest.state, symbols.state} = {"ok"}
           hits == {f \in Existing : valid /\ Hit(f)}
       IN  b' = [b EXCEPT !.pc = "extract", !.todo = Existing \ hits,
                   !.sha = [f \in Files |->
                              IF valid /\ f \in Existing \ hits THEN text[f] ELSE 0],
                   !.man = [f \in Files |-> IF f \in hits THEN manifest.of[f]
                                            ELSE NoEntry],
                   !.sym = [f \in Files |-> IF f \in hits THEN symbols.of[f] ELSE 0]]
    /\ UNCHANGED <<diskVars, artVars, lock, s, taint, built, counts>>

\* The files in the order of their list.
NextFile == CHOOSE f \in b.todo : TRUE

\* _extract_one_file reads and parses the file ...
Read(f, outcome) ==
    /\ b.pc = "extract" /\ b.todo # {} /\ b.file = {} /\ f = NextFile
    /\ LET sha == IF b.sha[f] # 0 THEN b.sha[f] ELSE text[f]
       IN  IF text[f] = 0
           THEN b' = [b EXCEPT !.todo = @ \ {f},
                        !.man[f] = [NoEntry EXCEPT !.in = TRUE]]
           ELSE b' = [b EXCEPT !.file = {f},
                        !.sym[f] = IF outcome = 0 THEN 0 ELSE text[f],
                        !.man[f] = [in |-> TRUE, sha |-> sha, time |-> 0,
                                    tier |-> outcome]]
    /\ UNCHANGED <<diskVars, artVars, lock, s, taint, built, counts>>

\* ... and asks for its modification time afterwards.
Stat ==
    /\ b.pc = "extract"
    /\ \E f \in b.file :
          b' = [b EXCEPT !.file = {}, !.todo = @ \ {f},
                  !.man[f].time = IF text[f] = 0 THEN 0 ELSE time[f]]
    /\ UNCHANGED <<diskVars, artVars, lock, s, taint, built, counts>>

\* _build_models: nodes come from the symbols that were extracted, and for a file
\* without any from the file once more.  The build as a whole may fail.
BuildModels(fails) ==
    /\ b.pc = "extract" /\ b.todo = {}
    /\ b' = [b EXCEPT !.pc = "manifest", !.ok = ~fails, !.sha = None(0),
               !.mod = [f \in Files |->
                          IF text[f] = 0 \/ ~b.man[f].in \/ fails THEN NoNodes
                          ELSE IF b.sym[f] # 0
                          THEN [text |-> b.sym[f], tier |-> b.man[f].tier]
                          ELSE [text |-> text[f], tier |-> 3]]]
    /\ UNCHANGED <<diskVars, artVars, lock, s, taint, built, counts>>

\* write_index_artifacts, one file after the other; `symbols' stands for the five
\* that come after the manifest.
Write ==
    \/ /\ b.pc = "manifest"
       /\ manifest' = Complete(b.man) /\ b' = [b EXCEPT !.pc = "symbols"]
       /\ UNCHANGED <<symbols, model>>
    \/ /\ b.pc = "symbols"
       /\ symbols' = Complete(b.sym) /\ b' = [b EXCEPT !.pc = "pickle"]
       /\ UNCHANGED <<manifest, model>>

WriteArtifact == Write /\ UNCHANGED <<diskVars, lock, s, taint, built, counts>>

\* The pickles need the lock, and are left out when somebody has it or there is
\* no model.  What such a build leaves right is right again: all of it when it was
\* forced, else what an entry of the cache cannot hide.
WritePickle ==
    /\ b.pc = "pickle"
    /\ model' = IF b.ok /\ ~lock THEN Complete(b.mod) ELSE model
    /\ taint' = IF "edit_in_build" \in taint THEN taint
                ELSE IF ~b.ok \/ lock THEN (taint \ {"quick_edit"}) \cup {"no_model"}
                ELSE IF b.force THEN {} ELSE taint \cap {"crash"}
    /\ built' = TRUE
    /\ b' = Idle
    /\ UNCHANGED <<diskVars, manifest, symbols, lock, s, counts>>

\* The builder is killed, and the file that is being written may be cut off; one
\* that is killed earlier leaves no trace.
Crash ==
    /\ b.pc \in {"manifest", "symbols", "pickle"} /\ counts.crashes < MaxCrashes
    /\ \E cut \in BOOLEAN :
          LET After(a, pc) == IF cut /\ b.pc = pc THEN Torn(a) ELSE a
          IN  /\ manifest' = After(manifest, "manifest")
              /\ symbols' = After(symbols, "symbols")
              /\ model' = IF cut /\ b.pc = "pickle" /\ b.ok /\ ~lock
                          THEN Torn(model) ELSE model
    /\ taint' = taint \cup {"crash"}
    /\ b' = Idle
    /\ counts' = [counts EXCEPT !.crashes = @ + 1]
    /\ UNCHANGED <<diskVars, lock, s, built>>

(***************************************************************************)
(* The language server                                                     *)
(***************************************************************************)
\* A file that is just being written may be read half.
Seen(a, pc) == IF b.pc = pc THEN {a, Torn(a)} ELSE {a}

\* _load_protocol_index: the manifest first; without one there is no index.
LoadManifest ==
    /\ s.pc = "down" /\ counts.builds + counts.starts < MaxRuns
    /\ \E man \in Seen(manifest, "manifest") :
          s' = [Down EXCEPT !.pc = "loading", !.indexed = (man.state = "ok"),
                  !.steady = (b.pc = "idle"), !.man = IF man.state = "ok" THEN man.of ELSE None(NoEntry)]
    /\ counts' = [counts EXCEPT !.starts = @ + 1]
    /\ UNCHANGED <<diskVars, artVars, lock, b, taint, built>>

\* Then the pickle, and what has changed since the manifest was written;
\* populate_from_offline_index merges what was loaded.
LoadModel ==
    /\ s.pc = "loading"
    /\ \E mod \in Seen(model, "pickle") :
          LET cached == s.indexed /\ mod.state = "ok"
          IN  s' = [s EXCEPT !.pc = "loaded", !.changed = Changed(s.man),
                      !.cached = cached,
                      !.model = IF cached THEN mod.of ELSE @]
    /\ UNCHANGED <<diskVars, artVars, lock, b, taint, built, counts>>

\* Mutant: only the files that are gone are changes.
DirtyIfGone == {f \in s.changed : text[f] = 0}

\* _validate_changes: of the files whose time has moved, those whose text has.
Dirty == {f \in s.changed : text[f] = 0 \/ s.man[f].sha = 0
                            \/ s.man[f].sha # text[f]}

\* _expand_dirty_set: the changed files and all that reach one through includes.
Expanded ==
    {f \in Files : \A up \in SUBSET Files :
        (Dirty \subseteq up /\ \A g \in Files : Includes[g] \cap up # {} => g \in up)
        => f \in up}

\* CASCADE_BUDGET_RATIO is a half.
WithinBudget == 2 * Cardinality(Expanded) <= Cardinality(Existing)

\* Mutant: the files that are analysed again keep their old nodes.
DecideKeepsNodes ==
    /\ s.pc = "loaded" /\ Existing # {}
    /\ LET how == IF s.cached /\ Dirty = {} THEN "skipped"
                  ELSE IF ~s.cached THEN "full"
                  ELSE IF WithinBudget THEN "incremental" ELSE "fallback"
       IN  s' = [s EXCEPT !.pc = IF how = "skipped" THEN "ready" ELSE "bulk",
                   !.how = how, !.todo = IF how = "skipped" THEN {} ELSE Existing,
                   !.changed = {}]
    /\ UNCHANGED <<diskVars, artVars, lock, b, taint, built, counts>>

\* _start_bulk_analysis._run: nothing to do when the cached model is fresh, or
\* when every file whose time moved has its old text; else the nodes of what is
\* to be analysed again are removed, unless that is more than the budget.  The
\* pipeline did not exist when the index was loaded and has no file marked as
\* analysed, so that the bulk run goes over all the files in any case.
Decide ==
    /\ s.pc = "loaded" /\ Existing # {}
    /\ LET how == IF s.cached /\ Dirty = {} THEN "skipped"
                  ELSE IF ~s.cached THEN "full"
                  ELSE IF WithinBudget THEN "incremental" ELSE "fallback"
       IN  s' = [s EXCEPT !.pc = IF how = "skipped" THEN "ready" ELSE "bulk",
                   !.how = how, !.todo = IF how = "skipped" THEN {} ELSE Existing,
                   !.changed = {},
                   !.model = IF how = "incremental"
                             THEN [f \in Files |-> IF f \in Expanded THEN NoNodes
                                                   ELSE @[f]]
                             ELSE @]
    /\ UNCHANGED <<diskVars, artVars, lock, b, taint, built, counts>>

\* run_bulk_t1_t2 reads the files that are in a scope (`_files_in_any_scope') and
\* updates their nodes at tiers 1 and 2, which leaves nodes labelled tier 3 as they
\* are: those of the regex parser.  A shutdown cancels it after some of the files,
\* and what follows is done all the same.  (An edit between two files is one
\* before or after the run here; AnalysisPipeline has the steps.)
Analyse(done) ==
    /\ s.pc = "bulk" /\ done \subseteq s.todo \cap Scoped
    /\ s' = [s EXCEPT !.pc = "analysed", !.todo = {},
               !.how = IF done = s.todo \cap Scoped THEN @ ELSE "cancelled",
               !.model = [f \in Files |->
                            IF f \notin done \/ text[f] = 0 \/ @[f].tier = 3 THEN @[f]
                            ELSE [text |-> text[f], tier |-> 2]]]
    /\ UNCHANGED <<diskVars, artVars, lock, b, taint, built, counts>>

\* _write_shared_cache, into every .ivy-index there is.
TakeLock ==
    /\ s.pc = "analysed"
    /\ IF manifest.state = "absent"
       THEN s' = [s EXCEPT !.pc = "ready"] /\ UNCHANGED lock
       ELSE s' = [s EXCEPT !.pc = "writing"] /\ lock' = TRUE
    /\ UNCHANGED <<diskVars, artVars, b, taint, built, counts>>

\* The model replaces what the builder wrote; the manifest stays, and may now be
\* about other texts.
WriteShared ==
    /\ s.pc = "writing"
    /\ model' = Complete(s.model) /\ lock' = FALSE
    /\ s' = [s EXCEPT !.pc = "ready"]
    /\ taint' = taint \cup
          (IF b.pc = "idle" /\ \A f \in Files : s.model[f].text = manifest.of[f].sha
           THEN {} ELSE {"server_write"})
    /\ UNCHANGED <<diskVars, manifest, symbols, b, built, counts>>

\* The server ends, and with it the lock; before it writes it leaves no trace.
Stop ==
    /\ s.pc \in {"writing", "ready"}
    /\ model' = IF s.pc = "writing" THEN Torn(model) ELSE model
    /\ s' = Down /\ lock' = FALSE
    /\ UNCHANGED <<diskVars, manifest, symbols, b, taint, built, counts>>

Next ==
    \/ \E f \in Files, t \in Texts : \E kind \in Edits[f] : Edit(f, kind, t)
    \/ \E force, all \in BOOLEAN : StartBuild(force, all)
    \/ Classify \/ (\E f \in Files : \E o \in Outcomes[f] : Read(f, o)) \/ Stat
    \/ (\E fails \in BOOLEAN : BuildModels(fails))
    \/ WriteArtifact \/ WritePickle \/ Crash
    \/ LoadManifest \/ LoadModel \/ Decide
    \/ (\E done \in SUBSET Files : Analyse(done)) \/ TakeLock \/ WriteShared \/ Stop

Spec == Init /\ [][Next]_vars

(***************************************************************************)
(* Properties                                                              *)
(***************************************************************************)
\* Unless a builder was killed or a file was edited during a build, an index that
\* was built after the last edit says of every file what is in it: its hash, and
\* in the other artifacts its text or nothing (_extract_one_file, classify_files,
\* write_index_artifacts).
IndexDescribesFiles ==
    built /\ b.pc = "idle" /\ taint \cap {"crash", "edit_in_build"} = {} =>
        \A f \in Existing :
            /\ manifest.of[f].in /\ manifest.of[f].sha = text[f]
            /\ symbols.of[f] \in {0, text[f]}

\* Bulk analysis that is skipped because the cached model is fresh, or its files
\* have the hashes of the manifest, is skipped with a model of the present texts
\* of the files in the manifest: `taint' names every way this can be wrong.
SkippedModelIsRight ==
    s.how = "skipped" /\ s.steady /\ taint = {} =>
        \A f \in Existing \cap Listed(s.man) : s.model[f].text = text[f]

\* A full or incremental bulk run leaves a model of the present texts of the files
\* in a scope; only nodes of the regex parser may be as old as an index that is
\* wrong.
AnalysedModelIsRight ==
    s.pc \in {"analysed", "writing", "ready"} /\ s.how \in {"full", "incremental"}
    /\ s.steady =>
        \A f \in Existing \cap Scoped :
            s.model[f].text = text[f] \/ (taint # {} /\ s.model[f].tier = 3)
=============================================================================
