-------------------------- MODULE AnalysisPipeline --------------------------
(***************************************************************************)
(* AnalysisPipeline (core/semantic/analysis_pipeline.py) over a            *)
(* SemanticModel: the tiers of one file as analyze() runs them for the     *)
(* editor and as the deep indexer runs them, and the bulk T1/T2 run over   *)
(* the workspace.  All of these are threads that share the model, the      *)
(* tracking sets and the tier-3 state; a compilation answers in a thread   *)
(* of its own.  The bulk tier 3 is BulkCompilation.                        *)
(***************************************************************************)
EXTENDS SemanticModel, Sequences, FiniteSets

CONSTANTS Calls,        \* threads that run the tiers of one file
          TriggerOf,    \* of a call: "change", "save", "command", or "index"
                        \*   for the deep indexer, which does not track state
          FileOfCall,
          TestOf,       \* enclosing test of a file, or the file itself for none
          Exporting,    \* files whose source has an export
          BulkFiles,    \* files of the bulk run
          Scoped,       \* files in the closure of some test
          Edited,       \* files whose text may change
          Faulty,       \* files that may be unreadable, or raise when analysed
          Annotated,    \* ids of the annotations in a <<file, text>>
          Declared,     \* <<id, type>> its syntax tree declares
          Unparsable,   \* <<file, text>> without a syntax tree
          Compiled,     \* <<id, type>> its compilation knows
          EdgesIn,      \* edges found by tier 2 and by tier 3
          Starts,       \* models the pipeline may be given
          MaxText,      \* bound on the texts a file has had
          Workers,      \* bulk_workers
          ParallelAbove,\* more files than this are analysed in parallel (3)
          MaxResults    \* _T3_MAX_RESULTS

VARIABLES model, text,          \* text: of a file, the one now on disk and open
          tier1Files, tier2Files, gen,
          results,              \* _tier3_results, oldest key first
          pending, busy,        \* _tier3.pending, _tier3.running
          call,                 \* of each call: where it is and what it knows
          cached,               \* text of the compiler manager's cached IR, or 0
          bulk,                 \* the bulk run: _bulk and its local state
          task                  \* of each file: its task in the bulk run

tierVars == <<tier1Files, tier2Files, gen>>
tier3Vars == <<results, pending, busy, cached>>
bulkVars == <<bulk, task>>
vars == <<model, text, tierVars, tier3Vars, call, bulkVars>>

TextNos == 1 .. MaxText
IdsIn(f) == {i \in Ids : FileOf[i] = f}

\* The nodes a file has in a model at one tier were all read from one text.
OneText(m) ==
    \A i, j \in Present(m) :
        (FileOf[i] = FileOf[j] /\ RankOf(m, i) = RankOf(m, j))
            => m.node[i].text = m.node[j].text

\* A tier of a file makes nodes of this file: an id begins with its path.  A model
\* that was restored is one that an earlier run left.
ASSUME PipelineAssumption ==
    /\ IsFiniteSet(Calls) /\ FileOfCall \in [Calls -> Files]
    /\ TestOf \in [Files -> Files] /\ MaxText \in Nat \ {0} /\ TextNos \subseteq Texts
    /\ "annotation" \in Types /\ ParallelAbove \in Nat
    /\ IsFiniteSet(BulkFiles) /\ BulkFiles \subseteq Files
    /\ \A f \in Files, x \in TextNos :
          /\ Annotated[<<f, x>>] \subseteq IdsIn(f)
          /\ Declared[<<f, x>>] \cup Compiled[<<f, x>>] \subseteq IdsIn(f) \X Types
          /\ EdgesIn["tier2"][<<f, x>>] \cup EdgesIn["tier3"][<<f, x>>] \subseteq Edges
    /\ Starts \subseteq {m \in Models : Coherent(m) /\ OneText(m)}

NodesOf(pairs, x) == {[id |-> p[1], type |-> p[2], text |-> x] : p \in pairs}
Annotations(f, x) == NodesOf(Annotated[<<f, x>>] \X {"annotation"}, x)

\* What tier 2 and tier 3 give the model; without a syntax tree tier 2 gives
\* the annotations alone.
Tier2Nodes(f, x) ==
    Annotations(f, x) \cup
    (IF <<f, x>> \in Unparsable THEN {} ELSE NodesOf(Declared[<<f, x>>], x))
Tier2Edges(f, x) == IF <<f, x>> \in Unparsable THEN {}
                    ELSE EdgesIn["tier2"][<<f, x>>]

\* The two halves of run_tier1 and of run_tier2: the model's update, and the
\* tracking under the state lock.
Tier1Model(f, x) == model' = UpdateFile(model, f, Annotations(f, x), {}, 1)
Tier1Track(f) == /\ gen' = [gen EXCEPT ![f] = @ + 1]
                 /\ tier1Files' = tier1Files \cup {f}
                 /\ UNCHANGED tier2Files
Tier2Model(f, x) ==
    model' = UpdateFile(model, f, Tier2Nodes(f, x), Tier2Edges(f, x), 2)
Tier2Track(f) == /\ tier2Files' = tier2Files \cup {f}
                 /\ UNCHANGED <<tier1Files, gen>>

Idle == [at |-> "idle", file |-> "", text |-> 0, gen |-> 0, ok |-> FALSE]
NoBulk == [at |-> "idle", t2 |-> FALSE, list |-> <<>>, next |-> 1,
           t1Done |-> 0, t2Done |-> 0, errors |-> {}, cancelled |-> FALSE,
           running |-> FALSE, completed |-> 0]
NoTask == [at |-> "none", text |-> 0]

\* The model may come from an offline index, which may mark its files as
\* analysed (mark_files_analyzed).
Init ==
    /\ model \in Starts
    /\ text = [f \in Files |-> 1]
    /\ tier1Files \in {{}, {FileOf[i] : i \in Present(model)}}
    /\ tier2Files = tier1Files
    /\ gen = [f \in Files |-> 0]
    /\ results = <<>> /\ pending = 0 /\ busy = FALSE
    /\ cached = [f \in Files |-> 0]
    /\ call = [c \in Calls |-> Idle]
    /\ bulk = NoBulk
    /\ task = [f \in Files |-> NoTask]

(***************************************************************************)
(* One file: analyze(), and the deep indexer's inline tiers                *)
(***************************************************************************)
Tracked(c) == TriggerOf[c] # "index"
At(c, point) == call' = [call EXCEPT ![c].at = point]
Go(c, from, to) == call[c].at = from /\ At(c, to)

Begin(c) ==
    /\ call[c].at = "idle"
    /\ call' = [call EXCEPT ![c] = [Idle EXCEPT
            !.at = IF TriggerOf[c] = "command" THEN "target" ELSE "tier1",
            !.file = FileOfCall[c], !.text = text[FileOfCall[c]]]]
    /\ UNCHANGED <<model, text, tierVars, tier3Vars, bulkVars>>

CallTier1Model(c) ==
    /\ Go(c, "tier1", "tier1Track")
    /\ Tier1Model(call[c].file, call[c].text)
    /\ UNCHANGED <<text, tierVars, tier3Vars, bulkVars>>

CallTier1Track(c) ==
    /\ Go(c, "tier1Track", "tier2")
    /\ Tier1Track(call[c].file)
    /\ UNCHANGED <<model, text, tier3Vars, bulkVars>>

\* The deep indexer comes to the tiers after a parse of its own: with none
\* it runs tier 1 only.
CallTier2Model(c) ==
    /\ IF ~Tracked(c) /\ <<call[c].file, call[c].text>> \in Unparsable
       THEN Go(c, "tier2", "done") /\ UNCHANGED model
       ELSE /\ Go(c, "tier2", "tier2Track")
            /\ Tier2Model(call[c].file, call[c].text)
    /\ UNCHANGED <<text, tierVars, tier3Vars, bulkVars>>

CallTier2Track(c) ==
    /\ call[c].at = "tier2Track"
    /\ At(c, CASE TriggerOf[c] = "change" -> "done"
               [] TriggerOf[c] = "save" -> "target"
               [] OTHER -> "note")
    /\ Tier2Track(call[c].file)
    /\ UNCHANGED <<model, text, tier3Vars, bulkVars>>

\* A file that a test encloses is compiled through that test, read from disk;
\* otherwise it must have an export of its own.
Redirect(c) ==
    LET test == TestOf[call[c].file]
    IN  /\ call[c].at = "target"
        /\ \/ /\ test # call[c].file
              /\ call' = [call EXCEPT ![c] = [@ EXCEPT !.at = "note",
                              !.file = test, !.text = text[test]]]
           \/ /\ test = call[c].file \/ test \in Faulty
              /\ At(c, IF call[c].file \in Exporting THEN "note" ELSE "done")
        /\ UNCHANGED <<model, text, tierVars, tier3Vars, bulkVars>>

NoteGeneration(c) ==
    /\ call[c].at = "note"
    /\ call' = [call EXCEPT ![c] = [@ EXCEPT !.at = "flag",
                                             !.gen = gen[call[c].file]]]
    /\ UNCHANGED <<model, text, tierVars, tier3Vars, bulkVars>>

RaiseFlag(c) ==
    /\ Go(c, "flag", "submit")
    /\ IF Tracked(c) THEN busy' = TRUE /\ UNCHANGED pending
                     ELSE pending' = pending + 1 /\ UNCHANGED busy
    /\ UNCHANGED <<model, text, tierVars, results, cached, bulkVars>>

LowerFlag(c) ==
    IF Tracked(c) THEN busy' = FALSE /\ UNCHANGED pending
    ELSE /\ pending' = IF pending = 0 THEN 0 ELSE pending - 1
         /\ UNCHANGED busy

\* Mutant: the flag or the count stays when the compiler raised.
SubmitRaisesLeavesFlag(c) ==
    /\ Go(c, "submit", "done")
    /\ UNCHANGED <<model, text, tierVars, tier3Vars, bulkVars>>

\* compile_background: the call's thread is done, or the compiler raised.
Submit(c) ==
    /\ Go(c, "submit", "compiling")
    /\ UNCHANGED <<model, text, tierVars, tier3Vars, bulkVars>>
SubmitRaises(c) ==
    /\ Go(c, "submit", "done")
    /\ LowerFlag(c)
    /\ UNCHANGED <<model, text, tierVars, results, cached, bulkVars>>

(***************************************************************************)
(* _on_result                                                              *)
(***************************************************************************)
Answer(c) ==
    /\ call[c].at = "compiling"
    /\ \E ok \in BOOLEAN :
        /\ call' = [call EXCEPT ![c] = [@ EXCEPT !.at = "check", !.ok = ok]]
        /\ cached' = IF ok THEN [cached EXCEPT ![call[c].file] = call[c].text]
                     ELSE cached
    /\ UNCHANGED <<model, text, tierVars, results, pending, busy, bulkVars>>

\* The cache entry expires or is invalidated.
CacheDrops(f) ==
    /\ cached[f] # 0
    /\ cached' = [cached EXCEPT ![f] = 0]
    /\ UNCHANGED <<model, text, tierVars, results, pending, busy, call,
                   bulkVars>>

CheckGeneration(c) ==
    /\ call[c].at = "check"
    /\ At(c, IF call[c].gen # gen[call[c].file] THEN "lower"
             ELSE IF call[c].ok THEN "fetch" ELSE "record")
    /\ UNCHANGED <<model, text, tierVars, tier3Vars, bulkVars>>

FetchCached(c) ==
    /\ call[c].at = "fetch"
    /\ call' = [call EXCEPT ![c] = [@ EXCEPT !.at = "enrich",
                                             !.text = cached[call[c].file]]]
    /\ UNCHANGED <<model, text, tierVars, tier3Vars, bulkVars>>

\* enrich_semantic_model with the cached IR, or the empty update without one.
Enrich(c) ==
    LET f == call[c].file
        x == call[c].text
    IN  /\ Go(c, "enrich", "record")
        /\ model' = IF x = 0 THEN UpdateFile(model, f, {}, {}, 3)
                    ELSE UpdateFile(model, f, NodesOf(Compiled[<<f, x>>], x),
                                    EdgesIn["tier3"][<<f, x>>], 3)
        /\ UNCHANGED <<text, tierVars, tier3Vars, bulkVars>>

\* _record_tier3_result: a key keeps its place; the first ones are evicted.
Record(c) ==
    LET entry == [file |-> call[c].file, ok |-> call[c].ok]
        Here(r) == r.file = entry.file
        known == \E k \in DOMAIN results : Here(results[k])
        put == IF known THEN [k \in DOMAIN results |->
                                 IF Here(results[k]) THEN entry ELSE results[k]]
               ELSE Append(results, entry)
    IN  /\ Go(c, "record", "lower")
        /\ results' = IF Len(put) > MaxResults THEN Tail(put) ELSE put
        /\ UNCHANGED <<model, text, tierVars, pending, busy, cached, bulkVars>>

EndResult(c) ==
    /\ Go(c, "lower", "done")
    /\ LowerFlag(c)
    /\ UNCHANGED <<model, text, tierVars, results, cached, bulkVars>>

(***************************************************************************)
(* run_bulk_t1_t2                                                          *)
(***************************************************************************)
Remaining(t2) == {f \in BulkFiles \cap Scoped :
                      f \notin (IF t2 THEN tier2Files ELSE tier1Files)}

\* They come in the order in which the directories list them.
Listings(S) == {list \in [1 .. Cardinality(S) -> S] :
                   \A j, k \in DOMAIN list : list[j] = list[k] => j = k}

StartBulk ==
    /\ bulk.at = "idle"
    /\ \E t2 \in BOOLEAN : \E list \in Listings(Remaining(t2)) :
        LET parallel == Workers > 1 /\ Len(list) > ParallelAbove
        IN  bulk' = [NoBulk EXCEPT !.t2 = t2, !.list = list, !.running = TRUE,
                         !.at = IF parallel THEN "pool" ELSE "turn"]
    /\ UNCHANGED <<model, text, tierVars, tier3Vars, call, task>>

BulkFile == bulk.list[bulk.next]
BulkText == task[BulkFile].text
Pooled(f) == \E k \in DOMAIN bulk.list : bulk.list[k] = f
TaskAt(f, point) == task' = [task EXCEPT ![f].at = point]
ErrorFor(b, f) == [b EXCEPT !.errors = @ \cup {f}]
Tick(b) == [b EXCEPT !.completed = b.next, !.next = @ + 1, !.at = "turn"]

\* Mutant: a file that cannot be read is skipped without an error.
ReadInTurnOrSkip(f) ==
    /\ bulk.at = "turn" /\ bulk.next <= Len(bulk.list) /\ f = BulkFile
    /\ \/ /\ task' = [task EXCEPT ![f] = [at |-> "tier1", text |-> text[f]]]
          /\ bulk' = [bulk EXCEPT !.at = "tier1"]
       \/ /\ f \in Faulty
          /\ bulk' = Tick(bulk)
          /\ UNCHANGED task
    /\ UNCHANGED <<model, text, tierVars, tier3Vars, call>>

\* A file's turn in the sequential run: read it, or note that it cannot be.
ReadInTurn(f) ==
    /\ bulk.at = "turn" /\ bulk.next <= Len(bulk.list) /\ f = BulkFile
    /\ \/ /\ task' = [task EXCEPT ![f] = [at |-> "tier1", text |-> text[f]]]
          /\ bulk' = [bulk EXCEPT !.at = "tier1"]
       \/ /\ f \in Faulty
          /\ bulk' = Tick(ErrorFor(bulk, f))
          /\ UNCHANGED task
    /\ UNCHANGED <<model, text, tierVars, tier3Vars, call>>

\* The cancel event is seen between two files.
CancelBulk ==
    /\ \/ bulk.at \in {"turn", "t2turn"} /\ bulk.next <= Len(bulk.list)
       \/ bulk.at = "pool"
    /\ ~bulk.cancelled
    /\ bulk' = [bulk EXCEPT !.cancelled = TRUE,
                            !.at = IF @ = "pool" THEN "drain" ELSE "end"]
    /\ UNCHANGED <<model, text, tierVars, tier3Vars, call, task>>

\* run_tier1 in the bulk run: in its own thread, or in one of the pool's.
MayRunTier1(f) == \/ bulk.at = "tier1" /\ BulkFile = f
                  \/ bulk.at \in {"pool", "drain"} /\ Pooled(f)

PoolReads(f) ==
    /\ bulk.at \in {"pool", "drain"} /\ Pooled(f) /\ task[f].at = "none"
    /\ \/ task' = [task EXCEPT ![f] = [at |-> "tier1", text |-> text[f]]]
       \/ f \in Faulty /\ TaskAt(f, "failed")
    /\ UNCHANGED <<model, text, tierVars, tier3Vars, call, bulk>>

BulkTier1Model(f) ==
    /\ MayRunTier1(f) /\ task[f].at = "tier1"
    /\ Tier1Model(f, task[f].text)
    /\ TaskAt(f, "tier1Track")
    /\ UNCHANGED <<text, tierVars, tier3Vars, call, bulk>>

BulkTier1Track(f) ==
    /\ MayRunTier1(f) /\ task[f].at = "tier1Track"
    /\ Tier1Track(f)
    /\ TaskAt(f, "ready")
    /\ IF bulk.at # "tier1" THEN UNCHANGED bulk
       ELSE bulk' = IF bulk.t2 THEN [bulk EXCEPT !.t1Done = @ + 1,
                                                 !.at = "tier2"]
                    ELSE Tick([bulk EXCEPT !.t1Done = @ + 1])
    /\ UNCHANGED <<model, text, tier3Vars, call>>

BulkTier1Raises(f) ==
    /\ MayRunTier1(f) /\ task[f].at = "tier1" /\ f \in Faulty
    /\ TaskAt(f, "failed")
    /\ bulk' = IF bulk.at = "tier1" THEN Tick(ErrorFor(bulk, f)) ELSE bulk
    /\ UNCHANGED <<model, text, tierVars, tier3Vars, call>>

\* The collecting loop takes the pool's results as they complete; after the
\* last one, tier 2 goes over the list.
Collect(f) ==
    /\ bulk.at = "pool" /\ Pooled(f) /\ task[f].at \in {"ready", "failed"}
    /\ LET done == task[f].at = "ready"
           counted == [bulk EXCEPT !.completed = @ + 1,
                                   !.t1Done = IF done THEN @ + 1 ELSE @]
           after == IF done THEN counted ELSE ErrorFor(counted, f)
       IN  bulk' = [after EXCEPT !.at =
                       IF after.completed < Len(bulk.list) THEN "pool"
                       ELSE IF bulk.t2 THEN "t2turn" ELSE "end"]
    /\ TaskAt(f, IF task[f].at = "ready" THEN "collected" ELSE "lost")
    /\ UNCHANGED <<model, text, tierVars, tier3Vars, call>>

\* Leaving the pool waits for the tasks that were submitted.
Drained ==
    /\ bulk.at = "drain"
    /\ \A f \in Files : Pooled(f) => task[f].at \notin {"tier1", "tier1Track"}
    /\ bulk' = [bulk EXCEPT !.at = "end"]
    /\ UNCHANGED <<model, text, tierVars, tier3Vars, call, task>>

\* A file of the tier-2 loop that has no source, or whose tier 1 raised.
Tier2Turn(f) ==
    /\ bulk.at = "t2turn" /\ bulk.next <= Len(bulk.list) /\ f = BulkFile
    /\ bulk' = IF task[f].text = 0 THEN [bulk EXCEPT !.next = @ + 1]
               ELSE [bulk EXCEPT !.at = "tier2"]
    /\ UNCHANGED <<model, text, tierVars, tier3Vars, call, task>>

\* A parse that raises is noted and tier 2 goes on, parsing again.
BulkTier2Model ==
    /\ bulk.at = "tier2"
    /\ Tier2Model(BulkFile, BulkText)
    /\ \/ bulk' = [bulk EXCEPT !.at = "tier2Track"]
       \/ /\ BulkFile \in Faulty
          /\ bulk' = [ErrorFor(bulk, BulkFile) EXCEPT !.at = "tier2Track"]
    /\ UNCHANGED <<text, tierVars, tier3Vars, call, task>>

AfterTier2(b) ==
    IF task[BulkFile].at = "ready" THEN Tick(b)     \* sequential
    ELSE [b EXCEPT !.next = @ + 1, !.at = "t2turn"]

BulkTier2Track ==
    /\ bulk.at = "tier2Track"
    /\ Tier2Track(BulkFile)
    /\ bulk' = AfterTier2([bulk EXCEPT !.t2Done = @ + 1])
    /\ UNCHANGED <<model, text, tier3Vars, call, task>>

BulkTier2Raises ==
    /\ bulk.at = "tier2" /\ BulkFile \in Faulty
    /\ bulk' = AfterTier2(ErrorFor(bulk, BulkFile))
    /\ UNCHANGED <<model, text, tierVars, tier3Vars, call, task>>

EndBulk ==
    /\ \/ bulk.at = "end"
       \/ bulk.at \in {"turn", "t2turn"} /\ bulk.next > Len(bulk.list)
    /\ bulk' = [bulk EXCEPT !.at = "ended", !.running = FALSE]
    /\ UNCHANGED <<model, text, tierVars, tier3Vars, call, task>>

(***************************************************************************)
(* The file changes; the LSP server removes it from the model.             *)
(***************************************************************************)
Edit(f) ==
    /\ f \in Edited /\ text[f] < MaxText
    /\ text' = [text EXCEPT ![f] = @ + 1]
    /\ UNCHANGED <<model, tierVars, tier3Vars, call, bulkVars>>

\* The validation of a restored index drops a file that is gone or changed,
\* before the bulk run that follows it.
Forget(f) ==
    /\ bulk.at = "idle"
    /\ model' = RemoveFile(model, f)
    /\ tier1Files' = tier1Files \ {f} /\ tier2Files' = tier2Files \ {f}
    /\ UNCHANGED <<text, gen, tier3Vars, call, bulkVars>>

\* Or too many files have changed, and that run is to be a full one.
ResetTracking ==
    /\ bulk.at = "idle"
    /\ tier1Files' = {} /\ tier2Files' = {}
    /\ UNCHANGED <<model, text, gen, tier3Vars, call, bulkVars>>

CallStep(c) ==
    \/ Begin(c) \/ CallTier1Model(c) \/ CallTier1Track(c) \/ CallTier2Model(c)
    \/ CallTier2Track(c) \/ Redirect(c) \/ NoteGeneration(c) \/ RaiseFlag(c)
    \/ Submit(c) \/ SubmitRaises(c) \/ Answer(c) \/ CheckGeneration(c)
    \/ FetchCached(c) \/ Enrich(c) \/ Record(c) \/ EndResult(c)

TaskStep(f) == \/ ReadInTurn(f) \/ PoolReads(f) \/ BulkTier1Model(f)
               \/ BulkTier1Track(f) \/ BulkTier1Raises(f) \/ Collect(f)
               \/ Tier2Turn(f)

BulkStep == Drained \/ BulkTier2Model \/ BulkTier2Track \/ BulkTier2Raises \/ EndBulk

Next == \/ \E c \in Calls : CallStep(c)
        \/ \E f \in Files : TaskStep(f) \/ Edit(f) \/ Forget(f) \/ CacheDrops(f)
        \/ BulkStep \/ StartBulk \/ CancelBulk \/ ResetTracking

Spec == Init /\ [][Next]_vars

(***************************************************************************)
(* Properties                                                              *)
(***************************************************************************)
\* The model is never half updated: its indexes by file, name and type and its
\* adjacency lists agree with the nodes and edges, whichever tiers, removals
\* and compilations are interleaved.
ModelIsCoherent == Coherent(model)

\* The nodes a file has at one tier were all read from one text: a tier that
\* runs for an older text late replaces the tier as a whole.
TierIsOfOneText == OneText(model)

\* tier3Pending, which the monitoring shows, is the number of compilations of
\* the deep indexer that have neither ended nor failed to start.
PendingIsExact ==
    pending = Cardinality({c \in Calls : /\ ~Tracked(c)
                   /\ call[c].at \in {"submit", "compiling", "check", "fetch",
                                      "enrich", "record", "lower"}})

\* A bulk run that was not cancelled accounts for every file of its list: each
\* is analysed or has an error, and the progress ends at the total.
BulkAccountsForAll ==
    (bulk.at = "ended" /\ ~bulk.cancelled) =>
        /\ bulk.completed = Len(bulk.list)
        /\ \A k \in DOMAIN bulk.list :
              \/ bulk.list[k] \in bulk.errors
              \/ bulk.list[k] \in (IF bulk.t2 THEN tier2Files ELSE tier1Files)
=============================================================================
