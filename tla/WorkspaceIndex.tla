---------------------------- MODULE WorkspaceIndex ----------------------------
(***************************************************************************)
(* The cross-file index of the workspace (core/indexer): the scan at start *)
(* or on a reindex command, the threads that parse the test files in depth,*)
(* the executor threads that reindex a saved file and its dependents, and  *)
(* the parse on demand of a feature handler.                               *)
(*                                                                         *)
(* Each of them is a job, and a step of a job is what it does under one    *)
(* lock or between two reads of the disk.  The structures are shared: the  *)
(* symbol table (swapped by the deep indexers under a lock that those who  *)
(* add do not take), the include graph, the requirement graph and its test *)
(* scopes, the cache of parses and the cache of sources.                   *)
(*                                                                         *)
(* A text of a file is a number; disk[f] is the text that is there now, 0  *)
(* when the file cannot be read.  Every write changes the mtime, for which *)
(* the number stands too.                                                  *)
(***************************************************************************)
EXTENDS RequirementGraph, Sequences

CONSTANTS Capacity,      \* of the memory cache
          Order,         \* the order in which the resolver lists the files
          MaxText,       \* bound: texts of a file
          MaxStarts,     \* bound: scans of the workspace
          Edited,        \* files whose text may change
          Asked,         \* files that features ask about
          Saves, FileOfSave,         \* reindexings, one per save
          Deeps,         \* deep-index threads, one per scan
          Demands, FileOfDemand,     \* parses on demand
          Includes,      \* files included by a text <<f, v>>, resolved
          Declares,      \* functions declared by a text
          Variables,     \* variables declared by a text
          Requires,      \* requirements stated by a text
          Exports,       \* actions exported by a text
          Unparsable,    \* texts that the full parser rejects
          Rfcs,          \* requirements of the manifests
          ParallelAbove  \* tests above which the deep indexer uses processes

Texts == Files \X (1 .. MaxText)

\* A text states requirements of its own file.
ASSUME OwnRequirements == \A p \in Texts : Requires[p] \subseteq {r \in Reqs : FileOf[r] = p[1]}

VARIABLES disk,        \* file -> the text on disk
          cache,       \* the parsed files (FileCache)
          sources,     \* file -> text and mtime of _source_cache
          table,       \* file -> the symbol sets added for it, in order
          locked,      \* the job that holds _table_lock, or ""
          includes,    \* pairs of _include_graph
          graph,       \* _requirement_graph
          exports,     \* file -> the text of _file_export_imports, 0 for none
          inScope,     \* file -> the symbols kept by _mirror_scope_cache
          mirrors,     \* tests in the mirror registry
          attempted,   \* files with deep_parse_attempted
          progress,    \* running, total, done of the deep index
          stop,        \* _stop_requested
          parallel,    \* configuration: several workers
          ast,         \* the full parser is installed
          starts,      \* scans so far
          overlapped,  \* history: two jobs were under way at once
          job          \* job -> what it is doing

vars == <<disk, cache, sources, table, locked, includes, graph, exports, inScope,
          mirrors, attempted, progress, stop, parallel, ast, starts, overlapped, job>>

Cache == INSTANCE FileCache

Scan == "scan"
Jobs == {Scan} \cup Saves \cup Deeps \cup Demands

\* A job is of one kind.
ASSUME KindsOfJobs ==
    /\ Scan \notin Saves \cup Deeps \cup Demands
    /\ Saves \cap Deeps = {} /\ Saves \cap Demands = {} /\ Deeps \cap Demands = {}

NoSource == [text |-> 0, mtime |-> 0]
NoSymbols == [known |-> FALSE, symbols |-> {}]
Idle == [at |-> "idle", todo |-> {}, dirty |-> {}, file |-> "", text |-> 0, mtime |-> 0,
         hit |-> FALSE, entry |-> Cache!NoEntry, results |-> <<>>, old |-> <<>>,
         tests |-> {}]

\* The data of the text v of f; nothing for the text 0.
Of(data, f, v) == IF <<f, v>> \in Texts THEN data[<<f, v>>] ELSE {}

Exporting(f) == Of(Exports, f, exports[f]) # {}

\* The names that the table has for each file.
Declared == [f \in Files |-> UNION {Declares[<<f, e.text>>] : e \in {table[f][i] : i \in DOMAIN table[f]}}]
TableVars == [f \in Files |-> UNION {Variables[<<f, e.text>>] : e \in {table[f][i] : i \in DOMAIN table[f]}}]

Extracted(g, f, v) ==
    AddFileRequirements(g, f, Of(Requires, f, v), Of(WritesOf, f, v))
Linked(f, v) == includes \cup ({f} \X Of(Includes, f, v))

Init ==
    /\ disk = [f \in Files |-> 1] /\ cache \in {Cache!EmptyCache(p) : p \in BOOLEAN}
    /\ sources = [f \in Files |-> NoSource] /\ table = [f \in Files |-> <<>>]
    /\ locked = "" /\ includes = {} /\ graph = EmptyGraph
    /\ exports = [f \in Files |-> 0] /\ inScope = [f \in Files |-> NoSymbols]
    /\ mirrors = {} /\ attempted = {} /\ stop = FALSE
    /\ parallel \in BOOLEAN /\ ast \in BOOLEAN
    /\ progress = [running |-> FALSE, total |-> 0, done |-> 0] /\ starts = 0
    /\ overlapped = FALSE /\ job = [j \in Jobs |-> Idle]

\* A step of job j, which has the record r after it.  The history notes that
\* another was under way.
Working(j) == job[j].at \notin {"idle", "done"}
Moves(j, r) ==
    /\ job' = [job EXCEPT ![j] = r]
    /\ overlapped' = (overlapped \/ (r.at # "done" /\ \E k \in Jobs \ {j} : Working(k)))

To(j, at) == [job[j] EXCEPT !.at = at]

-----------------------------------------------------------------------------
(* Reading a source through _source_cache: the mtime is taken first.  The   *)
(* scan and the deep indexer read so, and continue at "read".               *)

Stat(j) ==
    /\ job[j].at = "stat"
    /\ LET f == job[j].file IN
       IF disk[f] = 0 THEN Moves(j, [job[j] EXCEPT !.at = "read", !.text = 0])
       ELSE IF sources[f].mtime = disk[f]
            THEN Moves(j, [job[j] EXCEPT !.at = "read", !.text = sources[f].text])
            ELSE Moves(j, [job[j] EXCEPT !.at = "open", !.mtime = disk[f]])
    /\ UNCHANGED <<disk, cache, sources, table, locked, includes, graph, exports, inScope,
                   mirrors, attempted, progress, stop, parallel, ast, starts>>

\* Mutant: the mtime is read when the text is stored.
OpenThenStat(j) ==
    /\ job[j].at = "open"
    /\ \E v \in 0 .. disk[job[j].file] :
         LET f == job[j].file IN
         /\ v >= job[j].mtime \/ disk[f] = 0
         /\ sources' = IF v = 0 THEN sources
                       ELSE [sources EXCEPT ![f] = [text |-> v, mtime |-> disk[f]]]
         /\ Moves(j, [job[j] EXCEPT !.at = "read", !.text = v])
    /\ UNCHANGED <<disk, cache, table, locked, includes, graph, exports, inScope,
                   mirrors, attempted, progress, stop, parallel, ast, starts>>

Open(j) ==
    /\ job[j].at = "open"
    /\ LET f == job[j].file IN
       /\ sources' = IF disk[f] = 0 THEN sources
                     ELSE [sources EXCEPT ![f] = [text |-> disk[f], mtime |-> job[j].mtime]]
       /\ Moves(j, [job[j] EXCEPT !.at = "read", !.text = disk[f]])
    /\ UNCHANGED <<disk, cache, table, locked, includes, graph, exports, inScope,
                   mirrors, attempted, progress, stop, parallel, ast, starts>>

-----------------------------------------------------------------------------
(* index_workspace.                                                        *)

\* A scan forgets all but the caches, the progress and the attempts.
StartScan(c) ==
    /\ starts < MaxStarts /\ starts' = starts + 1
    /\ job[Scan].at \in {"idle", "done"}
    /\ cache' = c
    /\ table' = [f \in Files |-> <<>>] /\ includes' = {} /\ graph' = EmptyGraph
    /\ exports' = [f \in Files |-> 0] /\ inScope' = [f \in Files |-> NoSymbols]
    /\ progress' = [progress EXCEPT !.running = FALSE]
    /\ Moves(Scan, [Idle EXCEPT !.at = "next", !.todo = Files])
    /\ UNCHANGED <<disk, sources, locked, mirrors, attempted, stop, parallel, ast>>

FirstScan == starts = 0 /\ StartScan(cache)
\* The command replaces the cache by one without a database.
Reindex == starts > 0 /\ StartScan(Cache!EmptyCache(FALSE))

FirstOf(F) == LET rest == SelectSeq(Order, LAMBDA f : f \in F) IN Head(rest)

\* A file of the scan, one after the other or in the pool's order: an entry of
\* the cache is used, and re-extracted when it was stored without requirements.
Take(f) ==
    /\ job[Scan].at = "next" /\ f \in job[Scan].todo
    /\ parallel \/ (job[Scan].results = <<>> /\ f = FirstOf(job[Scan].todo))
    /\ cache' = Cache!AfterGet(cache, f, disk[f])
    /\ LET e == Cache!Found(cache, f, disk[f])
           next == [job[Scan] EXCEPT !.todo = @ \ {f}, !.file = f, !.entry = e]
       IN IF e.extracted
          THEN Moves(Scan, [next EXCEPT !.results = Append(@,
                   [file |-> f, symbols |-> e, text |-> e.text])])
          ELSE Moves(Scan, [next EXCEPT !.at = "stat"])
    /\ UNCHANGED <<disk, sources, table, locked, includes, graph, exports, inScope,
                   mirrors, attempted, progress, stop, parallel, ast, starts>>

\* The source was read: the result of the file is ready.
Scanned ==
    /\ job[Scan].at = "read"
    /\ LET f == job[Scan].file
           v == job[Scan].text
           e == IF job[Scan].entry # Cache!NoEntry THEN job[Scan].entry
                ELSE [Cache!NoEntry EXCEPT !.file = f, !.text = v, !.links = v,
                                           !.extracted = Of(Requires, f, v) # {}]
       IN Moves(Scan, [job[Scan] EXCEPT !.at = "next", !.results = Append(@,
                           [file |-> f, symbols |-> e, text |-> v])])
    /\ UNCHANGED <<disk, cache, sources, table, locked, includes, graph, exports, inScope,
                   mirrors, attempted, progress, stop, parallel, ast, starts>>

\* A result goes into the shared structures; an unreadable file's does not.
Merge ==
    /\ job[Scan].at = "next" /\ job[Scan].results # <<>>
    /\ parallel => job[Scan].todo = {}
    /\ LET r == Head(job[Scan].results)
           f == r.file
           e == r.symbols
       IN /\ Moves(Scan, [job[Scan] EXCEPT !.results = Tail(@)])
          /\ IF e.text = 0 THEN UNCHANGED <<cache, table, includes, graph, exports>>
             ELSE /\ table' = [table EXCEPT ![f] = Append(@, [text |-> e.text, full |-> e.full])]
                  /\ includes' = Linked(f, e.links)
                  /\ IF r.text = 0 THEN UNCHANGED <<graph, exports>>
                     ELSE /\ graph' = Extracted(graph, f, r.text)
                          /\ exports' = [exports EXCEPT ![f] = r.text]
                  /\ cache' = IF e.mtime # 0 THEN cache ELSE Cache!Put(cache, e, disk[f])
    /\ UNCHANGED <<disk, sources, locked, inScope, mirrors, attempted, progress, stop,
                   parallel, ast, starts>>

EndOfFiles ==
    /\ job[Scan].at = "next" /\ job[Scan].todo = {} /\ job[Scan].results = <<>>
    /\ Moves(Scan, [To(Scan, "wire") EXCEPT !.dirty = {}])
    /\ UNCHANGED <<disk, cache, sources, table, locked, includes, graph, exports, inScope,
                   mirrors, attempted, progress, stop, parallel, ast, starts>>

Manifests ==
    /\ job[Scan].at = "manifests"
    /\ graph' = WireCoverage(AddRfcRequirements(graph, Rfcs))
    /\ Moves(Scan, To(Scan, "scopes"))
    /\ UNCHANGED <<disk, cache, sources, table, locked, includes, exports, inScope,
                   mirrors, attempted, progress, stop, parallel, ast, starts>>

\* With the full parser a thread starts; the scan of before may still have one.
Launch ==
    /\ job[Scan].at = "launch" /\ ast
    /\ \E d \in Deeps :
         /\ job[d].at = "idle"
         /\ progress' = [progress EXCEPT !.running = TRUE]
         /\ job' = [job EXCEPT ![Scan] = To(Scan, "done"), ![d] = [Idle EXCEPT !.at = "begin"]]
    /\ UNCHANGED <<disk, cache, sources, table, locked, includes, graph, exports, inScope,
                   mirrors, attempted, stop, parallel, ast, starts, overlapped>>

NoLaunch ==
    /\ job[Scan].at = "launch" /\ ~ast
    /\ job' = [job EXCEPT ![Scan] = To(Scan, "done")]
    /\ UNCHANGED <<disk, cache, sources, table, locked, includes, graph, exports, inScope,
                   mirrors, attempted, progress, stop, parallel, ast, starts, overlapped>>

-----------------------------------------------------------------------------
(* Wiring and test scopes: the end of a scan, of a reindexing (whose dirty  *)
(* files are those it went through) and of a deep index.                    *)

WireStep(j) ==
    /\ job[j].at = "wire"
    /\ graph' = Wire(graph, Declared, TableVars, includes)
    /\ Moves(j, To(j, IF j = Scan THEN "manifests" ELSE "scopes"))
    /\ UNCHANGED <<disk, cache, sources, table, locked, includes, exports, inScope,
                   mirrors, attempted, progress, stop, parallel, ast, starts>>

BeginScopes(j) ==
    /\ job[j].at = "scopes"
    /\ mirrors' = {}
    /\ Moves(j, [To(j, "register") EXCEPT !.tests = {f \in Files : Exporting(f)}])
    /\ UNCHANGED <<disk, cache, sources, table, locked, includes, graph, exports, inScope,
                   attempted, progress, stop, parallel, ast, starts>>

Closure(t) == Reach(t, includes)
ExportedBy(t) == UNION {Of(Exports, f, exports[f]) : f \in Closure(t)}

Register(j) ==
    /\ job[j].at = "register"
    /\ \E t \in job[j].tests :
         /\ graph' = RegisterScope(graph, t, Closure(t), ExportedBy(t))
         /\ mirrors' = mirrors \cup {t}
         /\ Moves(j, [job[j] EXCEPT !.tests = @ \ {t}])
    /\ UNCHANGED <<disk, cache, sources, table, locked, includes, exports, inScope,
                   attempted, progress, stop, parallel, ast, starts>>

\* The symbols in scope of a dirty file's tests are forgotten, or all of them.
\* What a file of no test's scope was given stays.
Affected(D) ==
    UNION {graph.scopes[t].closure : t \in UNION {graph.testsOf[f] : f \in D}}
After(j) == IF j = Scan THEN "launch" ELSE IF j \in Deeps THEN "finish" ELSE "done"
ForgetScopes(j) ==
    /\ job[j].at = "register" /\ job[j].tests = {}
    /\ inScope' = [f \in Files |->
                     IF j \notin Saves \/ f \in Affected(job[j].dirty) THEN NoSymbols
                     ELSE inScope[f]]
    /\ Moves(j, To(j, After(j)))
    /\ UNCHANGED <<disk, cache, sources, table, locked, includes, graph, exports,
                   mirrors, attempted, progress, stop, parallel, ast, starts>>

-----------------------------------------------------------------------------
(* reindex_file_with_dependents, on an executor thread.                     *)

SaveBegin(s) ==
    /\ job[s].at = "idle" /\ starts > 0
    /\ LET dirty == Reach(FileOfSave[s], Converse(includes))
       IN Moves(s, [Idle EXCEPT !.at = "remove", !.todo = dirty, !.dirty = dirty])
    /\ UNCHANGED <<disk, cache, sources, table, locked, includes, graph, exports, inScope,
                   mirrors, attempted, progress, stop, parallel, ast, starts>>

Remove(s) ==
    /\ job[s].at = "remove" /\ locked = ""
    /\ \E f \in job[s].todo :
         /\ table' = [table EXCEPT ![f] = <<>>]
         /\ Moves(s, [job[s] EXCEPT !.at = "invalidate", !.file = f, !.todo = @ \ {f}])
    /\ UNCHANGED <<disk, cache, sources, locked, includes, graph, exports, inScope,
                   mirrors, attempted, progress, stop, parallel, ast, starts>>

InvalidateEntry(s) ==
    /\ job[s].at = "invalidate"
    /\ cache' = Cache!Invalidate(cache, job[s].file)
    /\ Moves(s, To(s, "index"))
    /\ UNCHANGED <<disk, sources, table, locked, includes, graph, exports, inScope,
                   mirrors, attempted, progress, stop, parallel, ast, starts>>

\* _index_single_file: an entry that is there again ends it, and so does a file
\* that cannot be read.
IndexFile(s) ==
    /\ job[s].at = "index"
    /\ LET f == job[s].file
           hit == Cache!Found(cache, f, disk[f]) # Cache!NoEntry
       IN /\ cache' = Cache!AfterGet(cache, f, disk[f])
          /\ Moves(s, IF hit \/ disk[f] = 0 THEN To(s, "remove")
                      ELSE [job[s] EXCEPT !.at = "put", !.text = disk[f]])
    /\ UNCHANGED <<disk, sources, table, locked, includes, graph, exports, inScope,
                   mirrors, attempted, progress, stop, parallel, ast, starts>>

Parsed(s) == [text |-> job[s].text, full |-> ast /\ <<job[s].file, job[s].text>> \notin Unparsable]

PutParsed(s) ==
    /\ job[s].at = "put"
    /\ cache' = Cache!Put(cache, [file |-> job[s].file, text |-> job[s].text, mtime |-> 0,
                                  full |-> Parsed(s).full, links |-> job[s].text,
                                  extracted |-> FALSE],
                          disk[job[s].file])
    /\ Moves(s, To(s, "add"))
    /\ UNCHANGED <<disk, sources, table, locked, includes, graph, exports, inScope,
                   mirrors, attempted, progress, stop, parallel, ast, starts>>

AddSymbols(s) ==
    /\ job[s].at = "add"
    /\ table' = [table EXCEPT ![job[s].file] = Append(@, Parsed(s))]
    /\ Moves(s, To(s, "link"))
    /\ UNCHANGED <<disk, cache, sources, locked, includes, graph, exports, inScope,
                   mirrors, attempted, progress, stop, parallel, ast, starts>>

\* Edges are only added: those of an older text stay.
Link(s) ==
    /\ job[s].at = "link"
    /\ includes' = Linked(job[s].file, job[s].text)
    /\ Moves(s, To(s, "extract"))
    /\ UNCHANGED <<disk, cache, sources, table, locked, graph, exports, inScope,
                   mirrors, attempted, progress, stop, parallel, ast, starts>>

\* Requirements and exports, also those of the deep indexer.
Extract(j) ==
    /\ job[j].at = "extract"
    /\ graph' = Extracted(graph, job[j].file, job[j].text)
    /\ exports' = [exports EXCEPT ![job[j].file] = job[j].text]
    /\ Moves(j, To(j, IF j \in Saves THEN "remove" ELSE "count"))
    /\ UNCHANGED <<disk, cache, sources, table, locked, includes, inScope, mirrors,
                   attempted, progress, stop, parallel, ast, starts>>

EndOfDirty(s) ==
    /\ job[s].at = "remove" /\ job[s].todo = {}
    /\ Moves(s, To(s, "wire"))
    /\ UNCHANGED <<disk, cache, sources, table, locked, includes, graph, exports, inScope,
                   mirrors, attempted, progress, stop, parallel, ast, starts>>

-----------------------------------------------------------------------------
(* The deep index of the tests, in turn or in processes, and the parse on   *)
(* demand.                                                                  *)

\* A stop before the first file leaves the flag "running" up.
BeginDeep(d) ==
    /\ job[d].at = "begin"
    /\ LET tests == {f \in Files : Exporting(f)} IN
       /\ progress' = [progress EXCEPT !.total = Cardinality(tests)]
       /\ Moves(d, IF stop THEN To(d, "done")
                   ELSE [job[d] EXCEPT !.todo = tests,
                                       !.at = IF parallel /\ Cardinality(tests) > ParallelAbove
                                              THEN "pool" ELSE "turn"])
    /\ UNCHANGED <<disk, cache, sources, table, locked, includes, graph, exports, inScope,
                   mirrors, attempted, stop, parallel, ast, starts>>

\* A process parses the text that it reads; a stop leaves files out.
Pool(d) ==
    /\ job[d].at = "pool"
    /\ \E f \in job[d].todo :
         Moves(d, [job[d] EXCEPT !.todo = @ \ {f},
                      !.results = IF stop THEN @ ELSE Append(@, [file |-> f, text |-> disk[f]])])
    /\ UNCHANGED <<disk, cache, sources, table, locked, includes, graph, exports, inScope,
                   mirrors, attempted, progress, stop, parallel, ast, starts>>

\* The next result of the processes is taken over.
TakeResult(d) ==
    /\ job[d].at = "pool" /\ job[d].todo = {} /\ job[d].results # <<>> /\ ~stop
    /\ LET r == Head(job[d].results)
           good == r.text # 0 /\ <<r.file, r.text>> \notin Unparsable
       IN Moves(d, [job[d] EXCEPT !.results = Tail(@), !.file = r.file, !.text = r.text,
                                  !.hit = TRUE, !.at = IF good THEN "copy" ELSE "count"])
    /\ UNCHANGED <<disk, cache, sources, table, locked, includes, graph, exports, inScope,
                   mirrors, attempted, progress, stop, parallel, ast, starts>>

TakeTest(d) ==
    /\ job[d].at = "turn" /\ ~stop
    /\ \E f \in job[d].todo :
         Moves(d, [job[d] EXCEPT !.todo = @ \ {f}, !.file = f, !.hit = FALSE, !.at = "stat"])
    /\ UNCHANGED <<disk, cache, sources, table, locked, includes, graph, exports, inScope,
                   mirrors, attempted, progress, stop, parallel, ast, starts>>

\* Its source was read: to be parsed, or (after a process parsed it) only for
\* the light extraction, which an unreadable file ends.
ReadTest(d) ==
    /\ d \in Deeps /\ job[d].at = "read"
    /\ LET f == job[d].file
           v == job[d].text
       IN Moves(d, To(d, IF v = 0 THEN "count"
                         ELSE IF job[d].hit THEN "drop"
                         ELSE IF <<f, v>> \in Unparsable THEN "count" ELSE "copy"))
    /\ UNCHANGED <<disk, cache, sources, table, locked, includes, graph, exports, inScope,
                   mirrors, attempted, progress, stop, parallel, ast, starts>>

\* A feature asks for a file that was only scanned.
Demand(q) ==
    /\ job[q].at = "idle"
    /\ LET f == FileOfDemand[q] IN
       /\ starts > 0 /\ table[f] # <<>> /\ f \notin attempted /\ disk[f] # 0
       /\ attempted' = attempted \cup {f}
       /\ Moves(q, IF ~ast \/ <<f, disk[f]>> \in Unparsable THEN To(q, "done")
                   ELSE [Idle EXCEPT !.at = "copy", !.file = f, !.text = disk[f]])
    /\ UNCHANGED <<disk, cache, sources, table, locked, includes, graph, exports, inScope,
                   mirrors, progress, stop, parallel, ast, starts>>

\* _upgrade_file_symbols: the table is copied under the lock and swapped, so
\* that what an adder put into the old one meanwhile is gone.  The entry that is
\* stored has the includes of the one before it, or none.
Copy(j) ==
    /\ job[j].at = "copy" /\ locked = ""
    /\ locked' = j
    /\ Moves(j, [job[j] EXCEPT !.at = "swap", !.old = table])
    /\ UNCHANGED <<disk, cache, sources, table, includes, graph, exports, inScope,
                   mirrors, attempted, progress, stop, parallel, ast, starts>>

Swap(j) ==
    /\ job[j].at = "swap"
    /\ table' = [job[j].old EXCEPT ![job[j].file] = <<[text |-> job[j].text, full |-> TRUE]>>]
    /\ locked' = ""
    /\ Moves(j, [job[j] EXCEPT !.at = "store", !.old = <<>>])
    /\ UNCHANGED <<disk, cache, sources, includes, graph, exports, inScope, mirrors,
                   attempted, progress, stop, parallel, ast, starts>>

Store(j) ==
    /\ job[j].at = "store"
    /\ LET f == job[j].file
           before == Cache!Found(cache, f, disk[f])
       IN cache' = Cache!Put(Cache!AfterGet(cache, f, disk[f]),
                             [file |-> f, text |-> job[j].text, mtime |-> 0, full |-> TRUE,
                              links |-> before.links, extracted |-> FALSE], disk[f])
    /\ Moves(j, IF j \in Demands THEN To(j, "done")
                ELSE To(j, IF job[j].hit THEN "stat" ELSE "drop"))
    /\ UNCHANGED <<disk, sources, table, locked, includes, graph, exports, inScope,
                   mirrors, attempted, progress, stop, parallel, ast, starts>>

\* Between Drop and Extract the file has no requirements; Drop forgets no list.
Drop(d) ==
    /\ job[d].at = "drop"
    /\ graph' = RemoveFile(graph, job[d].file)
    /\ Moves(d, To(d, "extract"))
    /\ UNCHANGED <<disk, cache, sources, table, locked, includes, exports, inScope,
                   mirrors, attempted, progress, stop, parallel, ast, starts>>

Count(d) ==
    /\ job[d].at = "count"
    /\ progress' = [progress EXCEPT !.done = @ + 1]
    /\ attempted' = attempted \cup {job[d].file}
    /\ Moves(d, To(d, IF job[d].hit THEN "pool" ELSE "turn"))
    /\ UNCHANGED <<disk, cache, sources, table, locked, includes, graph, exports, inScope,
                   mirrors, stop, parallel, ast, starts>>

\* No file is left, or a stop was requested: then nothing is wired.
EndOfTests(d) ==
    /\ job[d].at \in {"turn", "pool"}
    /\ (job[d].todo = {} \/ (stop /\ job[d].at = "turn"))
    /\ stop \/ job[d].results = <<>>
    /\ Moves(d, To(d, IF stop THEN "finish" ELSE "wire"))
    /\ UNCHANGED <<disk, cache, sources, table, locked, includes, graph, exports, inScope,
                   mirrors, attempted, progress, stop, parallel, ast, starts>>

Finish(d) ==
    /\ job[d].at = "finish"
    /\ sources' = [f \in Files |-> NoSource]
    /\ progress' = [progress EXCEPT !.running = FALSE]
    /\ Moves(d, To(d, "done"))
    /\ UNCHANGED <<disk, cache, table, locked, includes, graph, exports, inScope, mirrors,
                   attempted, stop, parallel, ast, starts>>

-----------------------------------------------------------------------------
(* Queries, which fill caches, and the surroundings.                        *)

RequirementQuery ==
    /\ \/ \E k \in Asked \X BOOLEAN : graph' = QueryScoped(graph, k)
       \/ \E f \in Asked : graph' = QueryActive(graph, f, includes)
    /\ graph' # graph
    /\ UNCHANGED <<disk, cache, sources, table, locked, includes, exports, inScope, mirrors,
                   attempted, progress, stop, parallel, ast, starts, overlapped, job>>

\* get_symbols_in_scope: of every test's scope that f is in, or of f and what
\* it includes when there is none.
ScopeOf(f) ==
    IF graph.testsOf[f] = {} THEN Reach(f, includes) ELSE Affected({f})
InScopeNow(f) == {<<g, table[g]>> : g \in ScopeOf(f)}

SymbolQuery(f) ==
    /\ f \in Asked /\ ~inScope[f].known
    /\ inScope' = [inScope EXCEPT ![f] = [known |-> TRUE, symbols |-> InScopeNow(f)]]
    /\ UNCHANGED <<disk, cache, sources, table, locked, includes, graph, exports, mirrors,
                   attempted, progress, stop, parallel, ast, starts, overlapped, job>>

\* The file is written, by an editor or another program, or it is deleted.
Edit(f) ==
    /\ f \in Edited /\ disk[f] \in 1 .. MaxText
    /\ \E v \in {0, disk[f] + 1} : v <= MaxText /\ disk' = [disk EXCEPT ![f] = v]
    /\ UNCHANGED <<cache, sources, table, locked, includes, graph, exports, inScope, mirrors,
                   attempted, progress, stop, parallel, ast, starts, overlapped, job>>

RequestStop ==
    /\ ~stop /\ stop' = TRUE
    /\ UNCHANGED <<disk, cache, sources, table, locked, includes, graph, exports, inScope,
                   mirrors, attempted, progress, parallel, ast, starts, overlapped, job>>

\* The process ends at any point and a new one starts: the database is left.
Restart ==
    /\ starts \in 1 .. MaxStarts - 1 /\ cache.persistent
    /\ cache' = Cache!Reopened(cache)
    /\ sources' = [f \in Files |-> NoSource] /\ table' = [f \in Files |-> <<>>]
    /\ locked' = "" /\ includes' = {} /\ graph' = EmptyGraph
    /\ exports' = [f \in Files |-> 0] /\ inScope' = [f \in Files |-> NoSymbols]
    /\ mirrors' = {} /\ attempted' = {} /\ stop' = FALSE
    /\ progress' = [running |-> FALSE, total |-> 0, done |-> 0]
    /\ overlapped' = FALSE /\ starts' = starts + 1
    /\ job' = [j \in Jobs |-> IF j = Scan THEN [Idle EXCEPT !.at = "next", !.todo = Files]
                              ELSE Idle]
    /\ UNCHANGED <<disk, parallel, ast>>

ScanStep == FirstScan \/ Reindex \/ (\E f \in Files : Take(f)) \/ Scanned \/ Merge
            \/ EndOfFiles \/ Manifests \/ Launch \/ NoLaunch
SharedStep(j) == Stat(j) \/ Open(j) \/ WireStep(j) \/ BeginScopes(j) \/ Register(j)
                 \/ ForgetScopes(j) \/ Extract(j) \/ Copy(j) \/ Swap(j) \/ Store(j)
SaveStep(s) == SaveBegin(s) \/ Remove(s) \/ InvalidateEntry(s) \/ IndexFile(s) \/ PutParsed(s)
               \/ AddSymbols(s) \/ Link(s) \/ EndOfDirty(s)
DeepStep(d) == BeginDeep(d) \/ Pool(d) \/ TakeResult(d) \/ TakeTest(d) \/ ReadTest(d)
               \/ Drop(d) \/ Count(d) \/ EndOfTests(d) \/ Finish(d)
Surroundings == RequirementQuery \/ (\E f \in Files : SymbolQuery(f) \/ Edit(f))
                \/ RequestStop \/ Restart

Next ==
    \/ ScanStep \/ Surroundings
    \/ \E j \in Jobs : SharedStep(j)
    \/ \E s \in Saves : SaveStep(s)
    \/ \E d \in Deeps : DeepStep(d)
    \/ \E q \in Demands : Demand(q)

Spec == Init /\ [][Next]_vars

-----------------------------------------------------------------------------
(* Properties.                                                             *)

AtRest == \A j \in Jobs : ~Working(j)

\* _read_source never answers with an old text: what is kept under the mtime
\* that the file has now is its text of now, whatever is written between the
\* stat, the read and the store (workspace_indexer.py:245-265).
SourceCacheIsFresh ==
    \A f \in Files :
        (disk[f] # 0 /\ sources[f].mtime = disk[f]) => sources[f].text = disk[f]

\* A list of a test's requirements that is kept has each requirement that the
\* graph has in its scope: whoever adds requirements, exports or includes
\* forgets the lists it affects, and the reverse index knows all of them
\* (test_scope.py:229-236, 316-344, 427-433).
ListsAreComplete ==
    \A k \in Files \X BOOLEAN :
        graph.lists[k].known => Scoped(graph, k) \subseteq graph.lists[k].reqs

\* A list of active requirements is found under the graph's version, and also
\* depends on the includes, which move no version: it is right all the same
\* whenever nobody is between adding includes and wiring
\* (requirement_graph.py:716-738).
Linking(j) ==
    \/ j \in Saves /\ Working(j) /\ job[j].at \notin {"scopes", "register"}
    \/ j = Scan /\ job[j].at \in {"next", "stat", "open", "read", "wire"}
ActiveListsAreFresh ==
    (\A j \in Jobs : ~Linking(j)) =>
        \A f \in Files :
            graph.active[f].known => graph.active[f].reqs = Active(graph, f, includes)

\* What is cached is what would be computed: source texts by their mtime, the lists
\* of the requirements of tests, the lists of active requirements.
CachesAreFresh == SourceCacheIsFresh /\ ListsAreComplete /\ ActiveListsAreFresh

\* No edge of the requirement graph comes from a requirement that is gone, and
\* once everyone has finished, none leads to an action or a variable without a
\* node (requirement_graph.py:347-386, 487-526).
GraphIsCoherent ==
    \A e \in graph.edges :
        /\ e[2] # "writes" => e[1] \in graph.reqs
        /\ AtRest /\ ~stop =>
             /\ e[2] = "constrains" => e[3] \in NamesOf(graph.actions)
             /\ e[2] = "reads" => e[3] \in NamesOf(graph.vars)
             /\ e[2] = "covers" => e[3] \in graph.rfcs

\* A file's requirements are those of the text that its exports are of.
RequirementsAgree(f) == ReqsIn(graph, {f}) = Of(Requires, f, exports[f])

\* A test's scope follows the includes and the exports of now.
ScopeIsOfNow(t) ==
    graph.scopes[t].closure = Closure(t) /\ graph.scopes[t].exported = ExportedBy(t)

\* At rest a file's requirements are those of the text that its exports are of and,
\* unless a stop was requested, every test's scope follows the includes, whoever
\* indexed meanwhile (scope_manager.py:122-148; deep_indexer.py:135-148).
RequirementsAndScopesAgree ==
    AtRest => \A f \in Files : /\ RequirementsAgree(f)
                              /\ Exporting(f) /\ ~stop => ScopeIsOfNow(f)

\* As long as no two of those who index have overlapped, the symbols of a file that
\* is there and was indexed are in the table once (scope_manager.py:305-353).
SymbolsAreThereOnce ==
    (AtRest /\ ~overlapped) =>
        \A f \in Files : exports[f] # 0 /\ disk[f] # 0 => Len(table[f]) = 1

\* At rest the index is consistent: the two above.
IndexAgrees == RequirementsAndScopesAgree /\ SymbolsAreThereOnce
=============================================================================
