------------------------ MODULE DiagnosticsPublisher ------------------------
(***************************************************************************)
(* The diagnostics of one document (lsp/diagnostics/publisher.py): the     *)
(* handlers of didOpen, didChange, didSave, didClose and of pulls, the     *)
(* debounced task of a change, the deep task (ivy_check) of a save, and    *)
(* the cache pulls are answered from.  All of them run on one event loop   *)
(* and interleave at their awaits; a step is what runs between two awaits. *)
(* The framework applies a notification to the document when it arrives    *)
(* and runs an async handler as a task, later.                             *)
(*                                                                         *)
(* A version of the document is named by the notification that made it;    *)
(* what diagnostics say is which version they were computed from.  An      *)
(* "unchanged" answer to a pull changes nothing and is left out, and so    *)
(* is the version number sent along with the diagnostics.                  *)
(***************************************************************************)
EXTENDS Naturals, Sequences

CONSTANTS Opens, Changes, Saves, Pulls,   \* calls of the handlers
          OnDisk,     \* the version on disk at the start
          TextOf,     \* the text of a version: an edit may be undone
          Failing,    \* versions on which the analysis raises
          HasIndexer, \* whether the file is one the server indexes
          MaxReady,   \* bound on the calls that wait for the loop
          None        \* no version, task or entry; nothing shown

Edits == Opens \cup Changes
Versions == Edits \cup {OnDisk}
Async == Opens \cup Saves \cup Pulls      \* handlers that compute
Owners == Changes \cup Saves              \* handlers that create a task

ASSUME PublisherAssumption ==
    /\ Opens \cap Changes = {} /\ Owners \cap Opens = {} /\ Changes \cap Saves = {}
    /\ Pulls \cap (Edits \cup Saves) = {}
    /\ MaxReady \in Nat /\ HasIndexer \in BOOLEAN
    /\ None \notin Versions \cup Owners \cup Async

VARIABLES buffer,      \* version of the open document, or None
          disk,        \* version of the file
          ready,       \* async handlers called and not begun, in the loop's order
          at,          \* where each handler is
          read,        \* version each handler, or a change's task, works on
          task,        \* the task of each change and save
          registry,    \* _debounce_tasks and _deep_tasks, at this document
          checked,     \* version ivy_check of a save ran on
          lock,        \* _reindex_locks, at this file
          scanned,     \* version each handler's reindexing read from disk
          index,       \* version whose symbols the indexer has, or None
          cache,       \* the DiagnosticCache entry
          shown        \* the diagnostics published last

files == <<buffer, disk>>
tasks == <<task, registry, checked>>
indexing == <<lock, scanned, index>>
results == <<cache, shown>>
vars == <<files, ready, at, read, tasks, indexing, results>>

Kinds == {"debounce", "deep"}
KindOf(h) == IF h \in Changes THEN "debounce" ELSE "deep"

Points == {"idle", "arrived", "locking", "reindexing", "computing", "done"}
TaskPoints == {"none", "new", "working", "cancelled", "ended"}
Alive == {"new", "working"}

\* A cached entry: the text its hash and its fast diagnostics are of, and the
\* version its deep ones are of.  What is shown: the version the diagnostics
\* are of, and whether they are more than the structural ones.
Entry == [text : {TextOf[v] : v \in Versions}, deep : Versions \cup {None}]
Publication == [of : Versions, full : BOOLEAN]

ASSUME NoneAssumption == None \notin Entry \cup Publication

Init == /\ buffer = None
        /\ disk = OnDisk
        /\ ready = <<>>
        /\ at = [h \in Async \cup Changes |-> "idle"]
        /\ read = [h \in Async \cup Changes |-> None]
        /\ task = [h \in Owners |-> "none"]
        /\ registry = [k \in Kinds |-> None]
        /\ checked = [s \in Saves |-> None]
        /\ lock = None
        /\ scanned = [h \in Async |-> None]
        /\ index \in {None, OnDisk}
        /\ cache = None
        /\ shown = None

\* get_text_document(uri).source: a document that is not open is read from disk.
Source == IF buffer # None THEN buffer ELSE disk

HandlerAt(h, point) == at' = [at EXCEPT ![h] = point]

(***************************************************************************)
(* The cache                                                               *)
(***************************************************************************)
\* Deep diagnostics are kept when the hash of the source is the same.
UpdateFast(v) ==
    cache' = [text |-> TextOf[v],
              deep |-> IF cache # None /\ cache.text = TextOf[v]
                       THEN cache.deep ELSE None]

UpdateDeep(v) ==
    cache' = IF cache = None THEN None ELSE [cache EXCEPT !.deep = v]

Publish(v, full) == shown' = [of |-> v, full |-> full]

(***************************************************************************)
(* Tasks                                                                   *)
(***************************************************************************)
\* _cancel_task on every kind in K, then (_register_task) the task of h when
\* it is given one.  A cancelled task stops at its next turn.
CancelTasks(K, h) ==
    /\ task' = [t \in Owners |->
                  IF t = h THEN "new"
                  ELSE IF t \in {registry[k] : k \in K} /\ task[t] \in Alive
                       THEN "cancelled" ELSE task[t]]
    /\ registry' = [k \in Kinds |-> IF k \in K THEN h ELSE registry[k]]

TaskAt(h, point) == task' = [task EXCEPT ![h] = point]

\* A task that ends, by itself or cancelled, has its callback called later.
EndTask(h) ==
    /\ TaskAt(h, "ended")
    /\ read' = [read EXCEPT ![h] = None]
    /\ checked' = [s \in Saves |-> IF s = h THEN None ELSE checked[s]]

CancelDelivered(h) ==
    /\ task[h] = "cancelled"
    /\ EndTask(h)
    /\ UNCHANGED <<files, ready, at, registry, indexing, results>>

\* Mutant: whatever is registered is taken out.
CleanUpAny(h) ==
    /\ task[h] = "ended"
    /\ TaskAt(h, "none")
    /\ registry' = [registry EXCEPT ![KindOf(h)] = None]
    /\ UNCHANGED <<files, ready, at, read, checked, indexing, results>>

\* The done callback: the task is taken out of the registry if it is there.
CleanUp(h) ==
    /\ task[h] = "ended"
    /\ TaskAt(h, "none")
    /\ registry' = [registry EXCEPT ![KindOf(h)] = IF @ = h THEN None ELSE @]
    /\ UNCHANGED <<files, ready, at, read, checked, indexing, results>>

(***************************************************************************)
(* Notifications and requests arrive                                       *)
(***************************************************************************)
Arrive(h) ==
    /\ at[h] = "idle" /\ Len(ready) < MaxReady
    /\ HandlerAt(h, "arrived")
    /\ ready' = Append(ready, h)
    /\ UNCHANGED <<read, tasks, indexing, results>>

OpenArrives(o) ==
    /\ buffer = None
    /\ Arrive(o)
    /\ buffer' = o
    /\ UNCHANGED disk

ChangeArrives(c) ==
    /\ buffer # None
    /\ Arrive(c)
    /\ buffer' = c
    /\ UNCHANGED disk

\* The editor wrote the file before it sent the notification.
SaveArrives(s) ==
    /\ buffer # None
    /\ Arrive(s)
    /\ disk' = buffer
    /\ UNCHANGED buffer

PullArrives(p) == Arrive(p) /\ UNCHANGED files

\* Mutant: the deep task is left running.
CloseLeavesDeep ==
    /\ buffer # None
    /\ buffer' = None
    /\ CancelTasks({"debounce"}, None)
    /\ cache' = None
    /\ shown' = None
    /\ UNCHANGED <<disk, ready, at, read, checked, indexing>>

\* did_close is not async and runs at once.
Close ==
    /\ buffer # None
    /\ buffer' = None
    /\ CancelTasks(Kinds, None)
    /\ cache' = None
    /\ shown' = None
    /\ UNCHANGED <<disk, ready, at, read, checked, indexing>>

(***************************************************************************)
(* did_open, did_save and pulls                                            *)
(***************************************************************************)
\* The loop begins handlers in the order they were called.
Begin(h) ==
    /\ at[h] = "arrived" /\ ready # <<>> /\ h = Head(ready)
    /\ ready' = Tail(ready)

\* Opens and saves reindex the file first, if the server indexes it.
BeginAsync(h) ==
    /\ Begin(h)
    /\ read' = [read EXCEPT ![h] = Source]
    /\ HandlerAt(h, IF HasIndexer /\ h \notin Pulls THEN "locking" ELSE "computing")
    /\ UNCHANGED <<files, tasks, indexing, results>>

\* The symbols of the file are removed, and the file is read from disk.
Scan(h) ==
    /\ HandlerAt(h, "reindexing")
    /\ scanned' = [scanned EXCEPT ![h] = disk]
    /\ index' = None
    /\ UNCHANGED <<files, ready, read, tasks, results>>

\* Mutant: the lock is made anew for each call.
ReindexUnlocked(h) ==
    /\ at[h] = "locking"
    /\ lock' = h
    /\ Scan(h)

Reindex(h) ==
    /\ at[h] = "locking"
    /\ lock = None
    /\ lock' = h
    /\ Scan(h)

\* A failure is logged, and the lock is released all the same.
Reindexed(h) ==
    /\ at[h] = "reindexing"
    /\ \/ index' = scanned[h]
       \/ scanned[h] \in Failing /\ UNCHANGED index
    /\ scanned' = [scanned EXCEPT ![h] = None]
    /\ lock' = None
    /\ HandlerAt(h, "computing")
    /\ UNCHANGED <<files, ready, read, tasks, results>>

\* A handler ends; its document goes to its task or is forgotten.
Return(h) ==
    /\ HandlerAt(h, "done")
    /\ UNCHANGED <<files, ready, checked, indexing>>

FinishOpen(o) ==
    /\ at[o] = "computing" /\ o \in Opens
    /\ UpdateFast(read[o])
    /\ Publish(read[o], TRUE)
    /\ read' = [read EXCEPT ![o] = None]
    /\ Return(o)
    /\ UNCHANGED <<task, registry>>

\* The deep task is registered by the handler's last step.
FinishSave(s) ==
    /\ at[s] = "computing" /\ s \in Saves
    /\ UpdateFast(read[s])
    /\ Publish(read[s], TRUE)
    /\ CancelTasks({"deep"}, s)
    /\ Return(s)
    /\ UNCHANGED read

FinishPull(p) ==
    /\ at[p] = "computing" /\ p \in Pulls
    /\ UpdateFast(read[p])
    /\ read' = [read EXCEPT ![p] = None]
    /\ Return(p)
    /\ UNCHANGED <<task, registry, shown>>

HandlerFails(h) ==
    /\ at[h] = "computing" /\ read[h] \in Failing
    /\ read' = [read EXCEPT ![h] = None]
    /\ Return(h)
    /\ UNCHANGED <<task, registry, results>>

(***************************************************************************)
(* did_change and its debounced task                                       *)
(***************************************************************************)
\* Structural diagnostics at once (unless the lint raises), the rest after
\* DEBOUNCE_DELAY.
Change(c) ==
    /\ Begin(c)
    /\ \/ UpdateFast(Source) /\ Publish(Source, FALSE)
       \/ Source \in Failing /\ UNCHANGED results
    /\ CancelTasks({"debounce"}, c)
    /\ HandlerAt(c, "done")
    /\ UNCHANGED <<files, read, checked, indexing>>

\* Mutant: nothing is computed when the cache has an entry for the text.
WakeUnlessCached(c) ==
    /\ task[c] = "new" /\ c \in Changes
    /\ IF cache # None /\ cache.text = TextOf[Source]
       THEN TaskAt(c, "ended") /\ UNCHANGED read
       ELSE TaskAt(c, "working") /\ read' = [read EXCEPT ![c] = Source]
    /\ UNCHANGED <<files, ready, at, registry, checked, indexing, results>>

Wake(c) ==
    /\ task[c] = "new" /\ c \in Changes
    /\ read' = [read EXCEPT ![c] = Source]
    /\ TaskAt(c, "working")
    /\ UNCHANGED <<files, ready, at, registry, checked, indexing, results>>

FinishDebounced(c) ==
    /\ task[c] = "working" /\ c \in Changes
    /\ \/ UpdateFast(read[c]) /\ Publish(read[c], TRUE)
       \/ read[c] \in Failing /\ UNCHANGED results
    /\ EndTask(c)
    /\ UNCHANGED <<files, ready, at, registry, indexing>>

(***************************************************************************)
(* The deep task of did_save                                               *)
(***************************************************************************)
\* ivy_check reads the file from disk.
StartDeep(s) ==
    /\ task[s] = "new" /\ s \in Saves
    /\ checked' = [checked EXCEPT ![s] = disk]
    /\ TaskAt(s, "working")
    /\ UNCHANGED <<files, ready, at, read, registry, indexing, results>>

\* A module outside every test is not checked: the client is asked to pull.
SkipDeep(s) ==
    /\ task[s] = "new" /\ s \in Saves
    /\ EndTask(s)
    /\ UNCHANGED <<files, ready, at, registry, indexing, results>>

FinishDeep(s) ==
    /\ task[s] = "working" /\ s \in Saves
    /\ UpdateDeep(checked[s])
    /\ Publish(read[s], TRUE)
    /\ EndTask(s)
    /\ UNCHANGED <<files, ready, at, registry, indexing>>

ClientStep == \/ \E o \in Opens : OpenArrives(o)
              \/ \E c \in Changes : ChangeArrives(c)
              \/ \E s \in Saves : SaveArrives(s)
              \/ \E p \in Pulls : PullArrives(p)
              \/ Close

HandlerStep(h) == \/ BeginAsync(h) \/ Reindex(h) \/ Reindexed(h)
                  \/ FinishOpen(h) \/ FinishSave(h) \/ FinishPull(h)
                  \/ HandlerFails(h)

TaskStep(h) == \/ Wake(h) \/ FinishDebounced(h)
               \/ StartDeep(h) \/ SkipDeep(h) \/ FinishDeep(h)
               \/ CancelDelivered(h) \/ CleanUp(h)

ServerStep == \/ \E h \in Async : HandlerStep(h)
              \/ \E c \in Changes : Change(c)
              \/ \E h \in Owners : TaskStep(h)

Next == ClientStep \/ ServerStep

Spec == Init /\ [][Next]_vars

\* The loop and its executor do not stop while there is work, and ivy_check has
\* a timeout.  Calls are finitely many, so nothing more is needed.
Fairness == WF_vars(ServerStep)

FairSpec == Spec /\ Fairness

-----------------------------------------------------------------------------
(***************************************************************************)
(* Properties                                                              *)
(***************************************************************************)

\* Every variable keeps to the values the code gives it.
TypeOK ==
    /\ buffer \in Edits \cup {None}
    /\ disk \in Versions
    /\ ready \in Seq(Async \cup Changes)
    /\ at \in [Async \cup Changes -> Points]
    /\ read \in [Async \cup Changes -> Versions \cup {None}]
    /\ task \in [Owners -> TaskPoints]
    /\ registry \in [Kinds -> Owners \cup {None}]
    /\ checked \in [Saves -> Versions \cup {None}]
    /\ lock \in Async \cup {None}
    /\ scanned \in [Async -> Versions \cup {None}]
    /\ index \in Versions \cup {None}
    /\ cache \in Entry \cup {None}
    /\ shown \in Publication \cup {None}

\* A task that may still publish can be cancelled: it is the one registered
\* for its kind.  So a later change or save, and a close, silence it, however
\* cancellations, completions and done callbacks interleave (lines 34-49).
TasksCanBeCancelled ==
    \A h \in Owners : task[h] \in Alive => registry[KindOf(h)] = h

\* A deep run that was not cancelled finds the entry its save made: its result
\* always gets into the cache (line 102 guards against the contrary).
DeepRunsHaveAnEntry == \A s \in Saves : task[s] \in Alive => cache # None

\* "Indexer freshness is restored on didSave" (line 287): once the handlers of
\* the saves that arrived are past their reindexing, and none is under way, the
\* symbols are those of the file, whatever opens and older saves reindexed
\* meanwhile from what the file was (lines 230-238).
SavedFileIsIndexed ==
    /\ HasIndexer /\ disk \notin {OnDisk} \cup Failing
    /\ \A s \in Saves : at[s] \notin {"arrived", "locking"}
    /\ \A h \in Async : at[h] # "reindexing"
    => index = disk

\* A change the document stays at gets its full diagnostics published, unless
\* the analysis fails on it: no cancellation, by an older or newer handler,
\* loses the last change (lines 34-49, 283-347).
EditIsPublished ==
    \A c \in Changes \ Failing :
        buffer = c /\ at[c] = "arrived" ~>
            \/ buffer # c
            \/ shown # None /\ shown.of = c /\ shown.full
=============================================================================
