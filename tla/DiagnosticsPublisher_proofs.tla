-------------------- MODULE DiagnosticsPublisher_proofs --------------------
(***************************************************************************)
(* The safety of the diagnostics publisher, for every set of calls.        *)
(* Whether a task can be cancelled rests on nothing but the registry; that *)
(* diagnostics are always of some version of the document needs, for every *)
(* point of a handler or a task, that it has read one.                     *)
(***************************************************************************)
EXTENDS DiagnosticsPublisher, SequenceTheorems, TLAPS

\* A handler that went past its first step, and a task, have read a version.
Reading ==
    /\ \A h \in Async : at[h] \in {"locking", "reindexing", "computing"}
                            => read[h] # None
    /\ \A c \in Changes : task[c] = "working" => read[c] # None
    /\ \A s \in Saves : task[s] \in Alive => read[s] # None
    /\ \A s \in Saves : task[s] = "working" => checked[s] # None

\* A task is there only once its handler has returned.
TasksFollowHandlers == \A h \in Owners : task[h] # "none" => at[h] = "done"

LockIsHeld == \A h \in Async : at[h] = "reindexing" => lock = h

\* Who makes the index current: a save that has not reindexed yet, or whoever
\* is reindexing, if it read the file as it is now.
IndexWillFollow ==
    \/ ~HasIndexer \/ disk \in {OnDisk} \cup Failing
    \/ \E s \in Saves : at[s] \in {"arrived", "locking"}
    \/ \E h \in Async : at[h] = "reindexing" /\ scanned[h] = disk
    \/ index = disk /\ \A h \in Async : at[h] # "reindexing"

IInv == /\ TypeOK
        /\ Reading
        /\ TasksFollowHandlers
        /\ TasksCanBeCancelled
        /\ DeepRunsHaveAnEntry
        /\ LockIsHeld
        /\ IndexWillFollow

-----------------------------------------------------------------------------
(***************************************************************************)
(* What the helpers do                                                     *)
(***************************************************************************)
LEMMA SourceIsAVersion ==
    ASSUME TypeOK
    PROVE  Source \in Versions /\ Source # None
BY PublisherAssumption DEF TypeOK, Source, Versions

LEMMA FastIsAnEntry ==
    ASSUME TypeOK, NEW v \in Versions, UpdateFast(v)
    PROVE  cache' \in Entry /\ cache' # None
<1>1. cache # None => cache \in Entry
  BY DEF TypeOK
<1>2. cache' \in Entry
  BY <1>1 DEF UpdateFast, Entry
<1> QED
  BY <1>2, NoneAssumption

LEMMA PublishedIsAPublication ==
    ASSUME NEW v \in Versions, NEW full \in BOOLEAN, Publish(v, full)
    PROVE  shown' \in Publication
BY DEF Publish, Publication

\* Cancelling leaves no living task of the kinds in K but the new one, and
\* touches the registration of no other kind.
LEMMA CancelLeavesNone ==
    ASSUME TypeOK, TasksCanBeCancelled,
           NEW K \in SUBSET Kinds, NEW h \in Owners \cup {None},
           h \in Owners => KindOf(h) \in K,
           CancelTasks(K, h)
    PROVE  /\ task' \in [Owners -> TaskPoints]
           /\ registry' \in [Kinds -> Owners \cup {None}]
           /\ h \in Owners => task'[h] = "new"
           /\ \A t \in Owners \ {h} :
                 /\ task'[t] \in Alive => task[t] = task'[t] /\ KindOf(t) \notin K
                 /\ task'[t] # "none" => task[t] # "none"
           /\ TasksCanBeCancelled'
<1> USE DEF CancelTasks
<1>1. \A t \in Owners : KindOf(t) \in Kinds
  BY DEF KindOf, Kinds
<1>2. task' \in [Owners -> TaskPoints]
  BY DEF TypeOK, TaskPoints
<1>3. registry' \in [Kinds -> Owners \cup {None}]
  BY DEF TypeOK
<1>4. ASSUME NEW t \in Owners, t # h
      PROVE  /\ task'[t] \in Alive => task[t] = task'[t] /\ KindOf(t) \notin K
             /\ task'[t] # "none" => task[t] # "none"
  BY <1>1, <1>4 DEF TypeOK, TasksCanBeCancelled, Alive
<1>5. TasksCanBeCancelled'
  BY <1>1, <1>4 DEF TypeOK, TasksCanBeCancelled
<1>6. h \in Owners => task'[h] = "new"
  OBVIOUS
<1> QED
  BY <1>2, <1>3, <1>4, <1>5, <1>6

\* A step that gives a task no new life keeps every task cancellable.
LEMMA OneTaskMoves ==
    ASSUME TypeOK, NEW h \in Owners, NEW point \in TaskPoints, TaskAt(h, point)
    PROVE  /\ task' \in [Owners -> TaskPoints]
           /\ task'[h] = point
           /\ \A t \in Owners \ {h} : task'[t] = task[t]
BY DEF TypeOK, TaskAt

LEMMA OneHandlerMoves ==
    ASSUME TypeOK, NEW h \in Async \cup Changes, NEW point \in Points,
           HandlerAt(h, point)
    PROVE  /\ at' \in [Async \cup Changes -> Points]
           /\ at'[h] = point
           /\ \A g \in (Async \cup Changes) \ {h} : at'[g] = at[g]
BY DEF TypeOK, HandlerAt

-----------------------------------------------------------------------------
(***************************************************************************)
(* The invariant is inductive                                              *)
(***************************************************************************)
LEMMA InitEstablishes == Init => IInv
<1> SUFFICES ASSUME Init PROVE IInv
  OBVIOUS
<1> USE DEF Init
<1>1. TypeOK
  BY DEF TypeOK, Versions, Points, TaskPoints
<1>2. Reading /\ TasksFollowHandlers /\ LockIsHeld
  BY DEF Reading, TasksFollowHandlers, LockIsHeld, Alive, Async, Owners
<1>4. IndexWillFollow
  BY DEF IndexWillFollow
<1>3. TasksCanBeCancelled /\ DeepRunsHaveAnEntry
  BY DEF TasksCanBeCancelled, DeepRunsHaveAnEntry, Alive, Owners
<1> QED
  BY <1>1, <1>2, <1>3, <1>4 DEF IInv

LEMMA Arrivals ==
    ASSUME IInv, NEW h \in Async \cup Changes, Arrive(h),
           buffer' \in Edits \cup {None}, disk' \in Versions,
           h \in Saves \/ disk' = disk
    PROVE  IInv'
<1> USE DEF IInv, Arrive, tasks, indexing, results
<1>1. at' \in [Async \cup Changes -> Points] /\ at'[h] = "arrived"
      /\ \A g \in (Async \cup Changes) \ {h} : at'[g] = at[g]
  BY OneHandlerMoves DEF Points
<1>2. TypeOK'
  BY <1>1 DEF TypeOK
<1>3. Reading'
  BY <1>1 DEF Reading, Async
<1>4. TasksFollowHandlers'
  BY <1>1 DEF TasksFollowHandlers, Owners, Async
<1>5. LockIsHeld'
  BY <1>1 DEF LockIsHeld
<1>6. TasksCanBeCancelled' /\ DeepRunsHaveAnEntry'
  BY DEF TasksCanBeCancelled, DeepRunsHaveAnEntry
<1>7. IndexWillFollow'
  BY <1>1 DEF IndexWillFollow, Async
<1> QED
  BY <1>2, <1>3, <1>4, <1>5, <1>6, <1>7

LEMMA ClientKeeps == ASSUME IInv, ClientStep PROVE IInv'
<1> USE DEF IInv
<1>1. ASSUME NEW o \in Opens, OpenArrives(o) PROVE IInv'
  BY <1>1, Arrivals DEF OpenArrives, Async, Edits, TypeOK
<1>2. ASSUME NEW c \in Changes, ChangeArrives(c) PROVE IInv'
  BY <1>2, Arrivals DEF ChangeArrives, Async, Edits, TypeOK
<1>3. ASSUME NEW s \in Saves, SaveArrives(s) PROVE IInv'
  BY <1>3, Arrivals DEF SaveArrives, Async, Versions, TypeOK
<1>4. ASSUME NEW p \in Pulls, PullArrives(p) PROVE IInv'
  BY <1>4, Arrivals DEF PullArrives, Async, files, TypeOK
<1>5. CASE Close
  <2> USE <1>5 DEF Close, indexing
  <2>1. /\ task' \in [Owners -> TaskPoints]
        /\ registry' \in [Kinds -> Owners \cup {None}]
        /\ \A t \in Owners : /\ task'[t] \notin Alive
                             /\ task'[t] # "none" => task[t] # "none"
        /\ TasksCanBeCancelled'
    <3>1. None \notin Owners /\ \A t \in Owners : KindOf(t) \in Kinds
      BY PublisherAssumption DEF KindOf, Kinds
    <3> QED
      BY <3>1, CancelLeavesNone
  <2>2. TypeOK'
    BY <2>1 DEF TypeOK
  <2>3. Reading'
    BY <2>1 DEF Reading, Alive, Owners
  <2>4. TasksFollowHandlers' /\ LockIsHeld'
    BY <2>1 DEF TasksFollowHandlers, LockIsHeld
  <2>5. DeepRunsHaveAnEntry' /\ IndexWillFollow'
    BY <2>1 DEF DeepRunsHaveAnEntry, IndexWillFollow, Owners
  <2> QED
    BY <2>1, <2>2, <2>3, <2>4, <2>5
<1> QED
  BY <1>1, <1>2, <1>3, <1>4, <1>5 DEF ClientStep

\* The first two steps of a handler that computes, and the lock.
LEMMA HandlersAdvance ==
    ASSUME IInv, NEW h \in Async, BeginAsync(h) \/ Reindex(h) \/ Reindexed(h)
    PROVE  IInv'
<1> USE DEF IInv, files, tasks, indexing, results, Points
<1>1. CASE BeginAsync(h)
  <2> USE <1>1 DEF BeginAsync, Begin
  <2>1. PICK point \in {"computing", "locking"} :
          /\ HandlerAt(h, point)
          /\ HasIndexer /\ h \in Saves => point = "locking"
    BY PublisherAssumption
  <2>2. /\ at' \in [Async \cup Changes -> Points] /\ at'[h] = point
        /\ \A g \in (Async \cup Changes) \ {h} : at'[g] = at[g]
    BY <2>1, OneHandlerMoves
  <2>3. /\ read' \in [Async \cup Changes -> Versions \cup {None}]
        /\ read'[h] # None
        /\ \A g \in (Async \cup Changes) \ {h} : read'[g] = read[g]
    BY SourceIsAVersion DEF TypeOK
  <2>4. TypeOK'
    BY <2>2, <2>3 DEF TypeOK
  <2>5. task[h] = "none" \/ h \notin Owners
    BY DEF TasksFollowHandlers
  <2>6. Reading'
    BY <2>2, <2>3 DEF Reading, Async
  <2>7. TasksFollowHandlers' /\ LockIsHeld'
    BY <2>2, <2>5, <2>1 DEF TasksFollowHandlers, LockIsHeld, Owners, Async
  <2>8. TasksCanBeCancelled' /\ DeepRunsHaveAnEntry'
    BY DEF TasksCanBeCancelled, DeepRunsHaveAnEntry
  <2>9. IndexWillFollow'
    BY <2>1, <2>2 DEF IndexWillFollow, Async
  <2> QED
    BY <2>4, <2>6, <2>7, <2>8, <2>9
<1>2. CASE Reindex(h) \/ Reindexed(h)
  <2> USE <1>2 DEF Reindex, Reindexed, Scan
  <2>1. PICK point \in {"computing", "reindexing"} : HandlerAt(h, point)
    OBVIOUS
  <2>2. /\ at' \in [Async \cup Changes -> Points] /\ at'[h] = point
        /\ \A g \in (Async \cup Changes) \ {h} : at'[g] = at[g]
    BY <2>1, OneHandlerMoves
  <2>8. /\ scanned' \in [Async -> Versions \cup {None}]
        /\ scanned'[h] = IF Reindex(h) THEN disk ELSE None
        /\ \A g \in Async \ {h} : scanned'[g] = scanned[g]
    BY DEF TypeOK
  <2>3. TypeOK'
    BY <2>2, <2>8 DEF TypeOK
  <2>4. Reading'
    BY <2>2 DEF Reading, Async
  <2>5. TasksFollowHandlers'
    BY <2>2 DEF TasksFollowHandlers, Owners, Async
  <2>6. LockIsHeld'
    <3>1. CASE Reindex(h)
      BY <3>1, <2>2, PublisherAssumption DEF LockIsHeld
    <3>2. CASE Reindexed(h)
      BY <3>2, <2>2, OneHandlerMoves DEF LockIsHeld
    <3> QED
      BY <3>1, <3>2
  <2>7. TasksCanBeCancelled' /\ DeepRunsHaveAnEntry'
    BY DEF TasksCanBeCancelled, DeepRunsHaveAnEntry
  <2>9. IndexWillFollow'
    <3>1. CASE Reindex(h)
      BY <3>1, <2>2, <2>8, OneHandlerMoves DEF IndexWillFollow, Async
    <3>2. CASE Reindexed(h)
      \* Another version than the file's was read only if a save came since.
      <4>1. \A g \in Async : at'[g] # "reindexing" /\ (g # h => at[g] # "reindexing")
        BY <3>2, <2>2, OneHandlerMoves, PublisherAssumption DEF LockIsHeld
      <4>2. CASE scanned[h] = disk
        BY <3>2, <4>1, <4>2, <2>2 DEF IndexWillFollow
      <4>3. CASE scanned[h] # disk
        BY <3>2, <4>1, <4>3, <2>2 DEF IndexWillFollow, Async
      <4> QED
        BY <4>2, <4>3
    <3> QED
      BY <3>1, <3>2
  <2> QED
    BY <2>3, <2>4, <2>5, <2>6, <2>7, <2>9
<1> QED
  BY <1>1, <1>2

\* A handler that creates no task returns.
LEMMA HandlersReturn ==
    ASSUME IInv, NEW h \in Async, FinishOpen(h) \/ FinishPull(h) \/ HandlerFails(h)
    PROVE  IInv'
<1> USE DEF IInv, files, tasks, indexing, results, Points, Return,
            FinishOpen, FinishPull, HandlerFails
<1>1. /\ at' \in [Async \cup Changes -> Points] /\ at'[h] = "done"
      /\ \A g \in (Async \cup Changes) \ {h} : at'[g] = at[g]
  BY OneHandlerMoves
<1>2. read[h] \in Versions
  BY DEF Reading, TypeOK, Async
<1>3. /\ read' \in [Async \cup Changes -> Versions \cup {None}]
      /\ \A g \in (Async \cup Changes) \ {h} : read'[g] = read[g]
  BY DEF TypeOK
<1>4. cache' \in Entry \cup {None} /\ (cache # None => cache' # None)
  BY <1>2, FastIsAnEntry DEF TypeOK
<1>5. shown' \in Publication \cup {None}
  BY <1>2, PublishedIsAPublication DEF TypeOK
<1>6. TypeOK'
  BY <1>1, <1>3, <1>4, <1>5 DEF TypeOK
<1>7. h \in Owners => task[h] = "none"
  BY DEF TasksFollowHandlers
<1>8. Reading'
  BY <1>1, <1>3, <1>7, PublisherAssumption
     DEF Reading, Async, Alive, Owners, Edits
<1>9. TasksFollowHandlers' /\ LockIsHeld'
  BY <1>1 DEF TasksFollowHandlers, LockIsHeld, Owners, Async
<1>10. TasksCanBeCancelled' /\ DeepRunsHaveAnEntry'
  BY <1>4 DEF TasksCanBeCancelled, DeepRunsHaveAnEntry
<1>11. IndexWillFollow'
  BY <1>1 DEF IndexWillFollow, Async
<1> QED
  BY <1>6, <1>8, <1>9, <1>10, <1>11

\* A handler that returns leaving a task behind.
LEMMA HandlersLeaveTasks ==
    ASSUME IInv, NEW h \in Owners,
           FinishSave(h) \/ (h \in Changes /\ Change(h))
    PROVE  IInv'
<1> USE DEF IInv, files, tasks, indexing, results, Points
<1>1. h \in Async \cup Changes /\ h # None
  BY PublisherAssumption DEF Owners, Async
<1>2. /\ at' \in [Async \cup Changes -> Points] /\ at'[h] = "done"
      /\ \A g \in (Async \cup Changes) \ {h} : at'[g] = at[g]
  BY <1>1, OneHandlerMoves DEF FinishSave, Change, Return
<1>3. CancelTasks({KindOf(h)}, h)
  BY PublisherAssumption DEF FinishSave, Change, KindOf
<1>4. KindOf(h) \in Kinds
  BY DEF KindOf, Kinds
<1>5. /\ task' \in [Owners -> TaskPoints]
      /\ registry' \in [Kinds -> Owners \cup {None}]
      /\ task'[h] = "new"
      /\ \A t \in Owners \ {h} :
            /\ task'[t] \in Alive => task[t] = task'[t] /\ KindOf(t) # KindOf(h)
            /\ task'[t] # "none" => task[t] # "none"
      /\ TasksCanBeCancelled'
  BY <1>3, <1>4, CancelLeavesNone
<1>6. read' = read /\ checked' = checked /\ UNCHANGED indexing /\ ready' \in Seq(Async \cup Changes)
      /\ buffer' = buffer /\ disk' = disk
  BY HeadTailProperties DEF FinishSave, Change, Return, Begin, TypeOK
<1>7. h \in Saves => read[h] \in Versions
  BY PublisherAssumption DEF FinishSave, Change, Reading, TypeOK, Async
<1>8. /\ cache' \in Entry \cup {None} /\ (cache # None => cache' # None)
      /\ h \in Saves => cache' # None
  BY <1>7, FastIsAnEntry, SourceIsAVersion, PublisherAssumption
     DEF FinishSave, Change, TypeOK
<1>9. shown' \in Publication \cup {None}
  BY <1>7, PublishedIsAPublication, SourceIsAVersion DEF FinishSave, Change, TypeOK
<1>10. TypeOK'
  BY <1>2, <1>5, <1>6, <1>8, <1>9 DEF TypeOK
<1>11. Reading'
  <2>1. \A g \in Async : at'[g] \in {"locking", "reindexing", "computing"}
                             => read[g] # None
    BY <1>2 DEF Reading
  <2>2. \A t \in Owners : task'[t] = "working" => task[t] = "working"
    BY <1>5 DEF Alive
  <2>3. ASSUME NEW s \in Saves, task'[s] \in Alive PROVE read[s] # None
    BY <2>3, <1>5, <1>7, PublisherAssumption DEF Reading, Owners, Versions, Edits
  <2> QED
    BY <1>6, <2>1, <2>2, <2>3 DEF Reading, Owners
<1>12. TasksFollowHandlers' /\ LockIsHeld'
  BY <1>1, <1>2, <1>5, <1>6 DEF TasksFollowHandlers, LockIsHeld, Owners, Async
<1>13. DeepRunsHaveAnEntry'
  BY <1>5, <1>8 DEF DeepRunsHaveAnEntry, Owners
<1>14. IndexWillFollow'
  <2>1. CASE FinishSave(h)
    <3>1. at[h] = "computing"
      BY <2>1 DEF FinishSave
    <3> QED
      BY <1>2, <1>6, <3>1 DEF IndexWillFollow, Async
  <2>2. CASE h \in Changes
    <3>1. h \notin Async
      BY <2>2, PublisherAssumption DEF Async, Edits
    <3> QED
      BY <1>2, <1>6, <3>1 DEF IndexWillFollow, Async
  <2> QED
    BY <2>1, <2>2
<1> QED
  BY <1>5, <1>10, <1>11, <1>12, <1>13, <1>14

\* A task that goes to work has read what it works on.
LEMMA TasksStart ==
    ASSUME IInv, NEW h \in Owners, Wake(h) \/ StartDeep(h)
    PROVE  IInv'
<1> USE DEF IInv, files, tasks, indexing, results, Wake, StartDeep
<1>1. /\ task' \in [Owners -> TaskPoints] /\ task'[h] = "working"
      /\ \A t \in Owners \ {h} : task'[t] = task[t]
  BY OneTaskMoves DEF TaskPoints
<1>2. at' = at /\ (h \in Changes \/ h \in Saves) /\ task[h] = "new"
  OBVIOUS
<1>3. /\ read' \in [Async \cup Changes -> Versions \cup {None}]
      /\ \A g \in Async \cup Changes : read[g] # None => read'[g] # None
      /\ h \in Changes => read'[h] # None
  BY <1>2, SourceIsAVersion, PublisherAssumption DEF TypeOK
<1>4. /\ checked' \in [Saves -> Versions \cup {None}]
      /\ \A s \in Saves : checked[s] # None => checked'[s] # None
      /\ h \in Saves => checked'[h] # None
  BY <1>2, PublisherAssumption DEF TypeOK
<1>5. TypeOK'
  BY <1>1, <1>3, <1>4 DEF TypeOK
<1>6. Reading'
  BY <1>1, <1>2, <1>3, <1>4 DEF Reading, Owners, Alive, Async
<1>7. TasksFollowHandlers' /\ LockIsHeld'
  BY <1>1, <1>2 DEF TasksFollowHandlers, LockIsHeld
<1>8. TasksCanBeCancelled' /\ DeepRunsHaveAnEntry'
  BY <1>1, <1>2 DEF TasksCanBeCancelled, DeepRunsHaveAnEntry, Alive, Owners
<1>9. IndexWillFollow'
  BY DEF IndexWillFollow
<1> QED
  BY <1>5, <1>6, <1>7, <1>8, <1>9

\* A task ends, whether it finished, had nothing to do or was cancelled.
LEMMA TasksEnd ==
    ASSUME IInv, NEW h \in Owners,
           FinishDebounced(h) \/ FinishDeep(h) \/ SkipDeep(h) \/ CancelDelivered(h)
    PROVE  IInv'
<1> USE DEF IInv, files, tasks, indexing, results, EndTask,
            FinishDebounced, FinishDeep, SkipDeep, CancelDelivered
<1>1. /\ task' \in [Owners -> TaskPoints] /\ task'[h] = "ended"
      /\ \A t \in Owners \ {h} : task'[t] = task[t]
  BY OneTaskMoves DEF TaskPoints
<1>2. at' = at /\ task[h] # "none"
  OBVIOUS
<1>3. /\ read' \in [Async \cup Changes -> Versions \cup {None}]
      /\ \A g \in (Async \cup Changes) \ {h} : read'[g] = read[g]
      /\ checked' \in [Saves -> Versions \cup {None}]
      /\ \A s \in Saves \ {h} : checked'[s] = checked[s]
  BY DEF TypeOK
<1>4. FinishDebounced(h) => read[h] \in Versions
  BY DEF Reading, TypeOK
<1>5. FinishDeep(h) => read[h] \in Versions /\ checked[h] \in Versions
  BY DEF Reading, TypeOK, Alive, Async
<1>6. cache' \in Entry \cup {None} /\ (cache # None => cache' # None)
  <2>1. CASE FinishDebounced(h)
    BY <2>1, <1>4, FastIsAnEntry DEF TypeOK
  <2>2. CASE FinishDeep(h)
    <3>1. cache # None => cache' \in Entry
      BY <2>2, <1>5 DEF UpdateDeep, Entry, TypeOK
    <3> QED
      BY <2>2, <3>1, NoneAssumption DEF UpdateDeep
  <2> QED
    BY <2>1, <2>2 DEF TypeOK
<1>7. shown' \in Publication \cup {None}
  BY <1>4, <1>5, PublishedIsAPublication DEF TypeOK
<1>8. TypeOK'
  BY <1>1, <1>3, <1>6, <1>7 DEF TypeOK
<1>9. at[h] = "done"
  BY <1>2 DEF TasksFollowHandlers
<1>10. Reading'
  BY <1>1, <1>2, <1>3, <1>9, PublisherAssumption
     DEF Reading, Async, Alive, Owners, Edits
<1>11. TasksFollowHandlers' /\ LockIsHeld'
  BY <1>1, <1>2, <1>9 DEF TasksFollowHandlers, LockIsHeld
<1>12. TasksCanBeCancelled' /\ DeepRunsHaveAnEntry'
  BY <1>1, <1>6 DEF TasksCanBeCancelled, DeepRunsHaveAnEntry, Alive, Owners
<1>13. IndexWillFollow'
  BY DEF IndexWillFollow
<1> QED
  BY <1>8, <1>10, <1>11, <1>12, <1>13

LEMMA TasksAreCleanedUp ==
    ASSUME IInv, NEW h \in Owners, CleanUp(h)
    PROVE  IInv'
<1> USE DEF IInv, files, tasks, indexing, results, CleanUp
<1>1. /\ task' \in [Owners -> TaskPoints] /\ task'[h] = "none"
      /\ \A t \in Owners \ {h} : task'[t] = task[t]
  BY OneTaskMoves DEF TaskPoints
<1>2. \A t \in Owners : KindOf(t) \in Kinds
  BY DEF KindOf, Kinds
<1>3. TypeOK'
  BY <1>1, <1>2 DEF TypeOK
<1>4. Reading'
  BY <1>1 DEF Reading, Alive, Owners
<1>5. TasksFollowHandlers' /\ LockIsHeld'
  BY <1>1 DEF TasksFollowHandlers, LockIsHeld
<1>6. TasksCanBeCancelled'
  \* A living task is not h, so its registration is not the one taken out.
  BY <1>1, <1>2 DEF TasksCanBeCancelled, Alive, TypeOK
<1>7. DeepRunsHaveAnEntry'
  BY <1>1 DEF DeepRunsHaveAnEntry, Alive, Owners
<1>8. IndexWillFollow'
  BY DEF IndexWillFollow
<1> QED
  BY <1>3, <1>4, <1>5, <1>6, <1>7, <1>8

\* IInv holds in every state the publisher reaches, whatever its calls are.
THEOREM Inductive == Spec => []IInv
<1>1. Init => IInv
  BY InitEstablishes
<1>2. ASSUME IInv, [Next]_vars PROVE IInv'
  <2>1. CASE ClientStep
    BY <1>2, <2>1, ClientKeeps
  <2>2. ASSUME NEW h \in Async, HandlerStep(h) PROVE IInv'
    <3>1. CASE FinishSave(h)
      BY <1>2, <3>1, HandlersLeaveTasks DEF FinishSave, Owners
    <3> QED
      BY <1>2, <2>2, <3>1, HandlersAdvance, HandlersReturn DEF HandlerStep
  <2>5. ASSUME NEW c \in Changes, Change(c) PROVE IInv'
    BY <1>2, <2>5, HandlersLeaveTasks DEF Owners
  <2>3. ASSUME NEW h \in Owners, TaskStep(h) PROVE IInv'
    BY <1>2, <2>3, TasksStart, TasksEnd, TasksAreCleanedUp DEF TaskStep
  <2>4. CASE UNCHANGED vars
    BY <1>2, <2>4 DEF vars, files, tasks, indexing, results, IInv, TypeOK, Reading,
       TasksFollowHandlers, TasksCanBeCancelled, DeepRunsHaveAnEntry, LockIsHeld, IndexWillFollow
  <2> QED
    BY <1>2, <2>1, <2>2, <2>3, <2>4, <2>5 DEF Next, ServerStep
<1> QED
  BY <1>1, <1>2, PTL DEF Spec

-----------------------------------------------------------------------------
(***************************************************************************)
(* What follows                                                            *)
(***************************************************************************)
\* Every variable keeps to the values the code gives it; in particular what is
\* cached and published was computed from a version of the document.
THEOREM TypeCorrect == Spec => []TypeOK
<1>1. IInv => TypeOK
  BY DEF IInv
<1> QED
  BY <1>1, Inductive, PTL

\* _cancel_task and the done callback never lose a task that may publish.
THEOREM TasksStayCancellable == Spec => []TasksCanBeCancelled
<1>1. IInv => TasksCanBeCancelled
  BY DEF IInv
<1> QED
  BY <1>1, Inductive, PTL

\* The result of a deep run that was not cancelled always has an entry.
THEOREM DeepRunsFindTheirEntry == Spec => []DeepRunsHaveAnEntry
<1>1. IInv => DeepRunsHaveAnEntry
  BY DEF IInv
<1> QED
  BY <1>1, Inductive, PTL

\* The per-file lock keeps a reindexing that read the file before a save from
\* overwriting the save's.
THEOREM SavesReachTheIndex == Spec => []SavedFileIsIndexed
<1>1. IInv => SavedFileIsIndexed
  BY DEF IInv, IndexWillFollow, SavedFileIsIndexed
<1> QED
  BY <1>1, Inductive, PTL
=============================================================================
