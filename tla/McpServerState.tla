--------------------------- MODULE McpServerState --------------------------
(***************************************************************************)
(* The lazily built state of the standalone MCP server: McpServerState of  *)
(* mcp/server.py over two LazyAsyncBuilders (infra/utils/lazy_builder.py), *)
(* the cached list of files and the basename cache.                        *)
(*                                                                         *)
(* The semantic model and the requirement graph are built in threads that  *)
(* read the cached list of files and the files; a builder that gives up on *)
(* a build leaves the thread running.  Tools and the pre-warming thread    *)
(* ask for both; ivy_index, after it changed the workspace, invalidates    *)
(* all four caches.  What a build read is kept as the version of the       *)
(* workspace, 0 for nothing.                                               *)
(***************************************************************************)
EXTENDS Naturals, FiniteSets

CONSTANTS Callers,       \* coroutines that ask for the model or the graph
          Prewarm,       \* of them, the caller of the pre-warming thread
          MaxVersion,    \* versions of the workspace
          MaxBuilds      \* threads that build the same thing at a time

VARIABLES disk,        \* the version of the workspace
          promised,    \* the version at the last invalidation
          files,       \* _cached_ivy_files: the version it lists, or 0
          names,       \* the basename cache: the version it lists, or 0
          value,       \* builder -> _value
          building,    \* builder -> _building
          failure,     \* builder -> "none", "cooling", "cooled" or "permanent"
          lock,        \* builder -> the caller inside _lock, or Nobody
          bridged,     \* the version of the graph mirrored into the model, or 0
          caller,      \* caller -> what it asks for and where it is
          thread,      \* build -> what the thread has read and where it is
          overlapped   \* history: something was read while all was invalidated

vars == <<disk, promised, files, names, value, building, failure, lock, bridged, caller,
          thread, overlapped>>

Builders == {"model", "graph"}
Builds == Builders \X (1 .. MaxBuilds)
Nobody == "nobody"
Unused == [at |-> "unused", listed |-> 0, result |-> "none"]
Unasked == [at |-> "idle", wants |-> "model", build |-> 0]

Init ==
    /\ disk = 1 /\ promised = 1 /\ files = 0 /\ names = 0
    /\ value = [b \in Builders |-> 0] /\ building = [b \in Builders |-> FALSE]
    /\ failure = [b \in Builders |-> "none"] /\ lock = [b \in Builders |-> Nobody]
    /\ bridged = 0
    /\ caller = [c \in Callers |-> Unasked]
    /\ thread = [t \in Builds |-> Unused] /\ overlapped = FALSE

Moves(c, r) == caller' = [caller EXCEPT ![c] = r]
To(c, at) == [caller[c] EXCEPT !.at = at]
Done(c) == [caller[c] EXCEPT !.at = "done", !.build = 0]

-----------------------------------------------------------------------------
(* LazyAsyncBuilder.get.                                                    *)

Refused(b) == failure[b] \in {"cooling", "permanent"}

\* The checks before the lock.
Ask(c, b) ==
    /\ caller[c].at = "idle" /\ (c = Prewarm => b = "model")
    /\ LET asked == [caller[c] EXCEPT !.wants = b]
       IN IF value[b] # 0 \/ Refused(b) \/ building[b]
          THEN Moves(c, [asked EXCEPT !.at = "done"])
          ELSE Moves(c, [asked EXCEPT !.at = "lock"])
    /\ UNCHANGED <<disk, promised, files, names, value, building, failure, lock, bridged,
                   thread, overlapped>>

\* The lock and the checks inside it; a build starts in a thread.
Acquire(c) ==
    /\ caller[c].at = "lock"
    /\ LET b == caller[c].wants
       IN /\ lock[b] = Nobody
          /\ IF value[b] # 0 \/ Refused(b)
             THEN Moves(c, Done(c)) /\ UNCHANGED <<building, lock, thread>>
             ELSE \E n \in 1 .. MaxBuilds :
                    /\ thread[<<b, n>>].at = "unused"
                    /\ \A m \in 1 .. n - 1 : thread[<<b, m>>].at # "unused"
                    /\ thread' = [thread EXCEPT ![<<b, n>>].at = "list"]
                    /\ building' = [building EXCEPT ![b] = TRUE]
                    /\ lock' = [lock EXCEPT ![b] = c]
                    /\ Moves(c, [caller[c] EXCEPT !.at = "build", !.build = n])
    /\ UNCHANGED <<disk, promised, files, names, value, failure, bridged, overlapped>>

Failed(b, exception) ==
    IF b = "graph" /\ exception = "import" THEN "permanent" ELSE "cooling"

Leave(c, b) ==
    /\ building' = [building EXCEPT ![b] = FALSE]
    /\ lock' = [lock EXCEPT ![b] = Nobody]

\* The build returned: a value, nothing, or an exception.
Returned(c) ==
    /\ caller[c].at = "build"
    /\ LET b == caller[c].wants
           t == thread[<<b, caller[c].build>>]
       IN /\ t.at = "over"
          /\ Leave(c, b)
          /\ IF t.result = "built"
             THEN /\ value' = [value EXCEPT ![b] = t.listed] /\ UNCHANGED failure
                  /\ Moves(c, Done(c))
             ELSE /\ failure' = [failure EXCEPT ![b] = Failed(b, t.result)]
                  /\ Moves(c, Done(c)) /\ UNCHANGED value
          \* A new model knows nothing of the graph.
          /\ bridged' = IF b = "model" /\ t.result = "built" THEN 0 ELSE bridged
          /\ thread' = [thread EXCEPT ![<<b, caller[c].build>>] = Unused]
    /\ UNCHANGED <<disk, promised, files, names, overlapped>>

\* Mutant: the flag that a build is under way is not reset on this path.
TimeOutKeepsFlag(c) ==
    /\ caller[c].at = "build" /\ caller[c].wants = "model"
    /\ thread[<<"model", caller[c].build>>].at # "over"
    /\ lock' = [lock EXCEPT !["model"] = Nobody] /\ UNCHANGED building
    /\ failure' = [failure EXCEPT !["model"] = Failed("model", "timeout")]
    /\ Moves(c, Done(c))
    /\ UNCHANGED <<disk, promised, files, names, value, bridged, thread, overlapped>>

\* Only the model's builder has a timeout; the thread goes on.
TimeOut(c) ==
    /\ caller[c].at = "build" /\ caller[c].wants = "model"
    /\ thread[<<"model", caller[c].build>>].at # "over"
    /\ Leave(c, "model")
    /\ failure' = [failure EXCEPT !["model"] = Failed("model", "timeout")]
    /\ Moves(c, Done(c))
    /\ UNCHANGED <<disk, promised, files, names, value, bridged, thread, overlapped>>

CoolDown(b) ==
    /\ failure[b] = "cooling" /\ failure' = [failure EXCEPT ![b] = "cooled"]
    /\ UNCHANGED <<disk, promised, files, names, value, building, lock, bridged, caller,
                   thread, overlapped>>

\* get_or_wait: a value, a wait while a build is under way, or a get of its own
\* in the background, which is another caller.
AskOrWait(c, b) ==
    /\ caller[c].at = "idle" /\ c # Prewarm /\ building[b] /\ value[b] = 0
    /\ Moves(c, [caller[c] EXCEPT !.at = "wait", !.wants = b])
    /\ UNCHANGED <<disk, promised, files, names, value, building, failure, lock, bridged,
                   thread, overlapped>>

\* The build ended, or the wait did.
WaitOver(c) ==
    /\ caller[c].at = "wait" /\ Moves(c, Done(c))
    /\ UNCHANGED <<disk, promised, files, names, value, building, failure, lock, bridged,
                   thread, overlapped>>

\* The pre-warming thread asks for the graph after the model; a tool is called again.
AskAgain(c) ==
    /\ caller[c].at = "done" /\ (c = Prewarm => caller[c].wants = "model")
    /\ IF c # Prewarm THEN Moves(c, Unasked)
       ELSE IF value["graph"] # 0 \/ Refused("graph") \/ building["graph"]
            THEN Moves(c, [caller[c] EXCEPT !.wants = "graph"])
            ELSE Moves(c, [caller[c] EXCEPT !.at = "lock", !.wants = "graph"])
    /\ UNCHANGED <<disk, promised, files, names, value, building, failure, lock, bridged,
                   thread, overlapped>>

-----------------------------------------------------------------------------
(* The threads of the builds and the caches of the lists.                   *)

Runs(t, r) == thread' = [thread EXCEPT ![t] = r]
\* What nobody waits for any more is dropped.
Over(t, result) ==
    IF \E c \in Callers : caller[c].at = "build" /\ <<caller[c].wants, caller[c].build>> = t
    THEN [thread[t] EXCEPT !.at = "over", !.result = result] ELSE Unused

\* find_ivy_files_cached: a cached list, or a walk of the workspace that is
\* stored when it is over.  A second walker waits for the first's lock.
Walking == \E t \in Builds : thread[t].at = "store"

ListFiles(t) ==
    /\ thread[t].at = "list"
    /\ IF files # 0 THEN Runs(t, [thread[t] EXCEPT !.at = "read", !.listed = files])
       ELSE ~Walking /\ Runs(t, [thread[t] EXCEPT !.at = "store", !.listed = disk])
    /\ UNCHANGED <<disk, promised, files, names, value, building, failure, lock, bridged,
                   caller, overlapped>>

StoreList(t) ==
    /\ thread[t].at = "store"
    /\ files' = thread[t].listed
    /\ Runs(t, [thread[t] EXCEPT !.at = "read"])
    /\ UNCHANGED <<disk, promised, names, value, building, failure, lock, bridged, caller,
                   overlapped>>

\* Includes are resolved by the basename cache, itself built from the list.
ReadFiles(t) ==
    /\ thread[t].at = "read"
    /\ \E result \in {"built", "failed"} \cup (IF t[1] = "graph" THEN {"import"} ELSE {}) :
         /\ names' = IF names = 0 /\ files # 0 THEN files ELSE names
         /\ Runs(t, IF t[1] = "graph" /\ result = "built"
                     THEN [thread[t] EXCEPT !.at = "bridge", !.result = result]
                     ELSE Over(t, result))
    /\ UNCHANGED <<disk, promised, files, value, building, failure, lock, bridged, caller,
                   overlapped>>

\* _populate_semantic_model_from_graph: a no-op while there is no model.
Bridge(t) ==
    /\ thread[t].at = "bridge"
    /\ bridged' = IF value["model"] = 0 THEN bridged ELSE thread[t].listed
    /\ Runs(t, Over(t, "built"))
    /\ UNCHANGED <<disk, promised, files, names, value, building, failure, lock, caller,
                   overlapped>>

\* A tool asks for the basename cache.
LookUpName ==
    /\ names = 0 /\ files # 0 /\ names' = files
    /\ UNCHANGED <<disk, promised, files, value, building, failure, lock, bridged, caller,
                   thread, overlapped>>

-----------------------------------------------------------------------------
(* ivy_index rebuilds the offline index and invalidates.                    *)

UnderWay == \E t \in Builds : thread[t].at \notin {"unused", "over"}
Late == \E c \in Callers : caller[c].at = "build"

\* Mutant: the list of files outlives the invalidation.
InvalidateBuilders ==
    /\ disk < MaxVersion /\ disk' = disk + 1 /\ promised' = disk + 1
    /\ value' = [b \in Builders |-> 0] /\ building' = [b \in Builders |-> FALSE]
    /\ failure' = [b \in Builders |-> "none"] /\ bridged' = 0
    /\ names' = 0 /\ UNCHANGED files
    /\ overlapped' = (overlapped \/ UnderWay \/ Late)
    /\ UNCHANGED <<lock, caller, thread>>

InvalidateCaches ==
    /\ disk < MaxVersion /\ disk' = disk + 1 /\ promised' = disk + 1
    /\ value' = [b \in Builders |-> 0] /\ building' = [b \in Builders |-> FALSE]
    /\ failure' = [b \in Builders |-> "none"] /\ bridged' = 0
    /\ files' = 0 /\ names' = 0
    /\ overlapped' = (overlapped \/ UnderWay \/ Late)
    /\ UNCHANGED <<lock, caller, thread>>

-----------------------------------------------------------------------------

CallerStep(c) ==
    \/ \E b \in Builders : Ask(c, b) \/ AskOrWait(c, b)
    \/ Acquire(c) \/ Returned(c) \/ TimeOut(c) \/ WaitOver(c) \/ AskAgain(c)
ThreadStep(t) == ListFiles(t) \/ StoreList(t) \/ ReadFiles(t) \/ Bridge(t)

Next ==
    \/ \E c \in Callers : CallerStep(c)
    \/ \E t \in Builds : ThreadStep(t)
    \/ LookUpName \/ InvalidateCaches \/ (\E b \in Builders : CoolDown(b))

\* Threads and coroutines are scheduled; a caller is not kept from a lock that
\* is free again and again (asyncio.Lock is first in, first out).
Fair == /\ \A c \in Callers : WF_vars(Returned(c) \/ WaitOver(c)) /\ SF_vars(Acquire(c))
        /\ \A t \in Builds : WF_vars(ThreadStep(t))

Spec == Init /\ [][Next]_vars /\ Fair

-----------------------------------------------------------------------------

\* What the server serves was read after the last invalidation, unless some
\* build was under way while it happened: no cache is missed by
\* invalidate_caches, and no build puts together lists of different ages.
CachesAreFresh ==
    ~overlapped => /\ files \in {0} \cup (promised .. disk)
                   /\ names \in {0} \cup (promised .. disk)
                   /\ \A b \in Builders : value[b] \in {0} \cup (promised .. disk)

\* _building says that a caller is inside the lock: it is never left set by a
\* caller that gave up, which would refuse every later caller for ever.
FlagIsHeld == \A b \in Builders : building[b] => lock[b] # Nobody

\* What the builders serve was read after the last invalidation, and their flag is
\* set only while someone builds.
BuildersAreRight == CachesAreFresh /\ FlagIsHeld

\* Every call of get and get_or_wait returns, also while builds fail, time out
\* and are invalidated.
EveryGetEnds == \A c \in Callers : caller[c].at \in {"lock", "build", "wait"} ~> caller[c].at = "done"
=============================================================================
