----------------------------- MODULE ToolCalls -----------------------------
(***************************************************************************)
(* A call of an MCP tool: the wrapper safe_tool (mcp/tools/__init__.py)    *)
(* with its delegation to the sidecar, its semaphore and its timeout, the  *)
(* bodies of ivy_verify and ivy_compile with the cache of results and the  *)
(* set of checks in flight (mcp/tools/verification.py and                  *)
(* verification_cache.py), and the subprocesses they run                   *)
(* (core/verification.py, infra/utils/async_subprocess.py).                *)
(*                                                                         *)
(* The coroutines of one event loop interleave at their awaits; a body is  *)
(* a task of its own.  A file is its version, which is also its mtime; a   *)
(* check reads the file and what it includes when its process starts.      *)
(***************************************************************************)
EXTENDS Naturals, Sequences, FiniteSets

CONSTANTS Calls,        \* the calls, each made once
          Isolates,     \* the isolates of the file, Whole for none
          Whole,
          MaxTools,     \* max_concurrent_tools: permits of both semaphores
          CacheSize,    \* CACHE_MAX_SIZE
          MaxEdits      \* edits of the file and of its includes together

ASSUME CallBounds == Whole \in Isolates /\ MaxTools \in Nat \ {0} /\ CacheSize \in Nat \ {0} /\ MaxEdits \in Nat

VARIABLES disk,      \* file -> version
          sidecar,   \* a sidecar's port is known
          building,  \* the semantic model is being built
          permits,   \* of _tool_semaphore
          slots,     \* of the loop's semaphore for subprocesses
          cache,     \* _verify_cache, oldest entry first
          inFlight,  \* _verify_in_flight
          staged,    \* workspace files copied into Ivy's include directory
          pids,      \* _pid_registry: the calls whose process is registered
          metrics,   \* calls, errors and timeouts counted
          call       \* call -> its wrapper and its body

vars == <<disk, sidecar, building, permits, slots, cache, inFlight, staged, pids,
          metrics, call>>

\* The checked file and one that it includes.
Files == {"file", "direct"}
Answers == {"none", "delegated", "notReady", "queued", "timeout", "cancelled", "error",
            "fresh", "cached", "crashed", "raised"}
Errors == {"queued", "timeout", "cancelled", "error"}
Local == Errors \cup {"fresh", "cached", "crashed"}
\* ivy_verify, ivy_compile, a tool that needs the model, one of _LOCAL_ONLY_TOOLS.
Tools == {"verify", "compile", "analysis", "status"}
Nothing == [f \in Files |-> 0]
Idle == [at |-> "idle", body |-> "none", tool |-> "none", isolate |-> Whole,
         useCache |-> FALSE, answer |-> "none",
         asked |-> Nothing,    \* the files when a call that refuses the cache was made
         read |-> Nothing,     \* the files when its process started
         of |-> Nothing]       \* the files its answer is about

Init ==
    /\ disk = [f \in Files |-> 1] /\ sidecar \in BOOLEAN /\ building \in BOOLEAN
    /\ permits = MaxTools /\ slots = MaxTools
    /\ cache = <<>> /\ inFlight = {} /\ staged = FALSE
    /\ pids = {} /\ metrics = [calls |-> 0, errors |-> 0, timeouts |-> 0]
    /\ call = [c \in Calls |-> Idle]

Moves(c, r) == call' = [call EXCEPT ![c] = r]
Body(c, b) == [call[c] EXCEPT !.body = b]

\* What a call keeps once its wrapper has answered.
Answered(a) == [Idle EXCEPT !.at = "over", !.answer = a]

\* The body ends with b, for its wrapper or, after a cancellation, for nobody.
Ends(c, b, of) ==
    IF call[c].at = "inside"
    THEN [call[c] EXCEPT !.body = b, !.read = Nothing,
                         !.of = IF call[c].useCache THEN Nothing ELSE of]
    ELSE Answered(call[c].answer)

\* The except and finally clauses of the wrapper.
CountQuietly(a) == metrics

Count(a) == [calls |-> metrics.calls + 1,
             errors |-> metrics.errors + IF a \in Errors THEN 1 ELSE 0,
             timeouts |-> metrics.timeouts + IF a \in {"queued", "timeout"} THEN 1 ELSE 0]

-----------------------------------------------------------------------------
(* safe_tool.                                                               *)

\* Delegation comes first, and what is not delegated and needs the model is
\* refused while that is built.
Locally(r) ==
    IF r.tool = "analysis" /\ building THEN Answered("notReady")
    ELSE [r EXCEPT !.at = "queue"]

\* An isolate and the cache are arguments of ivy_verify.
Call(c, tool, isolate, useCache) ==
    /\ call[c].at = "idle"
    /\ tool # "verify" => isolate = Whole /\ ~useCache
    /\ LET asked == [call[c] EXCEPT !.tool = tool, !.isolate = isolate, !.useCache = useCache,
                        !.asked = IF tool # "verify" \/ useCache THEN Nothing ELSE disk]
       IN Moves(c, IF sidecar /\ tool # "status" THEN [asked EXCEPT !.at = "delegated"]
                   ELSE Locally(asked))
    /\ UNCHANGED <<disk, sidecar, building, permits, slots, cache, inFlight, staged, pids,
                   metrics>>

SidecarAnswers(c) ==
    /\ call[c].at = "delegated" /\ Moves(c, Answered("delegated"))
    /\ UNCHANGED <<disk, sidecar, building, permits, slots, cache, inFlight, staged, pids,
                   metrics>>

\* A timeout or an error of the sidecar falls through to local execution.
SidecarFails(c) ==
    /\ call[c].at = "delegated" /\ Moves(c, Locally(call[c]))
    /\ UNCHANGED <<disk, sidecar, building, permits, slots, cache, inFlight, staged, pids,
                   metrics>>

Enter(c) ==
    /\ call[c].at = "queue" /\ permits > 0
    /\ permits' = permits - 1
    /\ Moves(c, [call[c] EXCEPT !.at = "inside",
                    !.body = CASE call[c].tool = "verify" -> "look"
                               [] call[c].tool = "compile" -> "stage"
                               [] OTHER -> "work"])
    /\ UNCHANGED <<disk, sidecar, building, slots, cache, inFlight, staged, pids, metrics>>

QueueTimeout(c) ==
    /\ call[c].at = "queue"
    /\ Moves(c, Answered("queued")) /\ metrics' = Count("queued")
    /\ UNCHANGED <<disk, sidecar, building, permits, slots, cache, inFlight, staged, pids>>

BodyOver(c) == call[c].body \in {"fresh", "cached", "error", "crashed"}

\* The body is over: its permit goes back, its result or its exception is the
\* answer; a RuntimeError is raised again and counts as a call only.
Return(c) ==
    /\ call[c].at = "inside" /\ BodyOver(c)
    /\ permits' = permits + 1
    /\ Moves(c, [Answered(call[c].body) EXCEPT !.asked = call[c].asked, !.of = call[c].of])
    /\ metrics' = Count(call[c].body)
    /\ UNCHANGED <<disk, sidecar, building, slots, cache, inFlight, staged, pids>>

\* Mutant: the slot of a cancelled subprocess is not given back.
UnwoundKeepingSlot(c) ==
    /\ staged' = IF call[c].body \in {"compileSlot", "compiling"} THEN FALSE ELSE staged
    /\ pids' = pids \ {c} /\ UNCHANGED slots

\* What a cancelled body leaves: its clauses catch Exception, which a
\* cancellation is not, so that only the finally clauses run.
Unwound(c) ==
    /\ staged' = IF call[c].body \in {"compileSlot", "compiling"} THEN FALSE ELSE staged
    /\ pids' = pids \ {c}
    /\ slots' = IF call[c].body \in {"checking", "compiling"} THEN slots + 1 ELSE slots

\* Mutant: a body that waits for another's check is not timed out.
TimeOutUnlessPolling(c) ==
    /\ call[c].at = "inside" /\ ~BodyOver(c) /\ call[c].body # "poll"
    /\ Unwound(c) /\ permits' = permits + 1
    /\ Moves(c, Answered("timeout")) /\ metrics' = Count("timeout")
    /\ UNCHANGED <<disk, sidecar, building, cache, inFlight>>

\* _cancel_safe_wait_for cancels the body and waits for it to end.
TimeOut(c) ==
    /\ call[c].at = "inside" /\ ~BodyOver(c)
    /\ Unwound(c) /\ permits' = permits + 1
    /\ Moves(c, Answered("timeout")) /\ metrics' = Count("timeout")
    /\ UNCHANGED <<disk, sidecar, building, cache, inFlight>>

\* The user cancels: a wrapper that waits for its body lets go of the permit
\* and answers, and the body goes on by itself; during a delegation nothing
\* catches the cancellation.
Cancel(c) ==
    /\ call[c].at \in {"delegated", "queue", "inside"}
    /\ IF call[c].at = "delegated"
       THEN Moves(c, Answered("raised")) /\ UNCHANGED <<metrics, permits>>
       ELSE /\ Moves(c, IF call[c].at = "queue" \/ BodyOver(c) THEN Answered("cancelled")
                        ELSE [call[c] EXCEPT !.at = "over", !.answer = "cancelled"])
            /\ metrics' = Count("cancelled")
            /\ permits' = IF call[c].at = "inside" THEN permits + 1 ELSE permits
    /\ UNCHANGED <<disk, sidecar, building, slots, cache, inFlight, staged, pids>>

-----------------------------------------------------------------------------
(* The cache of results.                                                    *)

Key(c) == call[c].isolate
EntryOf(k) == SelectSeq(cache, LAMBDA e : e.key = k)
Cached(k) == EntryOf(k) # <<>>

\* The file and what the entry says it includes have the recorded mtimes.
IsFresh(e) == \A f \in DOMAIN e.mtimes : disk[f] = e.mtimes[f]

Without(s, k) == SelectSeq(s, LAMBDA e : e.key # k)

\* An entry that is there keeps its place; the oldest go first.
Evicted(s) == IF Len(s) > CacheSize THEN SubSeq(s, Len(s) - CacheSize + 1, Len(s)) ELSE s
Stored(s, e) ==
    Evicted(IF SelectSeq(s, LAMBDA x : x.key = e.key) = <<>> THEN Append(s, e)
            ELSE [i \in DOMAIN s |-> IF s[i].key = e.key THEN e ELSE s[i]])

\* The whole file's entry has the mtimes of the direct includes; an isolate
\* seen in the output of a whole check has the file's alone, and does not
\* replace an entry.
Entry(k, read, F) == [key |-> k, of |-> read, mtimes |-> [f \in F |-> disk[f]]]

StoredIsolates(s, read) ==
    LET new == {k \in Isolates \ {Whole} : SelectSeq(s, LAMBDA x : x.key = k) = <<>>}
    IN IF new = {} THEN s
       ELSE LET k == CHOOSE k \in new : TRUE IN Stored(s, Entry(k, read, {"file"}))

Result(c, read) ==
    LET own == Stored(cache, Entry(Key(c), read, {"file", "direct"}))
    IN IF Key(c) = Whole THEN StoredIsolates(own, read) ELSE own

-----------------------------------------------------------------------------
(* ivy_verify.  Its sections under the lock have no await.                  *)

Served(c, e) == Ends(c, "cached", e.of)

Look(c) ==
    /\ call[c].body = "look"
    /\ IF call[c].useCache /\ Cached(Key(c)) /\ IsFresh(EntryOf(Key(c))[1])
       THEN Moves(c, Served(c, EntryOf(Key(c))[1])) /\ UNCHANGED <<cache, inFlight>>
       ELSE /\ cache' = IF call[c].useCache THEN Without(cache, Key(c)) ELSE cache
            /\ IF Key(c) \in inFlight
               THEN Moves(c, Body(c, "poll")) /\ UNCHANGED inFlight
               ELSE Moves(c, Body(c, "slot")) /\ inFlight' = inFlight \cup {Key(c)}
    /\ UNCHANGED <<disk, sidecar, building, permits, slots, staged, pids, metrics>>

\* Mutant: the result that is there is taken as it is, by everybody.
PollForAnyResult(c) ==
    /\ call[c].body = "poll" /\ Key(c) \notin inFlight
    /\ IF Cached(Key(c))
       THEN Moves(c, Served(c, EntryOf(Key(c))[1])) /\ UNCHANGED inFlight
       ELSE Moves(c, Body(c, "slot")) /\ inFlight' = inFlight \cup {Key(c)}
    /\ UNCHANGED <<disk, sidecar, building, permits, slots, cache, staged, pids, metrics>>

\* The owner has finished: its result if it will do, or a run of one's own.
Poll(c) ==
    /\ call[c].body = "poll" /\ Key(c) \notin inFlight
    /\ IF call[c].useCache /\ Cached(Key(c)) /\ IsFresh(EntryOf(Key(c))[1])
       THEN Moves(c, Served(c, EntryOf(Key(c))[1])) /\ UNCHANGED inFlight
       ELSE Moves(c, Body(c, "slot")) /\ inFlight' = inFlight \cup {Key(c)}
    /\ UNCHANGED <<disk, sidecar, building, permits, slots, cache, staged, pids, metrics>>

\* Six hundred polls later the call runs its own check beside the other.
PollTimeout(c) ==
    /\ call[c].body = "poll" /\ Key(c) \in inFlight
    /\ Moves(c, Body(c, "slot")) /\ inFlight' = inFlight \cup {Key(c)}
    /\ UNCHANGED <<disk, sidecar, building, permits, slots, cache, staged, pids, metrics>>

\* run_ivy_subprocess: a slot, a process, its registration.
Start(c) ==
    /\ call[c].body \in {"slot", "compileSlot"} /\ slots > 0
    /\ slots' = slots - 1
    /\ pids' = pids \cup {c}
    /\ Moves(c, [call[c] EXCEPT !.read = IF call[c].tool = "verify" THEN disk ELSE Nothing,
                    !.body = IF @ = "slot" THEN "checking" ELSE "compiling"])
    /\ UNCHANGED <<disk, sidecar, building, permits, cache, inFlight, staged, metrics>>

\* A check's result goes to the cache with the mtimes of now; an exception on
\* the way (the output cannot be parsed) ends it without.
Checked(c, read) ==
    /\ call[c].tool = "verify" /\ inFlight' = inFlight \ {Key(c)} /\ UNCHANGED staged
    /\ \/ cache' = Result(c, read) /\ Moves(c, Ends(c, "fresh", read))
       \/ /\ UNCHANGED cache
          /\ \E b \in {"error", "crashed"} : Moves(c, Ends(c, b, Nothing))

\* The finally clause of a compilation removes the staged files.
Compiled(c) ==
    /\ call[c].tool = "compile" /\ staged' = FALSE /\ UNCHANGED <<cache, inFlight>>
    /\ Moves(c, Ends(c, "fresh", Nothing))

\* The process ends, or runs into the timeout of the subprocess, is killed, and
\* is given five seconds to go; what follows has no await.
Communicate(c) ==
    /\ call[c].body \in {"checking", "compiling"}
    /\ pids' = pids \ {c} /\ slots' = slots + 1
    /\ Checked(c, call[c].read) \/ Compiled(c)
    /\ UNCHANGED <<disk, sidecar, building, permits, metrics>>

\* The program is not on the path: a result without a process.
NotFound(c) ==
    /\ call[c].body \in {"slot", "compileSlot"} /\ slots > 0
    /\ Checked(c, disk) \/ Compiled(c)
    /\ UNCHANGED <<disk, sidecar, building, permits, slots, pids, metrics>>

-----------------------------------------------------------------------------
(* ivy_compile, and a tool that computes.                                   *)

\* The workspace's files are copied into a directory all compilations share.
Stage(c) ==
    /\ call[c].body = "stage" /\ staged' = TRUE /\ Moves(c, Body(c, "compileSlot"))
    /\ UNCHANGED <<disk, sidecar, building, permits, slots, cache, inFlight, pids, metrics>>

Work(c) ==
    /\ call[c].body = "work"
    /\ \E b \in {"fresh", "error", "crashed"} : Moves(c, Ends(c, b, Nothing))
    /\ UNCHANGED <<disk, sidecar, building, permits, slots, cache, inFlight, staged, pids,
                   metrics>>

-----------------------------------------------------------------------------
(* The surroundings.                                                        *)

Edits == disk["file"] + disk["direct"] - 2
Edit(f) ==
    /\ Edits < MaxEdits /\ disk' = [disk EXCEPT ![f] = @ + 1]
    /\ UNCHANGED <<sidecar, building, permits, slots, cache, inFlight, staged, pids, metrics, call>>

BuildStartsOrEnds ==
    /\ building' = ~building
    /\ UNCHANGED <<disk, sidecar, permits, slots, cache, inFlight, staged, pids,
                   metrics, call>>

-----------------------------------------------------------------------------

WrapperStep(c) ==
    \/ \E t \in Tools, k \in Isolates, u \in BOOLEAN : Call(c, t, k, u)
    \/ SidecarAnswers(c) \/ SidecarFails(c) \/ Enter(c) \/ QueueTimeout(c)
    \/ Return(c) \/ TimeOut(c) \/ Cancel(c)
BodyStep(c) == Look(c) \/ Poll(c) \/ PollTimeout(c) \/ Start(c) \/ NotFound(c) \/ Communicate(c)
               \/ Stage(c) \/ Work(c)

Next ==
    \/ \E c \in Calls : WrapperStep(c) \/ BodyStep(c)
    \/ BuildStartsOrEnds \/ \E f \in Files : Edit(f)

\* The timeouts of the wrapper and of the sidecar call are what is certain: a
\* body need not end.
Fair == \A c \in Calls : WF_vars(SidecarFails(c)) /\ WF_vars(QueueTimeout(c))
                      /\ WF_vars(Return(c) \/ TimeOut(c))

Spec == Init /\ [][Next]_vars /\ Fair

-----------------------------------------------------------------------------

Inside(c) == call[c].at = "inside"
Holds(c) == call[c].body \in {"checking", "compiling"}

\* No way through a call, its timeouts and its cancellations loses or doubles
\* a permit or a slot; a process somebody waits for is registered, so that it
\* is killed when the server is; and every local call is counted once, as what
\* it was answered.
CallsAreAccountedFor ==
    /\ permits + Cardinality({c \in Calls : Inside(c)}) = MaxTools
    /\ slots + Cardinality({c \in Calls : Holds(c)}) = MaxTools
    /\ pids = {c \in Calls : Holds(c)}
    /\ metrics.calls = Cardinality({c \in Calls : call[c].answer \in Local})
    /\ metrics.errors = Cardinality({c \in Calls : call[c].answer \in Errors})
    /\ metrics.timeouts = Cardinality({c \in Calls : call[c].answer \in {"queued", "timeout"}})

\* "use_cache=False callers still get a fresh run": what a call that refuses
\* the cache is told was read after it was made, whoever else checks the same
\* file meanwhile and whatever is in the cache.
AnswersAreFresh ==
    \A c \in Calls :
        call[c].answer \in {"fresh", "cached"} =>
            \A f \in Files : call[c].of[f] >= call[c].asked[f]

\* Every call is answered, or its cancellation raised, however long its body
\* takes.
EveryCallIsAnswered == \A c \in Calls : call[c].at # "idle" ~> call[c].at = "over"

=============================================================================
