--------------------------- MODULE CompilerManager ---------------------------
(***************************************************************************)
(* CompilerManager (core/compilation/compiler_manager.py): subprocess      *)
(* compilations with a result cache, a registry of the running process of  *)
(* each file and a semaphore.  One step per critical section or blocking   *)
(* call of compile_async (the caller's thread) and of its _wait closure (a *)
(* daemon thread of its own); the worker process, the clock, the callers   *)
(* that invalidate and the shutdown handler interleave with them.          *)
(***************************************************************************)
EXTENDS Naturals, Sequences, FiniteSets

CONSTANTS Jobs, Files, Sources, FileOf, SourceOf, Raisers,
          MaxConcurrent,   \* permits of _semaphore
          NoJob,           \* an absent entry of _active
          NoEntry          \* an absent entry of _cache

ASSUME ManagerAssumption ==
    /\ FileOf \in [Jobs -> Files]
    /\ SourceOf \in [Jobs -> Sources]
    /\ Raisers \subseteq Jobs
    /\ IsFiniteSet(Jobs)
    /\ MaxConcurrent \in Nat \ {0}
    /\ NoJob \notin Jobs

VARIABLES cache,    \* _cache : the entry of each file
          active,   \* _active: the registered process of each file; the
                    \* process of a call is named by the call
          permits,  \* value of _semaphore
          pc,       \* where the thread serving each call is
          proc,     \* the subprocess of each call
          victim,   \* the process _cancel_if_running popped for the call
          got,      \* the IR the thread is about to hand on
          answers,  \* what each call's callback was called with
          down      \* outcome of shutdown()

vars == <<cache, active, permits, pc, proc, victim, got, answers, down>>

Kinds == {"compiled", "crashed", "timedOut", "queueTimeout", "error"}
IR == [kind : Kinds, of : Jobs]
Entry == [ir : IR, source : Sources, expired : BOOLEAN]

\* Program points of compile_async, then of _wait.
CallerPoints == {"idle", "missed", "killing", "registering", "answeringHit",
                 "raised"}
HoldingPoints == {"starting", "polling", "caching", "answering", "handling",
                  "unregistering", "releasing"}
WaiterPoints == HoldingPoints \cup {"queued", "leavingQueue",
                                    "answeringQueue", "done"}

Ir(k, j) == [kind |-> k, of |-> j]

Goto(j, point) == pc' = [pc EXCEPT ![j] = point]

\* proc.kill() stops a running worker; what was sent stays in the pipe.
Killed(S) == [j \in Jobs |-> IF j \in S /\ proc[j] = "running"
                             THEN "dead" ELSE proc[j]]

Registered == {active[f] : f \in Files} \ {NoJob}

Init == /\ cache = [f \in Files |-> NoEntry]
        /\ active = [f \in Files |-> NoJob]
        /\ permits = MaxConcurrent
        /\ pc = [j \in Jobs |-> "idle"]
        /\ proc = [j \in Jobs |-> "none"]
        /\ victim = [j \in Jobs |-> NoJob]
        /\ got = [j \in Jobs |-> Ir("error", j)]
        /\ answers = [j \in Jobs |-> <<>>]
        /\ down = "up"

(***************************************************************************)
(* compile_async, in the caller's thread                                   *)
(***************************************************************************)
\* Mutant: the hash of the source is not compared.
MatchesAnySource(j) == cache[FileOf[j]] # NoEntry

Matches(j) == /\ cache[FileOf[j]] # NoEntry
              /\ cache[FileOf[j]].source = SourceOf[j]

\* _get_cached_by_hash: an entry for the same source that has not expired.
LookupHit(j) ==
    /\ pc[j] = "idle"
    /\ Matches(j) /\ ~cache[FileOf[j]].expired
    /\ got' = [got EXCEPT ![j] = cache[FileOf[j]].ir]
    /\ Goto(j, "answeringHit")
    /\ UNCHANGED <<cache, active, permits, proc, victim, answers, down>>

\* No entry, an entry for another source, or an expired one, which goes.
LookupMiss(j) ==
    /\ pc[j] = "idle"
    /\ \/ ~Matches(j) /\ UNCHANGED cache
       \/ /\ Matches(j) /\ cache[FileOf[j]].expired
          /\ cache' = [cache EXCEPT ![FileOf[j]] = NoEntry]
    /\ Goto(j, "missed")
    /\ UNCHANGED <<active, permits, proc, victim, got, answers, down>>

\* _cancel_if_running takes the registered process out under the lock ...
CancelPop(j) ==
    /\ pc[j] = "missed"
    /\ victim' = [victim EXCEPT ![j] = active[FileOf[j]]]
    /\ active' = [active EXCEPT ![FileOf[j]] = NoJob]
    /\ Goto(j, IF active[FileOf[j]] = NoJob THEN "registering" ELSE "killing")
    /\ UNCHANGED <<cache, permits, proc, got, answers, down>>

\* ... and kills it after the lock is released; one that was not started yet
\* is not alive and is left alone.
CancelKill(j) ==
    /\ pc[j] = "killing"
    /\ proc' = Killed({victim[j]})
    /\ victim' = [victim EXCEPT ![j] = NoJob]
    /\ Goto(j, "registering")
    /\ UNCHANGED <<cache, active, permits, got, answers, down>>

\* The process is registered, then the waiter thread is started; when start()
\* raises, the pipe is closed and the registration stays.
Register(j) ==
    /\ pc[j] = "registering"
    /\ active' = [active EXCEPT ![FileOf[j]] = j]
    /\ proc' = [proc EXCEPT ![j] = "new"]
    /\ \E point \in {"queued", "raised"} : Goto(j, point)
    /\ UNCHANGED <<cache, permits, victim, got, answers, down>>

\* Mutant: the failure is both reported to the callback and raised.
PrepareFailsTwice(j) ==
    /\ pc[j] = "registering"
    /\ answers' = [answers EXCEPT ![j] = Append(@, Ir("error", j))]
    /\ Goto(j, "raised")
    /\ UNCHANGED <<cache, active, permits, proc, victim, got, down>>

\* The pipe or the process object cannot be made: compile_async raises.
PrepareFails(j) ==
    /\ pc[j] = "registering"
    /\ Goto(j, "raised")
    /\ UNCHANGED <<cache, active, permits, proc, victim, got, answers, down>>

\* The cached IR is handed on in the caller's thread; what the callback
\* raises is the caller's.
AnswerHit(j) ==
    /\ pc[j] = "answeringHit"
    /\ answers' = [answers EXCEPT ![j] = Append(@, got[j])]
    /\ Goto(j, "done")
    /\ UNCHANGED <<cache, active, permits, proc, victim, got, down>>

(***************************************************************************)
(* _wait, in the daemon thread of the call                                 *)
(***************************************************************************)
AcquirePermit(j) ==
    /\ pc[j] = "queued"
    /\ permits > 0
    /\ permits' = permits - 1
    /\ Goto(j, "starting")
    /\ UNCHANGED <<cache, active, proc, victim, got, answers, down>>

\* acquire(timeout=60.0) gives up.
QueueTimeout(j) ==
    /\ pc[j] = "queued"
    /\ permits = 0
    /\ Goto(j, "leavingQueue")
    /\ UNCHANGED <<cache, active, permits, proc, victim, got, answers, down>>

\* The registration of the file is popped, whoever it belongs to.
LeaveQueue(j) ==
    /\ pc[j] = "leavingQueue"
    /\ active' = [active EXCEPT ![FileOf[j]] = NoJob]
    /\ got' = [got EXCEPT ![j] = Ir("queueTimeout", j)]
    /\ Goto(j, "answeringQueue")
    /\ UNCHANGED <<cache, permits, proc, victim, answers, down>>

\* Outside the try statement: the thread ends whether the callback raises.
AnswerQueue(j) ==
    /\ pc[j] = "answeringQueue"
    /\ answers' = [answers EXCEPT ![j] = Append(@, got[j])]
    /\ Goto(j, "done")
    /\ UNCHANGED <<cache, active, permits, proc, victim, got, down>>

StartProc(j) ==
    /\ pc[j] = "starting"
    /\ proc' = [proc EXCEPT ![j] = "running"]
    /\ Goto(j, "polling")
    /\ UNCHANGED <<cache, active, permits, victim, got, answers, down>>

\* Mutant: a worker that cannot be started is cleaned up and not reported.
StartFailsSilently(j) ==
    /\ pc[j] = "starting"
    /\ Goto(j, "unregistering")
    /\ UNCHANGED <<cache, active, permits, proc, victim, got, answers, down>>

StartFails(j) ==
    /\ pc[j] = "starting"
    /\ Goto(j, "handling")
    /\ UNCHANGED <<cache, active, permits, proc, victim, got, answers, down>>

\* Mutant: end of file on the pipe passes for a result.
ReceiveEof(j) ==
    /\ pc[j] = "polling"
    /\ proc[j] \in {"sent", "dead"}
    /\ \E k \in {"compiled", "crashed"} : got' = [got EXCEPT ![j] = Ir(k, j)]
    /\ Goto(j, "caching")
    /\ UNCHANGED <<cache, active, permits, proc, victim, answers, down>>

\* poll() is true with a result in the pipe, or with end of file when the
\* worker died; a result that cannot be read counts as a crash.
Receive(j) ==
    /\ pc[j] = "polling"
    /\ \/ /\ proc[j] = "sent"
          /\ \E k \in {"compiled", "crashed"} :
                 got' = [got EXCEPT ![j] = Ir(k, j)]
       \/ /\ proc[j] = "dead"
          /\ got' = [got EXCEPT ![j] = Ir("crashed", j)]
    /\ Goto(j, "caching")
    /\ UNCHANGED <<cache, active, permits, proc, victim, answers, down>>

\* Mutant: the worker is not killed at the timeout.
PollTimeoutNoKill(j) ==
    /\ pc[j] = "polling"
    /\ proc[j] = "running"
    /\ got' = [got EXCEPT ![j] = Ir("timedOut", j)]
    /\ Goto(j, "answering")
    /\ UNCHANGED <<cache, active, permits, proc, victim, answers, down>>

\* Mutant: the timeout joins the path of the results, which caches them.
PollTimeoutCached(j) ==
    /\ pc[j] = "polling"
    /\ proc[j] = "running"
    /\ proc' = Killed({j})
    /\ got' = [got EXCEPT ![j] = Ir("timedOut", j)]
    /\ Goto(j, "caching")
    /\ UNCHANGED <<cache, active, permits, victim, answers, down>>

\* Mutant: the thread gives up only on a worker that is no longer alive.
PollUntilDead(j) ==
    /\ pc[j] = "polling"
    /\ proc[j] = "dead"
    /\ got' = [got EXCEPT ![j] = Ir("timedOut", j)]
    /\ Goto(j, "answering")
    /\ UNCHANGED <<cache, active, permits, proc, victim, answers, down>>

\* poll(self._timeout) is false: the worker is killed and nothing is cached.
PollTimeout(j) ==
    /\ pc[j] = "polling"
    /\ proc[j] = "running"
    /\ proc' = Killed({j})
    /\ got' = [got EXCEPT ![j] = Ir("timedOut", j)]
    /\ Goto(j, "answering")
    /\ UNCHANGED <<cache, active, permits, victim, answers, down>>

PutCache(j) ==
    /\ pc[j] = "caching"
    /\ cache' = [cache EXCEPT ![FileOf[j]] =
                    [ir |-> got[j], source |-> SourceOf[j], expired |-> FALSE]]
    /\ Goto(j, "answering")
    /\ UNCHANGED <<active, permits, proc, victim, got, answers, down>>

AnswerResult(j) ==
    /\ pc[j] = "answering"
    /\ answers' = [answers EXCEPT ![j] = Append(@, got[j])]
    /\ \/ Goto(j, "unregistering")
       \/ j \in Raisers /\ Goto(j, "handling")
    /\ UNCHANGED <<cache, active, permits, proc, victim, got, down>>

\* Mutant: the thread ends here, without the finally block.
AnswerErrorAndEnd(j) ==
    /\ pc[j] = "handling"
    /\ answers' = [answers EXCEPT ![j] = Append(@, Ir("error", j))]
    /\ Goto(j, "done")
    /\ UNCHANGED <<cache, active, permits, proc, victim, got, down>>

\* except Exception: the callback is called with the error.
AnswerError(j) ==
    /\ pc[j] = "handling"
    /\ answers' = [answers EXCEPT ![j] = Append(@, Ir("error", j))]
    /\ Goto(j, "unregistering")
    /\ UNCHANGED <<cache, active, permits, proc, victim, got, down>>

\* Mutant: the registration is left behind.
UnregisterForgotten(j) ==
    /\ pc[j] = "unregistering"
    /\ Goto(j, "releasing")
    /\ UNCHANGED <<cache, active, permits, proc, victim, got, answers, down>>

Unregister(j) ==
    /\ pc[j] = "unregistering"
    /\ active' = [active EXCEPT ![FileOf[j]] = IF @ = j THEN NoJob ELSE @]
    /\ Goto(j, "releasing")
    /\ UNCHANGED <<cache, permits, proc, victim, got, answers, down>>

ReleasePermit(j) ==
    /\ pc[j] = "releasing"
    /\ permits' = permits + 1
    /\ Goto(j, "done")
    /\ UNCHANGED <<cache, active, proc, victim, got, answers, down>>

(***************************************************************************)
(* The worker process, the clock, other callers                            *)
(***************************************************************************)
WorkerSends(j) ==
    /\ proc[j] = "running"
    /\ proc' = [proc EXCEPT ![j] = "sent"]
    /\ UNCHANGED <<cache, active, permits, pc, victim, got, answers, down>>

WorkerDies(j) ==
    /\ proc[j] = "running"
    /\ proc' = [proc EXCEPT ![j] = "dead"]
    /\ UNCHANGED <<cache, active, permits, pc, victim, got, answers, down>>

\* The entry outlives cache_ttl.
Expire(f) ==
    /\ cache[f] # NoEntry /\ ~cache[f].expired
    /\ cache' = [cache EXCEPT ![f] =
                    [ir |-> @.ir, source |-> @.source, expired |-> TRUE]]
    /\ UNCHANGED <<active, permits, pc, proc, victim, got, answers, down>>

\* invalidate(f), also each step of invalidate_dependents, and get_cached(f)
\* finding the entry expired.
Drop(f) ==
    /\ cache[f] # NoEntry
    /\ cache' = [cache EXCEPT ![f] = NoEntry]
    /\ UNCHANGED <<active, permits, pc, proc, victim, got, answers, down>>

\* shutdown() with every registered process started.
Shutdown ==
    /\ down = "up"
    /\ \A j \in Registered : proc[j] # "new"
    /\ proc' = Killed(Registered)
    /\ active' = [f \in Files |-> NoJob]
    /\ cache' = [f \in Files |-> NoEntry]
    /\ down' = "down"
    /\ UNCHANGED <<permits, pc, victim, got, answers>>

\* kill() of a process that was never started raises AttributeError, which
\* shutdown() does not catch: those before it in the dict are killed, and
\* nothing is cleared.
ShutdownRaises ==
    /\ down = "up"
    /\ \E j \in Registered : proc[j] = "new"
    /\ \E S \in SUBSET {k \in Registered : proc[k] # "new"} :
           proc' = Killed(S)
    /\ down' = "raised"
    /\ UNCHANGED <<cache, active, permits, pc, victim, got, answers>>

CallerStep(j) == \/ LookupHit(j) \/ LookupMiss(j)
                 \/ CancelPop(j) \/ CancelKill(j)
                 \/ Register(j) \/ PrepareFails(j)
                 \/ AnswerHit(j)

WaiterStep(j) == \/ AcquirePermit(j) \/ QueueTimeout(j)
                 \/ LeaveQueue(j) \/ AnswerQueue(j)
                 \/ StartProc(j) \/ StartFails(j)
                 \/ Receive(j) \/ PollTimeout(j) \/ PutCache(j)
                 \/ AnswerResult(j) \/ AnswerError(j)
                 \/ Unregister(j) \/ ReleasePermit(j)

Next == \/ \E j \in Jobs : \/ CallerStep(j) \/ WaiterStep(j)
                           \/ WorkerSends(j) \/ WorkerDies(j)
        \/ \E f \in Files : Expire(f) \/ Drop(f)
        \/ Shutdown \/ ShutdownRaises

Spec == Init /\ [][Next]_vars

\* Threads run: a call that was made proceeds and a waiter never stops, both
\* its waits being bounded by a timeout.  Nothing is assumed of the worker.
Fairness == \A j \in Jobs : /\ WF_vars(pc[j] # "idle" /\ CallerStep(j))
                            /\ WF_vars(WaiterStep(j))

FairSpec == Spec /\ Fairness

-----------------------------------------------------------------------------
(***************************************************************************)
(* Properties                                                              *)
(***************************************************************************)

\* Every variable keeps to the values the code gives it.
TypeOK ==
    /\ cache \in [Files -> Entry \cup {NoEntry}]
    /\ active \in [Files -> Jobs \cup {NoJob}]
    /\ permits \in 0 .. MaxConcurrent
    /\ pc \in [Jobs -> CallerPoints \cup WaiterPoints]
    /\ proc \in [Jobs -> {"none", "new", "running", "sent", "dead"}]
    /\ victim \in [Jobs -> Jobs \cup {NoJob}]
    /\ got \in [Jobs -> IR]
    /\ answers \in [Jobs -> Seq(IR)]
    /\ down \in {"up", "down", "raised"}

Holders == {j \in Jobs : pc[j] \in HoldingPoints}

\* Across every path through _wait (start failure, crash, timeout, raising
\* callback) a permit is held by exactly the threads between acquire and
\* release: none is lost and none is released twice (lines 97, 228).
PermitsConserved == permits + Cardinality(Holders) = MaxConcurrent

\* A compiling worker has a waiter that still polls it: no thread lets go of
\* its permit, and so lets the next compilation start, while its own worker
\* runs (lines 137-228).
WorkersAreWatched == \A j \in Jobs : proc[j] = "running" => pc[j] = "polling"

\* The registry names, per file, a call of that file whose thread has not
\* finished with it: cancelling and killing never aim at a finished call
\* (lines 109, 225-231).
RegistryIsLive ==
    \A f \in Files : active[f] # NoJob =>
        /\ FileOf[active[f]] = f
        /\ pc[active[f]] \notin {"done", "releasing", "idle", "missed",
                                 "killing", "registering", "answeringHit",
                                 "answeringQueue"}

\* What a call is answered with, from the cache or from a worker, was made
\* from the file and the source text of that very call, whatever was cached,
\* superseded or invalidated meanwhile (_get_cached_by_hash, _put_cache).
AnswersMatchTheCall ==
    \A j \in Jobs : \A i \in DOMAIN answers[j] :
        /\ FileOf[answers[j][i].of] = FileOf[j]
        /\ SourceOf[answers[j][i].of] = SourceOf[j]

\* Timeouts, full queues and start failures are transient and are never
\* served from the cache to a later call.
NothingTransientCached ==
    \A f \in Files : cache[f] # NoEntry =>
        cache[f].ir.kind \in {"compiled", "crashed"}

\* A callback that does not raise is called once at most; one that raises is
\* called at most once more, with the error (lines 182, 209, 215).
CallbackDiscipline ==
    \A j \in Jobs : /\ \/ Len(answers[j]) \in {0, 1}
                       \/ Len(answers[j]) = 2 /\ j \in Raisers
                    /\ pc[j] = "done" => answers[j] # <<>>
                    /\ pc[j] = "raised" => answers[j] = <<>>

\* A call whose worker was killed or crashed is never told it compiled.
CrashesAreReported ==
    \A j \in Jobs : proc[j] = "dead" =>
        \A i \in DOMAIN answers[j] : answers[j][i] # Ir("compiled", j)

\* Every call comes to an end: answered, or refused with an exception.
EveryCallEnds ==
    \A j \in Jobs : pc[j] # "idle" ~> pc[j] \in {"done", "raised"}

\* The abstract service, seen through the threads' program points.
StatusAt(point) == CASE point = "idle"   -> "idle"
                     [] point = "raised" -> "refused"
                     [] point = "done"   -> "closed"
                     [] OTHER            -> "pending"

Service == INSTANCE CompileService WITH
               status <- [j \in Jobs |-> StatusAt(pc[j])]

ServiceSpec == Service!Spec

\* tests/test_compiler_manager.py:204 "Old _wait thread must not remove new
\* process from _active": only the call's own thread, a call that supersedes
\* it, and shutdown() take a registration out.
OldWaiterKeepsNewProcess ==
    [][\A f \in Files : active[f] # NoJob /\ active'[f] = NoJob =>
          \/ pc'[active[f]] # pc[active[f]]
          \/ \E j \in Jobs : pc[j] = "missed" /\ pc'[j] # pc[j]
          \/ down' # down]_vars
=============================================================================
