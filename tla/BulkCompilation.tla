--------------------------- MODULE BulkCompilation ---------------------------
(***************************************************************************)
(* AnalysisPipeline.run_bulk_tier3 (core/semantic/analysis_pipeline.py):   *)
(* compile every test file of the workspace and enrich the models with the *)
(* results.  The bulk runs are executor threads (the one that follows the  *)
(* T1/T2 analysis, those of ivy/recompileAll); each hands its files to     *)
(* compile_async and does not wait.  What the compiler manager does in     *)
(* between is CompileService, whose answers run the callbacks of this      *)
(* module in threads of their own.  Edits of files are tier-1 runs, which  *)
(* move the file's generation.                                             *)
(***************************************************************************)
EXTENDS Naturals, Sequences

CONSTANTS Runs,         \* threads that call run_bulk_tier3
          Files,        \* test entry points
          TestFiles,    \* test_files, the same list for every run: the keys of a dict
          Unreadable,   \* files whose open() may fail
          Edited,       \* files that may be edited while runs are under way
          MaxGen        \* bound on a file's generation: its tier-1 runs

ASSUME BulkAssumption ==
    /\ TestFiles \in Seq(Files) /\ TestFiles # <<>>
    /\ \A f \in Files : \E i \in DOMAIN TestFiles : TestFiles[i] = f
    /\ \A i, j \in DOMAIN TestFiles : TestFiles[i] = TestFiles[j] => i = j
    /\ Unreadable \subseteq Files /\ Edited \subseteq Files
    /\ MaxGen \in Nat \ {0}

\* Of _bulk_compile, only running is read by the code; completed, total and
\* cancelled are for display and left out.
VARIABLES running,     \* _bulk_compile.running
          cancel,      \* the cancel_event, set at server shutdown
          stage,       \* of each run
          next,        \* position in test_files of each run
          submitted,   \* submitted_count of each run
          finished,    \* completed_count of each run
          ended,       \* whether the run's progress was reported as ended
          gen,         \* _file_generation; 1 after the T1/T2 analysis
          job,         \* of each run and file: its callback and what it knows
          model,       \* generation of the text a file's tier 3 is made from, or 0
          status, answers                  \* of the compile service

runVars == <<stage, next, submitted>>
serviceVars == <<status, answers>>
vars == <<running, cancel, runVars, finished, ended, gen, job, model,
          serviceVars>>

Jobs == Runs \X Files
Total == Len(TestFiles)
Gens == 0 .. MaxGen

\* Every call has a text of its own here, so an answer is about its call;
\* whether the result is a success is left to Enrich.
Compiler == INSTANCE CompileService WITH
    Sources <- Jobs, FileOf <- [j \in Jobs |-> j[2]],
    SourceOf <- [j \in Jobs |-> j], Raisers <- {},
    Kinds <- {"result"}

\* Points of a callback; the "...Last" ones know they are the final one.
Callbacks == {"none", "checking", "stale", "counting", "enriching",
              "enrichingLast", "closing", "done"}
Job == [at : Callbacks, readAt : Gens, genAt : Gens, nth : 0 .. Total]
NoCallback == [at |-> "none", readAt |-> 0, genAt |-> 0, nth |-> 0]

\* The file a run has come to, and its call for it.
Current(r) == TestFiles[next[r]]
CurrentJob(r) == <<r, Current(r)>>

Init == /\ running = FALSE
        /\ cancel = FALSE
        /\ stage = [r \in Runs |-> "idle"]
        /\ next = [r \in Runs |-> 1]
        /\ submitted = [r \in Runs |-> 0]
        /\ finished = [r \in Runs |-> 0]
        /\ ended = [r \in Runs |-> FALSE]
        /\ gen = [f \in Files |-> 1]
        /\ job = [j \in Jobs |-> NoCallback]
        /\ model = [f \in Files |-> 0]
        /\ Compiler!Init

(***************************************************************************)
(* The thread of a bulk run                                                *)
(***************************************************************************)
Enter(r) ==
    /\ stage[r] = "idle"
    /\ IF running
       THEN /\ stage' = [stage EXCEPT ![r] = "skipped"]
            /\ UNCHANGED running
       ELSE /\ stage' = [stage EXCEPT ![r] = "looping"]
            /\ running' = TRUE
    /\ UNCHANGED <<cancel, next, submitted, finished, ended, gen, job, model,
                   serviceVars>>

\* The loop's next turn, or its end.
NextFile(r) ==
    /\ next' = [next EXCEPT ![r] = @ + 1]
    /\ stage' = [stage EXCEPT ![r] = IF next[r] < Total THEN "looping"
                                     ELSE "ended"]

StopAtCancel(r) ==
    /\ stage[r] = "looping" /\ cancel
    /\ running' = FALSE
    /\ stage' = [stage EXCEPT ![r] = "ended"]
    /\ UNCHANGED <<cancel, next, submitted, finished, ended, gen,
                   job, model, serviceVars>>

\* A file that cannot be read is skipped; the progress callback is called with
\* the count so far, which is short of the total.
SkipUnreadable(r) ==
    /\ stage[r] = "looping" /\ ~cancel
    /\ Current(r) \in Unreadable
    /\ NextFile(r)
    /\ UNCHANGED <<running, cancel, submitted, finished, ended, gen,
                   job, model, serviceVars>>

ReadFile(r) ==
    /\ stage[r] = "looping" /\ ~cancel
    /\ job' = [job EXCEPT ![CurrentJob(r)].readAt = gen[Current(r)]]
    /\ submitted' = [submitted EXCEPT ![r] = @ + 1]
    /\ stage' = [stage EXCEPT ![r] = "submitting"]
    /\ UNCHANGED <<running, cancel, next, finished, ended, gen, model,
                   serviceVars>>

\* _make_callback notes the generation; compile_async is called.
CallCompiler(r) ==
    /\ stage[r] = "submitting"
    /\ job' = [job EXCEPT ![CurrentJob(r)].genAt = gen[Current(r)]]
    /\ Compiler!Submit(CurrentJob(r))
    /\ stage' = [stage EXCEPT ![r] = "calling"]
    /\ UNCHANGED <<running, cancel, next, submitted, finished, ended, gen,
                   model>>

CallReturns(r) ==
    /\ stage[r] = "calling"
    /\ NextFile(r)
    /\ UNCHANGED <<running, cancel, submitted, finished, ended, gen, job,
                   model, serviceVars>>

\* compile_async raises, and so does run_bulk_tier3, in the middle of its list.
CallRaises(r) ==
    /\ stage[r] = "calling"
    /\ Compiler!Refuse(CurrentJob(r))
    /\ stage' = [stage EXCEPT ![r] = "raised"]
    /\ UNCHANGED <<running, cancel, next, submitted, finished, ended, gen,
                   job, model>>

(***************************************************************************)
(* _on_compile, in the thread the service answers from                     *)
(***************************************************************************)
At(j, point) ==
    job' = [job EXCEPT ![j] = IF point = "done"
                              THEN [NoCallback EXCEPT !.at = "done"]
                              ELSE [@ EXCEPT !.at = point]]

Answered(j) ==
    /\ job[j].at = "none"
    /\ Compiler!Answer(j)
    /\ status'[j] = "closed"
    /\ At(j, "checking")
    /\ UNCHANGED <<running, cancel, runVars, finished, ended, gen, model>>

Check(j) ==
    /\ job[j].at = "checking"
    /\ At(j, IF gen[j[2]] = job[j].genAt THEN "counting" ELSE "stale")
    /\ UNCHANGED <<running, cancel, runVars, finished, ended, gen, model,
                   serviceVars>>

\* completed_count, under the lock.
CountOne(r) == finished' = [finished EXCEPT ![r] = @ + 1]

\* Mutant: the return after the stale branch is missing, so that the result is
\* counted a second time and enriches the model.
CountStaleFallsThrough(j) ==
    /\ job[j].at = "stale"
    /\ CountOne(j[1])
    /\ At(j, "counting")
    /\ UNCHANGED <<running, cancel, runVars, ended, gen, model, serviceVars>>

\* Mutant: a stale result is counted and cannot be the final one.
CountStaleNeverFinal(j) ==
    /\ job[j].at = "stale"
    /\ CountOne(j[1])
    /\ At(j, "done")
    /\ UNCHANGED <<running, cancel, runVars, ended, gen, model, serviceVars>>

CountStale(j) ==
    /\ job[j].at = "stale"
    /\ CountOne(j[1])
    /\ At(j, IF finished'[j[1]] >= submitted[j[1]] THEN "closing" ELSE "done")
    /\ UNCHANGED <<running, cancel, runVars, ended, gen, model,
                   serviceVars>>

Count(j) ==
    /\ job[j].at = "counting"
    /\ CountOne(j[1])
    /\ job' = [job EXCEPT
                 ![j].nth = finished'[j[1]],
                 ![j].at = IF finished'[j[1]] >= submitted[j[1]]
                           THEN "enrichingLast" ELSE "enriching"]
    /\ UNCHANGED <<running, cancel, runVars, ended, gen, model,
                   serviceVars>>

\* Mutant: progress is reported against the files submitted so far.
EnrichOfSubmitted(j) ==
    LET last == job[j].at = "enrichingLast" IN
    /\ job[j].at \in {"enriching", "enrichingLast"}
    /\ \/ model' = [model EXCEPT ![j[2]] = job[j].readAt]
       \/ UNCHANGED model
    /\ ended' = [ended EXCEPT ![j[1]] = @ \/ job[j].nth >= submitted[j[1]]]
    /\ At(j, IF last THEN "closing" ELSE "done")
    /\ UNCHANGED <<running, cancel, runVars, finished, gen, serviceVars>>

\* A successful compilation replaces the file's tier-3 nodes (an exception in
\* between is only logged).  The final callback reports progress for sure, the
\* others when the last report is a second old.
Enrich(j) ==
    LET last == job[j].at = "enrichingLast" IN
    /\ job[j].at \in {"enriching", "enrichingLast"}
    /\ \/ model' = [model EXCEPT ![j[2]] = job[j].readAt]
       \/ UNCHANGED model
    /\ \/ ended' = [ended EXCEPT ![j[1]] = @ \/ job[j].nth >= Total]
       \/ ~last /\ UNCHANGED ended
    /\ At(j, IF last THEN "closing" ELSE "done")
    /\ UNCHANGED <<running, cancel, runVars, finished, gen, serviceVars>>

CloseBulk(j) ==
    /\ job[j].at = "closing"
    /\ running' = FALSE
    /\ At(j, "done")
    /\ UNCHANGED <<cancel, runVars, finished, ended, gen,
                   model, serviceVars>>

(***************************************************************************)
(* The editor and the server                                               *)
(***************************************************************************)
Tier1(f) ==
    /\ f \in Edited /\ gen[f] < MaxGen
    /\ gen' = [gen EXCEPT ![f] = @ + 1]
    /\ UNCHANGED <<running, cancel, runVars, finished, ended, job, model,
                   serviceVars>>

SetCancel ==
    /\ ~cancel
    /\ cancel' = TRUE
    /\ UNCHANGED <<running, runVars, finished, ended, gen, job, model,
                   serviceVars>>

RunStep(r) == \/ Enter(r) \/ StopAtCancel(r) \/ SkipUnreadable(r)
              \/ ReadFile(r) \/ CallCompiler(r) \/ CallReturns(r)
              \/ CallRaises(r)

CallbackStep(j) == \/ Check(j) \/ CountStale(j) \/ Count(j) \/ Enrich(j)
                   \/ CloseBulk(j)

Next == \/ \E r \in Runs : RunStep(r)
        \/ \E j \in Jobs : Answered(j) \/ CallbackStep(j)
        \/ \E f \in Files : Tier1(f)
        \/ SetCancel

Spec == Init /\ [][Next]_vars

\* A run that started goes on, callbacks run, and the service answers every
\* call it did not refuse (CompilerManager!EveryCallEnds).
Fairness == /\ \A r \in Runs : WF_vars(stage[r] # "idle" /\ RunStep(r))
            /\ \A j \in Jobs : WF_vars(Answered(j)) /\ WF_vars(CallbackStep(j))

FairSpec == Spec /\ Fairness

-----------------------------------------------------------------------------
(***************************************************************************)
(* Properties                                                              *)
(***************************************************************************)

\* Every variable keeps to the values the code gives it.
TypeOK ==
    /\ {running, cancel} \subseteq BOOLEAN
    /\ stage \in [Runs -> {"idle", "skipped", "looping", "submitting",
                           "calling", "raised", "ended"}]
    /\ next \in [Runs -> 1 .. Total + 1]
    /\ submitted \in [Runs -> 0 .. Total]
    /\ finished \in [Runs -> 0 .. Total]
    /\ ended \in [Runs -> BOOLEAN]
    /\ gen \in [Files -> Gens]
    /\ job \in [Jobs -> Job]
    /\ model \in [Files -> Gens]

\* No run counts more completions than it has submitted, even when a callback
\* runs before compile_async has returned (the increment at line 844 comes
\* first), so that "final" means all submitted files are answered.
FinishedWithinSubmitted == \A r \in Runs : finished[r] <= submitted[r]

\* The counters of all runs are in range, and none gets ahead of its submissions
\* (run_bulk_tier3 and its callbacks).
CountsAreRight == TypeOK /\ FinishedWithinSubmitted

\* The client is told that the compilation has ended, and that the model is
\* ready, only when every test file of the run was compiled and its result
\* counted, whatever order the answers come in and whoever else is running.
EndIsHonest ==
    \A r \in Runs : ended[r] =>
        \A f \in Files : /\ status[<<r, f>>] = "closed"
                         /\ job[<<r, f>>].at \notin {"none", "checking", "stale",
                                                  "counting"}

\* A bulk run that was cut short by an exception or had nothing to submit.
Abandoned == \E r \in Runs : \/ stage[r] = "raised"
                             \/ stage[r] = "ended" /\ submitted[r] = 0

\* Apart from such runs, the bulk compilation ends: failed, discarded and
\* successful results all count towards the end (lines 748-766), and a run
\* that closes for another, or counts a file before compile_async has
\* returned, does not leave the other one open.
BulkCloses == running ~> \/ ~running
                         \/ Abandoned
=============================================================================
