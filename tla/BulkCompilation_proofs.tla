------------------------ MODULE BulkCompilation_proofs ------------------------
(***************************************************************************)
(* Proofs about BulkCompilation, for any number of runs and files.  The    *)
(* counters of a run are the sizes of two sets of its files: those it has  *)
(* submitted and those whose callback has counted.  A callback comes only  *)
(* for a call that was answered, and a call is answered only when it was   *)
(* submitted, so that the second set is within the first, whatever order   *)
(* the threads of the runs and of the callbacks take.                      *)
(***************************************************************************)
EXTENDS BulkCompilation, FiniteSetTheorems, TLAPS

\* What becomes of a call.
StatusOK == status \in [Jobs -> {"idle", "pending", "refused", "closed"}]

\* The files the submitted_count of a run stands for, and the completed_count.
Submitted(r) ==
    {f \in Files : \/ status[<<r, f>>] # "idle"
                   \/ stage[r] = "submitting" /\ f = Current(r)}
CountedAt == {"enriching", "enrichingLast", "closing", "done"}
Counted(r) == {f \in Files : job[<<r, f>>].at \in CountedAt}

CountersAreSizes ==
    \A r \in Runs : /\ submitted[r] = Cardinality(Submitted(r))
                    /\ finished[r] = Cardinality(Counted(r))

\* The loop is within its list until it ends, and has not called for what comes.
LoopIsInList ==
    \A r \in Runs :
        /\ stage[r] \in {"idle", "looping", "submitting", "calling"} => next[r] <= Total
        /\ stage[r] = "idle" => next[r] = 1
        /\ stage[r] # "calling" /\ stage[r] # "raised" /\ next[r] <= Total =>
               status[<<r, TestFiles[next[r]]>>] = "idle"
        /\ \A i \in 1 .. Total : i > next[r] => status[<<r, TestFiles[i]>>] = "idle"

\* A callback runs when its call is closed.
CallbacksAreOfClosed == \A j \in Jobs : job[j].at # "none" => status[j] = "closed"

\* What a callback has noted of the count, and what was reported on it.
CountsWereReached ==
    /\ \A j \in Jobs : job[j].at \in {"enriching", "enrichingLast"} =>
                           job[j].nth <= finished[j[1]]
    /\ \A r \in Runs : ended[r] => finished[r] >= Total

IInv == /\ TypeOK
        /\ StatusOK
        /\ CountersAreSizes
        /\ LoopIsInList
        /\ CallbacksAreOfClosed
        /\ CountsWereReached

-----------------------------------------------------------------------------
\* The list is as long as there are files.
LEMMA ListCountsFiles ==
    /\ Total \in Nat \ {0} /\ TestFiles \in [1 .. Total -> Files]
    /\ IsFiniteSet(Files) /\ Cardinality(Files) = Total
<1>1. Total \in Nat \ {0} /\ TestFiles \in [1 .. Total -> Files]
    BY BulkAssumption DEF Total
<1>2. TestFiles \in Bijection(1 .. Total, Files)
    BY <1>1, BulkAssumption DEF Bijection, Injection, IsInjective, Surjection
<1>3. ExistsBijection(1 .. Total, Files)
    BY <1>2 DEF ExistsBijection
<1> QED BY <1>1, <1>3, FS_CountingElements, FS_NatBijection

\* Both sets of a run are finite, and the counted files are among the submitted.
LEMMA SetsOfRun ==
    ASSUME CallbacksAreOfClosed, NEW r \in Runs
    PROVE  /\ IsFiniteSet(Submitted(r)) /\ IsFiniteSet(Counted(r))
           /\ Cardinality(Submitted(r)) \in 0 .. Total
           /\ Cardinality(Counted(r)) \in Nat
           /\ Cardinality(Counted(r)) <= Cardinality(Submitted(r))
<1>1. Submitted(r) \subseteq Files
    BY DEF Submitted
<1>2. Counted(r) \subseteq Submitted(r)
    BY DEF Submitted, Counted, CountedAt, CallbacksAreOfClosed, Jobs
<1>3. /\ IsFiniteSet(Submitted(r)) /\ Cardinality(Submitted(r)) <= Total
      /\ Cardinality(Submitted(r)) \in Nat
    BY <1>1, ListCountsFiles, FS_Subset, FS_CardinalityType
<1>4. /\ IsFiniteSet(Counted(r)) /\ Cardinality(Counted(r)) \in Nat
      /\ Cardinality(Counted(r)) <= Cardinality(Submitted(r))
    BY <1>2, <1>3, FS_Subset, FS_CardinalityType
<1> QED BY <1>3, <1>4, ListCountsFiles

LEMMA InitEstablishes == Init => IInv
<1> SUFFICES ASSUME Init PROVE IInv
    OBVIOUS
<1> USE ListCountsFiles, BulkAssumption DEF Init, Compiler!Init, NoCallback
<1>1. \A r \in Runs : Submitted(r) = {} /\ Counted(r) = {}
    BY DEF Submitted, Counted, CountedAt, Jobs
<1>2. CountersAreSizes
    BY <1>1, FS_EmptySet DEF CountersAreSizes
<1>3. TypeOK
    <2>1. 0 \in Gens /\ 1 \in Gens /\ NoCallback \in Job
        BY DEF Gens, Job, Callbacks
    <2>2. {running, cancel} \subseteq BOOLEAN
        OBVIOUS
    <2>3. /\ next \in [Runs -> 1 .. Total + 1] /\ submitted \in [Runs -> 0 .. Total]
          /\ finished \in [Runs -> 0 .. Total]
        OBVIOUS
    <2>4. gen \in [Files -> Gens] /\ model \in [Files -> Gens] /\ job \in [Jobs -> Job]
        BY <2>1
    <2> QED BY <2>2, <2>3, <2>4 DEF TypeOK
<1>4. StatusOK /\ LoopIsInList /\ CallbacksAreOfClosed /\ CountsWereReached
    BY DEF StatusOK, LoopIsInList, CallbacksAreOfClosed, CountsWereReached, Jobs
<1> QED BY <1>2, <1>3, <1>4 DEF IInv
-----------------------------------------------------------------------------
\* A step that neither submits nor counts keeps the sizes.
LEMMA SizesStay ==
    ASSUME CountersAreSizes, submitted' = submitted, finished' = finished,
           \A r \in Runs : Submitted(r)' = Submitted(r) /\ Counted(r)' = Counted(r)
    PROVE  CountersAreSizes'
BY DEF CountersAreSizes

\* A run submits one more file at a time.
LEMMA ReadFileCounts ==
    ASSUME IInv, NEW r \in Runs, ReadFile(r)
    PROVE  CountersAreSizes' /\ submitted' \in [Runs -> 0 .. Total]
<1> USE ListCountsFiles DEF IInv
<1>1. /\ next[r] \in 1 .. Total /\ Current(r) \in Files
      /\ status[<<r, Current(r)>>] = "idle"
    <2>1. next[r] \in 1 .. Total + 1 /\ stage[r] = "looping"
        BY DEF ReadFile, TypeOK
    <2>2. next[r] <= Total
        BY <2>1 DEF LoopIsInList
    <2> QED BY <2>1, <2>2 DEF LoopIsInList, Current
<1>2. /\ submitted' = [submitted EXCEPT ![r] = @ + 1] /\ finished' = finished
      /\ stage' = [stage EXCEPT ![r] = "submitting"] /\ stage[r] = "looping"
      /\ UNCHANGED <<next, status>>
    BY DEF ReadFile, serviceVars
<1>3. Submitted(r)' = Submitted(r) \cup {Current(r)} /\ Current(r) \notin Submitted(r)
    BY <1>1, <1>2 DEF Submitted, Current, TypeOK
<1>4. \A q \in Runs \ {r} : Submitted(q)' = Submitted(q)
    BY <1>2 DEF Submitted, Current, TypeOK
<1>5. \A q \in Runs : Counted(q)' = Counted(q)
    <2>1. \A j \in Jobs : job'[j].at = job[j].at
        BY <1>1 DEF ReadFile, TypeOK, CurrentJob, Jobs, Job
    <2> QED BY <2>1 DEF Counted, Jobs
<1>6. Cardinality(Submitted(r)') = submitted[r] + 1
    <2>1. IsFiniteSet(Submitted(r)) /\ Cardinality(Submitted(r)) = submitted[r]
        BY SetsOfRun DEF CountersAreSizes
    <2>2. Cardinality(Submitted(r) \cup {Current(r)}) = Cardinality(Submitted(r)) + 1
        BY <1>3, <2>1, FS_AddElement
    <2> QED BY <1>3, <2>1, <2>2
<1>7. submitted[r] + 1 \in 0 .. Total
    <2>1. Submitted(r)' \subseteq Files
        BY DEF Submitted
    <2> QED BY <1>6, <2>1, FS_Subset, SetsOfRun DEF CountersAreSizes
<1> QED BY <1>2, <1>4, <1>5, <1>6, <1>7 DEF CountersAreSizes, TypeOK

\* A callback counts its file, which had not been counted.
LEMMA CountingCounts ==
    ASSUME IInv, CallbacksAreOfClosed', NEW r \in Runs, NEW f \in Files,
           CountStale(<<r, f>>) \/ Count(<<r, f>>)
    PROVE  CountersAreSizes' /\ finished' \in [Runs -> 0 .. Total]
<1> USE ListCountsFiles DEF IInv
<1> DEFINE j == <<r, f>>
<1>1. /\ finished' = [finished EXCEPT ![r] = @ + 1] /\ submitted' = submitted
      /\ job[j].at \notin CountedAt /\ job'[j].at \in CountedAt
      /\ \A k \in Jobs \ {j} : job'[k] = job[k]
      /\ UNCHANGED <<stage, next, status>>
    BY DEF CountStale, Count, CountOne, CountedAt, At, NoCallback, runVars,
       serviceVars, TypeOK, Jobs, Job
<1>2. Counted(r)' = Counted(r) \cup {f} /\ f \notin Counted(r)
    BY <1>1 DEF Counted, Jobs
<1>3. \A q \in Runs \ {r} : Counted(q)' = Counted(q)
    BY <1>1 DEF Counted, Jobs
<1>4. \A q \in Runs : Submitted(q)' = Submitted(q)
    BY <1>1 DEF Submitted, Current
<1>5. Cardinality(Counted(r)') = finished[r] + 1
    <2>1. IsFiniteSet(Counted(r)) /\ Cardinality(Counted(r)) = finished[r]
        BY SetsOfRun DEF CountersAreSizes
    <2>2. Cardinality(Counted(r) \cup {f}) = Cardinality(Counted(r)) + 1
        BY <1>2, <2>1, FS_AddElement
    <2> QED BY <1>2, <2>1, <2>2
<1>6. finished[r] + 1 \in 0 .. Total
    <2>1. Counted(r)' \subseteq Files
        BY DEF Counted
    <2> QED BY <1>5, <2>1, FS_Subset, SetsOfRun DEF CountersAreSizes
<1> QED BY <1>1, <1>3, <1>4, <1>5, <1>6 DEF CountersAreSizes, TypeOK

-----------------------------------------------------------------------------
\* The thread of a run does not touch what its callbacks have come to, nor the
\* counts and reports, and a closed call stays closed.
LEMMA RunsLeaveCallbacks ==
    ASSUME IInv, NEW r \in Runs, RunStep(r)
    PROVE  /\ \A j \in Jobs : job'[j].at = job[j].at /\ job'[j].nth = job[j].nth
           /\ \A j \in Jobs : status[j] = "closed" => status'[j] = "closed"
           /\ job' \in [Jobs -> Job] /\ StatusOK'
           /\ UNCHANGED <<finished, ended, gen, model, cancel>>
<1> USE ListCountsFiles DEF IInv, TypeOK, StatusOK, serviceVars
<1>1. CASE stage[r] = "looping" \/ stage[r] = "submitting"
    <2>1. CurrentJob(r) \in Jobs /\ gen[Current(r)] \in Gens
        BY <1>1 DEF LoopIsInList, CurrentJob, Current, Jobs
    <2>2. CASE ReadFile(r)
        BY <2>1, <2>2 DEF ReadFile, Job
    <2>3. CASE CallCompiler(r)
        BY <2>1, <2>3 DEF CallCompiler, Compiler!Submit, Job
    <2>4. CASE StopAtCancel(r) \/ SkipUnreadable(r)
        BY <2>4 DEF StopAtCancel, SkipUnreadable
    <2> QED BY <1>1, <2>2, <2>3, <2>4
            DEF RunStep, Enter, CallReturns, CallRaises
<1>2. CASE Enter(r) \/ CallReturns(r)
    BY <1>2 DEF Enter, CallReturns
<1>3. CASE CallRaises(r)
    BY <1>3 DEF CallRaises, Compiler!Refuse
<1> QED BY <1>1, <1>2, <1>3
        DEF RunStep, StopAtCancel, SkipUnreadable, ReadFile, CallCompiler

\* A callback step leaves the runs and the calls alone and goes on only with a
\* callback that was begun.
LEMMA CallbacksLeaveRuns ==
    ASSUME IInv, NEW j \in Jobs, CallbackStep(j)
    PROVE  /\ job[j].at # "none" /\ job'[j].at # "none" /\ job' \in [Jobs -> Job]
           /\ \A k \in Jobs \ {j} : job'[k] = job[k]
           /\ UNCHANGED <<stage, next, submitted, status, gen, cancel>>
<1> USE DEF IInv, TypeOK, Job, Callbacks, runVars, serviceVars
<1>1. \A p \in Callbacks \ {"none"} : At(j, p) => /\ job'[j].at = p /\ job' \in [Jobs -> Job]
                                               /\ \A k \in Jobs \ {j} : job'[k] = job[k]
    <2>1. NoCallback \in Job /\ [NoCallback EXCEPT !.at = "done"] \in Job
        <3>1. 0 \in Gens /\ 0 \in 0 .. Total
            BY ListCountsFiles, BulkAssumption DEF Gens
        <3>2. [NoCallback EXCEPT !.at = "done"]
                  = [at |-> "done", readAt |-> 0, genAt |-> 0, nth |-> 0]
            BY DEF NoCallback
        <3> QED BY <3>1, <3>2 DEF NoCallback
    <2>2. At(j, "done") => /\ job'[j].at = "done" /\ job' \in [Jobs -> Job]
                           /\ \A k \in Jobs \ {j} : job'[k] = job[k]
        BY <2>1 DEF At, NoCallback
    <2>3. ASSUME NEW p \in Callbacks \ {"none", "done"}, At(j, p)
          PROVE  /\ job'[j].at = p /\ job' \in [Jobs -> Job]
                 /\ \A k \in Jobs \ {j} : job'[k] = job[k]
        BY <2>3 DEF At
    <2> QED BY <2>2, <2>3
<1>2. CASE Check(j)
    BY <1>1, <1>2 DEF Check
<1>3. CASE CountStale(j)
    BY <1>1, <1>3 DEF CountStale
<1>4. CASE Count(j)
    <2>1. PICK r \in Runs, f \in Files : j = <<r, f>>
        BY DEF Jobs
    <2>2. \A k \in Jobs \ {j} : job'[k] = job[k]
        BY <1>4 DEF Count
    <2>3. CallbacksAreOfClosed'
        BY <1>4, <2>2 DEF Count, CallbacksAreOfClosed
    <2>4. finished'[j[1]] \in 0 .. Total
        BY <1>4, <2>1, <2>3, CountingCounts
    <2> QED BY <1>4, <2>4 DEF Count
<1>5. CASE Enrich(j)
    BY <1>1, <1>5 DEF Enrich
<1>6. CASE CloseBulk(j)
    BY <1>1, <1>6 DEF CloseBulk
<1> QED BY <1>2, <1>3, <1>4, <1>5, <1>6 DEF CallbackStep

\* The call that is answered is closed, and its callback begins.
LEMMA AnswerBegins ==
    ASSUME IInv, NEW j \in Jobs, Answered(j)
    PROVE  /\ status[j] = "pending" /\ status' = [status EXCEPT ![j] = "closed"]
           /\ job[j].at = "none" /\ job'[j].at = "checking" /\ job' \in [Jobs -> Job]
           /\ \A k \in Jobs \ {j} : job'[k] = job[k]
           /\ UNCHANGED <<stage, next, submitted, finished, ended, gen, model,
                          running, cancel>>
BY DEF IInv, TypeOK, StatusOK, Answered, Compiler!Answer, At, runVars, Job,
       Callbacks

-----------------------------------------------------------------------------
\* The cases of a step, once for the lemmas below.
Others == \/ \E f \in Files : Tier1(f)
          \/ SetCancel
          \/ UNCHANGED vars

LEMMA OthersLeaveAlone ==
    ASSUME IInv, Others
    PROVE  /\ UNCHANGED <<stage, next, submitted, finished, ended, job, model,
                          status, running>>
           /\ gen' \in [Files -> Gens] /\ cancel' \in BOOLEAN
<1> USE DEF IInv, TypeOK, runVars, serviceVars
<1>1. ASSUME NEW f \in Files, Tier1(f) PROVE gen' \in [Files -> Gens]
    BY <1>1, BulkAssumption DEF Tier1, Gens
<1>2. cancel \in BOOLEAN
    OBVIOUS
<1> QED BY <1>1, <1>2 DEF Others, Tier1, SetCancel, vars

LEMMA CallbacksKept ==
    ASSUME IInv, [Next]_vars
    PROVE  CallbacksAreOfClosed'
<1> USE DEF IInv, CallbacksAreOfClosed
<1>1. ASSUME NEW r \in Runs, RunStep(r) PROVE CallbacksAreOfClosed'
    BY <1>1, RunsLeaveCallbacks
<1>2. ASSUME NEW j \in Jobs, Answered(j) PROVE CallbacksAreOfClosed'
    BY <1>2, AnswerBegins DEF StatusOK
<1>3. ASSUME NEW j \in Jobs, CallbackStep(j) PROVE CallbacksAreOfClosed'
    BY <1>3, CallbacksLeaveRuns
<1>4. CASE Others
    BY <1>4, OthersLeaveAlone
<1> QED BY <1>1, <1>2, <1>3, <1>4 DEF Next, Others

LEMMA StatusKept ==
    ASSUME IInv, [Next]_vars
    PROVE  StatusOK'
<1> USE DEF IInv, StatusOK
<1>1. ASSUME NEW r \in Runs, RunStep(r) PROVE StatusOK'
    BY <1>1, RunsLeaveCallbacks
<1>2. ASSUME NEW j \in Jobs, Answered(j) PROVE StatusOK'
    BY <1>2, AnswerBegins
<1>3. ASSUME NEW j \in Jobs, CallbackStep(j) PROVE StatusOK'
    BY <1>3, CallbacksLeaveRuns
<1>4. CASE Others
    BY <1>4, OthersLeaveAlone
<1> QED BY <1>1, <1>2, <1>3, <1>4 DEF Next, Others

\* The counters stay the sizes of their sets, and within the list.
LEMMA SizesKept ==
    ASSUME IInv, [Next]_vars
    PROVE  /\ CountersAreSizes'
           /\ submitted' \in [Runs -> 0 .. Total]
           /\ finished' \in [Runs -> 0 .. Total]
<1> USE DEF IInv
<1>1. ASSUME submitted' = submitted, finished' = finished,
             \A r \in Runs : Submitted(r)' = Submitted(r) /\ Counted(r)' = Counted(r)
      PROVE  /\ CountersAreSizes' /\ submitted' \in [Runs -> 0 .. Total]
             /\ finished' \in [Runs -> 0 .. Total]
    BY <1>1 DEF CountersAreSizes, TypeOK
<1>2. ASSUME NEW r \in Runs, RunStep(r), ~ReadFile(r)
      PROVE  /\ submitted' = submitted
             /\ \A q \in Runs : Submitted(q)' = Submitted(q) /\ Counted(q)' = Counted(q)
    <2>1. \A q \in Runs : Counted(q)' = Counted(q)
        BY <1>2, RunsLeaveCallbacks DEF Counted, Jobs
    <2>2. CASE Enter(r) \/ StopAtCancel(r) \/ SkipUnreadable(r) \/ CallReturns(r)
        BY <2>1, <2>2 DEF Enter, StopAtCancel, SkipUnreadable, CallReturns, NextFile,
                    Submitted, Current, serviceVars, TypeOK
    <2>3. CASE CallCompiler(r)
        <3>1. Current(r) \in Files
            <4>1. next[r] \in 1 .. Total + 1 /\ next[r] <= Total
                BY <2>3 DEF CallCompiler, LoopIsInList, TypeOK
            <4> QED BY <4>1, ListCountsFiles DEF Current
        <3>2. /\ status[<<r, Current(r)>>] = "idle"
              /\ status' = [status EXCEPT ![<<r, Current(r)>>] = "pending"]
              /\ stage[r] = "submitting" /\ stage' = [stage EXCEPT ![r] = "calling"]
              /\ UNCHANGED <<next, submitted>>
            BY <2>3 DEF CallCompiler, Compiler!Submit, CurrentJob
        <3> QED BY <2>1, <3>1, <3>2 DEF Submitted, Current, TypeOK, StatusOK, Jobs
    <2>4. CASE CallRaises(r)
        <3>1. /\ status[<<r, Current(r)>>] = "pending"
              /\ status' = [status EXCEPT ![<<r, Current(r)>>] = "refused"]
              /\ stage[r] = "calling" /\ stage' = [stage EXCEPT ![r] = "raised"]
              /\ UNCHANGED <<next, submitted>>
            BY <2>4 DEF CallRaises, Compiler!Refuse, CurrentJob
        <3> QED BY <2>1, <3>1 DEF Submitted, Current, TypeOK, StatusOK, Jobs
    <2> QED BY <1>2, <2>2, <2>3, <2>4 DEF RunStep
<1>3. ASSUME NEW j \in Jobs, Answered(j)
      PROVE  \A q \in Runs : Submitted(q)' = Submitted(q) /\ Counted(q)' = Counted(q)
    BY <1>3, AnswerBegins DEF Submitted, Counted, CountedAt, Current, StatusOK, Jobs
<1>4. ASSUME NEW j \in Jobs, Check(j) \/ Enrich(j) \/ CloseBulk(j)
      PROVE  /\ UNCHANGED <<submitted, finished>>
             /\ \A q \in Runs : Submitted(q)' = Submitted(q) /\ Counted(q)' = Counted(q)
    <2>1. UNCHANGED <<stage, next, submitted, finished, status>>
        BY <1>4 DEF Check, Enrich, CloseBulk, runVars, serviceVars
    <2>2. /\ job'[j].at \in CountedAt <=> job[j].at \in CountedAt
          /\ \A k \in Jobs \ {j} : job'[k] = job[k]
        BY <1>4 DEF Check, Enrich, CloseBulk, At, CountedAt, NoCallback, TypeOK, Job
    <2> QED BY <2>1, <2>2 DEF Submitted, Counted, Current, Jobs
<1>5. ASSUME NEW r \in Runs, RunStep(r)
      PROVE  /\ CountersAreSizes' /\ submitted' \in [Runs -> 0 .. Total]
             /\ finished' \in [Runs -> 0 .. Total]
    <2>1. finished' = finished
        BY <1>5, RunsLeaveCallbacks
    <2> QED BY <1>1, <1>2, <1>5, <2>1, ReadFileCounts DEF TypeOK
<1>6. ASSUME NEW j \in Jobs, CallbackStep(j)
      PROVE  /\ CountersAreSizes' /\ submitted' \in [Runs -> 0 .. Total]
             /\ finished' \in [Runs -> 0 .. Total]
    <2>1. submitted' = submitted
        BY <1>6, CallbacksLeaveRuns
    <2>2. CASE CountStale(j) \/ Count(j)
        BY <2>1, <2>2, CallbacksKept, CountingCounts DEF Jobs, TypeOK
    <2> QED BY <1>1, <1>4, <1>6, <2>2 DEF CallbackStep
<1>7. ASSUME NEW j \in Jobs, Answered(j)
      PROVE  /\ CountersAreSizes' /\ submitted' \in [Runs -> 0 .. Total]
             /\ finished' \in [Runs -> 0 .. Total]
    BY <1>1, <1>3, <1>7, AnswerBegins
<1>8. CASE Others
    BY <1>1, <1>8, OthersLeaveAlone DEF Submitted, Counted, Current
<1> QED BY <1>5, <1>6, <1>7, <1>8 DEF Next, Others

\* The loop stays within its list: only the call for the file it has come to is
\* made, and the files after it have not been called for.
LEMMA LoopKept ==
    ASSUME IInv, [Next]_vars
    PROVE  LoopIsInList' /\ next' \in [Runs -> 1 .. Total + 1]
<1> USE ListCountsFiles DEF IInv
<1>1. ASSUME NEW r \in Runs, RunStep(r)
      PROVE  LoopIsInList' /\ next' \in [Runs -> 1 .. Total + 1]
    <2> DEFINE P(q) == /\ stage[q] \in {"idle", "looping", "submitting", "calling"}
                              => next[q] <= Total
                       /\ stage[q] = "idle" => next[q] = 1
                       /\ stage[q] # "calling" /\ stage[q] # "raised" /\ next[q] <= Total
                              => status[<<q, TestFiles[next[q]]>>] = "idle"
                       /\ \A i \in 1 .. Total : i > next[q] =>
                              status[<<q, TestFiles[i]>>] = "idle"
    <2>1. \A q \in Runs : P(q) /\ next[q] \in 1 .. Total + 1
        BY DEF LoopIsInList, TypeOK
    <2>2. SUFFICES (\A q \in Runs : P(q)') /\ next' \in [Runs -> 1 .. Total + 1]
        BY DEF LoopIsInList
    <2>3. /\ \A q \in Runs \ {r} : stage'[q] = stage[q] /\ next'[q] = next[q]
          /\ \A q \in Runs \ {r}, f \in Files : status'[<<q, f>>] = status[<<q, f>>]
        BY <1>1 DEF RunStep, Enter, StopAtCancel, SkipUnreadable, ReadFile, CallCompiler,
               CallReturns, CallRaises, NextFile, CurrentJob, TypeOK, StatusOK, Jobs,
               Compiler!Submit, Compiler!Refuse, serviceVars
    <2>4. \A q \in Runs \ {r} : P(q)'
        BY <2>1, <2>3
    <2>5. CASE Enter(r) \/ StopAtCancel(r) \/ ReadFile(r)
        <3>1. UNCHANGED <<next, status>>
            BY <2>5 DEF Enter, StopAtCancel, ReadFile, serviceVars
        <3>2. P(r)'
            BY <2>1, <2>5, <3>1 DEF Enter, StopAtCancel, ReadFile, TypeOK
        <3> QED BY <2>1, <2>4, <3>1, <3>2 DEF TypeOK
    <2>6. CASE SkipUnreadable(r) \/ CallReturns(r)
        <3>1. /\ next[r] <= Total /\ UNCHANGED status
              /\ next' = [next EXCEPT ![r] = @ + 1]
              /\ stage'[r] = IF next[r] < Total THEN "looping" ELSE "ended"
            BY <2>1, <2>6 DEF SkipUnreadable, CallReturns, NextFile, serviceVars, TypeOK
        <3>2. next'[r] = next[r] + 1 /\ next' \in [Runs -> 1 .. Total + 1]
            BY <2>1, <3>1 DEF TypeOK
        <3> DEFINE n == next[r]
        <3>3. n \in 1 .. Total + 1
            BY DEF TypeOK
        <3>4. n \in 1 .. Total /\ next'[r] = n + 1
            BY <3>3, <3>1, <3>2
        <3>5. \A i \in 1 .. Total : i > n => status[<<r, TestFiles[i]>>] = "idle"
            BY <2>1
        <3> HIDE DEF n
        <3>6. n < Total => status[<<r, TestFiles[n + 1]>>] = "idle"
            BY <3>4, <3>5
        <3>7. \A i \in 1 .. Total : i > n + 1 => status'[<<r, TestFiles[i]>>] = "idle"
            BY <3>4, <3>5, <3>1
        <3>8. stage'[r] \in {"looping", "ended"} /\ (stage'[r] = "looping" => n < Total)
            BY <3>1 DEF n
        <3>9. P(r)'
            BY <3>4, <3>1, <3>6, <3>7, <3>8
        <3> QED BY <2>4, <3>2, <3>9
    <2>7. CASE CallCompiler(r) \/ CallRaises(r)
        <3>1. /\ next[r] <= Total /\ UNCHANGED next /\ stage'[r] \in {"calling", "raised"}
              /\ \A j \in Jobs : j # <<r, TestFiles[next[r]]>> => status'[j] = status[j]
            BY <2>1, <2>7 DEF CallCompiler, CallRaises, Compiler!Submit, Compiler!Refuse,
                         CurrentJob, Current, TypeOK, StatusOK
        <3>2. \A i \in 1 .. Total : i > next[r] => TestFiles[i] # TestFiles[next[r]]
            <4>1. next[r] \in 1 .. Total /\ DOMAIN TestFiles = 1 .. Total
                BY <3>1 DEF TypeOK
            <4>2. \A i \in 1 .. Total : TestFiles[i] = TestFiles[next[r]] => i = next[r]
                BY <4>1, BulkAssumption
            <4> QED BY <4>1, <4>2
        <3>3. P(r)'
            BY <2>1, <3>1, <3>2 DEF Jobs
        <3> QED BY <2>1, <2>4, <3>1, <3>3 DEF TypeOK
    <2> QED BY <1>1, <2>5, <2>6, <2>7 DEF RunStep
<1>2. ASSUME NEW j \in Jobs, Answered(j)
      PROVE  LoopIsInList' /\ next' \in [Runs -> 1 .. Total + 1]
    <2>1. /\ \A k \in Jobs : status[k] = "idle" => status'[k] = "idle"
          /\ UNCHANGED <<stage, next>>
        BY <1>2, AnswerBegins DEF StatusOK
    <2>2. \A r \in Runs, i \in 1 .. Total : <<r, TestFiles[i]>> \in Jobs
        BY DEF Jobs
    <2>3. \A r \in Runs : next[r] <= Total => next[r] \in 1 .. Total
        BY DEF TypeOK
    <2> QED BY <2>1, <2>2, <2>3 DEF LoopIsInList, TypeOK
<1>3. ASSUME NEW j \in Jobs, CallbackStep(j)
      PROVE  LoopIsInList' /\ next' \in [Runs -> 1 .. Total + 1]
    BY <1>3, CallbacksLeaveRuns DEF LoopIsInList, TypeOK
<1>4. CASE Others
    BY <1>4, OthersLeaveAlone DEF LoopIsInList, TypeOK
<1> QED BY <1>1, <1>2, <1>3, <1>4 DEF Next, Others

\* Counts only grow, so that what a callback noted, and what was reported on it,
\* was reached.
LEMMA ReachedKept ==
    ASSUME IInv, [Next]_vars
    PROVE  CountsWereReached'
<1> USE DEF IInv, CountsWereReached
<1>1. ASSUME NEW r \in Runs, RunStep(r) PROVE CountsWereReached'
    BY <1>1, RunsLeaveCallbacks
<1>2. ASSUME NEW j \in Jobs, Answered(j) PROVE CountsWereReached'
    BY <1>2, AnswerBegins
<1>3. ASSUME NEW j \in Jobs, CallbackStep(j) PROVE CountsWereReached'
    <2>1. /\ job'[j].at # "none" /\ \A k \in Jobs \ {j} : job'[k] = job[k]
          /\ \A r \in Runs : finished[r] \in Nat
          /\ j[1] \in Runs
        BY <1>3, CallbacksLeaveRuns, ListCountsFiles DEF TypeOK, Jobs
    <2>2. CASE CountStale(j) \/ Count(j)
        <3>1. /\ finished' = [finished EXCEPT ![j[1]] = @ + 1] /\ ended' = ended
              /\ job'[j].at \in {"enriching", "enrichingLast"} =>
                     job'[j].nth = finished'[j[1]]
            <4>1. CASE CountStale(j)
                BY <4>1 DEF CountStale, CountOne, At, NoCallback, TypeOK, Job
            <4>2. CASE Count(j)
                BY <4>2 DEF Count, CountOne, TypeOK, Job
            <4> QED BY <2>2, <4>1, <4>2
        <3>2. \A r \in Runs : finished'[r] \in Nat /\ finished'[r] >= finished[r]
            BY <2>1, <3>1 DEF TypeOK
        <3>3. \A k \in Jobs : job[k].nth \in Nat
            BY ListCountsFiles DEF TypeOK, Job
        <3>4. \A k \in Jobs : k[1] \in Runs
            BY DEF Jobs
        <3>5. ASSUME NEW k \in Jobs, job'[k].at \in {"enriching", "enrichingLast"}
              PROVE  job'[k].nth <= finished'[k[1]]
            <4>1. CASE k = j
                BY <3>1, <3>2, <3>5, <4>1, <2>1
            <4>2. CASE k # j
                BY <2>1, <3>2, <3>3, <3>4, <3>5, <4>2
            <4> QED BY <4>1, <4>2
        <3>6. ASSUME NEW r \in Runs, ended'[r] PROVE finished'[r] >= Total
            BY <2>1, <3>1, <3>2, <3>6, ListCountsFiles
        <3> QED BY <3>5, <3>6
    <2>3. CASE Check(j) \/ Enrich(j) \/ CloseBulk(j)
        <3>1. /\ finished' = finished
              /\ job'[j].at \notin {"enriching", "enrichingLast"}
            BY <2>3 DEF Check, Enrich, CloseBulk, At, NoCallback, TypeOK, Job
        <3>2. ASSUME NEW r \in Runs, ended'[r] PROVE finished[r] >= Total
            <4>1. CASE ended[r]
                BY <4>1
            <4>2. CASE ~ended[r]
                <5>1. r = j[1] /\ job[j].nth >= Total
                      /\ job[j].at \in {"enriching", "enrichingLast"}
                    BY <2>1, <2>3, <3>2, <4>2 DEF Check, Enrich, CloseBulk, TypeOK
                <5> QED BY <2>1, <5>1, ListCountsFiles DEF TypeOK, Job
            <4> QED BY <4>1, <4>2
        <3> QED BY <2>1, <3>1, <3>2
    <2> QED BY <1>3, <2>2, <2>3 DEF CallbackStep
<1>4. CASE Others
    BY <1>4, OthersLeaveAlone
<1> QED BY <1>1, <1>2, <1>3, <1>4 DEF Next, Others

\* The variables keep to their values.
LEMMA TypesKept ==
    ASSUME IInv, [Next]_vars
    PROVE  TypeOK'
<1> USE DEF IInv
<1>1. /\ submitted' \in [Runs -> 0 .. Total] /\ finished' \in [Runs -> 0 .. Total]
      /\ next' \in [Runs -> 1 .. Total + 1]
    BY SizesKept, LoopKept
<1>2. SUFFICES /\ {running', cancel'} \subseteq BOOLEAN
               /\ stage' \in [Runs -> {"idle", "skipped", "looping", "submitting",
                                       "calling", "raised", "ended"}]
               /\ ended' \in [Runs -> BOOLEAN] /\ gen' \in [Files -> Gens]
               /\ job' \in [Jobs -> Job] /\ model' \in [Files -> Gens]
    BY <1>1 DEF TypeOK
<1> USE DEF TypeOK
<1>3. running \in BOOLEAN /\ cancel \in BOOLEAN
    OBVIOUS
<1>4. ASSUME NEW r \in Runs, RunStep(r)
      PROVE  /\ running' \in BOOLEAN
             /\ stage' \in [Runs -> {"idle", "skipped", "looping", "submitting",
                                     "calling", "raised", "ended"}]
    BY <1>3, <1>4 DEF RunStep, Enter, StopAtCancel, SkipUnreadable, ReadFile, CallCompiler,
           CallReturns, CallRaises, NextFile
<1>5. ASSUME NEW j \in Jobs, CallbackStep(j)
      PROVE  /\ running' \in BOOLEAN /\ ended' \in [Runs -> BOOLEAN]
             /\ model' \in [Files -> Gens]
    <2>1. CASE Enrich(j)
        <3>1. job[j].readAt \in Gens /\ j[2] \in Files /\ j[1] \in Runs
            BY DEF Job, Jobs
        <3> QED BY <1>3, <2>1, <3>1 DEF Enrich
    <2> QED BY <1>3, <1>5, <2>1 DEF CallbackStep, Check, CountStale, Count, CloseBulk
<1>6. CASE \E r \in Runs : RunStep(r)
    BY <1>3, <1>4, <1>6, RunsLeaveCallbacks
<1>7. CASE \E j \in Jobs : CallbackStep(j)
    BY <1>3, <1>5, <1>7, CallbacksLeaveRuns
<1>8. CASE \E j \in Jobs : Answered(j)
    BY <1>3, <1>8, AnswerBegins
<1>9. CASE Others
    BY <1>3, <1>9, OthersLeaveAlone
<1> QED BY <1>6, <1>7, <1>8, <1>9 DEF Next, Others
-----------------------------------------------------------------------------
\* The invariant holds of every state of the bulk compilation.
THEOREM Inductive == Spec => []IInv
<1>1. IInv /\ [Next]_vars => IInv'
    BY CallbacksKept, StatusKept, SizesKept, LoopKept, ReachedKept, TypesKept DEF IInv
<1> QED BY <1>1, InitEstablishes, PTL DEF Spec

\* The counters of all runs are in range, and no run counts more completions
\* than it has submitted files: run_bulk_tier3 and its callbacks, for any number
\* of runs and files and any order of the answers.
THEOREM CountsRight == Spec => []CountsAreRight
<1>1. IInv => CountsAreRight
    <2> SUFFICES ASSUME IInv, NEW r \in Runs PROVE finished[r] <= submitted[r]
        BY DEF IInv, CountsAreRight, FinishedWithinSubmitted
    <2> QED BY SetsOfRun DEF IInv, CountersAreSizes
<1> QED BY <1>1, Inductive, PTL

\* The end of a compilation is reported only when every file of the run was
\* compiled and its result counted.
THEOREM EndHonest == Spec => []EndIsHonest
<1>1. IInv => EndIsHonest
    <2> SUFFICES ASSUME IInv, NEW r \in Runs, ended[r], NEW f \in Files
                 PROVE  /\ status[<<r, f>>] = "closed"
                        /\ job[<<r, f>>].at \in CountedAt
        BY DEF EndIsHonest, CountedAt
    <2>1. /\ Counted(r) \subseteq Files /\ IsFiniteSet(Files)
          /\ Cardinality(Files) = Total /\ Total \in Nat
        BY ListCountsFiles DEF Counted
    <2>2. Cardinality(Counted(r)) >= Total /\ Cardinality(Counted(r)) \in Nat
        BY SetsOfRun DEF IInv, CountsWereReached, CountersAreSizes
    <2>3. Cardinality(Counted(r)) <= Cardinality(Files)
          /\ (Cardinality(Files) = Cardinality(Counted(r)) => Files = Counted(r))
        BY <2>1, FS_Subset
    <2>4. f \in Counted(r)
        BY <2>1, <2>2, <2>3
    <2> QED BY <2>4 DEF Counted, CountedAt, IInv, CallbacksAreOfClosed, Jobs
<1> QED BY <1>1, Inductive, PTL
=============================================================================
