------------------------ MODULE CompilerManager_proofs ------------------------
(***************************************************************************)
(* Proofs about CompilerManager, for any number of calls, files, sources   *)
(* and permits.  The inductive invariant IInv adds to the properties what  *)
(* the code keeps true between them: where a thread is tells in which state*)
(* its process is, what the thread carries is about its own call, and what *)
(* is in the cache is filed under the file and the source it was made from.*)
(***************************************************************************)
EXTENDS CompilerManager, FiniteSetTheorems, SequenceTheorems, TLAPS

\* Where the thread is tells whether its process exists and was started.
ProcFollowsPc ==
    \A j \in Jobs :
        /\ pc[j] \in {"idle", "missed", "killing", "registering",
                      "answeringHit"} => proc[j] = "none"
        /\ pc[j] \in {"queued", "leavingQueue", "answeringQueue", "starting"}
               => proc[j] = "new"

\* An IR that is about file f with source s.
IsAbout(ir, f, s) == FileOf[ir.of] = f /\ SourceOf[ir.of] = s

\* What threads carry and what the cache holds is about the right text.
CarriedIsAbout ==
    /\ \A j \in Jobs : IsAbout(got[j], FileOf[j], SourceOf[j])
    /\ \A f \in Files :
           cache[f] # NoEntry => IsAbout(cache[f].ir, f, cache[f].source)

\* Only a received result or crash reaches _put_cache.
CachingOnlyResults ==
    \A j \in Jobs : pc[j] = "caching" => got[j].kind \in {"compiled", "crashed"}

\* How many answers a call has had, by where its thread is.
AnswersFollowPc ==
    \A j \in Jobs :
        /\ pc[j] \notin {"handling", "unregistering", "releasing", "done"}
               => Len(answers[j]) = 0
        /\ pc[j] = "handling" => \/ Len(answers[j]) = 0
                                 \/ Len(answers[j]) = 1 /\ j \in Raisers
        /\ pc[j] \in {"unregistering", "releasing", "done"}
               => Len(answers[j]) = 1 \/ (Len(answers[j]) = 2 /\ j \in Raisers)

\* A compiled IR, wherever it is, was sent by the process of its call.
WasSent(ir) == ir.kind = "compiled" => proc[ir.of] = "sent"

CompiledWasSent ==
    /\ \A j \in Jobs : WasSent(got[j])
    /\ \A f \in Files : cache[f] # NoEntry => WasSent(cache[f].ir)
    /\ \A j \in Jobs : \A i \in DOMAIN answers[j] : WasSent(answers[j][i])

IInv == /\ TypeOK
        /\ PermitsConserved
        /\ ProcFollowsPc
        /\ WorkersAreWatched
        /\ RegistryIsLive
        /\ CarriedIsAbout
        /\ AnswersMatchTheCall
        /\ CachingOnlyResults
        /\ NothingTransientCached
        /\ AnswersFollowPc
        /\ CompiledWasSent

-----------------------------------------------------------------------------
LEMMA InitEstablishes == Init => IInv
<1> SUFFICES ASSUME Init PROVE IInv
    OBVIOUS
<1> USE ManagerAssumption DEF Init, Ir
<1>1. TypeOK
    <2>1. \A j \in Jobs : Ir("error", j) \in IR
        BY DEF IR, Kinds
    <2> QED BY <2>1 DEF TypeOK, CallerPoints, WaiterPoints, HoldingPoints
<1>2. PermitsConserved
    <2>1. Holders = {}
        BY DEF Holders, HoldingPoints
    <2> QED BY <2>1, FS_EmptySet DEF PermitsConserved
<1>3. CarriedIsAbout /\ AnswersMatchTheCall
    BY DEF CarriedIsAbout, IsAbout, AnswersMatchTheCall
<1>4. AnswersFollowPc /\ CompiledWasSent
    BY DEF AnswersFollowPc, CompiledWasSent, WasSent
<1> QED
    BY <1>1, <1>2, <1>3, <1>4 DEF IInv, ProcFollowsPc, WorkersAreWatched,
       RegistryIsLive, CachingOnlyResults, NothingTransientCached

-----------------------------------------------------------------------------
\* Permits are taken on entering the holding points and given back on leaving.
LEMMA PermitsStep ==
    ASSUME TypeOK, PermitsConserved, [Next]_vars
    PROVE  PermitsConserved' /\ permits' \in 0 .. MaxConcurrent
<1> USE ManagerAssumption
<1>0. /\ IsFiniteSet(Holders)
      /\ Cardinality(Holders) \in Nat
    <2>1. Holders \subseteq Jobs
        BY DEF Holders
    <2> QED BY <2>1, FS_Subset, FS_CardinalityType
<1>1. ASSUME Holders' = Holders, permits' = permits
      PROVE  PermitsConserved' /\ permits' \in 0 .. MaxConcurrent
    BY <1>1 DEF PermitsConserved, TypeOK
<1>2. CASE UNCHANGED vars
    BY <1>1, <1>2 DEF vars, Holders
<1>3. ASSUME NEW j \in Jobs, CallerStep(j)
      PROVE  PermitsConserved' /\ permits' \in 0 .. MaxConcurrent
    <2>1. permits' = permits /\ Holders' = Holders
        BY <1>3 DEF TypeOK, CallerStep, LookupHit, LookupMiss, CancelPop,
           CancelKill, Register, PrepareFails, AnswerHit, Goto, Holders,
           HoldingPoints
    <2> QED BY <2>1, <1>1
<1>4. ASSUME NEW j \in Jobs, WaiterStep(j)
      PROVE  PermitsConserved' /\ permits' \in 0 .. MaxConcurrent
    <2>1. CASE AcquirePermit(j)
        <3>1. /\ permits > 0 /\ permits' = permits - 1
              /\ Holders' = Holders \cup {j} /\ j \notin Holders
            BY <2>1 DEF AcquirePermit, Goto, TypeOK, Holders, HoldingPoints
        <3>2. Cardinality(Holders') = Cardinality(Holders) + 1
            BY <3>1, <1>0, FS_AddElement
        <3> QED BY <3>1, <3>2, <1>0 DEF PermitsConserved, TypeOK
    <2>2. CASE ReleasePermit(j)
        <3>1. /\ permits' = permits + 1
              /\ Holders' = Holders \ {j} /\ j \in Holders
            BY <2>2 DEF ReleasePermit, Goto, TypeOK, Holders, HoldingPoints
        <3>2. /\ Cardinality(Holders') = Cardinality(Holders) - 1
              /\ Cardinality(Holders') \in Nat
            BY <3>1, <1>0, FS_RemoveElement, FS_CardinalityType
        <3> QED BY <3>1, <3>2, <1>0 DEF PermitsConserved, TypeOK
    <2>3. CASE QueueTimeout(j) \/ LeaveQueue(j) \/ AnswerQueue(j)
        <3>1. permits' = permits /\ Holders' = Holders
            BY <2>3 DEF QueueTimeout, LeaveQueue, AnswerQueue, Goto, TypeOK,
               Holders, HoldingPoints
        <3> QED BY <3>1, <1>1
    <2>4. CASE StartProc(j) \/ StartFails(j) \/ Receive(j) \/ PollTimeout(j)
        <3>1. permits' = permits /\ Holders' = Holders
            BY <2>4 DEF StartProc, StartFails, Receive, PollTimeout, Goto,
               TypeOK, Holders, HoldingPoints
        <3> QED BY <3>1, <1>1
    <2>5. CASE PutCache(j) \/ AnswerResult(j) \/ AnswerError(j) \/ Unregister(j)
        <3>1. permits' = permits /\ Holders' = Holders
            BY <2>5 DEF PutCache, AnswerResult, AnswerError, Unregister, Goto,
               TypeOK, Holders, HoldingPoints
        <3> QED BY <3>1, <1>1
    <2> QED BY <1>4, <2>1, <2>2, <2>3, <2>4, <2>5 DEF WaiterStep
<1>5. ASSUME NEW j \in Jobs, WorkerSends(j) \/ WorkerDies(j)
      PROVE  PermitsConserved' /\ permits' \in 0 .. MaxConcurrent
    BY <1>1, <1>5 DEF WorkerSends, WorkerDies, Holders
<1>6. ASSUME NEW f \in Files, Expire(f) \/ Drop(f)
      PROVE  PermitsConserved' /\ permits' \in 0 .. MaxConcurrent
    BY <1>1, <1>6 DEF Expire, Drop, Holders
<1>7. CASE Shutdown \/ ShutdownRaises
    BY <1>1, <1>7 DEF Shutdown, ShutdownRaises, Holders
<1> QED BY <1>2, <1>3, <1>4, <1>5, <1>6, <1>7 DEF Next
\* Every step keeps the types.
LEMMA TypeStep ==
    ASSUME TypeOK, PermitsConserved, [Next]_vars
    PROVE  TypeOK'
<1> USE ManagerAssumption DEF TypeOK
<1>1. permits' \in 0 .. MaxConcurrent
    BY PermitsStep
<1>2. \A j \in Jobs, k \in Kinds : Ir(k, j) \in IR
    BY DEF Ir, IR
<1>3. CASE UNCHANGED vars
    BY <1>3 DEF vars
<1>4. ASSUME NEW j \in Jobs, CallerStep(j)
      PROVE  TypeOK'
    <2>1. CASE LookupHit(j)
        <3>1. cache[FileOf[j]].ir \in IR
            BY <2>1 DEF LookupHit, Matches, Entry
        <3> QED BY <1>1, <2>1, <3>1 DEF LookupHit, Goto, CallerPoints
    <2>2. CASE LookupMiss(j)
        BY <1>1, <2>2 DEF LookupMiss, Goto, CallerPoints
    <2>3. CASE CancelPop(j)
        <3>1. active[FileOf[j]] \in Jobs \cup {NoJob}
            OBVIOUS
        <3> QED BY <1>1, <2>3, <3>1 DEF CancelPop, Goto, CallerPoints
    <2>4. CASE CancelKill(j)
        BY <1>1, <2>4 DEF CancelKill, Killed, Goto, CallerPoints
    <2>5. CASE Register(j)
        BY <1>1, <2>5 DEF Register, Goto, CallerPoints, WaiterPoints
    <2>6. CASE PrepareFails(j)
        BY <1>1, <2>6 DEF PrepareFails, Goto, CallerPoints
    <2>7. CASE AnswerHit(j)
        BY <1>1, <2>7 DEF AnswerHit, Goto, WaiterPoints
    <2> QED BY <1>4, <2>1, <2>2, <2>3, <2>4, <2>5, <2>6, <2>7 DEF CallerStep
<1>5. ASSUME NEW j \in Jobs, WaiterStep(j)
      PROVE  TypeOK'
    <2> USE DEF Goto, WaiterPoints, HoldingPoints
    <2>1. CASE AcquirePermit(j)
        BY <1>1, <2>1 DEF AcquirePermit
    <2>2. CASE QueueTimeout(j)
        BY <1>1, <2>2 DEF QueueTimeout
    <2>3. CASE LeaveQueue(j)
        <3>1. Ir("queueTimeout", j) \in IR
            BY <1>2 DEF Kinds
        <3> QED BY <1>1, <2>3, <3>1 DEF LeaveQueue
    <2>4. CASE AnswerQueue(j)
        BY <1>1, <2>4 DEF AnswerQueue
    <2>5. CASE StartProc(j) \/ StartFails(j)
        BY <1>1, <2>5 DEF StartProc, StartFails
    <2>6. CASE Receive(j)
        <3>1. PICK k \in {"compiled", "crashed"} :
                  got' = [got EXCEPT ![j] = Ir(k, j)]
            BY <2>6 DEF Receive
        <3>2. Ir(k, j) \in IR
            BY <1>2 DEF Kinds
        <3> QED BY <1>1, <2>6, <3>1, <3>2 DEF Receive
    <2>7. CASE PollTimeout(j)
        <3>1. Ir("timedOut", j) \in IR
            BY <1>2 DEF Kinds
        <3> QED BY <1>1, <2>7, <3>1 DEF PollTimeout, Killed
    <2>8. CASE PutCache(j)
        <3>1. [ir |-> got[j], source |-> SourceOf[j], expired |-> FALSE]
                  \in Entry
            BY DEF Entry
        <3> QED BY <1>1, <2>8, <3>1 DEF PutCache
    <2>9. CASE AnswerResult(j)
        <3>1. got[j] \in IR /\ answers[j] \in Seq(IR)
            OBVIOUS
        <3>2. Append(answers[j], got[j]) \in Seq(IR)
            BY <3>1
        <3>3. /\ answers' = [answers EXCEPT ![j] = Append(answers[j], got[j])]
              /\ pc' \in [Jobs -> CallerPoints \cup WaiterPoints]
            BY <2>9 DEF AnswerResult
        <3> QED BY <1>1, <2>9, <3>2, <3>3 DEF AnswerResult
    <2>10. CASE AnswerError(j)
        <3>1. Ir("error", j) \in IR
            BY <1>2 DEF Kinds
        <3> QED BY <1>1, <2>10, <3>1 DEF AnswerError
    <2>11. CASE Unregister(j)
        BY <1>1, <2>11 DEF Unregister
    <2>12. CASE ReleasePermit(j)
        BY <1>1, <2>12 DEF ReleasePermit
    <2> QED BY <1>5, <2>1, <2>2, <2>3, <2>4, <2>5, <2>6, <2>7, <2>8, <2>9,
               <2>10, <2>11, <2>12 DEF WaiterStep
<1>6. ASSUME NEW j \in Jobs, WorkerSends(j) \/ WorkerDies(j)
      PROVE  TypeOK'
    BY <1>1, <1>6 DEF WorkerSends, WorkerDies
<1>7. ASSUME NEW f \in Files, Expire(f) \/ Drop(f)
      PROVE  TypeOK'
    <2>1. CASE Expire(f)
        <3> DEFINE e == [ir |-> cache[f].ir, source |-> cache[f].source,
                         expired |-> TRUE]
        <3>1. cache[f] \in Entry
            BY <2>1 DEF Expire
        <3>2. e \in Entry
            BY <3>1 DEF Entry
        <3>3. cache' = [cache EXCEPT ![f] = e]
            BY <2>1 DEF Expire
        <3> HIDE DEF e
        <3> QED BY <1>1, <2>1, <3>2, <3>3 DEF Expire
    <2> QED BY <1>1, <1>7, <2>1 DEF Drop
<1>8. CASE Shutdown \/ ShutdownRaises
    BY <1>1, <1>8 DEF Shutdown, ShutdownRaises, Killed
<1> QED BY <1>3, <1>4, <1>5, <1>6, <1>7, <1>8 DEF Next
\* The process of a call follows its thread, and only a polling thread's
\* process runs.
LEMMA ProcStep ==
    ASSUME TypeOK, ProcFollowsPc, WorkersAreWatched, [Next]_vars
    PROVE  ProcFollowsPc' /\ WorkersAreWatched'
<1> USE DEF TypeOK, ProcFollowsPc, WorkersAreWatched
<1>1. CASE UNCHANGED vars
    BY <1>1 DEF vars
<1>2. ASSUME NEW j \in Jobs, CallerStep(j)
      PROVE  ProcFollowsPc' /\ WorkersAreWatched'
    <2>1. CASE CancelKill(j)
        BY <2>1 DEF CancelKill, Goto, Killed
    <2>2. CASE CancelPop(j)
        BY <2>2 DEF CancelPop, Goto
    <2>3. CASE LookupHit(j) \/ LookupMiss(j) \/ AnswerHit(j)
        BY <2>3 DEF LookupHit, LookupMiss, AnswerHit, Goto
    <2>4. CASE Register(j) \/ PrepareFails(j)
        BY <2>4 DEF Register, PrepareFails, Goto
    <2> QED BY <1>2, <2>1, <2>2, <2>3, <2>4 DEF CallerStep
<1>3. ASSUME NEW j \in Jobs, WaiterStep(j)
      PROVE  ProcFollowsPc' /\ WorkersAreWatched'
    <2> USE DEF Goto
    <2>1. CASE AcquirePermit(j) \/ QueueTimeout(j) \/ LeaveQueue(j)
        BY <2>1 DEF AcquirePermit, QueueTimeout, LeaveQueue
    <2>2. CASE AnswerQueue(j) \/ StartProc(j) \/ StartFails(j)
        BY <2>2 DEF AnswerQueue, StartProc, StartFails
    <2>3. CASE Receive(j)
        <3>1. pc[j] = "polling" /\ proc[j] # "running" /\ Goto(j, "caching")
            BY <2>3 DEF Receive
        <3>2. proc' = proc
            BY <2>3 DEF Receive
        <3> QED BY <3>1, <3>2
    <2>4. CASE PollTimeout(j)
        BY <2>4 DEF PollTimeout, Killed
    <2>5. CASE PutCache(j) \/ AnswerResult(j) \/ AnswerError(j)
        BY <2>5 DEF PutCache, AnswerResult, AnswerError
    <2>6. CASE Unregister(j) \/ ReleasePermit(j)
        BY <2>6 DEF Unregister, ReleasePermit
    <2> QED BY <1>3, <2>1, <2>2, <2>3, <2>4, <2>5, <2>6 DEF WaiterStep
<1>4. ASSUME NEW j \in Jobs, WorkerSends(j) \/ WorkerDies(j)
      PROVE  ProcFollowsPc' /\ WorkersAreWatched'
    BY <1>4 DEF WorkerSends, WorkerDies
<1>5. ASSUME NEW f \in Files, Expire(f) \/ Drop(f)
      PROVE  ProcFollowsPc' /\ WorkersAreWatched'
    <2>1. UNCHANGED <<pc, proc>>
        BY <1>5 DEF Expire, Drop
    <2> QED BY <2>1
<1>6. CASE Shutdown \/ ShutdownRaises
    BY <1>6 DEF Shutdown, ShutdownRaises, Killed
<1> QED BY <1>1, <1>2, <1>3, <1>4, <1>5, <1>6 DEF Next

\* A registration is made by the call it names and gone before its thread
\* leaves the points RegistryIsLive lists.
LEMMA RegistryStep ==
    ASSUME TypeOK, RegistryIsLive, [Next]_vars
    PROVE  RegistryIsLive'
<1> USE ManagerAssumption DEF TypeOK, RegistryIsLive
<1>1. CASE UNCHANGED vars
    BY <1>1 DEF vars
<1>2. ASSUME NEW j \in Jobs, CallerStep(j)
      PROVE  RegistryIsLive'
    <2> USE DEF Goto
    <2>1. CASE LookupHit(j) \/ LookupMiss(j) \/ AnswerHit(j)
        BY <2>1 DEF LookupHit, LookupMiss, AnswerHit
    <2>2. CASE CancelPop(j)
        BY <2>2 DEF CancelPop
    <2>3. CASE CancelKill(j) \/ PrepareFails(j)
        BY <2>3 DEF CancelKill, PrepareFails
    <2>4. CASE Register(j)
        BY <2>4 DEF Register
    <2> QED BY <1>2, <2>1, <2>2, <2>3, <2>4 DEF CallerStep
<1>3. ASSUME NEW j \in Jobs, WaiterStep(j)
      PROVE  RegistryIsLive'
    <2> USE DEF Goto
    <2>1. CASE AcquirePermit(j) \/ QueueTimeout(j) \/ AnswerQueue(j)
        BY <2>1 DEF AcquirePermit, QueueTimeout, AnswerQueue
    <2>2. CASE LeaveQueue(j)
        BY <2>2 DEF LeaveQueue
    <2>3. CASE StartProc(j) \/ StartFails(j) \/ Receive(j) \/ PollTimeout(j)
        <3>1. /\ active' = active
              /\ \E p \in {"polling", "handling", "caching", "answering"} :
                     Goto(j, p)
            BY <2>3 DEF StartProc, StartFails, Receive, PollTimeout
        <3> QED BY <3>1
    <2>4. CASE PutCache(j) \/ AnswerResult(j) \/ AnswerError(j)
        <3>1. /\ active' = active
              /\ \E p \in {"answering", "unregistering", "handling"} :
                     Goto(j, p)
            BY <2>4 DEF PutCache, AnswerResult, AnswerError
        <3> QED BY <3>1
    <2>5. CASE Unregister(j)
        BY <2>5 DEF Unregister
    <2>6. CASE ReleasePermit(j)
        BY <2>6 DEF ReleasePermit
    <2> QED BY <1>3, <2>1, <2>2, <2>3, <2>4, <2>5, <2>6 DEF WaiterStep
<1>4. ASSUME NEW j \in Jobs, WorkerSends(j) \/ WorkerDies(j)
      PROVE  RegistryIsLive'
    BY <1>4 DEF WorkerSends, WorkerDies
<1>5. ASSUME NEW f \in Files, Expire(f) \/ Drop(f)
      PROVE  RegistryIsLive'
    BY <1>5 DEF Expire, Drop
<1>6. CASE Shutdown \/ ShutdownRaises
    BY <1>6 DEF Shutdown, ShutdownRaises
<1> QED BY <1>1, <1>2, <1>3, <1>4, <1>5, <1>6 DEF Next
\* Steps that call back, with what, and steps that do not.
LEMMA AnswerCases ==
    ASSUME TypeOK, [Next]_vars
    PROVE  \/ answers' = answers
           \/ \E j \in Jobs : \E ir \in {got[j], Ir("error", j)} :
                 /\ ir \in IR
                 /\ answers' = [answers EXCEPT ![j] = Append(answers[j], ir)]
<1> USE DEF TypeOK
<1>1. ASSUME NEW j \in Jobs,
             AnswerHit(j) \/ AnswerQueue(j) \/ AnswerResult(j)
      PROVE  /\ got[j] \in IR
             /\ answers' = [answers EXCEPT ![j] = Append(answers[j], got[j])]
    BY <1>1 DEF AnswerHit, AnswerQueue, AnswerResult
<1>2. ASSUME NEW j \in Jobs, AnswerError(j)
      PROVE  /\ Ir("error", j) \in IR
             /\ answers' = [answers EXCEPT ![j] =
                               Append(answers[j], Ir("error", j))]
    BY <1>2 DEF AnswerError, Ir, IR, Kinds
<1>3. ASSUME NEW j \in Jobs, CallerStep(j), ~AnswerHit(j)
      PROVE  answers' = answers
    BY <1>3 DEF CallerStep, LookupHit, LookupMiss, CancelPop, CancelKill,
       Register, PrepareFails
<1>4. ASSUME NEW j \in Jobs, WaiterStep(j), ~AnswerQueue(j),
             ~AnswerResult(j), ~AnswerError(j)
      PROVE  answers' = answers
    BY <1>4 DEF WaiterStep, AcquirePermit, QueueTimeout, LeaveQueue, StartProc,
       StartFails, Receive, PollTimeout, PutCache, Unregister, ReleasePermit
<1>5. ASSUME \/ \E j \in Jobs : WorkerSends(j) \/ WorkerDies(j)
             \/ \E f \in Files : Expire(f) \/ Drop(f)
             \/ Shutdown \/ ShutdownRaises \/ UNCHANGED vars
      PROVE  answers' = answers
    BY <1>5 DEF WorkerSends, WorkerDies, Expire, Drop, Shutdown, ShutdownRaises,
       vars
<1>6. CASE \E j \in Jobs : CallerStep(j)
    BY <1>1, <1>3, <1>6
<1>7. CASE \E j \in Jobs : WaiterStep(j)
    BY <1>1, <1>2, <1>4, <1>7
<1> QED BY <1>5, <1>6, <1>7 DEF Next

\* An answer after such a step is a new one or an old one.
LEMMA AppendedAnswer ==
    ASSUME TypeOK, NEW j \in Jobs, NEW ir \in IR,
           answers' = [answers EXCEPT ![j] = Append(answers[j], ir)]
    PROVE  \A k \in Jobs : \A i \in DOMAIN answers'[k] :
              \/ k = j /\ answers'[k][i] = ir
              \/ i \in DOMAIN answers[k] /\ answers'[k][i] = answers[k][i]
<1> SUFFICES ASSUME NEW k \in Jobs, NEW i \in DOMAIN answers'[k]
             PROVE  \/ k = j /\ answers'[k][i] = ir
                    \/ /\ i \in DOMAIN answers[k]
                       /\ answers'[k][i] = answers[k][i]
    OBVIOUS
<1>1. answers[j] \in Seq(IR) /\ answers \in [Jobs -> Seq(IR)]
    BY DEF TypeOK
<1>2. CASE k # j
    BY <1>1, <1>2
<1>3. CASE k = j
    <2>1. answers'[k] = Append(answers[j], ir)
        BY <1>1, <1>3
    <2> QED BY <1>1, <1>3, <2>1
<1> QED BY <1>2, <1>3

\* What is carried, cached and answered stays about the right text.
LEMMA ContentStep ==
    ASSUME TypeOK, CarriedIsAbout, AnswersMatchTheCall, [Next]_vars
    PROVE  CarriedIsAbout' /\ AnswersMatchTheCall'
<1> USE ManagerAssumption
<1>1. AnswersMatchTheCall'
    <2>1. CASE answers' = answers
        BY <2>1 DEF AnswersMatchTheCall
    <2>2. ASSUME NEW j \in Jobs, NEW ir \in {got[j], Ir("error", j)}, ir \in IR,
                 answers' = [answers EXCEPT ![j] = Append(answers[j], ir)]
          PROVE  AnswersMatchTheCall'
        <3>1. FileOf[ir.of] = FileOf[j] /\ SourceOf[ir.of] = SourceOf[j]
            BY <2>2 DEF CarriedIsAbout, IsAbout, Ir
        <3> QED BY <2>2, <3>1, AppendedAnswer DEF AnswersMatchTheCall
    <2> QED BY <2>1, <2>2, AnswerCases
<1>2. CarriedIsAbout'
    <2> USE DEF TypeOK, CarriedIsAbout, IsAbout
    <2>1. CASE UNCHANGED vars
        BY <2>1 DEF vars
    <2>2. ASSUME NEW j \in Jobs, CallerStep(j)
          PROVE  CarriedIsAbout'
        <3>1. CASE LookupHit(j)
            <4>1. IsAbout(cache[FileOf[j]].ir, FileOf[j], SourceOf[j])
                BY <3>1 DEF LookupHit, Matches
            <4> QED BY <3>1, <4>1 DEF LookupHit
        <3>2. CASE LookupMiss(j)
            BY <3>2 DEF LookupMiss
        <3> QED BY <2>2, <3>1, <3>2 DEF CallerStep, CancelPop, CancelKill,
                   Register, PrepareFails, AnswerHit
    <2>3. ASSUME NEW j \in Jobs, WaiterStep(j)
          PROVE  CarriedIsAbout'
        <3>1. CASE PutCache(j)
            BY <3>1 DEF PutCache
        <3>2. CASE LeaveQueue(j) \/ Receive(j) \/ PollTimeout(j)
            <4>1. cache' = cache /\
                  \E k \in Kinds : got' = [got EXCEPT ![j] = Ir(k, j)]
                BY <3>2 DEF LeaveQueue, Receive, PollTimeout, Kinds
            <4> QED BY <4>1 DEF Ir
        <3>3. CASE UNCHANGED <<cache, got>>
            BY <3>3
        <3> QED BY <2>3, <3>1, <3>2, <3>3 DEF WaiterStep, AcquirePermit,
                   QueueTimeout, AnswerQueue, StartProc, StartFails,
                   AnswerResult, AnswerError, Unregister, ReleasePermit
    <2>4. ASSUME NEW f \in Files, Expire(f) \/ Drop(f)
          PROVE  CarriedIsAbout'
        BY <2>4 DEF Expire, Drop
    <2>5. CASE \/ \E j \in Jobs : WorkerSends(j) \/ WorkerDies(j)
               \/ Shutdown \/ ShutdownRaises
        BY <2>5 DEF WorkerSends, WorkerDies, Shutdown, ShutdownRaises
    <2> QED BY <2>1, <2>2, <2>3, <2>4, <2>5 DEF Next
<1> QED BY <1>1, <1>2
\* Only what a worker produced, or its crash, is ever cached.
LEMMA CachingStep ==
    ASSUME TypeOK, CachingOnlyResults, NothingTransientCached, [Next]_vars
    PROVE  CachingOnlyResults' /\ NothingTransientCached'
<1> USE ManagerAssumption
        DEF TypeOK, CachingOnlyResults, NothingTransientCached
<1>1. CASE UNCHANGED vars
    BY <1>1 DEF vars
<1>2. ASSUME NEW j \in Jobs, CallerStep(j)
      PROVE  CachingOnlyResults' /\ NothingTransientCached'
    <2>1. CASE LookupHit(j) \/ LookupMiss(j) \/ CancelPop(j)
        BY <2>1 DEF LookupHit, LookupMiss, CancelPop, Goto
    <2>2. CASE CancelKill(j) \/ Register(j) \/ PrepareFails(j) \/ AnswerHit(j)
        BY <2>2 DEF CancelKill, Register, PrepareFails, AnswerHit, Goto
    <2> QED BY <1>2, <2>1, <2>2 DEF CallerStep
<1>3. ASSUME NEW j \in Jobs, WaiterStep(j)
      PROVE  CachingOnlyResults' /\ NothingTransientCached'
    <2> USE DEF Goto
    <2>1. CASE Receive(j)
        <3>1. PICK k \in {"compiled", "crashed"} :
                  got' = [got EXCEPT ![j] = Ir(k, j)]
            BY <2>1 DEF Receive
        <3> QED BY <2>1, <3>1 DEF Receive, Ir
    <2>2. CASE PutCache(j)
        BY <2>2 DEF PutCache
    <2>3. CASE LeaveQueue(j) \/ PollTimeout(j) \/ QueueTimeout(j)
        BY <2>3 DEF LeaveQueue, PollTimeout, QueueTimeout
    <2>4. CASE AcquirePermit(j) \/ AnswerQueue(j) \/ StartProc(j)
               \/ StartFails(j)
        BY <2>4 DEF AcquirePermit, AnswerQueue, StartProc, StartFails
    <2>5. CASE AnswerResult(j) \/ AnswerError(j) \/ Unregister(j)
               \/ ReleasePermit(j)
        BY <2>5 DEF AnswerResult, AnswerError, Unregister, ReleasePermit
    <2> QED BY <1>3, <2>1, <2>2, <2>3, <2>4, <2>5 DEF WaiterStep
<1>4. ASSUME NEW f \in Files, Expire(f) \/ Drop(f)
      PROVE  CachingOnlyResults' /\ NothingTransientCached'
    <2>1. UNCHANGED <<pc, got>>
        BY <1>4 DEF Expire, Drop
    <2>2. \A g \in Files : \/ cache'[g] = NoEntry
                           \/ cache[g] # NoEntry /\ cache'[g].ir = cache[g].ir
        <3>1. CASE Expire(f)
            BY <3>1 DEF Expire
        <3>2. CASE Drop(f)
            BY <3>2 DEF Drop
        <3> QED BY <1>4, <3>1, <3>2
    <2> QED BY <2>1, <2>2
<1>5. CASE \/ \E j \in Jobs : WorkerSends(j) \/ WorkerDies(j)
           \/ Shutdown \/ ShutdownRaises
    BY <1>5 DEF WorkerSends, WorkerDies, Shutdown, ShutdownRaises
<1> QED BY <1>1, <1>2, <1>3, <1>4, <1>5 DEF Next

\* The callback is called once, or twice when it may raise.
LEMMA AnswersStep ==
    ASSUME TypeOK, AnswersFollowPc, [Next]_vars
    PROVE  AnswersFollowPc'
<1> USE ManagerAssumption DEF TypeOK, AnswersFollowPc
<1>1. CASE UNCHANGED vars
    BY <1>1 DEF vars
<1>2. ASSUME NEW j \in Jobs, NEW p \in CallerPoints \cup WaiterPoints,
             Goto(j, p), answers' = answers,
             \/ /\ pc[j] \notin {"handling", "unregistering", "releasing", "done"}
                /\ p \notin {"unregistering", "releasing", "done"}
             \/ /\ pc[j] \in {"unregistering", "releasing"}
                /\ p \in {"releasing", "done"}
      PROVE  AnswersFollowPc'
    <2>1. Len(answers[j]) = 0 \/ pc[j] \in {"unregistering", "releasing"}
        BY <1>2
    <2>2. pc'[j] = p /\ \A k \in Jobs : k # j => pc'[k] = pc[k]
        BY <1>2 DEF Goto
    <2> QED BY <1>2, <2>1, <2>2
<1>3. ASSUME NEW j \in Jobs, NEW ir, NEW p,
             Goto(j, p), answers' = [answers EXCEPT ![j] = Append(@, ir)],
             ir \in IR,
             \/ /\ pc[j] \in {"answeringHit", "answeringQueue", "answering"}
                /\ p \in {"unregistering", "done"}
             \/ /\ pc[j] = "answering" /\ j \in Raisers /\ p = "handling"
             \/ /\ pc[j] = "handling" /\ p = "unregistering"
      PROVE  AnswersFollowPc'
    <2>1. answers[j] \in Seq(IR)
        OBVIOUS
    <2>2. Len(answers'[j]) = Len(answers[j]) + 1
        BY <1>3, <2>1
    <2>3. \A k \in Jobs : k # j => pc'[k] = pc[k] /\ answers'[k] = answers[k]
        BY <1>3 DEF Goto
    <2>4. pc'[j] = p
        BY <1>3 DEF Goto
    <2>5. /\ pc[j] # "handling" => Len(answers[j]) = 0
          /\ \/ Len(answers[j]) = 0
             \/ Len(answers[j]) = 1 /\ j \in Raisers
        BY <1>3
    <2>6. /\ pc'[j] = "handling" => Len(answers'[j]) = 1 /\ j \in Raisers
          /\ pc'[j] \in {"unregistering", "releasing", "done"} =>
                Len(answers'[j]) = 1 \/ (Len(answers'[j]) = 2 /\ j \in Raisers)
          /\ pc'[j] \in {"handling", "unregistering", "releasing", "done"}
        <3> HIDE DEF TypeOK, AnswersFollowPc
        <3> QED BY <1>3, <2>2, <2>4, <2>5
    <2> QED BY <2>3, <2>6
<1>4. ASSUME NEW j \in Jobs, CallerStep(j)
      PROVE  AnswersFollowPc'
    <2> USE DEF CallerPoints, WaiterPoints
    <2>1. CASE LookupHit(j) \/ LookupMiss(j)
        BY <1>2, <2>1 DEF LookupHit, LookupMiss
    <2>2. CASE CancelPop(j)
        BY <1>2, <2>2 DEF CancelPop
    <2>3. CASE CancelKill(j) \/ Register(j) \/ PrepareFails(j)
        <3>1. \E p \in {"registering", "queued", "raised"} : Goto(j, p)
            BY <2>3 DEF CancelKill, Register, PrepareFails
        <3> QED BY <1>2, <2>3, <3>1 DEF CancelKill, Register, PrepareFails
    <2>4. CASE AnswerHit(j)
        BY <1>3, <2>4 DEF AnswerHit
    <2> QED BY <1>4, <2>1, <2>2, <2>3, <2>4 DEF CallerStep
<1>5. ASSUME NEW j \in Jobs, WaiterStep(j)
      PROVE  AnswersFollowPc'
    <2> USE DEF WaiterPoints, HoldingPoints
    <2>1. CASE AcquirePermit(j) \/ QueueTimeout(j) \/ LeaveQueue(j)
        BY <1>2, <2>1 DEF AcquirePermit, QueueTimeout, LeaveQueue
    <2>2. CASE StartProc(j) \/ Receive(j) \/ PollTimeout(j) \/ PutCache(j)
        BY <1>2, <2>2 DEF StartProc, Receive, PollTimeout, PutCache
    <2>3. CASE StartFails(j)
        <3>1. /\ pc[j] = "starting" /\ Goto(j, "handling")
              /\ answers' = answers
            BY <2>3 DEF StartFails
        <3>2. Len(answers[j]) = 0
            BY <3>1
        <3> QED BY <3>1, <3>2 DEF Goto
    <2>4. CASE AnswerQueue(j)
        BY <1>3, <2>4 DEF AnswerQueue
    <2>5. CASE AnswerResult(j)
        <3>1. \/ Goto(j, "unregistering")
              \/ j \in Raisers /\ Goto(j, "handling")
            BY <2>5 DEF AnswerResult
        <3> QED BY <1>3, <2>5, <3>1 DEF AnswerResult
    <2>6. CASE AnswerError(j)
        <3>1. Ir("error", j) \in IR
            BY DEF Ir, IR, Kinds
        <3> QED BY <1>3, <2>6, <3>1 DEF AnswerError
    <2>7. CASE Unregister(j) \/ ReleasePermit(j)
        BY <1>2, <2>7 DEF Unregister, ReleasePermit
    <2> QED BY <1>5, <2>1, <2>2, <2>3, <2>4, <2>5, <2>6, <2>7 DEF WaiterStep
<1>6. CASE \/ \E j \in Jobs : WorkerSends(j) \/ WorkerDies(j)
           \/ \E f \in Files : Expire(f) \/ Drop(f)
           \/ Shutdown \/ ShutdownRaises
    <2>1. UNCHANGED <<pc, answers>>
        BY <1>6 DEF WorkerSends, WorkerDies, Expire, Drop, Shutdown,
           ShutdownRaises
    <2> QED BY <2>1
<1> QED BY <1>1, <1>4, <1>5, <1>6 DEF Next
\* A process that has sent its result stays in that state, and a compiled IR
\* appears only when it is received from such a process.
LEMMA SentStep ==
    ASSUME TypeOK, ProcFollowsPc, CompiledWasSent, [Next]_vars
    PROVE  CompiledWasSent'
<1> USE ManagerAssumption DEF TypeOK
<1>1. \A j \in Jobs : proc[j] = "sent" => proc'[j] = "sent"
    <2>1. ASSUME NEW k \in Jobs, CallerStep(k)
          PROVE  \A j \in Jobs : proc[j] = "sent" => proc'[j] = "sent"
        <3>1. CASE CancelKill(k)
            BY <3>1 DEF CancelKill, Killed
        <3>2. CASE Register(k)
            <4>1. proc[k] = "none" /\ proc' = [proc EXCEPT ![k] = "new"]
                BY <3>2 DEF Register, ProcFollowsPc
            <4> QED BY <4>1
        <3> QED BY <2>1, <3>1, <3>2 DEF CallerStep, LookupHit, LookupMiss,
                   CancelPop, PrepareFails, AnswerHit
    <2>2. ASSUME NEW k \in Jobs, WaiterStep(k)
          PROVE  \A j \in Jobs : proc[j] = "sent" => proc'[j] = "sent"
        <3>1. CASE StartProc(k)
            <4>1. proc[k] = "new" /\ proc' = [proc EXCEPT ![k] = "running"]
                BY <3>1 DEF StartProc, ProcFollowsPc
            <4> QED BY <4>1
        <3>2. CASE PollTimeout(k)
            BY <3>2 DEF PollTimeout, Killed
        <3>3. CASE UNCHANGED proc
            BY <3>3
        <3> QED BY <2>2, <3>1, <3>2, <3>3 DEF WaiterStep, AcquirePermit,
                   QueueTimeout, LeaveQueue, AnswerQueue, StartFails, Receive,
                   PutCache, AnswerResult, AnswerError, Unregister,
                   ReleasePermit
    <2>3. ASSUME NEW k \in Jobs, WorkerSends(k) \/ WorkerDies(k)
          PROVE  \A j \in Jobs : proc[j] = "sent" => proc'[j] = "sent"
        BY <2>3 DEF WorkerSends, WorkerDies
    <2>4. CASE \/ \E f \in Files : Expire(f) \/ Drop(f)
               \/ Shutdown \/ ShutdownRaises \/ UNCHANGED vars
        BY <2>4 DEF Expire, Drop, Shutdown, ShutdownRaises, Killed, vars
    <2> QED BY <2>1, <2>2, <2>3, <2>4 DEF Next
<1> DEFINE Sent(ir) == ir.kind = "compiled" => proc'[ir.of] = "sent"
           GotSent == \A j \in Jobs : Sent(got'[j])
           CacheSent == \A f \in Files : cache'[f] # NoEntry => Sent(cache'[f].ir)
<1>2. \A ir \in IR : WasSent(ir) => Sent(ir)
    BY <1>1 DEF WasSent, IR
<1>3. \A j \in Jobs, k \in Kinds : k # "compiled" => Sent(Ir(k, j))
    BY DEF Ir
<1>4. /\ \A j \in Jobs : Sent(got[j])
      /\ \A f \in Files : cache[f] # NoEntry => Sent(cache[f].ir)
      /\ \A j \in Jobs : \A i \in DOMAIN answers[j] : Sent(answers[j][i])
    <2>1. /\ \A j \in Jobs : got[j] \in IR
          /\ \A f \in Files : cache[f] # NoEntry => cache[f].ir \in IR
        BY DEF Entry
    <2>2. ASSUME NEW j \in Jobs, NEW i \in DOMAIN answers[j]
          PROVE  answers[j][i] \in IR
        <3>1. answers[j] \in Seq(IR)
            OBVIOUS
        <3> QED BY <3>1, ElementOfSeq, LenProperties
    <2> QED BY <1>2, <2>1, <2>2 DEF CompiledWasSent
<1>5. \A j \in Jobs : \A i \in DOMAIN answers'[j] : Sent(answers'[j][i])
    <2>1. CASE answers' = answers
        BY <1>4, <2>1
    <2>2. ASSUME NEW j \in Jobs, NEW ir \in {got[j], Ir("error", j)}, ir \in IR,
                 answers' = [answers EXCEPT ![j] = Append(answers[j], ir)]
          PROVE  \A k \in Jobs : \A i \in DOMAIN answers'[k] :
                     Sent(answers'[k][i])
        <3>1. Sent(ir)
            BY <1>3, <1>4, <2>2 DEF Kinds
        <3> HIDE DEF Sent
        <3>2. \A k \in Jobs : \A i \in DOMAIN answers'[k] :
                  \/ k = j /\ answers'[k][i] = ir
                  \/ i \in DOMAIN answers[k] /\ answers'[k][i] = answers[k][i]
            <4> HIDE DEF TypeOK
            <4> QED BY <2>2, AppendedAnswer
        <3> QED BY <1>4, <3>1, <3>2
    <2> HIDE DEF TypeOK
    <2> QED BY <2>1, <2>2, AnswerCases
<1>6. GotSent /\ CacheSent
    <2>1. ASSUME NEW j \in Jobs, CallerStep(j)
          PROVE  GotSent /\ CacheSent
        <3> HIDE DEF Sent
        <3>1. CASE LookupHit(j)
            BY <1>4, <3>1, ManagerAssumption DEF LookupHit, Matches
        <3>2. CASE LookupMiss(j)
            BY <1>4, <3>2 DEF LookupMiss
        <3> QED BY <1>4, <2>1, <3>1, <3>2 DEF CallerStep, CancelPop, CancelKill,
                   Register, PrepareFails, AnswerHit
    <2>2. ASSUME NEW j \in Jobs, WaiterStep(j)
          PROVE  GotSent /\ CacheSent
        <3>1. CASE PutCache(j)
            <4> HIDE DEF Sent
            <4> QED BY <1>4, <3>1 DEF PutCache
        <3>2. CASE Receive(j)
            <4>1. PICK k \in {"compiled", "crashed"} :
                      /\ got' = [got EXCEPT ![j] = Ir(k, j)]
                      /\ k = "compiled" => proc[j] = "sent"
                BY <3>2 DEF Receive
            <4>2. Ir(k, j).kind = k /\ Ir(k, j).of = j
                BY DEF Ir
            <4>4. Sent(Ir(k, j))
                BY <1>1, <4>1, <4>2
            <4>3. cache' = cache
                BY <3>2 DEF Receive
            <4> HIDE DEF Sent
            <4> QED BY <1>4, <4>1, <4>3, <4>4
        <3>3. CASE LeaveQueue(j) \/ PollTimeout(j)
            <4>1. PICK k \in Kinds \ {"compiled"} :
                      got' = [got EXCEPT ![j] = Ir(k, j)]
                BY <3>3 DEF LeaveQueue, PollTimeout, Kinds
            <4>2. Sent(Ir(k, j))
                BY <1>3
            <4>3. cache' = cache
                BY <3>3 DEF LeaveQueue, PollTimeout
            <4> HIDE DEF Sent
            <4> QED BY <1>4, <4>1, <4>2, <4>3
        <3>4. CASE UNCHANGED <<cache, got>>
            BY <1>4, <3>4
        <3> QED BY <2>2, <3>1, <3>2, <3>3, <3>4 DEF WaiterStep,
                   AcquirePermit, QueueTimeout, AnswerQueue, StartProc,
                   StartFails, AnswerResult, AnswerError, Unregister,
                   ReleasePermit
    <2>3. ASSUME NEW f \in Files, Expire(f) \/ Drop(f)
          PROVE  GotSent /\ CacheSent
        <3> HIDE DEF Sent
        <3>1. CASE Expire(f)
            BY <1>4, <3>1 DEF Expire
        <3>2. CASE Drop(f)
            BY <1>4, <3>2 DEF Drop
        <3> QED BY <2>3, <3>1, <3>2
    <2>4. CASE \/ \E j \in Jobs : WorkerSends(j) \/ WorkerDies(j)
               \/ Shutdown \/ ShutdownRaises \/ UNCHANGED vars
        <3> HIDE DEF Sent
        <3> QED BY <1>4, <2>4 DEF WorkerSends, WorkerDies, Shutdown,
                   ShutdownRaises, vars
    <2> QED BY <2>1, <2>2, <2>3, <2>4 DEF Next
<1> QED BY <1>5, <1>6 DEF CompiledWasSent, WasSent

-----------------------------------------------------------------------------
\* The invariant is inductive.
THEOREM Inductive == Spec => []IInv
<1>1. Init => IInv
    BY InitEstablishes
<1>2. IInv /\ [Next]_vars => IInv'
    BY PermitsStep, TypeStep, ProcStep, RegistryStep, ContentStep, CachingStep,
       AnswersStep, SentStep DEF IInv
<1> QED BY <1>1, <1>2, PTL DEF Spec

\* Type correctness of the compiler manager.
THEOREM TypeCorrect == Spec => []TypeOK
<1>1. IInv => TypeOK
    BY DEF IInv
<1> QED BY <1>1, Inductive, PTL

\* No path through _wait loses or duplicates a permit of _semaphore.
THEOREM PermitsAreConserved == Spec => []PermitsConserved
<1>1. IInv => PermitsConserved
    BY DEF IInv
<1> QED BY <1>1, Inductive, PTL

\* A compiling worker is always polled by a thread that holds a permit (_wait).
THEOREM WorkersWatched == Spec => []WorkersAreWatched
<1>1. IInv => WorkersAreWatched
    BY DEF IInv
<1> QED BY <1>1, Inductive, PTL

\* The registry that cancel and shutdown go through (_active_processes) names live
\* calls of the right file only.
THEOREM RegistryLive == Spec => []RegistryIsLive
<1>1. IInv => RegistryIsLive
    BY DEF IInv
<1> QED BY <1>1, Inductive, PTL

\* Every answer is about the file and the source of the call it answers.
THEOREM AnswersAreRight == Spec => []AnswersMatchTheCall
<1>1. IInv => AnswersMatchTheCall
    BY DEF IInv
<1> QED BY <1>1, Inductive, PTL

\* No queue timeout, poll timeout or start failure is ever cached.
THEOREM CacheHoldsResults == Spec => []NothingTransientCached
<1>1. IInv => NothingTransientCached
    BY DEF IInv
<1> QED BY <1>1, Inductive, PTL

\* Callbacks come as often as the code promises.
THEOREM CallbacksAreDisciplined == Spec => []CallbackDiscipline
<1>1. IInv => CallbackDiscipline
    <2> SUFFICES ASSUME IInv, NEW j \in Jobs
                 PROVE  /\ \/ Len(answers[j]) \in {0, 1}
                           \/ Len(answers[j]) = 2 /\ j \in Raisers
                        /\ pc[j] = "done" => answers[j] # <<>>
                        /\ pc[j] = "raised" => answers[j] = <<>>
        BY DEF CallbackDiscipline
    <2>1. answers[j] \in Seq(IR)
        BY DEF IInv, TypeOK
    <2>2. \/ Len(answers[j]) = 0 /\ pc[j] # "done"
          \/ Len(answers[j]) = 1 /\ pc[j] # "raised"
          \/ Len(answers[j]) = 2 /\ j \in Raisers /\ pc[j] # "raised"
        BY DEF IInv, AnswersFollowPc
    <2>3. Len(answers[j]) = 0 <=> answers[j] = <<>>
        BY <2>1, EmptySeq
    <2>4. CASE Len(answers[j]) = 0
        BY <2>2, <2>3, <2>4
    <2>5. CASE Len(answers[j]) \in {1, 2}
        BY <2>2, <2>3, <2>5
    <2> QED BY <2>2, <2>4, <2>5
<1> QED BY <1>1, Inductive, PTL

\* No call is told that a worker compiled its text when that worker died.
THEOREM CrashesReported == Spec => []CrashesAreReported
<1>1. IInv => CrashesAreReported
    <2> SUFFICES ASSUME IInv, NEW j \in Jobs, proc[j] = "dead",
                        NEW i \in DOMAIN answers[j],
                        answers[j][i] = Ir("compiled", j)
                 PROVE  FALSE
        BY DEF CrashesAreReported
    <2>1. answers[j][i].kind = "compiled" /\ answers[j][i].of = j
        BY DEF Ir
    <2>2. WasSent(answers[j][i])
        BY DEF IInv, CompiledWasSent
    <2> QED BY <2>1, <2>2 DEF WasSent
<1> QED BY <1>1, Inductive, PTL
-----------------------------------------------------------------------------
(***************************************************************************)
(* The manager implements the service of CompileService                    *)
(***************************************************************************)
Stage == [j \in Jobs |-> StatusAt(pc[j])]

LEMMA StageMoves ==
    ASSUME TypeOK, NEW j \in Jobs, NEW p, Goto(j, p)
    PROVE  Stage' = [Stage EXCEPT ![j] = StatusAt(p)]
BY DEF TypeOK, Goto, Stage

LEMMA StageStays ==
    ASSUME UNCHANGED pc
    PROVE  Stage' = Stage
BY DEF Stage

LEMMA StagePoints ==
    \A p : /\ p = "idle" => StatusAt(p) = "idle"
           /\ p = "raised" => StatusAt(p) = "refused"
           /\ p = "done" => StatusAt(p) = "closed"
           /\ p \notin {"idle", "raised", "done"} => StatusAt(p) = "pending"
BY DEF StatusAt

\* What an answer of the service may be.
LEMMA CarriedIsServed ==
    ASSUME TypeOK, CarriedIsAbout, NEW j \in Jobs
    PROVE  got[j] \in Service!About(j) /\ Ir("error", j) \in Service!About(j)
<1>1. got[j] \in Service!IR /\ Ir("error", j) \in Service!IR
    BY DEF TypeOK, IR, Kinds, Ir, Service!IR
<1> QED BY <1>1 DEF CarriedIsAbout, IsAbout, Ir, Service!About

LEMMA ServiceInit == Init => Service!Init
BY DEF Init, Service!Init, StatusAt

\* A step that calls back is the service's Answer, the others move a call
\* from one status to the next, or are not seen.
LEMMA ServiceStep ==
    ASSUME IInv, [Next]_vars
    PROVE  [Service!Next]_(Service!serviceVars)
<1> USE DEF Service!serviceVars
<1>0. /\ TypeOK /\ CarriedIsAbout /\ AnswersFollowPc
      /\ \A j \in Jobs : answers[j] \in Seq(IR)
    BY DEF IInv, TypeOK
<1>1. ASSUME Stage' = Stage, answers' = answers
      PROVE  [Service!Next]_(Service!serviceVars)
    BY <1>1 DEF Stage
<1>2. ASSUME NEW j \in Jobs, NEW p, Goto(j, p), answers' = answers,
             StatusAt(p) = StatusAt(pc[j])
      PROVE  [Service!Next]_(Service!serviceVars)
    <2>1. Stage' = [Stage EXCEPT ![j] = Stage[j]]
        BY <1>0, <1>2, StageMoves DEF Stage
    <2> QED BY <1>1, <1>2, <2>1 DEF Stage
<1>3. ASSUME NEW j \in Jobs, NEW p, Goto(j, p), answers' = answers,
             StatusAt(pc[j]) = "idle", StatusAt(p) = "pending"
      PROVE  Service!Submit(j)
    BY <1>0, <1>3, StageMoves DEF Stage, Service!Submit
<1>4. ASSUME NEW j \in Jobs, NEW p, Goto(j, p), answers' = answers,
             StatusAt(pc[j]) = "pending", StatusAt(p) = "refused",
             answers[j] = <<>>
      PROVE  Service!Refuse(j)
    BY <1>0, <1>4, StageMoves DEF Stage, Service!Refuse
<1>5. ASSUME NEW j \in Jobs, NEW p, Goto(j, p), answers' = answers,
             StatusAt(pc[j]) = "pending", StatusAt(p) = "closed",
             answers[j] # <<>>
      PROVE  Service!Close(j)
    BY <1>0, <1>5, StageMoves DEF Stage, Service!Close
<1>6. ASSUME NEW j \in Jobs, NEW p, Goto(j, p), NEW ir \in Service!About(j),
             answers' = [answers EXCEPT ![j] = Append(@, ir)],
             StatusAt(pc[j]) = "pending", StatusAt(p) \in {"pending", "closed"},
             answers[j] = <<>> \/ (j \in Raisers /\ Len(answers[j]) = 1)
      PROVE  Service!Answer(j)
    <2>1. \/ Stage' = [Stage EXCEPT ![j] = "closed"]
          \/ Stage' = Stage
        <3>1. Stage' = [Stage EXCEPT ![j] = StatusAt(p)]
            BY <1>0, <1>6, StageMoves
        <3>2. Stage[j] = "pending"
            BY <1>6 DEF Stage
        <3> QED BY <1>6, <3>1, <3>2 DEF Stage
    <2> QED BY <1>6, <2>1 DEF Stage, Service!Answer
<1>7. \A j \in Jobs : /\ Len(answers[j]) = 0 <=> answers[j] = <<>>
    BY <1>0, EmptySeq
<1>8. ASSUME NEW j \in Jobs, CallerStep(j)
      PROVE  [Service!Next]_(Service!serviceVars)
    <2>1. CASE LookupHit(j) \/ LookupMiss(j)
        <3>1. PICK p \in {"answeringHit", "missed"} :
                  Goto(j, p) /\ pc[j] = "idle" /\ answers' = answers
            BY <2>1 DEF LookupHit, LookupMiss
        <3> QED BY <1>3, <3>1, StagePoints DEF Service!Next
    <2>2. CASE CancelPop(j) \/ CancelKill(j)
        <3>1. /\ pc[j] \in {"missed", "killing"} /\ answers' = answers
              /\ \E p \in {"registering", "killing"} : Goto(j, p)
            BY <2>2 DEF CancelPop, CancelKill
        <3> QED BY <1>2, <3>1, StagePoints
    <2>3. CASE Register(j) \/ PrepareFails(j)
        <3>1. PICK p \in {"queued", "raised"} :
                  Goto(j, p) /\ pc[j] = "registering" /\ answers' = answers
            BY <2>3 DEF Register, PrepareFails
        <3>2. CASE p = "queued"
            BY <1>2, <3>1, <3>2, StagePoints
        <3>3. CASE p = "raised"
            <4>1. answers[j] = <<>>
                BY <1>0, <1>7, <3>1 DEF AnswersFollowPc
            <4> QED BY <1>4, <3>1, <3>3, <4>1, StagePoints DEF Service!Next
        <3> QED BY <3>1, <3>2, <3>3
    <2>4. CASE AnswerHit(j)
        <3>1. answers[j] = <<>> /\ pc[j] = "answeringHit"
            BY <1>0, <1>7, <2>4 DEF AnswerHit, AnswersFollowPc
        <3> QED BY <1>0, <1>6, <2>4, <3>1, CarriedIsServed, StagePoints
                DEF AnswerHit, Service!Next
    <2> QED BY <1>8, <2>1, <2>2, <2>3, <2>4 DEF CallerStep
<1>9. ASSUME NEW j \in Jobs, WaiterStep(j)
      PROVE  [Service!Next]_(Service!serviceVars)
    <2>1. CASE AcquirePermit(j) \/ QueueTimeout(j) \/ LeaveQueue(j)
               \/ StartProc(j) \/ StartFails(j) \/ Receive(j) \/ PollTimeout(j)
               \/ PutCache(j) \/ Unregister(j)
        <3>1. /\ pc[j] \notin {"idle", "raised", "done"} /\ answers' = answers
              /\ \E p : p \notin {"idle", "raised", "done"} /\ Goto(j, p)
            BY <2>1 DEF AcquirePermit, QueueTimeout, LeaveQueue, StartProc,
               StartFails, Receive, PollTimeout, PutCache, Unregister
        <3> QED BY <1>2, <3>1, StagePoints
    <2>2. CASE AnswerQueue(j)
        <3>1. answers[j] = <<>> /\ pc[j] = "answeringQueue"
            BY <1>0, <1>7, <2>2 DEF AnswerQueue, AnswersFollowPc
        <3> QED BY <1>0, <1>6, <2>2, <3>1, CarriedIsServed, StagePoints
                DEF AnswerQueue, Service!Next
    <2>3. CASE AnswerResult(j)
        <3>1. answers[j] = <<>> /\ pc[j] = "answering"
            BY <1>0, <1>7, <2>3 DEF AnswerResult, AnswersFollowPc
        <3>2. PICK p \in {"unregistering", "handling"} : Goto(j, p)
            BY <2>3 DEF AnswerResult
        <3> QED BY <1>0, <1>6, <2>3, <3>1, <3>2, CarriedIsServed, StagePoints
                DEF AnswerResult, Service!Next
    <2>4. CASE AnswerError(j)
        <3>1. /\ pc[j] = "handling" /\ Goto(j, "unregistering")
              /\ answers[j] = <<>> \/ (j \in Raisers /\ Len(answers[j]) = 1)
            BY <1>0, <1>7, <2>4 DEF AnswerError, AnswersFollowPc
        <3>2. /\ StatusAt(pc[j]) = "pending"
              /\ StatusAt("unregistering") = "pending"
            BY <3>1, StagePoints
        <3>3. Ir("error", j) \in Service!About(j)
            BY <1>0, CarriedIsServed
        <3>4. answers' = [answers EXCEPT ![j] = Append(@, Ir("error", j))]
            BY <2>4 DEF AnswerError
        <3>5. Service!Answer(j)
            BY <1>6, <3>1, <3>2, <3>3, <3>4
        <3> QED BY <3>5 DEF Service!Next
    <2>5. CASE ReleasePermit(j)
        <3>0. pc[j] = "releasing" /\ Goto(j, "done") /\ answers' = answers
            BY <2>5 DEF ReleasePermit
        <3>1. answers[j] # <<>>
            <4>1. Len(answers[j]) = 1 \/ Len(answers[j]) = 2
                BY <1>0, <3>0 DEF AnswersFollowPc
            <4>2. Len(answers[j]) # 0
                BY <4>1
            <4> QED BY <1>7, <4>2
        <3>2. StatusAt(pc[j]) = "pending" /\ StatusAt("done") = "closed"
            BY <3>0, StagePoints
        <3>3. Service!Close(j)
            BY <1>5, <3>0, <3>1, <3>2
        <3> QED BY <3>3 DEF Service!Next
    <2> QED BY <1>9, <2>1, <2>2, <2>3, <2>4, <2>5 DEF WaiterStep
<1>10. CASE \/ \E j \in Jobs : WorkerSends(j) \/ WorkerDies(j)
            \/ \E f \in Files : Expire(f) \/ Drop(f)
            \/ Shutdown \/ ShutdownRaises \/ UNCHANGED vars
    <2>1. UNCHANGED <<pc, answers>>
        BY <1>10 DEF WorkerSends, WorkerDies, Expire, Drop, Shutdown,
           ShutdownRaises, vars
    <2> QED BY <1>1, <2>1, StageStays
<1> QED BY <1>8, <1>9, <1>10 DEF Next

\* Whatever is cached, superseded, killed, expired or shut down, callers see
\* the compile service and nothing else.
THEOREM ImplementsService == Spec => ServiceSpec
<1>1. Init => Service!Init
    BY ServiceInit
<1>2. IInv /\ [Next]_vars => [Service!Next]_(Service!serviceVars)
    BY ServiceStep
<1> QED BY <1>1, <1>2, Inductive, PTL DEF Spec, ServiceSpec, Service!Spec
=============================================================================
