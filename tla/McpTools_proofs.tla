------------------------ MODULE McpTools_proofs ------------------------
(***************************************************************************)
(* Proofs about ToolCalls, for any set of calls (also an infinite one), of *)
(* isolates, and any number of permits and of edits.  Every step moves one *)
(* call from a record to another: what permits, slots, the registry and    *)
(* the counters must then do depends on the two records alone (Moved).     *)
(* The proofs show that of each action, and that the records keep to       *)
(* CallOK, by which a body never runs for a call that has not entered.     *)
(* Then SidecarDiscovery for any servers, workspaces and ports, and at the *)
(* end SessionFiles for any servers, sizes of files and of the journal.    *)
(***************************************************************************)
EXTENDS McpTools, FiniteSetTheorems, SequenceTheorems, TLAPS

Points == {"idle", "delegated", "queue", "inside", "over"}
Bodies == {"none", "look", "poll", "slot", "checking", "stage", "compileSlot", "compiling",
           "work", "fresh", "cached", "error", "crashed"}
Versions == [Files -> Nat]
CallRecord == [at : Points, body : Bodies, tool : Tools \cup {"none"}, isolate : Isolates,
               useCache : BOOLEAN, answer : Answers,
               asked : Versions, read : Versions, of : Versions]

NoOlder(v, w) == \A f \in Files : v[f] >= w[f]

\* A call that has not entered has no body, one that goes on after its wrapper
\* was cancelled, and runs as its tool does; what refuses the cache is read
\* after it was asked.
CallOK(r) ==
    /\ r.at # "over" => r.answer = "none"
    /\ r.at \notin {"inside", "over"} => r.body = "none"
    /\ r.at = "over" /\ r.body # "none" => r.answer = "cancelled"
    /\ \/ r.tool = "verify" /\ ~r.useCache
       \/ r.asked = Nothing
       \/ r.at = "over" /\ r.body = "none"
    /\ r.body \in {"stage", "compileSlot", "compiling", "work"} => r.tool # "verify"
    /\ r.body = "checking" => NoOlder(r.read, r.asked)
    /\ r.answer \in {"fresh", "cached"} \/ r.body \in {"fresh", "cached"} =>
           NoOlder(r.of, r.asked)

TypeOK ==
    /\ disk \in Versions /\ call \in [Calls -> CallRecord]
    /\ permits \in Int /\ slots \in Int
    /\ metrics \in [calls : Nat, errors : Nat, timeouts : Nat]
    /\ \A c \in Calls : CallOK(call[c]) /\ NoOlder(disk, call[c].asked)

Holding == {"checking", "compiling"}
InsideNow == {c \in Calls : call[c].at = "inside"}
HoldingNow == {c \in Calls : call[c].body \in Holding}
AnsweredBy(A) == {c \in Calls : call[c].answer \in A}
TimeOuts == {"queued", "timeout"}

SetsAreFinite ==
    /\ IsFiniteSet(InsideNow) /\ IsFiniteSet(HoldingNow)
    /\ IsFiniteSet(AnsweredBy(Local)) /\ IsFiniteSet(AnsweredBy(Errors))
    /\ IsFiniteSet(AnsweredBy(TimeOuts))

\* CallsAreAccountedFor, set by set.
CountsAreSizes ==
    /\ permits + Cardinality(InsideNow) = MaxTools
    /\ slots + Cardinality(HoldingNow) = MaxTools
    /\ pids = HoldingNow
    /\ metrics.calls = Cardinality(AnsweredBy(Local))
    /\ metrics.errors = Cardinality(AnsweredBy(Errors))
    /\ metrics.timeouts = Cardinality(AnsweredBy(TimeOuts))

IInv == TypeOK /\ SetsAreFinite /\ CountsAreSizes

-----------------------------------------------------------------------------
Bit(b) == IF b THEN 1 ELSE 0

\* A set that changes by one element.
LEMMA OneMoves ==
    ASSUME NEW S, NEW T, NEW c, IsFiniteSet(S), S \ {c} = T \ {c}
    PROVE  /\ IsFiniteSet(T)
           /\ Cardinality(S) \in Nat /\ Cardinality(T) \in Nat
           /\ Cardinality(T) + Bit(c \in S) = Cardinality(S) + Bit(c \in T)
<1> DEFINE U == S \ {c}
<1>1. IsFiniteSet(U) /\ c \notin U
    BY FS_RemoveElement
<1>2. (c \in S => S = U \cup {c}) /\ (c \notin S => S = U)
    OBVIOUS
<1>3. (c \in T => T = U \cup {c}) /\ (c \notin T => T = U)
    OBVIOUS
<1> HIDE DEF U
<1>4. IsFiniteSet(U \cup {c}) /\ Cardinality(U \cup {c}) = Cardinality(U) + 1
    BY <1>1, FS_AddElement
<1>5. Cardinality(U) \in Nat
    BY <1>1, FS_CardinalityType
<1>6. /\ IsFiniteSet(T) /\ Cardinality(S) = Cardinality(U) + Bit(c \in S)
      /\ Cardinality(T) = Cardinality(U) + Bit(c \in T)
    <2>1. CASE c \in S /\ c \in T
        BY <1>2, <1>3, <1>4, <1>5, <2>1 DEF Bit
    <2>2. CASE c \in S /\ c \notin T
        BY <1>1, <1>2, <1>3, <1>4, <1>5, <2>2 DEF Bit
    <2>3. CASE c \notin S /\ c \in T
        <3>1. S = U /\ T = U \cup {c}
            BY <1>2, <1>3, <2>3
        <3>2. Bit(c \in S) = 0 /\ Bit(c \in T) = 1
            BY <2>3 DEF Bit
        <3> QED BY <1>4, <1>5, <3>1, <3>2
    <2>4. CASE c \notin S /\ c \notin T
        BY <1>1, <1>2, <1>3, <1>5, <2>4 DEF Bit
    <2> QED BY <2>1, <2>2, <2>3, <2>4
<1>7. Bit(c \in S) \in 0 .. 1 /\ Bit(c \in T) \in 0 .. 1
    BY DEF Bit
<1> QED BY <1>5, <1>6, <1>7

\* What must follow when call c moves from one record to another.
Moved(c, r) ==
    /\ Moves(c, r) /\ r \in CallRecord /\ CallOK(r) /\ NoOlder(disk, r.asked)
    /\ disk' = disk
    /\ permits' = permits + Bit(call[c].at = "inside") - Bit(r.at = "inside")
    /\ slots' = slots + Bit(call[c].body \in Holding) - Bit(r.body \in Holding)
    /\ pids' = IF r.body \in Holding THEN pids \cup {c} ELSE pids \ {c}
    /\ \/ r.answer = call[c].answer /\ metrics' = metrics
       \/ /\ call[c].answer = "none"
          /\ metrics' = IF r.answer \in Local THEN Count(r.answer) ELSE metrics

LEMMA MovedKeeps ==
    ASSUME IInv, NEW c \in Calls, NEW r, Moved(c, r)
    PROVE  IInv'
<1> USE DEF IInv, TypeOK
<1>1. /\ call' \in [Calls -> CallRecord] /\ call'[c] = r /\ disk' = disk
      /\ \A d \in Calls \ {c} : call'[d] = call[d]
      /\ r \in CallRecord /\ CallOK(r) /\ NoOlder(disk, r.asked)
    BY DEF Moved, Moves
<1>2. /\ InsideNow \ {c} = InsideNow' \ {c} /\ HoldingNow \ {c} = HoldingNow' \ {c}
      /\ (c \in InsideNow <=> call[c].at = "inside") /\ (c \in InsideNow' <=> r.at = "inside")
      /\ (c \in HoldingNow <=> call[c].body \in Holding)
      /\ (c \in HoldingNow' <=> r.body \in Holding)
    BY <1>1 DEF InsideNow, HoldingNow
<1>3. \A A : /\ AnsweredBy(A) \ {c} = AnsweredBy(A)' \ {c}
             /\ c \in AnsweredBy(A) <=> call[c].answer \in A
             /\ c \in AnsweredBy(A)' <=> r.answer \in A
    BY <1>1 DEF AnsweredBy
<1>4. SetsAreFinite'
    BY <1>2, <1>3, OneMoves DEF SetsAreFinite
<1>5. /\ Cardinality(InsideNow') + Bit(call[c].at = "inside")
             = Cardinality(InsideNow) + Bit(r.at = "inside")
      /\ Cardinality(HoldingNow') + Bit(call[c].body \in Holding)
             = Cardinality(HoldingNow) + Bit(r.body \in Holding)
      /\ {Cardinality(InsideNow), Cardinality(InsideNow'),
          Cardinality(HoldingNow), Cardinality(HoldingNow')} \subseteq Nat
    <2>1. /\ Bit(c \in InsideNow) = Bit(call[c].at = "inside")
          /\ Bit(c \in InsideNow') = Bit(r.at = "inside")
          /\ Bit(c \in HoldingNow) = Bit(call[c].body \in Holding)
          /\ Bit(c \in HoldingNow') = Bit(r.body \in Holding)
        BY <1>2 DEF Bit
    <2>2. IsFiniteSet(InsideNow) /\ IsFiniteSet(HoldingNow)
        BY DEF SetsAreFinite
    <2>3. /\ Cardinality(InsideNow) \in Nat /\ Cardinality(InsideNow') \in Nat
          /\ Cardinality(InsideNow') + Bit(c \in InsideNow)
                 = Cardinality(InsideNow) + Bit(c \in InsideNow')
        BY <1>2, <2>2, OneMoves
    <2>4. /\ Cardinality(HoldingNow) \in Nat /\ Cardinality(HoldingNow') \in Nat
          /\ Cardinality(HoldingNow') + Bit(c \in HoldingNow)
                 = Cardinality(HoldingNow) + Bit(c \in HoldingNow')
        BY <1>2, <2>2, OneMoves
    <2> QED BY <2>1, <2>3, <2>4
<1>6. /\ permits' + Cardinality(InsideNow') = MaxTools /\ permits' \in Int
      /\ slots' + Cardinality(HoldingNow') = MaxTools /\ slots' \in Int
    <2>1. /\ permits' = permits + Bit(call[c].at = "inside") - Bit(r.at = "inside")
          /\ slots' = slots + Bit(call[c].body \in Holding) - Bit(r.body \in Holding)
          /\ permits + Cardinality(InsideNow) = MaxTools
          /\ slots + Cardinality(HoldingNow) = MaxTools
        BY DEF Moved, CountsAreSizes
    <2>2. /\ Bit(call[c].at = "inside") \in Int /\ Bit(r.at = "inside") \in Int
          /\ Bit(call[c].body \in Holding) \in Int /\ Bit(r.body \in Holding) \in Int
        BY DEF Bit
    <2> QED BY <1>5, <2>1, <2>2, CallBounds
<1>7. pids' = HoldingNow'
    BY <1>2 DEF Moved, CountsAreSizes
<1>8. ASSUME NEW A \in {Local, Errors, TimeOuts}
      PROVE  /\ Cardinality(AnsweredBy(A)) \in Nat /\ Cardinality(AnsweredBy(A)') \in Nat
             /\ Cardinality(AnsweredBy(A)') + Bit(call[c].answer \in A)
                    = Cardinality(AnsweredBy(A)) + Bit(r.answer \in A)
    <2>1. /\ Bit(c \in AnsweredBy(A)) = Bit(call[c].answer \in A)
          /\ Bit(c \in AnsweredBy(A)') = Bit(r.answer \in A)
        BY <1>3 DEF Bit
    <2>2. IsFiniteSet(AnsweredBy(A)) /\ AnsweredBy(A) \ {c} = AnsweredBy(A)' \ {c}
        BY <1>3 DEF SetsAreFinite
    <2> QED BY <2>1, <2>2, OneMoves
<1>9. /\ metrics' \in [calls : Nat, errors : Nat, timeouts : Nat]
      /\ metrics'.calls = Cardinality(AnsweredBy(Local)')
      /\ metrics'.errors = Cardinality(AnsweredBy(Errors)')
      /\ metrics'.timeouts = Cardinality(AnsweredBy(TimeOuts)')
    <2> DEFINE D(A) == Cardinality(AnsweredBy(A)')
    <2>1. /\ metrics.calls = Cardinality(AnsweredBy(Local))
          /\ metrics.errors = Cardinality(AnsweredBy(Errors))
          /\ metrics.timeouts = Cardinality(AnsweredBy(TimeOuts))
        BY DEF CountsAreSizes
    <2>2. CASE r.answer = call[c].answer /\ metrics' = metrics
        <3>1. \A A \in {Local, Errors, TimeOuts} : D(A) = Cardinality(AnsweredBy(A))
            BY <1>8, <2>2 DEF Bit
        <3> QED BY <2>1, <2>2, <3>1
    <2>3. CASE /\ call[c].answer = "none"
               /\ metrics' = IF r.answer \in Local THEN Count(r.answer) ELSE metrics
        <3>1. \A A \in {Local, Errors, TimeOuts} : call[c].answer \notin A
            BY <2>3 DEF Local, Errors, TimeOuts
        <3>2. \A A \in {Local, Errors, TimeOuts} :
                  D(A) = Cardinality(AnsweredBy(A)) + IF r.answer \in A THEN 1 ELSE 0
            BY <1>8, <3>1 DEF Bit
        <3>3. r.answer \notin Local => r.answer \notin Errors /\ r.answer \notin TimeOuts
            BY DEF Local, Errors, TimeOuts
        <3>4. CASE r.answer \notin Local
            BY <2>1, <2>3, <3>2, <3>3, <3>4
        <3>5. CASE r.answer \in Local
            BY <2>1, <2>3, <3>2, <3>5 DEF Count, TimeOuts
        <3> QED BY <3>4, <3>5
    <2> QED BY <2>2, <2>3 DEF Moved
<1>10. TypeOK'
    BY <1>1, <1>6, <1>9
<1> QED BY <1>4, <1>6, <1>7, <1>9, <1>10 DEF CountsAreSizes

-----------------------------------------------------------------------------
(* The records a call moves to.                                             *)

LEMMA RecordOf ==
    ASSUME IInv, NEW c \in Calls
    PROVE  /\ call[c] \in CallRecord /\ CallOK(call[c])
           /\ NoOlder(disk, call[c].asked) /\ NoOlder(disk, Nothing)
           /\ c \in pids <=> call[c].body \in Holding
           /\ disk \in Versions /\ Nothing \in Versions
           /\ permits \in Int /\ slots \in Int
BY DEF IInv, TypeOK, CountsAreSizes, HoldingNow, NoOlder, Versions, Nothing

LEMMA AnsweredIsOK ==
    ASSUME NEW a \in Answers, IInv
    PROVE  /\ Answered(a) \in CallRecord /\ CallOK(Answered(a))
           /\ Answered(a).at = "over" /\ Answered(a).body = "none"
           /\ Answered(a).answer = a /\ NoOlder(disk, Answered(a).asked)
<1>1. Nothing \in Versions /\ NoOlder(Nothing, Nothing) /\ NoOlder(disk, Nothing)
    BY DEF IInv, TypeOK, Nothing, Versions, NoOlder
<1> HIDE DEF Nothing, NoOlder, Versions
<1> QED BY <1>1, CallBounds DEF Answered, Idle, CallRecord, CallOK, Points, Bodies

LEMMA EndsIsOK ==
    ASSUME IInv, NEW c \in Calls, NEW b \in {"fresh", "cached", "error", "crashed"}, NEW of,
           call[c].body # "none",
           \/ call[c].useCache
           \/ of \in Versions /\ (b \in {"fresh", "cached"} => NoOlder(of, call[c].asked))
    PROVE  /\ Ends(c, b, of) \in CallRecord /\ CallOK(Ends(c, b, of))
           /\ NoOlder(disk, Ends(c, b, of).asked)
           /\ (Ends(c, b, of).at = "inside") = (call[c].at = "inside")
           /\ Ends(c, b, of).body \notin Holding
           /\ Ends(c, b, of).answer = call[c].answer
<1>1. /\ call[c] \in CallRecord /\ CallOK(call[c])
      /\ NoOlder(disk, call[c].asked) /\ Nothing \in Versions
    BY RecordOf
<1>2. NoOlder(Nothing, Nothing)
    BY DEF Nothing, NoOlder
<1>3. CASE call[c].at = "inside"
    <2> DEFINE read == IF call[c].useCache THEN Nothing ELSE of
               r == [call[c] EXCEPT !.body = b, !.read = Nothing, !.of = read]
    <2>1. Ends(c, b, of) = r
        BY <1>3 DEF Ends
    <2>2. call[c].useCache => call[c].asked = Nothing
        BY <1>1, <1>3 DEF CallOK
    <2>3. read \in Versions /\ (b \in {"fresh", "cached"} => NoOlder(read, call[c].asked))
        BY <1>1, <1>2, <2>2
    <2> HIDE DEF read
    <2>4. /\ r \in CallRecord /\ r.at = "inside" /\ r.body = b /\ r.answer = call[c].answer
          /\ r.asked = call[c].asked /\ r.tool = call[c].tool /\ r.of = read
          /\ r.useCache = call[c].useCache
        BY <1>1, <1>3, <2>3 DEF CallRecord, Bodies
    <2> HIDE DEF r
    <2>5. CallOK(r)
        BY <1>1, <1>3, <2>3, <2>4 DEF CallOK
    <2> QED BY <1>1, <1>3, <2>1, <2>4, <2>5 DEF Holding
<1>4. CASE call[c].at # "inside"
    <2>1. call[c].answer \in Answers /\ Ends(c, b, of) = Answered(call[c].answer)
        BY <1>1, <1>4 DEF Ends, CallRecord
    <2> QED BY <1>4, <2>1, AnsweredIsOK DEF Holding
<1> QED BY <1>3, <1>4


\* A record that asks for a place in the queue, or is refused one.
LEMMA LocallyIsOK ==
    ASSUME IInv, NEW r \in CallRecord, r.at \in {"idle", "delegated"}, CallOK(r),
           NoOlder(disk, r.asked)
    PROVE  /\ Locally(r) \in CallRecord /\ CallOK(Locally(r)) /\ NoOlder(disk, Locally(r).asked)
           /\ Locally(r).at # "inside" /\ Locally(r).body = "none"
           /\ Locally(r).answer \in {"none", "notReady"}
<1>1. CASE r.tool = "analysis" /\ building
    <2>1. Locally(r) = Answered("notReady") /\ "notReady" \in Answers
        BY <1>1 DEF Locally, Answers
    <2> QED BY <2>1, AnsweredIsOK
<1>2. CASE ~(r.tool = "analysis" /\ building)
    <2> DEFINE q == [r EXCEPT !.at = "queue"]
    <2>1. Locally(r) = q
        BY <1>2 DEF Locally
    <2>2. /\ q \in CallRecord /\ q.at = "queue" /\ q.body = r.body /\ q.answer = r.answer
          /\ q.asked = r.asked /\ q.tool = r.tool /\ q.of = r.of /\ q.read = r.read
          /\ q.useCache = r.useCache
        BY DEF CallRecord, Points
    <2> HIDE DEF q
    <2> QED BY <2>1, <2>2 DEF CallOK
<1> QED BY <1>1, <1>2

LEMMA CallKeeps ==
    ASSUME IInv, NEW c \in Calls, NEW tool \in Tools, NEW isolate \in Isolates,
           NEW useCache \in BOOLEAN, Call(c, tool, isolate, useCache)
    PROVE  IInv'
<1> DEFINE asked == [call[c] EXCEPT !.tool = tool, !.isolate = isolate, !.useCache = useCache,
                        !.asked = IF tool # "verify" \/ useCache THEN Nothing ELSE disk]
           r == IF sidecar /\ tool # "status" THEN [asked EXCEPT !.at = "delegated"]
                ELSE Locally(asked)
<1>1. /\ call[c] \in CallRecord /\ CallOK(call[c]) /\ call[c].at = "idle"
      /\ NoOlder(disk, Nothing) /\ disk \in Versions /\ Nothing \in Versions
      /\ (c \in pids <=> call[c].body \in Holding) /\ permits \in Int /\ slots \in Int
    BY RecordOf DEF Call
<1>2. NoOlder(disk, disk)
    BY <1>1 DEF NoOlder, Versions
<1>3. /\ asked \in CallRecord /\ asked.at = "idle" /\ asked.body = "none"
      /\ asked.answer = "none" /\ asked.useCache = useCache /\ asked.tool = tool
      /\ asked.asked = IF tool # "verify" \/ useCache THEN Nothing ELSE disk
    BY <1>1 DEF CallRecord, CallOK
<1> HIDE DEF asked
<1>4. CallOK(asked) /\ NoOlder(disk, asked.asked)
    BY <1>1, <1>2, <1>3 DEF CallOK
<1>5. /\ r \in CallRecord /\ CallOK(r) /\ NoOlder(disk, r.asked)
      /\ r.at # "inside" /\ r.body = "none" /\ r.answer \in {"none", "notReady"}
    <2>1. CASE ~(sidecar /\ tool # "status")
        BY <1>3, <1>4, <2>1, LocallyIsOK
    <2>2. CASE sidecar /\ tool # "status"
        <3> DEFINE d == [asked EXCEPT !.at = "delegated"]
        <3>1. /\ d \in CallRecord /\ d.at = "delegated" /\ d.body = "none" /\ d.answer = "none"
              /\ d.asked = asked.asked /\ d.useCache = asked.useCache /\ d.tool = asked.tool
            BY <1>3 DEF CallRecord, Points
        <3>2. r = d
            BY <2>2
        <3> HIDE DEF d
        <3> QED BY <1>3, <1>4, <3>1, <3>2 DEF CallOK
    <2> QED BY <2>1, <2>2
<1>6. Moves(c, r) /\ UNCHANGED <<disk, permits, slots, pids, metrics>>
    BY DEF Call, asked
<1> HIDE DEF r
<1>7. Moved(c, r)
    BY <1>1, <1>5, <1>6 DEF Moved, CallOK, Bit, Holding, Local, Errors
<1> QED BY <1>7, MovedKeeps

LEMMA WrapperKeeps ==
    ASSUME IInv, NEW c \in Calls, WrapperStep(c)
    PROVE  IInv'
<1>1. /\ call[c] \in CallRecord /\ CallOK(call[c])
      /\ NoOlder(disk, call[c].asked) /\ NoOlder(disk, Nothing)
      /\ (c \in pids <=> call[c].body \in Holding)
      /\ disk \in Versions /\ Nothing \in Versions /\ permits \in Int /\ slots \in Int
    BY RecordOf
<1>2. ASSUME NEW a \in Answers \ {"none"}, Moves(c, Answered(a)),
             call[c].at \in {"delegated", "queue", "inside"},
             UNCHANGED disk, pids' = pids \ {c},
             permits' = permits + Bit(call[c].at = "inside"),
             slots' = slots + Bit(call[c].body \in Holding),
             metrics' = IF a \in Local THEN Count(a) ELSE metrics
      PROVE  IInv'
    <2>1. Moved(c, Answered(a))
        BY <1>1, <1>2, AnsweredIsOK DEF Moved, CallOK, Bit, Holding
    <2> QED BY <2>1, MovedKeeps
<1>3. CASE \E t \in Tools, k \in Isolates, u \in BOOLEAN : Call(c, t, k, u)
    BY <1>3, CallKeeps
<1>4. CASE SidecarAnswers(c)
    BY <1>1, <1>2, <1>4 DEF SidecarAnswers, Answers, Local, Errors, CallOK, Holding, Bit
<1>5. CASE SidecarFails(c)
    <2> DEFINE r == Locally(call[c])
    <2>1. /\ r \in CallRecord /\ CallOK(r) /\ NoOlder(disk, r.asked)
          /\ r.at # "inside" /\ r.body = "none" /\ r.answer \in {"none", "notReady"}
        BY <1>1, <1>5, LocallyIsOK DEF SidecarFails
    <2>2. Moves(c, r) /\ UNCHANGED <<disk, permits, slots, pids, metrics>>
        BY <1>5 DEF SidecarFails
    <2> HIDE DEF r
    <2>3. call[c].at = "delegated" /\ call[c].body = "none" /\ call[c].answer = "none"
        BY <1>1, <1>5 DEF SidecarFails, CallOK
    <2>4. Moved(c, r)
        BY <1>1, <2>1, <2>2, <2>3 DEF Moved, Bit, Holding, Local, Errors
    <2> QED BY <2>4, MovedKeeps
<1>6. CASE Enter(c)
    <2> DEFINE b == CASE call[c].tool = "verify" -> "look"
                      [] call[c].tool = "compile" -> "stage"
                      [] OTHER -> "work"
               r == [call[c] EXCEPT !.at = "inside", !.body = b]
    <2>1. b \in {"look", "stage", "work"} /\ (b # "look" => call[c].tool # "verify")
        OBVIOUS
    <2>2. Moves(c, r) /\ permits' = permits - 1 /\ call[c].at = "queue"
          /\ UNCHANGED <<disk, slots, pids, metrics>>
        BY <1>6 DEF Enter
    <2> HIDE DEF b
    <2>3. /\ r \in CallRecord /\ r.at = "inside" /\ r.body = b /\ r.answer = call[c].answer
          /\ r.asked = call[c].asked /\ r.tool = call[c].tool /\ r.useCache = call[c].useCache
        BY <1>1, <2>1 DEF CallRecord, Points, Bodies
    <2> HIDE DEF r
    <2>4. CallOK(r) /\ call[c].body = "none"
        BY <1>1, <2>1, <2>2, <2>3 DEF CallOK
    <2>5. Moved(c, r)
        BY <1>1, <2>1, <2>2, <2>3, <2>4 DEF Moved, Bit, Holding
    <2> QED BY <2>5, MovedKeeps
<1>7. CASE QueueTimeout(c)
    BY <1>1, <1>2, <1>7 DEF QueueTimeout, Answers, Local, Errors, CallOK, Holding, Bit
<1>8. CASE Return(c)
    <2> DEFINE a == call[c].body
               r == [Answered(a) EXCEPT !.asked = call[c].asked, !.of = call[c].of]
    <2>1. /\ Moves(c, r) /\ permits' = permits + 1 /\ call[c].at = "inside"
          /\ a \in {"fresh", "cached", "error", "crashed"}
          /\ metrics' = Count(a) /\ UNCHANGED <<disk, slots, pids>>
        BY <1>8 DEF Return, BodyOver
    <2>2. a \in Answers /\ a \in Local
        BY <2>1 DEF Answers, Local, Errors
    <2>3. Answered(a) \in CallRecord /\ Answered(a).at = "over" /\ Answered(a).body = "none"
          /\ Answered(a).answer = a
        BY <2>2, AnsweredIsOK
    <2>4. /\ r \in CallRecord /\ r.at = "over" /\ r.body = "none" /\ r.answer = a
          /\ r.asked = call[c].asked /\ r.of = call[c].of
        BY <1>1, <2>3 DEF CallRecord
    <2> HIDE DEF r
    <2>5. CallOK(r) /\ call[c].answer = "none"
        BY <1>1, <2>1, <2>4 DEF CallOK
    <2>6. Moved(c, r)
        BY <1>1, <2>1, <2>2, <2>4, <2>5 DEF Moved, Bit, Holding
    <2> QED BY <2>6, MovedKeeps
<1>9. CASE TimeOut(c)
    <2>1. "timeout" \in Answers \ {"none"} /\ "timeout" \in Local
        BY DEF Answers, Local, Errors
    <2> QED BY <1>1, <1>2, <1>9, <2>1 DEF TimeOut, Unwound, Bit, Holding
<1>10. CASE Cancel(c)
    <2>1. /\ "cancelled" \in Answers \ {"none"} /\ "cancelled" \in Local
          /\ "raised" \in Answers \ {"none"} /\ "raised" \notin Local
        BY DEF Answers, Local, Errors
    <2>2. CASE call[c].at = "delegated"
        BY <1>1, <1>2, <1>10, <2>1, <2>2 DEF Cancel, CallOK, Bit, Holding
    <2>3. CASE call[c].at = "queue" \/ BodyOver(c)
        BY <1>1, <1>2, <1>10, <2>1, <2>3 DEF Cancel, CallOK, BodyOver, Bit, Holding
    <2>4. CASE call[c].at = "inside" /\ ~BodyOver(c)
        <3> DEFINE r == [call[c] EXCEPT !.at = "over", !.answer = "cancelled"]
        <3>1. /\ Moves(c, r) /\ metrics' = Count("cancelled") /\ permits' = permits + 1
              /\ UNCHANGED <<disk, slots, pids>>
            BY <1>10, <2>4 DEF Cancel
        <3>2. /\ r \in CallRecord /\ r.at = "over" /\ r.body = call[c].body
              /\ r.answer = "cancelled" /\ r.asked = call[c].asked /\ r.tool = call[c].tool
              /\ r.useCache = call[c].useCache /\ r.of = call[c].of /\ r.read = call[c].read
            BY <1>1, <2>1 DEF CallRecord, Points
        <3> HIDE DEF r
        <3>3. CallOK(r) /\ call[c].answer = "none"
            BY <1>1, <2>4, <3>2 DEF CallOK, BodyOver
        <3>4. Moved(c, r)
            BY <1>1, <2>1, <2>4, <3>1, <3>2, <3>3 DEF Moved, Bit
        <3> QED BY <3>4, MovedKeeps
    <2> QED BY <1>10, <2>2, <2>3, <2>4 DEF Cancel
<1> QED BY <1>3, <1>4, <1>5, <1>6, <1>7, <1>8, <1>9, <1>10 DEF WrapperStep


-----------------------------------------------------------------------------
(* The bodies.                                                              *)

\* A body that goes on from one await to the next.
LEMMA BodyMoves ==
    ASSUME IInv, NEW c \in Calls, call[c].body # "none",
           NEW b \in {"poll", "slot", "compileSlot"},
           b = "compileSlot" => call[c].body = "stage"
    PROVE  /\ Body(c, b) \in CallRecord /\ CallOK(Body(c, b))
           /\ NoOlder(disk, Body(c, b).asked) /\ Body(c, b).at = call[c].at
           /\ Body(c, b).body = b /\ Body(c, b).answer = call[c].answer
<1> DEFINE r == [call[c] EXCEPT !.body = b]
<1>1. call[c] \in CallRecord /\ CallOK(call[c]) /\ NoOlder(disk, call[c].asked)
    BY RecordOf
<1>2. Body(c, b) = r
    BY DEF Body
<1>3. /\ r \in CallRecord /\ r.at = call[c].at /\ r.body = b /\ r.answer = call[c].answer
      /\ r.asked = call[c].asked /\ r.tool = call[c].tool /\ r.useCache = call[c].useCache
      /\ r.of = call[c].of
    BY <1>1 DEF CallRecord, Bodies
<1> HIDE DEF r
<1>4. CallOK(r)
    BY <1>1, <1>3 DEF CallOK
<1> QED BY <1>1, <1>2, <1>3, <1>4

\* A step of a body that starts or ends no process and answers nobody.
LEMMA QuietMove ==
    ASSUME IInv, NEW c \in Calls, NEW r \in CallRecord, CallOK(r), NoOlder(disk, r.asked),
           Moves(c, r), (r.at = "inside") = (call[c].at = "inside"),
           r.answer = call[c].answer, r.body \notin Holding, call[c].body \notin Holding,
           UNCHANGED <<disk, permits, slots, pids, metrics>>
    PROVE  IInv'
<1>1. Moved(c, r)
    BY RecordOf DEF Moved, Bit
<1> QED BY <1>1, MovedKeeps

\* A process that ends takes its slot and its registration with it.
LEMMA EndsKeeps ==
    ASSUME IInv, NEW c \in Calls, NEW b \in {"fresh", "cached", "error", "crashed"}, NEW of,
           call[c].body # "none",
           \/ call[c].useCache
           \/ of \in Versions /\ (b \in {"fresh", "cached"} => NoOlder(of, call[c].asked)),
           Moves(c, Ends(c, b, of)), UNCHANGED <<disk, permits, metrics>>,
           slots' = slots + Bit(call[c].body \in Holding), pids' = pids \ {c}
    PROVE  IInv'
<1>1. /\ Ends(c, b, of) \in CallRecord /\ CallOK(Ends(c, b, of))
      /\ NoOlder(disk, Ends(c, b, of).asked)
      /\ (Ends(c, b, of).at = "inside") = (call[c].at = "inside")
      /\ Ends(c, b, of).body \notin Holding
      /\ Ends(c, b, of).answer = call[c].answer
    BY EndsIsOK
<1>2. Moved(c, Ends(c, b, of))
    BY <1>1, RecordOf DEF Moved, Bit
<1> QED BY <1>2, MovedKeeps

\* The two ways a check or a compilation is over, for a body that has read what
\* the files held after it was asked.
LEMMA ResultKeeps ==
    ASSUME IInv, NEW c \in Calls, NEW read \in Versions, NoOlder(read, call[c].asked),
           call[c].body # "none", Checked(c, read) \/ Compiled(c),
           UNCHANGED <<disk, permits, metrics>>,
           slots' = slots + Bit(call[c].body \in Holding), pids' = pids \ {c}
    PROVE  IInv'
<1>1. /\ call[c] \in CallRecord /\ CallOK(call[c]) /\ Nothing \in Versions
      /\ NoOlder(Nothing, Nothing)
    BY RecordOf DEF Nothing, NoOlder
<1>2. CASE Moves(c, Ends(c, "fresh", read))
    BY <1>2, EndsKeeps
<1>3. CASE \E b \in {"error", "crashed"} : Moves(c, Ends(c, b, Nothing))
    BY <1>1, <1>3, EndsKeeps
<1>4. CASE call[c].tool = "compile" /\ Moves(c, Ends(c, "fresh", Nothing))
    <2>1. call[c].asked = Nothing
        BY <1>1, <1>4 DEF CallOK
    <2> QED BY <1>1, <1>4, <2>1, EndsKeeps
<1> QED BY <1>2, <1>3, <1>4 DEF Checked, Compiled

LEMMA StartKeeps ==
    ASSUME IInv, NEW c \in Calls, Start(c)
    PROVE  IInv'
<1> DEFINE read == IF call[c].tool = "verify" THEN disk ELSE Nothing
           b == IF call[c].body = "slot" THEN "checking" ELSE "compiling"
           r == [call[c] EXCEPT !.read = read, !.body = b]
<1>1. /\ call[c] \in CallRecord /\ CallOK(call[c]) /\ NoOlder(disk, call[c].asked)
      /\ disk \in Versions /\ Nothing \in Versions /\ NoOlder(Nothing, Nothing)
      /\ permits \in Int /\ slots \in Int
    BY RecordOf DEF NoOlder, Nothing
<1>2. /\ Moves(c, r) /\ call[c].body \in {"slot", "compileSlot"}
      /\ slots' = slots - 1 /\ pids' = pids \cup {c} /\ UNCHANGED <<disk, permits, metrics>>
    BY DEF Start
<1>3. /\ read \in Versions /\ b \in {"checking", "compiling"}
      /\ b = "compiling" => call[c].body = "compileSlot"
    BY <1>1, <1>2
<1>4. NoOlder(read, call[c].asked)
    BY <1>1, <1>2 DEF CallOK
<1> HIDE DEF read, b
<1>5. /\ r \in CallRecord /\ r.at = call[c].at /\ r.body = b /\ r.answer = call[c].answer
      /\ r.asked = call[c].asked /\ r.tool = call[c].tool /\ r.useCache = call[c].useCache
      /\ r.of = call[c].of /\ r.read = read
    BY <1>1, <1>3 DEF CallRecord, Bodies
<1> HIDE DEF r
<1>6. CallOK(r)
    BY <1>1, <1>2, <1>3, <1>4, <1>5 DEF CallOK
<1>7. Moved(c, r)
    BY <1>1, <1>2, <1>3, <1>5, <1>6 DEF Moved, Bit, Holding
<1> QED BY <1>7, MovedKeeps

LEMMA BodyKeeps ==
    ASSUME IInv, NEW c \in Calls, BodyStep(c)
    PROVE  IInv'
<1>1. /\ call[c] \in CallRecord /\ CallOK(call[c]) /\ NoOlder(disk, call[c].asked)
      /\ (c \in pids <=> call[c].body \in Holding)
      /\ disk \in Versions /\ Nothing \in Versions /\ permits \in Int /\ slots \in Int
    BY RecordOf
<1>2. ASSUME NEW b \in {"poll", "slot", "compileSlot"}, Moves(c, Body(c, b)),
             call[c].body \in {"look", "poll", "stage"},
             b = "compileSlot" => call[c].body = "stage",
             UNCHANGED <<disk, permits, slots, pids, metrics>>
      PROVE  IInv'
    BY <1>1, <1>2, BodyMoves, QuietMove DEF Holding
<1>3. ASSUME NEW e, call[c].useCache, Moves(c, Served(c, e)),
             call[c].body \in {"look", "poll"},
             UNCHANGED <<disk, permits, slots, pids, metrics>>
      PROVE  IInv'
    BY <1>1, <1>3, EndsKeeps DEF Served, Holding, Bit
<1>4. CASE Look(c)
    BY <1>2, <1>3, <1>4 DEF Look
<1>5. CASE Poll(c)
    BY <1>2, <1>3, <1>5 DEF Poll
<1>6. CASE PollTimeout(c)
    BY <1>2, <1>6 DEF PollTimeout
<1>7. CASE Start(c)
    BY <1>7, StartKeeps
<1>8. CASE NotFound(c)
    BY <1>1, <1>8, ResultKeeps DEF NotFound, Holding, Bit
<1>9. CASE Communicate(c)
    <2>1. /\ call[c].body \in Holding /\ call[c].body # "none"
          /\ pids' = pids \ {c} /\ slots' = slots + Bit(call[c].body \in Holding)
          /\ Checked(c, call[c].read) \/ Compiled(c)
          /\ UNCHANGED <<disk, permits, metrics>>
        BY <1>9 DEF Communicate, Holding, Bit
    <2>2. CASE call[c].body = "checking" /\ Checked(c, call[c].read)
        <3>1. call[c].read \in Versions /\ NoOlder(call[c].read, call[c].asked)
            BY <1>1, <2>2 DEF CallRecord, CallOK
        <3> QED BY <1>9, <2>1, <3>1, ResultKeeps DEF Communicate
    <2>3. CASE Compiled(c)
        <3>1. call[c].asked = Nothing /\ NoOlder(Nothing, Nothing)
            BY <1>1, <2>1, <2>3 DEF Compiled, CallOK, NoOlder, Nothing
        <3>2. Moves(c, Ends(c, "fresh", Nothing))
            BY <2>3 DEF Compiled
        <3> QED BY <1>1, <2>1, <3>1, <3>2, EndsKeeps
    <2>4. Checked(c, call[c].read) => call[c].body = "checking"
        BY <1>1, <2>1 DEF Checked, CallOK, Holding
    <2> QED BY <2>1, <2>2, <2>3, <2>4
<1>10. CASE Stage(c)
    BY <1>2, <1>10 DEF Stage
<1>11. CASE Work(c)
    <2>1. call[c].asked = Nothing /\ NoOlder(Nothing, Nothing)
        BY <1>1, <1>11 DEF Work, CallOK, NoOlder, Nothing
    <2> QED BY <1>1, <1>11, <2>1, EndsKeeps DEF Work, Holding, Bit
<1> QED BY <1>4, <1>5, <1>6, <1>7, <1>8, <1>9, <1>10, <1>11 DEF BodyStep


-----------------------------------------------------------------------------
(* The theorems.                                                            *)

LEMMA InitEstablishes ==
    ASSUME Init
    PROVE  IInv
<1>1. Nothing \in Versions /\ NoOlder(Nothing, Nothing)
    BY DEF Nothing, Versions, NoOlder
<1>2. disk \in Versions /\ NoOlder(disk, Nothing)
    BY DEF Init, Versions, NoOlder, Nothing
<1>3. Idle \in CallRecord /\ CallOK(Idle) /\ Idle.asked = Nothing
    <2> HIDE DEF Nothing, NoOlder, Versions
    <2> QED BY <1>1, CallBounds DEF Idle, CallRecord, CallOK, Points, Bodies, Answers
<1>4. \A c \in Calls : call[c] = Idle
    BY DEF Init
<1>5. TypeOK
    BY <1>2, <1>3, <1>4, CallBounds DEF TypeOK, Init
<1>6. /\ InsideNow = {} /\ HoldingNow = {} /\ AnsweredBy(Local) = {}
      /\ AnsweredBy(Errors) = {} /\ AnsweredBy(TimeOuts) = {}
    BY <1>4 DEF Idle, InsideNow, HoldingNow, AnsweredBy, Holding, Local, Errors, TimeOuts
<1>7. SetsAreFinite /\ CountsAreSizes
    BY <1>6, FS_EmptySet, CallBounds DEF SetsAreFinite, CountsAreSizes, Init
<1> QED BY <1>5, <1>7 DEF IInv

\* What the invariant is about stays as it is: a stutter, or the model's build.
LEMMA OthersKeep ==
    ASSUME IInv, UNCHANGED <<permits, slots, pids, metrics, call>>, disk' \in Versions,
           \A f \in Files : disk'[f] >= disk[f]
    PROVE  IInv'
<1>1. ASSUME NEW c \in Calls
      PROVE  NoOlder(disk', call[c].asked)
    <2>1. call[c].asked \in Versions /\ disk \in Versions /\ NoOlder(disk, call[c].asked)
        BY RecordOf DEF CallRecord
    <2> QED BY <2>1 DEF NoOlder, Versions
<1>2. TypeOK'
    BY <1>1 DEF IInv, TypeOK
<1>3. InsideNow' = InsideNow /\ HoldingNow' = HoldingNow
      /\ \A A : AnsweredBy(A)' = AnsweredBy(A)
    BY DEF InsideNow, HoldingNow, AnsweredBy
<1> QED BY <1>2, <1>3 DEF IInv, SetsAreFinite, CountsAreSizes

\* IInv holds in every reachable state: the parts of every call's record agree,
\* no more calls than MaxTools are in the wrapper or in a subprocess, and each
\* permit, slot, registration and counter is owed to the calls that have it.
THEOREM Inductive == Spec => []IInv
<1>1. Init => IInv
    BY InitEstablishes
<1>2. IInv /\ [Next]_vars => IInv'
    <2> SUFFICES ASSUME IInv, [Next]_vars
                 PROVE  IInv'
        OBVIOUS
    <2>1. disk \in Versions /\ \A f \in Files : disk[f] >= disk[f]
        BY DEF IInv, TypeOK, Versions
    <2>2. ASSUME NEW c \in Calls, WrapperStep(c) \/ BodyStep(c)
          PROVE  IInv'
        BY <2>2, WrapperKeeps, BodyKeeps
    <2>3. CASE BuildStartsOrEnds
        BY <2>1, <2>3, OthersKeep DEF BuildStartsOrEnds
    <2>4. ASSUME NEW f \in Files, Edit(f)
          PROVE  IInv'
        <3>1. disk' \in Versions /\ \A g \in Files : disk'[g] >= disk[g]
            BY <2>1, <2>4 DEF Edit, Versions
        <3> QED BY <2>4, <3>1, OthersKeep DEF Edit
    <2>5. CASE UNCHANGED vars
        BY <2>1, <2>5, OthersKeep DEF vars
    <2> QED BY <2>2, <2>3, <2>4, <2>5 DEF Next
<1> QED BY <1>1, <1>2, PTL DEF Spec

\* Whatever the interleaving of calls, timeouts and cancellations, no permit and
\* no slot is lost or doubled, the registered processes are those somebody
\* waits for, and each local call is counted once as what it was answered.
THEOREM CallsAccounted == Spec => []CallsAreAccountedFor
<1>1. IInv => CallsAreAccountedFor
    BY DEF IInv, CountsAreSizes, CallsAreAccountedFor, InsideNow, HoldingNow, Inside, Holds,
           Holding, AnsweredBy, TimeOuts
<1> QED BY <1>1, Inductive, PTL

\* A call that refuses the cache is told what was read after it was made.
THEOREM AnswersFresh == Spec => []AnswersAreFresh
<1>1. IInv => AnswersAreFresh
    BY DEF IInv, TypeOK, CallOK, NoOlder, AnswersAreFresh
<1> QED BY <1>1, Inductive, PTL
-----------------------------------------------------------------------------
(***************************************************************************)
(* The discovery of the sidecar.  A port has one listener and a server     *)
(* listens on its own port or nowhere, which holds of the server that      *)
(* answered the monitor as long as that one lives.                         *)
(***************************************************************************)
Nobody == Discovery!Nobody
Lives == {"off", "binding", "ready", "failed", "up", "alone", "gone"}
Searched == {"binding", "ready", "failed", "up"}

DiscoveryTypeOK ==
    /\ server \in [Servers -> Lives] /\ port \in [Servers -> Discovery!Ports \cup {0}]
    /\ listener \in [Discovery!Ports -> Servers \cup {Nobody}]
    /\ portFile \in [Discovery!Roots -> Discovery!Ports \cup {0}]
    /\ stored \in Discovery!Ports \cup {0} /\ validated \in Servers \cup {Nobody}
    /\ monitor \in [at : {"sleep", "ask", "told"}, port : Discovery!Ports \cup {0},
                    by : Servers \cup {Nobody}]

\* A server that has searched has a port, and listens there when its start says so.
PortsAreOwned ==
    /\ \A s \in Servers : server[s] \in Searched => port[s] \in Discovery!Ports
    /\ \A s \in Servers : server[s] = "ready" => listener[port[s]] = s
    /\ \A p \in Discovery!Ports : listener[p] # Nobody => server[listener[p]] \in {"ready", "up"}

\* Who answered for a port listens there while it lives.
ListensWhileAlive(s, p) == server[s] # "gone" => listener[p] = s

AnswersAreTrue ==
    /\ monitor.at # "sleep" => monitor.port \in Discovery!Ports
    /\ monitor.at = "told" /\ monitor.by # Nobody =>
           ListensWhileAlive(monitor.by, monitor.port)
    /\ stored # 0 => /\ validated \in Servers /\ RootOf[validated] = Ours
                     /\ ListensWhileAlive(validated, stored)

DiscoveryInv == DiscoveryTypeOK /\ PortsAreOwned /\ AnswersAreTrue
-----------------------------------------------------------------------------
\* At the start nobody listens, no port is stored and nothing has been asked.
LEMMA DiscoveryInit == Discovery!Init => DiscoveryInv
BY DiscoveryBounds
   DEF Discovery!Init, DiscoveryInv, DiscoveryTypeOK, PortsAreOwned, AnswersAreTrue, Lives,
       Searched, Nobody, Discovery!Sleeping

\* A server that has not listened yet takes a port nobody has, or none.
LEMMA StartingKeeps ==
    ASSUME DiscoveryInv, NEW s \in Servers,
           Discovery!FindPort(s) \/ Discovery!NoPort(s) \/ Discovery!Bind(s)
    PROVE  DiscoveryInv'
<1> USE DEF DiscoveryInv, DiscoveryTypeOK, Lives, Searched
<1>1. CASE Discovery!FindPort(s) \/ Discovery!NoPort(s)
    BY <1>1, DiscoveryBounds
       DEF Discovery!FindPort, Discovery!NoPort, PortsAreOwned, AnswersAreTrue,
           ListensWhileAlive, Nobody
<1>2. CASE Discovery!Bind(s)
    BY <1>2, DiscoveryBounds
       DEF Discovery!Bind, PortsAreOwned, AnswersAreTrue, ListensWhileAlive, Nobody
<1> QED BY <1>1, <1>2

\* The port file is written and removed whatever it says; a server that ends leaves
\* its port free, and answers for none from then on.
LEMMA RunningKeeps ==
    ASSUME DiscoveryInv, NEW s \in Servers,
           Discovery!WritePortFile(s) \/ Discovery!Stop(s) \/ Discovery!Crash(s)
    PROVE  DiscoveryInv'
<1> USE DEF DiscoveryInv, DiscoveryTypeOK, Lives, Searched
<1>1. CASE Discovery!WritePortFile(s)
    BY <1>1, DiscoveryBounds
       DEF Discovery!WritePortFile, Discovery!Roots, PortsAreOwned, AnswersAreTrue,
           ListensWhileAlive, Nobody
<1>2. CASE Discovery!Stop(s) \/ Discovery!Crash(s)
    <2>1. /\ server' = [server EXCEPT ![s] = "gone"]
          /\ listener' = [p \in Discovery!Ports |-> IF listener[p] = s THEN Nobody
                                                    ELSE listener[p]]
          /\ portFile' \in [Discovery!Roots -> Discovery!Ports \cup {0}]
          /\ UNCHANGED <<port, stored, validated, monitor>>
        BY <1>2 DEF Discovery!Stop, Discovery!Crash, Discovery!Free, Nobody, Discovery!Roots
    <2>2. DiscoveryTypeOK'
        BY <2>1
    <2>3. PortsAreOwned'
        BY <2>1, DiscoveryBounds DEF PortsAreOwned, Nobody
    <2>4. AnswersAreTrue'
        BY <2>1, DiscoveryBounds DEF AnswersAreTrue, ListensWhileAlive, Nobody
    <2> QED BY <2>2, <2>3, <2>4
<1> QED BY <1>1, <1>2

\* The monitor asks the listener of a port, and takes its word.
LEMMA MonitorKeeps ==
    ASSUME DiscoveryInv, Discovery!Monitor
    PROVE  DiscoveryInv'
<1> USE DEF DiscoveryInv, DiscoveryTypeOK
<1>1. CASE Discovery!Poll
    <2>1. portFile[Ours] \in Discovery!Ports
        BY <1>1 DEF Discovery!Poll, Discovery!Roots
    <2> QED BY <1>1, <2>1 DEF Discovery!Poll, PortsAreOwned, AnswersAreTrue, ListensWhileAlive
<1>2. CASE Discovery!Health
    BY <1>2, DiscoveryBounds
       DEF Discovery!Health, PortsAreOwned, AnswersAreTrue, ListensWhileAlive, Nobody
<1>3. CASE Discovery!Store
    BY <1>3, DiscoveryBounds
       DEF Discovery!Store, Discovery!Matches, Discovery!Sleeping, PortsAreOwned,
           AnswersAreTrue, ListensWhileAlive, Nobody
<1> QED BY <1>1, <1>2, <1>3 DEF Discovery!Monitor

\* DiscoveryInv holds in every reachable state of the discovery.
THEOREM DiscoveryInductive == Discovery!Spec => []DiscoveryInv
<1>1. DiscoveryInv /\ [Discovery!Next]_(Discovery!vars) => DiscoveryInv'
    <2> SUFFICES ASSUME DiscoveryInv, [Discovery!Next]_(Discovery!vars)
                 PROVE  DiscoveryInv'
        OBVIOUS
    <2>1. CASE UNCHANGED Discovery!vars
        BY <2>1 DEF Discovery!vars, DiscoveryInv, DiscoveryTypeOK, PortsAreOwned,
                    AnswersAreTrue, ListensWhileAlive
    <2> QED BY <2>1, StartingKeeps, RunningKeeps, MonitorKeeps DEF Discovery!Next
<1> QED BY <1>1, DiscoveryInit, PTL DEF Discovery!Spec

\* A call of a tool gets an answer of its workspace and no older than itself, for
\* any calls, servers, workspaces and ports: what it is told was read after it was
\* made (safe_tool, VerificationCache), and the port it is delegated to is that of
\* a sidecar of our workspace while the server that answered for it lives
\* (_sidecar_monitor and _find_available_port).
THEOREM AnswersOfTheCall == Spec /\ Discovery!Spec => []AnswersAreOfTheCall
<1>1. DiscoveryInv => Discovery!CallsStayInWorkspace
    BY DEF DiscoveryInv, AnswersAreTrue, ListensWhileAlive, Discovery!CallsStayInWorkspace
<1>2. AnswersAreFresh /\ Discovery!CallsStayInWorkspace => AnswersAreOfTheCall
    BY DEF AnswersAreOfTheCall
<1> QED BY <1>1, <1>2, AnswersFresh, DiscoveryInductive, PTL

-----------------------------------------------------------------------------
(* SessionFiles, the journal.  As long as nobody was overtaken or killed    *)
(* while entries moved, one server is at work at most, and what archive and *)
(* journal have together, with what that server carries, is what was        *)
(* written.                                                                 *)

Lists == Seq(Sessions!Entries)
OpPoints == {"idle", "state", "set", "read", "open", "write", "rotate", "archive", "reopen",
             "keep"}
OpRecords == [pc : OpPoints, name : {"set", "append", None}, phase : Phases \cup {None},
              entry : Sessions!Entries \cup Lists \cup {None}, read : Lists]

\* The server has entries that are in no file.
Moving == {"write", "archive", "reopen", "keep"}
EntryOK(r) ==
    /\ r.pc \in {"state", "set"} => r.entry \in Sessions!Entries \cup {None}
    /\ r.pc \in {"read", "open", "write"} => r.entry \in Sessions!Entries
    /\ r.pc \in {"archive", "reopen", "keep"} => r.entry \in Lists

JournalTypeOK ==
    /\ op \in [Processes -> OpRecords] /\ \A p \in Processes : EntryOK(op[p])
    /\ state \in Phases \cup {None, Torn} /\ log \in Lists
    /\ {journal, archive} \subseteq Lists \cup {None, Torn}

Archived == Sessions!Read(archive)
Current == Sessions!Read(journal)
Older(q) == SubSeq(q, 1, Sessions!Half(q))
Newer(q) == SubSeq(q, Sessions!Half(q) + 1, Len(q))

OneAtWork == \A p, q \in Processes : op[p].pc # "idle" /\ op[q].pc # "idle" => p = q

\* What a server carries in the middle of its work, when the archive, the journal and
\* all that was written are these.
Carries(r, old, current, all) ==
    /\ r.pc = "open" => r.read = Append(current, r.entry)
    /\ r.pc = "write" => old \o r.read = Append(all, r.entry)
    /\ r.pc = "rotate" => r.read = current
    /\ r.pc = "archive" => r.read = current /\ r.entry \o r.read = all
    /\ r.pc \in {"reopen", "keep"} => old \o Newer(r.read) = all

JournalFollows ==
    taint = {} =>
        /\ OneAtWork
        /\ (\A p \in Processes : op[p].pc \notin Moving) => Archived \o Current = log
        /\ \A p \in Processes : Carries(op[p], Archived, Current, log)

JournalInv == JournalTypeOK /\ JournalFollows

\* Whatever is in a file, reading it yields a list of entries.
LEMMA ReadIsList ==
    ASSUME NEW file \in Lists \cup {None, Torn}
    PROVE  Sessions!Read(file) \in Lists
BY DEF Sessions!Read, Lists

\* What was written whole is read back.
LEMMA ReadOfList ==
    ASSUME NEW file \in Lists
    PROVE  Sessions!Read(file) = file
BY SessionBounds DEF Sessions!Read, Lists

\* A file that is missing or torn has nothing in it.
LEMMA ReadOfTorn == Sessions!Read(Torn) = <<>> /\ Sessions!Read(None) = <<>>
BY DEF Sessions!Read

\* The two halves of _rotate_journal are the whole.
LEMMA Halves ==
    ASSUME NEW q \in Lists
    PROVE  /\ Older(q) \in Lists /\ Newer(q) \in Lists
           /\ Older(q) \o Newer(q) = q
<1> DEFINE h == Sessions!Half(q)
<1>1. h \in 0 .. Len(q) /\ Len(q) \in Nat
    BY DEF Sessions!Half, Lists
<1> HIDE DEF h
<1>2. 1 \in 1 .. Len(q) + 1 /\ h \in 1 - 1 .. Len(q) /\ Len(q) \in h .. Len(q)
    BY <1>1
<1>3. SubSeq(q, 1, h) \o SubSeq(q, h + 1, Len(q)) = SubSeq(q, 1, Len(q))
    BY <1>2, ConcatAdjacentSubSeq DEF Lists
<1>4. SubSeq(q, 1, Len(q)) = q
    BY SubSeqFull DEF Lists
<1>5. SubSeq(q, 1, h) \in Lists /\ SubSeq(q, h + 1, Len(q)) \in Lists
    BY <1>1, SubSeqProperties DEF Lists
<1> QED BY <1>3, <1>4, <1>5 DEF Older, Newer, h

\* An entry at the end of a list is one at the end of what precedes it, too.
LEMMA AppendLast ==
    ASSUME NEW q \in Lists, NEW r \in Lists, NEW e \in Sessions!Entries
    PROVE  q \o Append(r, e) = Append(q \o r, e)
<1>1. Append(r, e) = r \o <<e>> /\ Append(q \o r, e) = (q \o r) \o <<e>>
    BY AppendIsConcat DEF Lists
<1>2. (q \o r) \o <<e>> = q \o (r \o <<e>>)
    BY ConcatAssociative DEF Lists
<1> QED BY <1>1, <1>2

\* A server's record changes, and its record alone.
Becomes(p, r) == op' = [op EXCEPT ![p] = r]

\* The other servers' records are as they were.
LEMMA OthersStay ==
    ASSUME NEW p \in Processes, NEW r, op \in [Processes -> OpRecords], Becomes(p, r)
    PROVE  /\ op'[p] = r /\ \A q \in Processes \ {p} : op'[q] = op[q]
           /\ r \in OpRecords => op' \in [Processes -> OpRecords]
BY DEF Becomes

\* When a server goes on with its work the others are idle, so that what it leaves
\* must follow from what it carries.
LEMMA WorkStep ==
    ASSUME JournalInv, NEW p \in Processes, NEW r \in OpRecords, Becomes(p, r), EntryOK(r),
           op[p].pc # "idle", taint' = {} => taint = {},
           state' \in Phases \cup {None, Torn}, log' \in Lists,
           {journal', archive'} \subseteq Lists \cup {None, Torn},
           taint = {} => /\ r.pc \notin Moving => Archived' \o Current' = log'
                         /\ Carries(r, Archived', Current', log')
    PROVE  JournalInv'
<1>1. op'[p] = r /\ op' \in [Processes -> OpRecords]
      /\ \A q \in Processes \ {p} : op'[q] = op[q]
    BY OthersStay DEF JournalInv, JournalTypeOK
<1>2. \A q \in Processes : EntryOK(op[q])'
    BY <1>1 DEF JournalInv, JournalTypeOK, EntryOK
<1>3. JournalTypeOK'
    BY <1>1, <1>2 DEF JournalInv, JournalTypeOK
<1>4. ASSUME taint' = {} PROVE JournalFollows'
    <2>1. \A q \in Processes \ {p} : op'[q].pc = "idle"
        BY <1>4, <1>1 DEF JournalInv, JournalFollows, OneAtWork
    <2>2. OneAtWork'
        BY <2>1 DEF OneAtWork
    <2>3. \A q \in Processes : Carries(op[q], Archived, Current, log)'
        BY <1>1, <1>4, <2>1 DEF Carries
    <2>4. (\A q \in Processes : op'[q].pc \notin Moving) => Archived' \o Current' = log'
        BY <1>1, <1>4
    <2> QED BY <2>2, <2>3, <2>4 DEF JournalFollows
<1>5. JournalFollows'
    BY <1>4 DEF JournalFollows
<1> QED BY <1>3, <1>5 DEF JournalInv

\* A server that is at work and moves nothing leaves the files whole.
LEMMA FilesAreWhole ==
    ASSUME JournalInv, taint = {}, NEW p \in Processes, op[p].pc # "idle",
           op[p].pc \notin Moving
    PROVE  Archived \o Current = log
BY DEF JournalInv, JournalFollows, OneAtWork, Moving

\* What JournalInv says of one server and of the files.
LEMMA WorkerOK ==
    ASSUME JournalInv, NEW p \in Processes
    PROVE  /\ op[p] \in OpRecords /\ EntryOK(op[p])
           /\ taint = {} => Carries(op[p], Archived, Current, log)
           /\ Archived \in Lists /\ Current \in Lists /\ log \in Lists
BY ReadIsList DEF JournalInv, JournalTypeOK, JournalFollows, Archived, Current

\* A record whose pc moves on keeps the rest.
LEMMA ToPoint ==
    ASSUME NEW r \in OpRecords, NEW pc \in OpPoints
    PROVE  LET q == [r EXCEPT !.pc = pc]
           IN  /\ q \in OpRecords /\ q.pc = pc /\ q.entry = r.entry /\ q.read = r.read
               /\ q.phase = r.phase /\ q.name = r.name
BY DEF OpRecords

\* To as a change of one record.
LEMMA IsTo ==
    ASSUME NEW p \in Processes, NEW pc, op \in [Processes -> OpRecords], Sessions!To(p, pc)
    PROVE  Becomes(p, [op[p] EXCEPT !.pc = pc])
BY DEF Sessions!To, Becomes

fileVars == <<state, journal, archive, log>>

\* A call that comes while another one is under way is an overlap; otherwise
\* the files are whole.
LEMMA CallStep ==
    ASSUME JournalInv, NEW p \in Processes, NEW name, NEW phase,
           Sessions!Call(p, name, phase),
           \/ name = "append" /\ phase = None
           \/ name = "set" /\ phase \in Phases
    PROVE  JournalInv'
<1> DEFINE entry == IF name = "append" THEN <<"event", Sessions!Phase>>
                    ELSE IF Sessions!Phase \notin {None, phase} THEN <<Sessions!Phase, phase>>
                    ELSE None
           r == [Sessions!NoOp EXCEPT !.name = name, !.phase = phase,
                    !.pc = IF name = "set" THEN "state" ELSE "read", !.entry = entry]
<1>1. Sessions!Phase \in Phases \cup {None}
    BY DEF Sessions!Phase, JournalInv, JournalTypeOK
<1>2. /\ entry \in Sessions!Entries \cup {None}
      /\ name # "set" => entry \in Sessions!Entries
    BY <1>1 DEF Sessions!Entries
<1>3. Becomes(p, r) /\ op[p].pc = "idle" /\ UNCHANGED fileVars
    BY DEF Sessions!Call, Becomes, Sessions!Doing, fileVars
<1> HIDE DEF entry
<1>4. /\ r.pc = IF name = "set" THEN "state" ELSE "read"
      /\ r.entry = entry /\ r.name = name /\ r.phase = phase /\ r.read = <<>>
      /\ r \in OpRecords
    <2> DEFINE pc == IF name = "set" THEN "state" ELSE "read"
    <2>1. pc \in OpPoints
        BY DEF OpPoints
    <2>2. name \in {"set", "append", None} /\ phase \in Phases \cup {None} /\ <<>> \in Lists
        BY DEF Lists
    <2>3. r = [pc |-> pc, name |-> name, phase |-> phase, entry |-> entry, read |-> <<>>]
        <3>1. r = [Sessions!NoOp EXCEPT !.name = name, !.phase = phase, !.pc = pc,
                                        !.entry = entry]
            OBVIOUS
        <3> HIDE DEF pc, r
        <3>2. [Sessions!NoOp EXCEPT !.name = name]
                = [pc |-> "idle", name |-> name, phase |-> None, entry |-> None, read |-> <<>>]
            BY DEF Sessions!NoOp
        <3> QED BY <3>1, <3>2
    <2> HIDE DEF pc, r
    <2>4. /\ r.pc = pc /\ r.entry = entry /\ r.name = name /\ r.phase = phase
          /\ r.read = <<>>
        BY <2>3
    <2>5. r \in OpRecords
        BY <1>2, <2>1, <2>2, <2>3 DEF OpRecords
    <2> QED BY <2>4, <2>5 DEF pc
<1> HIDE DEF r
<1>5. EntryOK(r)
    BY <1>2, <1>4 DEF EntryOK
<1>6. /\ op'[p] = r /\ op' \in [Processes -> OpRecords]
      /\ \A q \in Processes \ {p} : op'[q] = op[q]
    BY <1>3, <1>4, OthersStay DEF JournalInv, JournalTypeOK
<1>7. JournalTypeOK'
    <2>1. \A q \in Processes : EntryOK(op[q])'
        BY <1>5, <1>6 DEF JournalInv, JournalTypeOK, EntryOK
    <2> QED BY <1>3, <1>6, <2>1 DEF JournalInv, JournalTypeOK, fileVars
<1>8. ASSUME taint' = {} PROVE JournalFollows'
    <2>1. taint = {} /\ \A q \in Processes \ {p} : op[q].pc = "idle"
        BY <1>8 DEF Sessions!Call, Sessions!Doing
    <2>2. OneAtWork'
        BY <1>6, <2>1 DEF OneAtWork
    <2>3. Archived \o Current = log
        BY <1>3, <2>1 DEF JournalInv, JournalFollows, Moving
    <2>4. Archived' \o Current' = log'
        BY <1>3, <2>3 DEF fileVars, Archived, Current
    <2>5. \A q \in Processes : Carries(op[q], Archived, Current, log)'
        BY <1>4, <1>6, <2>1 DEF Carries
    <2> QED BY <2>2, <2>4, <2>5 DEF JournalFollows
<1>9. JournalFollows'
    BY <1>8 DEF JournalFollows
<1> QED BY <1>7, <1>9 DEF JournalInv

\* The state is written before the journal is read.
LEMMA StateSteps ==
    ASSUME JournalInv, NEW p \in Processes,
           Sessions!OpenState(p) \/ Sessions!WriteState(p)
    PROVE  JournalInv'
<1>1. CASE Sessions!OpenState(p)
    <2> DEFINE r == [op[p] EXCEPT !.pc = "set"]
    <2>1. Becomes(p, r) /\ op[p].pc = "state" /\ UNCHANGED <<journal, archive, log, taint>>
          /\ state' = Torn
        BY <1>1, IsTo DEF Sessions!OpenState, Sessions!Doing, JournalInv, JournalTypeOK
    <2>2. /\ r \in OpRecords /\ r.pc = "set" /\ r.entry = op[p].entry
        BY WorkerOK, ToPoint DEF OpPoints
    <2> HIDE DEF r
    <2>3. EntryOK(r)
        BY <2>1, <2>2, WorkerOK DEF EntryOK
    <2>4. ASSUME taint = {} PROVE Archived' \o Current' = log'
        BY <2>1, <2>4, FilesAreWhole DEF Moving, Archived, Current
    <2>5. Carries(r, Archived', Current', log')
        BY <2>2 DEF Carries
    <2> QED BY <2>1, <2>2, <2>3, <2>4, <2>5, WorkStep DEF JournalInv, JournalTypeOK
<1>2. CASE Sessions!WriteState(p)
    <2> DEFINE pc == IF op[p].entry = None THEN "idle" ELSE "read"
               r == [op[p] EXCEPT !.pc = pc]
    <2>1. Becomes(p, r) /\ op[p].pc = "set" /\ UNCHANGED <<journal, archive, log, taint>>
          /\ state' = op[p].phase
        BY <1>2, IsTo DEF Sessions!WriteState, Sessions!Doing, JournalInv, JournalTypeOK
    <2>6. pc \in OpPoints
        BY DEF OpPoints
    <2> HIDE DEF pc
    <2>2. r \in OpRecords /\ r.entry = op[p].entry /\ r.pc = pc
        BY <2>6, WorkerOK, ToPoint
    <2> HIDE DEF r
    <2>3. EntryOK(r) /\ state' \in Phases \cup {None, Torn}
        BY <2>1, <2>2, WorkerOK DEF EntryOK, OpRecords, pc
    <2>4. ASSUME taint = {} PROVE Archived' \o Current' = log'
        BY <2>1, <2>4, FilesAreWhole DEF Moving, Archived, Current
    <2>5. Carries(r, Archived', Current', log')
        BY <2>2 DEF Carries, pc
    <2> QED BY <2>1, <2>2, <2>3, <2>4, <2>5, WorkStep DEF JournalInv, JournalTypeOK
<1> QED BY <1>1, <1>2

\* Clear touches the state only.
LEMMA ClearStep ==
    ASSUME JournalInv, NEW p \in Processes, Sessions!Clear(p)
    PROVE  JournalInv'
<1>1. state' = None /\ UNCHANGED <<journal, archive, op, log, taint>>
    BY DEF Sessions!Clear
<1>2. JournalTypeOK'
    BY <1>1 DEF JournalInv, JournalTypeOK
<1>3. JournalFollows'
    BY <1>1 DEF JournalInv, JournalFollows, OneAtWork, Archived, Current, Carries
<1> QED BY <1>2, <1>3 DEF JournalInv

\* From the journal on, the server has the new list in its hands.
LEMMA ReadStep ==
    ASSUME JournalInv, NEW p \in Processes, Sessions!ReadJournal(p)
    PROVE  JournalInv'
<1> DEFINE read == Append(Current, op[p].entry)
           r == [op[p] EXCEPT !.read = read, !.pc = "open"]
<1>1. /\ Becomes(p, r) /\ op[p].pc = "read"
      /\ UNCHANGED <<state, journal, archive, log, taint>>
    BY DEF Sessions!ReadJournal, Sessions!Doing, Becomes, Current
<1>2. op[p].entry \in Sessions!Entries /\ read \in Lists
    BY <1>1, WorkerOK, AppendProperties DEF EntryOK, Lists
<1> HIDE DEF read
<1>3. /\ r \in OpRecords /\ r.pc = "open" /\ r.entry = op[p].entry /\ r.read = read
    BY <1>2, WorkerOK DEF OpRecords, OpPoints
<1> HIDE DEF r
<1>4. EntryOK(r)
    BY <1>2, <1>3 DEF EntryOK
<1>5. Archived' = Archived /\ Current' = Current
    BY <1>1 DEF Archived, Current
<1>6. ASSUME taint = {} PROVE Archived' \o Current' = log'
    BY <1>1, <1>5, <1>6, FilesAreWhole DEF Moving
<1>7. Carries(r, Archived', Current', log')
    BY <1>3, <1>5 DEF Carries, read
<1> QED BY <1>1, <1>3, <1>4, <1>6, <1>7, WorkStep DEF JournalInv, JournalTypeOK

\* The journal is empty while it is open, the server has its entries.
LEMMA OpenStep ==
    ASSUME JournalInv, NEW p \in Processes, Sessions!OpenJournal(p)
    PROVE  JournalInv'
<1> DEFINE r == [op[p] EXCEPT !.pc = "write"]
<1>1. Becomes(p, r) /\ op[p].pc = "open" /\ UNCHANGED <<state, archive, log, taint>>
      /\ journal' = Torn
    BY IsTo DEF Sessions!OpenJournal, Sessions!Doing, JournalInv, JournalTypeOK
<1>2. r \in OpRecords /\ r.pc = "write" /\ r.entry = op[p].entry /\ r.read = op[p].read
    BY WorkerOK, ToPoint DEF OpPoints
<1> HIDE DEF r
<1>3. EntryOK(r) /\ op[p].entry \in Sessions!Entries
    BY <1>1, <1>2, WorkerOK DEF EntryOK
<1>4. Archived' = Archived
    BY <1>1 DEF Archived
<1>5. ASSUME taint = {} PROVE Carries(r, Archived', Current', log')
    <2>1. Archived \o Current = log
        BY <1>1, <1>5, FilesAreWhole DEF Moving
    <2>2. r.read = Append(Current, r.entry)
        BY <1>1, <1>2, <1>5, WorkerOK DEF Carries
    <2>3. Archived \o r.read = Append(log, r.entry)
        BY <1>2, <1>3, <2>1, <2>2, WorkerOK, AppendLast
    <2> QED BY <1>1, <1>2, <1>4, <2>3 DEF Carries
<1> QED BY <1>1, <1>2, <1>3, <1>5, WorkStep DEF JournalInv, JournalTypeOK, Moving

\* The journal has the new entry; only then is its size looked at.
LEMMA WriteStep ==
    ASSUME JournalInv, NEW p \in Processes, Sessions!WriteJournal(p)
    PROVE  JournalInv'
<1> DEFINE pc == IF op[p].name = "append" /\ Len(op[p].read) > JournalMax THEN "rotate"
                 ELSE "idle"
           r == [op[p] EXCEPT !.pc = pc]
<1>1. /\ Becomes(p, r) /\ op[p].pc = "write" /\ UNCHANGED <<state, archive, taint>>
      /\ journal' = op[p].read /\ log' = Append(log, op[p].entry)
    BY IsTo DEF Sessions!WriteJournal, Sessions!Doing, JournalInv, JournalTypeOK
<1>2. pc \in OpPoints /\ pc \in {"rotate", "idle"}
    BY DEF OpPoints
<1> HIDE DEF pc
<1>3. r \in OpRecords /\ r.pc = pc /\ r.entry = op[p].entry /\ r.read = op[p].read
    BY <1>2, WorkerOK, ToPoint
<1> HIDE DEF r
<1>4. EntryOK(r)
    BY <1>2, <1>3 DEF EntryOK
<1>5. /\ op[p].read \in Lists /\ op[p].entry \in Sessions!Entries /\ log' \in Lists
    BY <1>1, WorkerOK, AppendProperties DEF EntryOK, OpRecords, Lists
<1>6. Archived' = Archived /\ Current' = op[p].read
    BY <1>1, <1>5, ReadOfList DEF Archived, Current
<1>7. ASSUME taint = {} PROVE Archived' \o Current' = log'
    BY <1>1, <1>6, <1>7, WorkerOK DEF Carries
<1>8. Carries(r, Archived', Current', log')
    BY <1>2, <1>3, <1>6 DEF Carries
<1> QED BY <1>1, <1>3, <1>4, <1>5, <1>7, <1>8, WorkStep DEF JournalInv, JournalTypeOK

\* The archive's entries are read before it is opened.
LEMMA OpenArchiveStep ==
    ASSUME JournalInv, NEW p \in Processes, Sessions!OpenArchive(p)
    PROVE  JournalInv'
<1> DEFINE r == [op[p] EXCEPT !.pc = "archive", !.entry = Archived]
<1>1. /\ Becomes(p, r) /\ op[p].pc = "rotate" /\ UNCHANGED <<state, journal, log, taint>>
      /\ archive' = Torn
    BY DEF Sessions!OpenArchive, Sessions!Doing, Becomes, Archived
<1>2. /\ r \in OpRecords /\ r.pc = "archive" /\ r.entry = Archived
      /\ r.read = op[p].read
    BY WorkerOK DEF OpRecords, OpPoints
<1> HIDE DEF r
<1>3. EntryOK(r)
    BY <1>2, WorkerOK DEF EntryOK
<1>4. Current' = Current
    BY <1>1 DEF Current
<1>5. ASSUME taint = {} PROVE Carries(r, Archived', Current', log')
    <2>1. Archived \o Current = log
        BY <1>1, <1>5, FilesAreWhole DEF Moving
    <2>2. r.read = Current
        BY <1>1, <1>2, <1>5, WorkerOK DEF Carries
    <2> QED BY <1>1, <1>2, <1>4, <2>1, <2>2 DEF Carries
<1> QED BY <1>1, <1>2, <1>3, <1>5, WorkStep DEF JournalInv, JournalTypeOK, Moving

\* The older half is in the archive, the newer one only with the server.
LEMMA WriteArchiveStep ==
    ASSUME JournalInv, NEW p \in Processes, Sessions!WriteArchive(p)
    PROVE  JournalInv'
<1> DEFINE r == [op[p] EXCEPT !.pc = "reopen"]
<1>1. /\ Becomes(p, r) /\ op[p].pc = "archive" /\ UNCHANGED <<state, journal, log, taint>>
      /\ archive' = op[p].entry \o Older(op[p].read)
    BY IsTo DEF Sessions!WriteArchive, Sessions!Doing, JournalInv, JournalTypeOK, Older
<1>2. r \in OpRecords /\ r.pc = "reopen" /\ r.entry = op[p].entry /\ r.read = op[p].read
    BY WorkerOK, ToPoint DEF OpPoints
<1> HIDE DEF r
<1>3. op[p].entry \in Lists /\ op[p].read \in Lists
    BY <1>1, WorkerOK DEF EntryOK, OpRecords
<1>4. EntryOK(r)
    BY <1>2, <1>3 DEF EntryOK
<1>5. /\ Older(op[p].read) \in Lists /\ Newer(op[p].read) \in Lists
      /\ Older(op[p].read) \o Newer(op[p].read) = op[p].read
    BY <1>3, Halves
<1>6. archive' \in Lists
    BY <1>1, <1>3, <1>5, ConcatProperties DEF Lists
<1>7. Archived' = op[p].entry \o Older(op[p].read)
    BY <1>1, <1>6, ReadOfList DEF Archived
<1>8. ASSUME taint = {} PROVE Carries(r, Archived', Current', log')
    <2>1. op[p].entry \o op[p].read = log
        BY <1>1, <1>8, WorkerOK DEF Carries
    <2>2. \A a, b, c \in Lists : (a \o b) \o c = a \o (b \o c)
        BY ConcatAssociative DEF Lists
    <2> DEFINE a == op[p].entry
               b == Older(op[p].read)
               c == Newer(op[p].read)
    <2>3. /\ a \in Lists /\ b \in Lists /\ c \in Lists /\ b \o c = op[p].read
          /\ Archived' = a \o b
        BY <1>3, <1>5, <1>7
    <2> HIDE DEF a, b, c
    <2>4. Archived' \o c = a \o (b \o c)
        <3>1. (a \o b) \o c = a \o (b \o c)
            BY <2>2, <2>3
        <3> QED BY <2>3, <3>1
    <2>5. Archived' \o c = a \o op[p].read
        BY <2>3, <2>4
    <2> QED BY <1>1, <1>2, <2>1, <2>5 DEF Carries, a, c
<1> QED BY <1>1, <1>2, <1>4, <1>6, <1>8, WorkStep DEF JournalInv, JournalTypeOK, Moving

\* The journal is opened once more for its newer half.
LEMMA ReopenStep ==
    ASSUME JournalInv, NEW p \in Processes, Sessions!ReopenJournal(p)
    PROVE  JournalInv'
<1> DEFINE r == [op[p] EXCEPT !.pc = "keep"]
<1>1. /\ Becomes(p, r) /\ op[p].pc = "reopen" /\ UNCHANGED <<state, archive, log, taint>>
      /\ journal' = Torn
    BY IsTo DEF Sessions!ReopenJournal, Sessions!Doing, JournalInv, JournalTypeOK
<1>2. r \in OpRecords /\ r.pc = "keep" /\ r.entry = op[p].entry /\ r.read = op[p].read
    BY WorkerOK, ToPoint DEF OpPoints
<1> HIDE DEF r
<1>3. EntryOK(r)
    BY <1>1, <1>2, WorkerOK DEF EntryOK
<1>4. Archived' = Archived
    BY <1>1 DEF Archived
<1>5. ASSUME taint = {} PROVE Carries(r, Archived', Current', log')
    BY <1>1, <1>2, <1>4, <1>5, WorkerOK DEF Carries
<1> QED BY <1>1, <1>2, <1>3, <1>5, WorkStep DEF JournalInv, JournalTypeOK, Moving

\* Archive and journal are whole again.
LEMMA KeepStep ==
    ASSUME JournalInv, NEW p \in Processes, Sessions!KeepJournal(p)
    PROVE  JournalInv'
<1> DEFINE r == [op[p] EXCEPT !.pc = "idle"]
<1>1. /\ Becomes(p, r) /\ op[p].pc = "keep" /\ UNCHANGED <<state, archive, log, taint>>
      /\ journal' = Newer(op[p].read)
    BY IsTo DEF Sessions!KeepJournal, Sessions!Doing, JournalInv, JournalTypeOK, Newer
<1>2. r \in OpRecords /\ r.pc = "idle"
    BY WorkerOK, ToPoint DEF OpPoints
<1> HIDE DEF r
<1>3. journal' \in Lists
    BY <1>1, WorkerOK, Halves DEF OpRecords
<1>4. Archived' = Archived /\ Current' = Newer(op[p].read)
    BY <1>1, <1>3, ReadOfList DEF Archived, Current
<1>5. ASSUME taint = {} PROVE Archived' \o Current' = log'
    BY <1>1, <1>4, <1>5, WorkerOK DEF Carries
<1>6. EntryOK(r) /\ Carries(r, Archived', Current', log')
    BY <1>2 DEF EntryOK, Carries
<1> QED BY <1>1, <1>2, <1>3, <1>5, <1>6, WorkStep DEF JournalInv, JournalTypeOK

\* A server that is killed while it moves entries is noted in taint.
LEMMA CrashStep ==
    ASSUME JournalInv, NEW p \in Processes, Sessions!Crash(p)
    PROVE  JournalInv'
<1> DEFINE r == Sessions!NoOp
<1>1. /\ Becomes(p, r) /\ op[p].pc # "idle" /\ UNCHANGED <<state, journal, archive, log>>
      /\ taint' = IF op[p].pc \in Moving THEN taint \cup {"crash"} ELSE taint
    BY DEF Sessions!Crash, Sessions!Doing, Becomes, Moving
<1>2. r \in OpRecords /\ r.pc = "idle"
    BY DEF Sessions!NoOp, OpRecords, OpPoints, Lists
<1> HIDE DEF r
<1>3. taint' = {} => taint = {} /\ op[p].pc \notin Moving
    BY <1>1
<1>4. EntryOK(r) /\ Carries(r, Archived', Current', log')
    BY <1>2 DEF EntryOK, Carries
<1>5. CASE op[p].pc \in Moving
    <2>1. taint' # {}
        BY <1>1, <1>5
    <2>2. op' \in [Processes -> OpRecords] /\ op'[p] = r
          /\ \A q \in Processes \ {p} : op'[q] = op[q]
        BY <1>1, <1>2, OthersStay DEF JournalInv, JournalTypeOK
    <2>3. \A q \in Processes : EntryOK(op[q])'
        BY <1>4, <2>2 DEF JournalInv, JournalTypeOK, EntryOK
    <2>4. JournalTypeOK'
        BY <1>1, <2>2, <2>3 DEF JournalInv, JournalTypeOK
    <2> QED BY <2>1, <2>4 DEF JournalInv, JournalFollows
<1>6. CASE op[p].pc \notin Moving
    <2>1. taint' = taint
        BY <1>1, <1>6
    <2>2. ASSUME taint = {} PROVE Archived' \o Current' = log'
        BY <1>1, <1>6, <2>2, FilesAreWhole DEF Archived, Current
    <2> QED BY <1>1, <1>2, <1>4, <2>1, <2>2, WorkStep DEF JournalInv, JournalTypeOK
<1> QED BY <1>5, <1>6

\* Every step of a workflow and every step of the log keeps JournalInv.
LEMMA JournalStep ==
    ASSUME JournalInv, [Sessions!Next]_(Sessions!vars)
    PROVE  JournalInv'
<1>1. CASE UNCHANGED <<state, journal, archive, op, log, taint>>
    <2>1. JournalTypeOK'
        BY <1>1 DEF JournalInv, JournalTypeOK, EntryOK
    <2>2. JournalFollows'
        BY <1>1 DEF JournalInv, JournalFollows, OneAtWork, Archived, Current, Carries
    <2> QED BY <2>1, <2>2 DEF JournalInv
<1>2. CASE Sessions!Logging
    <2>1. UNCHANGED <<state, journal, archive, op, log, taint>>
        BY <1>2 DEF Sessions!Logging, Sessions!LogEvent, Sessions!Shift, Sessions!Rename,
                    Sessions!AppendEvent, Sessions!flowVars
    <2> QED BY <1>1, <2>1
<1>3. CASE Sessions!Workflow
    BY <1>3, CallStep, StateSteps, ClearStep, ReadStep, OpenStep, WriteStep, OpenArchiveStep,
       WriteArchiveStep, ReopenStep, KeepStep, CrashStep DEF Sessions!Workflow
<1>4. CASE UNCHANGED Sessions!vars
    BY <1>1, <1>4 DEF Sessions!vars, Sessions!flowVars
<1> QED BY <1>2, <1>3, <1>4 DEF Sessions!Next

\* Nothing was written, nobody is at work.
LEMMA JournalStart == Sessions!Init => JournalInv
<1> SUFFICES ASSUME Sessions!Init PROVE JournalInv
    OBVIOUS
<1>1. /\ state = None /\ journal = None /\ archive = None /\ log = <<>>
      /\ op = [p \in Processes |-> Sessions!NoOp]
    BY DEF Sessions!Init
<1>2. Sessions!NoOp \in OpRecords /\ Sessions!NoOp.pc = "idle"
    BY DEF Sessions!NoOp, OpRecords, OpPoints, Lists
<1>3. Archived = <<>> /\ Current = <<>> /\ <<>> \in Lists
    BY <1>1, ReadOfTorn DEF Archived, Current, Lists
<1>4. Archived \o Current = log
    BY <1>1, <1>3, ConcatEmptySeq DEF Lists
<1>5. JournalTypeOK
    BY <1>1, <1>2, <1>3 DEF JournalTypeOK, EntryOK
<1>6. JournalFollows
    BY <1>1, <1>2, <1>4 DEF JournalFollows, OneAtWork, Carries
<1> QED BY <1>5, <1>6 DEF JournalInv

-----------------------------------------------------------------------------
(* SessionFiles, the log.  Where a backup's events end follows from its     *)
(* place and from how far the one server has come that rotates.             *)

Pieces == Seq(Nat) \cup {None}
RotationPoints == {"idle", "shift", "rename", "append"}
EventsOf(file) == {Sessions!Read(file)[j] : j \in DOMAIN Sessions!Read(file)}
Held(i) == EventsOf(files[i])
InFirst == Len(Sessions!Read(files[0]))
Above(i) == i * PerFile

Rotations == {r \in [pc : RotationPoints, at : 0 .. Backups] :
                 r.pc = "shift" => r.at \in 1 .. Backups}

LogTypeOK ==
    /\ files \in [0 .. Backups -> Pieces] /\ events \in Nat /\ raced \in BOOLEAN
    /\ rotating \in [Processes -> Rotations]

OneRotates ==
    \A p, q \in Processes : rotating[p].pc # "idle" /\ rotating[q].pc # "idle" => p = q

\* The backups up to g are where they were when the first file was filled; those after
\* g have been moved, and g + 1 is free.
Below(i, e) == e <= events - InFirst - Above(i - 1)
Placed(g) ==
    \A i \in 1 .. Backups : \A e \in Held(i) :
        \/ i <= g /\ Below(i, e)
        \/ i > g + 1 /\ Below(i - 1, e)

Numbered == \A i \in 0 .. Backups : \A e \in Held(i) : e \in 1 .. events
Ordered == \A i, j \in 0 .. Backups : i < j => \A d \in Held(i), e \in Held(j) : e < d
Covered ==
    \A e \in 1 .. events : e + Backups * PerFile > events =>
        \E i \in 0 .. Backups : e \in Held(i)

Rotates(r) ==
    /\ r.pc = "shift" => Placed(r.at) /\ InFirst >= PerFile
    /\ r.pc = "rename" => Placed(0) /\ InFirst >= PerFile

LogFollows ==
    ~raced =>
        /\ OneRotates /\ Numbered /\ Ordered /\ Covered
        /\ (\A p \in Processes : rotating[p].pc \in {"idle", "append"}) => Placed(Backups)
        /\ \A p \in Processes : Rotates(rotating[p])

LogInv == LogTypeOK /\ LogFollows

\* One more backup is PerFile events more.
LEMMA AboveStep ==
    /\ Above(0) = 0
    /\ \A i \in Int : Above(i) \in Int /\ Above(i + 1) = Above(i) + PerFile
    /\ Above(Backups) = Backups * PerFile
    /\ PerFile \in Nat \ {0} /\ Backups \in Nat \ {0}
BY SessionBounds DEF Above

\* The points a rotation goes through.
LEMMA SomeRotations ==
    /\ \A i \in 1 .. Backups : [pc |-> "shift", at |-> i] \in Rotations
    /\ \A pc \in {"idle", "append", "rename"} : [pc |-> pc, at |-> 0] \in Rotations
    /\ [pc |-> "shift", at |-> Backups] \in Rotations
<1>1. 0 \in 0 .. Backups /\ Backups \in 1 .. Backups /\ 1 .. Backups \subseteq 0 .. Backups
    BY AboveStep
<1>2. \A i \in 1 .. Backups : [pc |-> "shift", at |-> i] \in Rotations
    BY <1>1 DEF Rotations, RotationPoints
<1>3. \A pc \in {"idle", "append", "rename"} : [pc |-> pc, at |-> 0] \in Rotations
    BY <1>1 DEF Rotations, RotationPoints
<1> QED BY <1>1, <1>2, <1>3

\* A file of the log is a sequence of events, or there is none.
LEMMA PieceRead ==
    ASSUME NEW file \in Pieces
    PROVE  /\ Sessions!Read(file) \in Seq(Nat)
           /\ file # None => Sessions!Read(file) = file
           /\ file = None => EventsOf(file) = {}
BY SessionBounds DEF Pieces, Sessions!Read, EventsOf

\* An event at the end of a file is one more event in it.
LEMMA InsideOfAppend ==
    ASSUME NEW q \in Seq(Nat), NEW e \in Nat
    PROVE  /\ Append(q, e) \in Pieces /\ EventsOf(Append(q, e)) = EventsOf(q) \cup {e}
           /\ Len(Sessions!Read(Append(q, e))) = Len(Sessions!Read(q)) + 1
<1>1. /\ Append(q, e) \in Seq(Nat) /\ Len(Append(q, e)) = Len(q) + 1
      /\ \A j \in 1 .. Len(q) : Append(q, e)[j] = q[j]
      /\ Append(q, e)[Len(q) + 1] = e
    BY AppendProperties
<1>2. Sessions!Read(Append(q, e)) = Append(q, e) /\ Sessions!Read(q) = q
    BY <1>1, SessionBounds DEF Sessions!Read
<1>3. EventsOf(Append(q, e)) = {Append(q, e)[j] : j \in 1 .. Len(q) + 1}
    BY <1>1, <1>2 DEF EventsOf
<1>4. EventsOf(q) = {q[j] : j \in 1 .. Len(q)}
    BY <1>2 DEF EventsOf
<1>5. EventsOf(Append(q, e)) = EventsOf(q) \cup {e}
    BY <1>1, <1>3, <1>4
<1> QED BY <1>1, <1>2, <1>5 DEF Pieces

\* What LogInv says of the files and counters alone.
LEMMA LogTypes ==
    ASSUME LogInv
    PROVE  /\ \A i \in 0 .. Backups : files[i] \in Pieces
           /\ InFirst \in Nat /\ events \in Nat
<1>1. \A i \in 0 .. Backups : files[i] \in Pieces
    BY DEF LogInv, LogTypeOK
<1>2. 0 \in 0 .. Backups
    BY AboveStep
<1>3. Sessions!Read(files[0]) \in Seq(Nat)
    BY <1>1, <1>2, PieceRead
<1> QED BY <1>1, <1>3 DEF LogInv, LogTypeOK, InFirst

\* A server goes on with its rotation; the others rest.
LEMMA RotationStep ==
    ASSUME LogInv, NEW p \in Processes,
           NEW r \in Rotations,
           rotating' = [rotating EXCEPT ![p] = r], rotating[p].pc # "idle",
           raced' = raced, files' \in [0 .. Backups -> Pieces], events' \in Nat,
           ~raced => /\ Numbered' /\ Ordered' /\ Covered'
                     /\ r.pc \in {"idle", "append"} => Placed(Backups)'
                     /\ Rotates(r)'
    PROVE  LogInv'
<1>1. /\ rotating'[p] = r /\ \A q \in Processes \ {p} : rotating'[q] = rotating[q]
      /\ rotating' \in [Processes -> Rotations]
    BY DEF LogInv, LogTypeOK
<1>2. LogTypeOK'
    BY <1>1 DEF LogInv, LogTypeOK
<1>3. ASSUME ~raced' PROVE LogFollows'
    <2>1. \A q \in Processes \ {p} : rotating'[q].pc = "idle"
        BY <1>1, <1>3 DEF LogInv, LogFollows, OneRotates
    <2>2. OneRotates'
        BY <2>1 DEF OneRotates
    <2>3. \A q \in Processes : Rotates(rotating[q])'
        BY <1>1, <1>3, <2>1 DEF Rotates
    <2>4. (\A q \in Processes : rotating'[q].pc \in {"idle", "append"}) => Placed(Backups)'
        BY <1>1, <1>3
    <2> QED BY <1>3, <2>2, <2>3, <2>4 DEF LogFollows
<1>4. LogFollows'
    BY <1>3 DEF LogFollows
<1> QED BY <1>2, <1>4 DEF LogInv

\* A server begins: alone, or the log is raced.
LEMMA LogEventStep ==
    ASSUME LogInv, NEW p \in Processes, Sessions!LogEvent(p)
    PROVE  LogInv'
<1> DEFINE full == files[0] # None /\ Len(files[0]) >= PerFile
           r == IF full THEN [pc |-> "shift", at |-> Backups] ELSE [pc |-> "append", at |-> 0]
<1>1. /\ rotating' = [rotating EXCEPT ![p] = r] /\ rotating[p].pc = "idle"
      /\ UNCHANGED <<files, events>>
      /\ raced' = (raced \/ \E q \in Processes \ {p} : rotating[q].pc # "idle")
    BY DEF Sessions!LogEvent, Sessions!Goes, Sessions!Rests
<1>2. r \in Rotations
    BY SomeRotations
<1>3. /\ rotating'[p] = r /\ \A q \in Processes \ {p} : rotating'[q] = rotating[q]
      /\ rotating' \in [Processes -> Rotations]
    BY <1>1, <1>2 DEF LogInv, LogTypeOK
<1>4. LogTypeOK'
    <2>1. raced' \in BOOLEAN
        BY <1>1 DEF LogInv, LogTypeOK
    <2> QED BY <1>1, <1>3, <2>1 DEF LogInv, LogTypeOK
<1>5. \A g : Placed(g)' <=> Placed(g)
    BY <1>1 DEF Placed, Held, Below, InFirst
<1>6. (Numbered' <=> Numbered) /\ (Ordered' <=> Ordered) /\ (Covered' <=> Covered)
    BY <1>1 DEF Numbered, Ordered, Covered, Held
<1>7. ASSUME ~raced' PROVE LogFollows'
    <2>1. ~raced /\ \A q \in Processes : rotating[q].pc = "idle"
        BY <1>1, <1>7
    <2>2. Placed(Backups)
        BY <2>1 DEF LogInv, LogFollows
    <2>3. OneRotates'
        BY <1>3, <2>1 DEF OneRotates
    <2>4. full => InFirst' >= PerFile
        <3>1. 0 \in 0 .. Backups /\ InFirst' = InFirst
            BY <1>1, AboveStep DEF InFirst
        <3> QED BY <3>1, LogTypes, PieceRead DEF InFirst
    <2>5. \A q \in Processes : Rotates(rotating[q])'
        <3>1. ASSUME NEW q \in Processes, rotating'[q].pc = "shift"
              PROVE  full /\ rotating'[q].at = Backups
            BY <1>3, <2>1, <3>1
        <3>2. ASSUME NEW q \in Processes PROVE rotating'[q].pc # "rename"
            BY <1>3, <2>1
        <3>3. Placed(Backups)'
            BY <1>5, <2>2
        <3> QED BY <2>4, <3>1, <3>2, <3>3 DEF Rotates, Placed
    <2> QED BY <1>5, <1>6, <2>1, <2>2, <2>3, <2>5 DEF LogInv, LogFollows
<1>8. LogFollows'
    BY <1>7 DEF LogFollows
<1> QED BY <1>4, <1>8 DEF LogInv

\* The last backup goes, each other one takes the place after it, which is free.
LEMMA ShiftStep ==
    ASSUME LogInv, NEW p \in Processes, Sessions!Shift(p)
    PROVE  LogInv'
<1>1. rotating[p].at \in 1 .. Backups /\ rotating[p].pc = "shift"
    BY DEF LogInv, LogTypeOK, Rotations, Sessions!Shift
<1>2. PICK i \in 1 .. Backups : i = rotating[p].at
    BY <1>1
<1> DEFINE r == IF i = 1 THEN [pc |-> "rename", at |-> 0] ELSE [pc |-> "shift", at |-> i - 1]
<1>3. /\ rotating' = [rotating EXCEPT ![p] = r] /\ UNCHANGED <<events, raced>>
      /\ files' = IF files[i] = None THEN files
                  ELSE IF i = Backups THEN [files EXCEPT ![i] = None]
                  ELSE [files EXCEPT ![i + 1] = files[i], ![i] = None]
    BY <1>2 DEF Sessions!Shift, Sessions!Goes
<1>4. r \in Rotations
    <2>1. CASE i = 1
        BY <2>1, SomeRotations
    <2>2. CASE i # 1
        <3>1. i - 1 \in 1 .. Backups
            BY <2>2, AboveStep
        <3> QED BY <2>2, <3>1, SomeRotations
    <2> QED BY <2>1, <2>2
<1>5. /\ files' \in [0 .. Backups -> Pieces] /\ files'[0] = files[0] /\ None \in Pieces
      /\ 0 \in 0 .. Backups /\ i \in Int /\ Backups \in Int
    <2>1. None \in Pieces /\ 0 \in 0 .. Backups /\ i \in 0 .. Backups \ {0} /\ i \in Int
          /\ Backups \in Int
        BY AboveStep DEF Pieces
    <2>2. files \in [0 .. Backups -> Pieces]
        BY DEF LogInv, LogTypeOK
    <2>3. CASE files[i] = None
        BY <1>3, <2>1, <2>2, <2>3
    <2>4. CASE files[i] # None /\ i = Backups
        <3>1. files' = [files EXCEPT ![i] = None]
            BY <1>3, <2>4
        <3> QED BY <2>1, <2>2, <3>1
    <2>5. CASE files[i] # None /\ i # Backups
        <3>1. files' = [files EXCEPT ![i + 1] = files[i], ![i] = None]
            BY <1>3, <2>5
        <3>2. i + 1 \in 0 .. Backups \ {0} /\ files[i] \in Pieces
            BY <2>1, <2>2, <2>5
        <3> QED BY <2>1, <2>2, <3>1, <3>2
    <2> QED BY <2>3, <2>4, <2>5
<1>6. ASSUME ~raced
      PROVE  /\ Numbered' /\ Ordered' /\ Covered' /\ Placed(i - 1)' /\ InFirst' >= PerFile
    <2>1. Placed(i) /\ InFirst >= PerFile /\ Numbered /\ Ordered /\ Covered
        BY <1>1, <1>2, <1>6 DEF LogInv, LogFollows, Rotates
    <2>2. InFirst' = InFirst /\ events' = events
        BY <1>3, <1>5 DEF InFirst
    <2>3. i + 1 \in 0 .. Backups => Held(i + 1) = {}
        <3> SUFFICES ASSUME i + 1 \in 0 .. Backups, NEW e \in Held(i + 1) PROVE FALSE
            OBVIOUS
        <3> QED BY <1>5, <2>1 DEF Placed
    <2>4. /\ Held(i)' = {}
          /\ i + 1 \in 0 .. Backups => Held(i + 1)' = Held(i)
          /\ \A k \in 0 .. Backups : k # i /\ k # i + 1 => Held(k)' = Held(k)
        <3>1. EventsOf(None) = {}
            BY <1>5, PieceRead
        <3>2. CASE files[i] = None
            BY <1>3, <2>3, <3>1, <3>2 DEF Held
        <3>3. CASE files[i] # None /\ i = Backups
            BY <1>3, <1>5, <3>1, <3>3 DEF Held, LogInv, LogTypeOK
        <3>4. CASE files[i] # None /\ i # Backups
            BY <1>3, <1>5, <3>1, <3>4 DEF Held, LogInv, LogTypeOK
        <3> QED BY <3>2, <3>3, <3>4
    <2>5. \A k \in 0 .. Backups : \A e \in Held(k)' :
              \/ k # i /\ k # i + 1 /\ e \in Held(k)
              \/ k = i + 1 /\ e \in Held(i)
        <3> SUFFICES ASSUME NEW k \in 0 .. Backups, NEW e \in EventsOf(files'[k])
                     PROVE  \/ k # i /\ k # i + 1 /\ e \in Held(k)
                            \/ k = i + 1 /\ e \in Held(i)
            BY DEF Held
        <3> QED BY <2>4 DEF Held
    <2>6. Numbered'
        BY <2>1, <2>2, <2>5 DEF Numbered
    <2>7. Ordered'
        <3> SUFFICES ASSUME NEW k \in 0 .. Backups, NEW j \in 0 .. Backups, k < j,
                            NEW d \in Held(k)', NEW e \in Held(j)'
                     PROVE  e < d
            BY DEF Ordered
        <3>1. PICK m \in 0 .. Backups : d \in Held(m) /\ (m = k \/ (m = i /\ k = i + 1)) /\ k # i
            BY <2>5
        <3>2. PICK n \in 0 .. Backups : e \in Held(n) /\ (n = j \/ (n = i /\ j = i + 1)) /\ j # i
                                        /\ (n = j => j # i + 1)
            BY <2>5
        <3>3. m < n
            BY <3>1, <3>2, <2>5, <1>5
        <3> QED BY <2>1, <3>1, <3>2, <3>3 DEF Ordered
    <2>8. Covered'
        <3> SUFFICES ASSUME NEW e \in 1 .. events, e + Backups * PerFile > events
                     PROVE  \E k \in 0 .. Backups : e \in Held(k)'
            BY <2>2 DEF Covered
        <3>1. PICK k \in 0 .. Backups : e \in Held(k)
            BY <2>1 DEF Covered
        <3>2. CASE k # i /\ k # i + 1
            BY <2>4, <3>1, <3>2
        <3>3. CASE k = i + 1
            BY <2>3, <3>1, <3>3
        <3>4. CASE k = i /\ i # Backups
            <4>1. i + 1 \in 0 .. Backups
                BY <1>5, <3>4
            <4>2. e \in Held(i + 1)'
                BY <2>4, <3>1, <3>4, <4>1
            <4> QED BY <4>1, <4>2
        <3>5. CASE k = i /\ i = Backups
            <4>1. Below(Backups, e)
                BY <1>5, <2>1, <3>1, <3>5 DEF Placed
            <4>2. Above(Backups) = Above(Backups - 1) + PerFile /\ Above(Backups - 1) \in Int
                  /\ PerFile \in Int /\ Backups * PerFile = Above(Backups)
                BY AboveStep, Backups - 1 \in Int, Backups - 1 + 1 = Backups
            <4>3. e + Above(Backups) > events
                BY <4>2
            <4>4. e <= events - InFirst - Above(Backups - 1)
                BY <4>1 DEF Below
            <4>5. InFirst \in Int /\ events \in Int /\ e \in Int
                BY LogTypes
            <4> HIDE DEF Above
            <4> QED BY ONLY <4>2, <4>3, <4>4, <4>5, <2>1
        <3> QED BY <3>2, <3>3, <3>4, <3>5
    <2>9. Placed(i - 1)'
        <3>1. ASSUME NEW k \in 1 .. Backups, NEW e \in Held(k)'
              PROVE  \/ k <= i - 1 /\ Below(k, e)
                     \/ k > i - 1 + 1 /\ Below(k - 1, e)
            <4>1. CASE k # i /\ k # i + 1 /\ e \in Held(k)
                BY <1>5, <2>1, <4>1 DEF Placed
            <4>2. CASE k = i + 1 /\ e \in Held(i)
                BY <1>5, <2>1, <4>2 DEF Placed
            <4> QED BY <2>5, <4>1, <4>2
        <3>2. \A k, e : Below(k, e)' <=> Below(k, e)
            BY <2>2 DEF Below
        <3> QED BY <3>1, <3>2 DEF Placed
    <2> QED BY <2>1, <2>2, <2>6, <2>7, <2>8, <2>9
<1>7. ASSUME ~raced PROVE Rotates(r)'
    <2>1. i = 1 => i - 1 = 0
        OBVIOUS
    <2> QED BY <1>6, <1>7, <2>1 DEF Rotates, Placed
<1>8. r.pc \notin {"idle", "append"}
    OBVIOUS
<1> HIDE DEF r
<1> QED BY <1>1, <1>3, <1>4, <1>5, <1>6, <1>7, <1>8, RotationStep, LogTypes

\* The full first file becomes the first backup, which is free.
LEMMA RenameStep ==
    ASSUME LogInv, NEW p \in Processes, Sessions!Rename(p)
    PROVE  LogInv'
<1> DEFINE r == [pc |-> "append", at |-> 0]
<1>1. /\ rotating[p].pc = "rename" /\ rotating' = [rotating EXCEPT ![p] = r]
      /\ UNCHANGED <<events, raced>>
      /\ files' = IF files[0] = None THEN files
                  ELSE [files EXCEPT ![1] = files[0], ![0] = None]
    BY DEF Sessions!Rename, Sessions!Goes
<1>2. r \in Rotations /\ r.pc = "append"
    BY SomeRotations
<1> HIDE DEF r
<1>3. /\ files \in [0 .. Backups -> Pieces] /\ 0 \in 0 .. Backups /\ 1 \in 0 .. Backups
      /\ None \in Pieces
    BY AboveStep DEF LogInv, LogTypeOK, Pieces
<1>4. files' \in [0 .. Backups -> Pieces] /\ events' \in Nat
    <2>1. CASE files[0] = None
        BY <1>1, <1>3, <2>1 DEF LogInv, LogTypeOK
    <2>2. CASE files[0] # None
        <3>1. files' = [files EXCEPT ![1] = files[0], ![0] = None]
            BY <1>1, <2>2
        <3> QED BY <1>1, <1>3, <3>1 DEF LogInv, LogTypeOK
    <2> QED BY <2>1, <2>2
<1>5. ASSUME ~raced
      PROVE  Numbered' /\ Ordered' /\ Covered' /\ Placed(Backups)'
    <2>1. Placed(0) /\ InFirst >= PerFile /\ Numbered /\ Ordered /\ Covered
        BY <1>1, <1>5 DEF LogInv, LogFollows, Rotates
    <2>2. files[0] # None
        <3>1. Len(Sessions!Read(None)) = 0
            BY DEF Sessions!Read
        <3>2. files[0] = None => InFirst = 0
            BY <3>1 DEF InFirst
        <3>3. PerFile \in Nat \ {0}
            BY AboveStep
        <3> QED BY <2>1, <3>2, <3>3
    <2>3. files' = [files EXCEPT ![1] = files[0], ![0] = None]
        BY <1>1, <2>2
    <2>4. Held(1) = {}
        <3> SUFFICES ASSUME NEW e \in Held(1) PROVE FALSE
            OBVIOUS
        <3>1. 1 \in 1 .. Backups
            BY AboveStep
        <3> QED BY <2>1, <3>1 DEF Placed
    <2>5. /\ Held(0)' = {}
          /\ Held(1)' = Held(0)
          /\ \A k \in 2 .. Backups : Held(k)' = Held(k)
          /\ InFirst' = 0
        <3>1. EventsOf(None) = {} /\ Len(Sessions!Read(None)) = 0
            BY <1>3, PieceRead DEF Sessions!Read
        <3>2. files'[0] = None /\ files'[1] = files[0]
              /\ \A k \in 2 .. Backups : files'[k] = files[k]
            BY <1>3, <2>3, AboveStep
        <3> QED BY <3>1, <3>2 DEF Held, InFirst
    <2>6. /\ \A k \in 0 .. Backups : k = 0 \/ k = 1 \/ k \in 2 .. Backups
          /\ 1 .. Backups \subseteq 0 .. Backups
        BY AboveStep
    <2>7. ASSUME NEW k \in 0 .. Backups, NEW e \in EventsOf(files'[k])
          PROVE  (k = 1 /\ e \in Held(0)) \/ (k \in 2 .. Backups /\ e \in Held(k))
        BY <2>5, <2>6, <2>7 DEF Held
    <2>8. Numbered'
        BY <1>1, <1>3, <2>1, <2>7 DEF Numbered, Held
    <2>9. Ordered'
        <3> SUFFICES ASSUME NEW k \in 0 .. Backups, NEW j \in 0 .. Backups, k < j,
                            NEW d \in EventsOf(files'[k]), NEW e \in EventsOf(files'[j])
                     PROVE  e < d
            BY DEF Ordered, Held
        <3>1. PICK m \in 0 .. Backups : d \in Held(m) /\ ((m = 0 /\ k = 1) \/ m = k)
            BY <1>3, <2>7
        <3>2. j \in 2 .. Backups /\ e \in Held(j)
            BY <2>7
        <3> QED BY <2>1, <3>1, <3>2 DEF Ordered
    <2>10. Covered'
        <3> SUFFICES ASSUME NEW e \in 1 .. events, e + Backups * PerFile > events
                     PROVE  \E k \in 0 .. Backups : e \in Held(k)'
            BY <1>1 DEF Covered
        <3>1. PICK k \in 0 .. Backups : e \in Held(k)
            BY <2>1 DEF Covered
        <3>2. CASE k = 0
            BY <1>3, <2>5, <3>1, <3>2
        <3>3. CASE k = 1
            BY <2>4, <3>1, <3>3
        <3>4. CASE k \in 2 .. Backups
            BY <2>5, <3>1, <3>4
        <3> QED BY <2>6, <3>2, <3>3, <3>4
    <2>11. Placed(Backups)'
        <3> SUFFICES ASSUME NEW k \in 1 .. Backups, NEW e \in EventsOf(files'[k])
                     PROVE  e <= events' - InFirst' - Above(k - 1)
            BY DEF Placed, Held, Below
        <3>1. e \in 1 .. events
            <4>1. k \in 0 .. Backups
                BY <2>6
            <4> QED BY <1>1, <2>8, <4>1 DEF Numbered, Held
        <3>2. InFirst \in Nat /\ events \in Nat
            BY LogTypes
        <3>3. CASE k = 1
            BY <1>1, <2>5, <3>1, <3>2, <3>3, AboveStep
        <3>4. CASE k # 1
            <4>1. e \in Held(k)
                BY <2>7, <3>4
            <4>2. Below(k - 1, e)
                BY <2>1, <4>1 DEF Placed
            <4>3. e <= events - InFirst - Above(k - 1 - 1)
                BY <4>2 DEF Below
            <4>4. Above(k - 1) = Above(k - 1 - 1) + PerFile /\ Above(k - 1 - 1) \in Int
                BY AboveStep, k - 1 - 1 \in Int, k - 1 - 1 + 1 = k - 1
            <4>5. PerFile \in Int /\ InFirst >= PerFile /\ e \in Int
                BY <2>1, <3>1, AboveStep
            <4>6. e <= events - Above(k - 1)
                BY ONLY <3>2, <4>3, <4>4, <4>5
            <4>7. Above(k - 1) \in Int
                BY <4>4, <4>5
            <4> QED BY <1>1, <2>5, <3>2, <4>6, <4>7
        <3> QED BY <3>3, <3>4
    <2> QED BY <2>8, <2>9, <2>10, <2>11
<1>6. Rotates(r)'
    BY <1>2 DEF Rotates
<1> QED BY <1>1, <1>2, <1>4, <1>5, <1>6, RotationStep

\* The new event is the largest; the first file grows by one.
LEMMA AppendStep ==
    ASSUME LogInv, NEW p \in Processes, Sessions!AppendEvent(p)
    PROVE  LogInv'
<1> DEFINE r == [pc |-> "idle", at |-> 0]
           new == events + 1
<1>1. /\ rotating[p].pc = "append" /\ rotating' = [rotating EXCEPT ![p] = r]
      /\ events' = new /\ raced' = raced
      /\ files' = [files EXCEPT ![0] = IF files[0] = None THEN <<new>>
                                      ELSE Append(files[0], new)]
    BY DEF Sessions!AppendEvent, Sessions!Goes
<1>2. r \in Rotations /\ r.pc = "idle"
    BY SomeRotations
<1>3. /\ files \in [0 .. Backups -> Pieces] /\ 0 \in 0 .. Backups
      /\ new \in Nat /\ events \in Nat
    BY AboveStep DEF LogInv, LogTypeOK
<1> HIDE DEF r
<1> DEFINE read == Sessions!Read(files[0])
<1>4. /\ read \in Seq(Nat) /\ Sessions!Read(read) = read
      /\ files'[0] = Append(read, new)
    <2>1. files[0] \in Pieces
        BY <1>3
    <2>2. read \in Seq(Nat)
        BY <2>1, PieceRead
    <2>3. Sessions!Read(read) = read
        BY <2>2, PieceRead, SessionBounds DEF Pieces
    <2>4. CASE files[0] = None
        <3>1. read = <<>> /\ files'[0] = <<new>>
            BY <1>1, <1>3, <2>4 DEF Sessions!Read
        <3>2. Append(<<>>, new) = <<new>>
            OBVIOUS
        <3> QED BY <2>2, <2>3, <3>1, <3>2
    <2>5. CASE files[0] # None
        <3>1. read = files[0]
            BY <2>1, <2>5, PieceRead
        <3>2. files'[0] = Append(files[0], new)
            BY <1>1, <1>3, <2>5
        <3> QED BY <2>2, <2>3, <3>1, <3>2
    <2> QED BY <2>4, <2>5
<1>5. /\ Held(0)' = Held(0) \cup {new}
      /\ \A k \in 1 .. Backups : Held(k)' = Held(k)
      /\ InFirst' = InFirst + 1
      /\ files' \in [0 .. Backups -> Pieces]
    <2>1. /\ Append(read, new) \in Pieces
          /\ EventsOf(Append(read, new)) = EventsOf(read) \cup {new}
          /\ Len(Sessions!Read(Append(read, new))) = Len(Sessions!Read(read)) + 1
        BY <1>3, <1>4, InsideOfAppend
    <2>2. EventsOf(read) = EventsOf(files[0])
        BY <1>4 DEF EventsOf
    <2>3. /\ files' = [files EXCEPT ![0] = files'[0]]
          /\ files'[0] \in Pieces
        BY <1>1, <1>3, <1>4, <2>1
    <2>4. /\ \A k \in 1 .. Backups : files'[k] = files[k]
          /\ files' \in [0 .. Backups -> Pieces]
        <3>1. \A k \in 1 .. Backups : k # 0 /\ k \in 0 .. Backups
            BY AboveStep
        <3> QED BY <1>3, <2>3, <3>1
    <2> QED BY <1>4, <2>1, <2>2, <2>4 DEF Held, InFirst
<1> HIDE DEF read
<1>6. ASSUME ~raced
      PROVE  Numbered' /\ Ordered' /\ Covered' /\ Placed(Backups)'
    <2>1. Numbered /\ Ordered /\ Covered /\ Placed(Backups)
        <3>1. \A q \in Processes : rotating[q].pc \in {"idle", "append"}
            BY <1>1, <1>6 DEF LogInv, LogFollows, OneRotates
        <3> QED BY <1>6, <3>1 DEF LogInv, LogFollows
    <2>2. 0 .. Backups = {0} \cup 1 .. Backups
        BY AboveStep
    <2>3. ASSUME NEW k \in 0 .. Backups, NEW e \in EventsOf(files'[k])
          PROVE  e \in Held(k) \/ (k = 0 /\ e = new)
        BY <1>5, <2>2, <2>3 DEF Held
    <2>4. Numbered'
        <3> SUFFICES ASSUME NEW k \in 0 .. Backups, NEW e \in EventsOf(files'[k])
                     PROVE  e \in 1 .. new
            BY <1>1 DEF Numbered, Held
        <3>1. CASE e \in Held(k)
            BY <1>3, <2>1, <3>1 DEF Numbered
        <3>2. CASE e = new
            BY <1>3, <3>2
        <3> QED BY <2>3, <3>1, <3>2
    <2>5. Ordered'
        <3> SUFFICES ASSUME NEW k \in 0 .. Backups, NEW j \in 0 .. Backups, k < j,
                            NEW d \in EventsOf(files'[k]), NEW e \in EventsOf(files'[j])
                     PROVE  e < d
            BY DEF Ordered, Held
        <3>1. e \in Held(j) /\ e \in 1 .. events
            BY <2>1, <2>3 DEF Numbered
        <3>2. CASE d \in Held(k)
            BY <2>1, <3>1, <3>2 DEF Ordered
        <3>3. CASE d = new
            BY <1>3, <3>1, <3>3
        <3> QED BY <2>3, <3>2, <3>3
    <2>6. Covered'
        <3> SUFFICES ASSUME NEW e \in 1 .. new, e + Backups * PerFile > new
                     PROVE  \E k \in 0 .. Backups : e \in Held(k)'
            BY <1>1 DEF Covered
        <3>1. CASE e = new
            BY <1>3, <1>5, <3>1
        <3>2. CASE e # new
            <4>1. e \in 1 .. events
                BY <1>3, <3>2
            <4>2. Backups * PerFile \in Int
                BY AboveStep
            <4>3. e + Backups * PerFile > events
                BY <1>3, <4>1, <4>2
            <4>4. PICK k \in 0 .. Backups : e \in Held(k)
                BY <2>1, <4>1, <4>3 DEF Covered
            <4> QED BY <1>5, <2>2, <4>4
        <3> QED BY <3>1, <3>2
    <2>7. Placed(Backups)'
        <3> SUFFICES ASSUME NEW k \in 1 .. Backups, NEW e \in EventsOf(files'[k])
                     PROVE  e <= events' - InFirst' - Above(k - 1)
            BY DEF Placed, Held, Below
        <3>1. e \in Held(k)
            BY <1>5 DEF Held
        <3>2. k <= Backups
            BY AboveStep
        <3>3. e <= events - InFirst - Above(k - 1)
            BY <2>1, <3>1, <3>2, AboveStep DEF Placed, Below
        <3>4. InFirst \in Nat /\ events \in Nat /\ Above(k - 1) \in Int
            BY LogTypes, AboveStep
        <3>5. e \in Nat
            BY <2>1, <3>1, AboveStep DEF Numbered
        <3> QED BY <1>1, <1>5, <3>3, <3>4, <3>5
    <2> QED BY <2>4, <2>5, <2>6, <2>7
<1>7. Rotates(r)'
    BY <1>2 DEF Rotates
<1> QED BY <1>1, <1>2, <1>3, <1>5, <1>6, <1>7, RotationStep

\* Every step of the log and of a workflow keeps LogInv.
LEMMA LogStep ==
    ASSUME LogInv, [Sessions!Next]_(Sessions!vars)
    PROVE  LogInv'
<1>1. CASE UNCHANGED Sessions!logVars
    <2>1. LogTypeOK'
        BY <1>1 DEF LogInv, LogTypeOK, Sessions!logVars
    <2>2. \A g : Placed(g)' <=> Placed(g)
        BY <1>1 DEF Placed, Held, Below, InFirst, Sessions!logVars
    <2>3. \A q : Rotates(rotating[q])' <=> Rotates(rotating[q])
        BY <1>1, <2>2 DEF Rotates, Placed, Held, Below, InFirst, Sessions!logVars
    <2>4. (Numbered' <=> Numbered) /\ (Ordered' <=> Ordered) /\ (Covered' <=> Covered)
        BY <1>1 DEF Numbered, Ordered, Covered, Held, Sessions!logVars
    <2>5. (OneRotates' <=> OneRotates) /\ (Placed(Backups)' <=> Placed(Backups))
        BY <1>1, <2>2 DEF OneRotates, Sessions!logVars
    <2>6. LogFollows'
        BY <1>1, <2>3, <2>4, <2>5 DEF LogInv, LogFollows, Sessions!logVars
    <2> QED BY <2>1, <2>6 DEF LogInv
<1>2. CASE Sessions!Logging
    BY <1>2, LogEventStep, ShiftStep, RenameStep, AppendStep DEF Sessions!Logging
<1>3. CASE Sessions!Workflow
    <2>1. UNCHANGED Sessions!logVars
        BY <1>3 DEF Sessions!Workflow, Sessions!Call, Sessions!OpenState,
            Sessions!WriteState, Sessions!Clear, Sessions!ReadJournal, Sessions!OpenJournal,
            Sessions!WriteJournal, Sessions!OpenArchive, Sessions!WriteArchive,
            Sessions!ReopenJournal, Sessions!KeepJournal, Sessions!Crash
    <2> QED BY <1>1, <2>1
<1>4. CASE UNCHANGED Sessions!vars
    BY <1>1, <1>4 DEF Sessions!vars
<1> QED BY <1>2, <1>3, <1>4 DEF Sessions!Next

\* All files are missing and nobody rotates.
LEMMA LogStart == Sessions!Init => LogInv
<1> SUFFICES ASSUME Sessions!Init PROVE LogInv
    OBVIOUS
<1>1. /\ files = [i \in 0 .. Backups |-> None] /\ events = 0 /\ raced = FALSE
      /\ rotating = [p \in Processes |-> Sessions!Resting]
    BY DEF Sessions!Init
<1>2. Sessions!Resting \in Rotations /\ Sessions!Resting.pc = "idle"
    BY SomeRotations DEF Sessions!Resting
<1>3. None \in Pieces /\ EventsOf(None) = {}
    BY PieceRead DEF Pieces
<1>4. LogTypeOK
    BY <1>1, <1>2, <1>3 DEF LogTypeOK
<1>5. \A i \in 0 .. Backups : Held(i) = {}
    BY <1>1, <1>3 DEF Held
<1>6. Numbered /\ Ordered /\ Covered
    BY <1>1, <1>5 DEF Numbered, Ordered, Covered
<1>7. Placed(Backups)
    BY <1>5, AboveStep DEF Placed
<1>8. LogFollows
    BY <1>1, <1>2, <1>6, <1>7 DEF LogFollows, OneRotates, Rotates
<1> QED BY <1>4, <1>8 DEF LogInv

\* The rotated log and the journal behave as their invariants say, whatever the
\* servers of a workspace do to them without a lock (log_event, _maybe_rotate,
\* _rotate_journal).
THEOREM SessionsInductive == Sessions!Spec => [](JournalInv /\ LogInv)
<1>1. Sessions!Init => JournalInv /\ LogInv
    BY JournalStart, LogStart
<1>2. JournalInv /\ LogInv /\ [Sessions!Next]_(Sessions!vars) => (JournalInv /\ LogInv)'
    BY JournalStep, LogStep
<1> QED BY <1>1, <1>2, PTL DEF Sessions!Spec

\* The property's range is what the proof calls Held.
LEMMA HeldIsRange ==
    ASSUME LogInv, NEW i \in 0 .. Backups
    PROVE  Sessions!Range(Sessions!Read(files[i])) = Held(i)
BY DEF Sessions!Range, Held, EventsOf

\* One server at a time keeps the latest events, and every entry of the journal once
\* and in order (_maybe_rotate, _rotate_journal).
THEOREM FilesKept == Sessions!Spec => []FilesAreKept
<1>1. JournalInv => Sessions!JournalIsKept
    <2> SUFFICES ASSUME JournalInv, taint = {}, \A p \in Processes : op[p].pc = "idle"
                 PROVE  Archived \o Current = log
        BY DEF Sessions!JournalIsKept, Sessions!Doing, Archived, Current
    <2> QED BY DEF JournalInv, JournalFollows, Moving
<1>2. LogInv => Sessions!LogKeepsTheLatest
    <2> SUFFICES ASSUME LogInv, ~raced
                 PROVE  /\ \A e \in 1 .. events :
                              e + Backups * PerFile > events => e \in Sessions!Logged
                        /\ \A i, j \in DOMAIN files : i < j =>
                              \A d \in Sessions!Range(Sessions!Read(files[i])),
                                 e \in Sessions!Range(Sessions!Read(files[j])) : e < d
        BY DEF Sessions!LogKeepsTheLatest
    <2>1. DOMAIN files = 0 .. Backups /\ Ordered /\ Covered
        BY DEF LogInv, LogTypeOK, LogFollows
    <2>2. \A e : (\E i \in 0 .. Backups : e \in Held(i)) => e \in Sessions!Logged
        BY <2>1, HeldIsRange DEF Sessions!Logged
    <2>3. \A e \in 1 .. events : e + Backups * PerFile > events => e \in Sessions!Logged
        BY <2>1, <2>2 DEF Covered
    <2> QED BY <2>1, <2>3, HeldIsRange DEF Ordered
<1> QED BY <1>1, <1>2, SessionsInductive, PTL DEF FilesAreKept
=============================================================================
