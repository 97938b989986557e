--------------------------- MODULE CompileService ---------------------------
(***************************************************************************)
(* What the compiler manager promises to the code that calls               *)
(* compile_async(source, filepath, callback): the call is either refused   *)
(* with an exception or answered through the callback, and every answer is *)
(* about the file and the source the call was made with.  How results are  *)
(* cached, queued, superseded and killed is invisible here; CompilerManager*)
(* is the implementation.                                                  *)
(***************************************************************************)
EXTENDS Naturals, Sequences

CONSTANTS Jobs,       \* calls of compile_async
          Files,      \* .ivy file paths
          Sources,    \* file contents, told apart by their sha256
          FileOf,     \* the file of a call
          SourceOf,   \* the source text of a call
          Raisers,    \* calls whose callback may raise
          Kinds       \* how a CompiledModuleIR came about

VARIABLES status,     \* of each call
          answers     \* of each call: the IRs its callback was called with

serviceVars == <<status, answers>>

\* An IR and the call whose subprocess (or failure) produced it.
IR == [kind : Kinds, of : Jobs]

\* IRs that are about the file and the source of call j.
About(j) ==
    {ir \in IR : FileOf[ir.of] = FileOf[j] /\ SourceOf[ir.of] = SourceOf[j]}

Init == /\ status = [j \in Jobs |-> "idle"]
        /\ answers = [j \in Jobs |-> <<>>]

Submit(j) == /\ status[j] = "idle"
             /\ status' = [status EXCEPT ![j] = "pending"]
             /\ UNCHANGED answers

\* The call itself raised: no callback will come.
Refuse(j) == /\ status[j] = "pending"
             /\ answers[j] = <<>>
             /\ status' = [status EXCEPT ![j] = "refused"]
             /\ UNCHANGED answers

\* The callback is called.  A callback that raised is called a second time,
\* with the exception as an error result.
Answer(j) == /\ status[j] = "pending"
             /\ \/ answers[j] = <<>>
                \/ j \in Raisers /\ Len(answers[j]) = 1
             /\ \E ir \in About(j) :
                    answers' = [answers EXCEPT ![j] = Append(@, ir)]
             /\ \/ UNCHANGED status
                \/ status' = [status EXCEPT ![j] = "closed"]

\* Nothing more will be said about the call.
Close(j) == /\ status[j] = "pending"
            /\ answers[j] # <<>>
            /\ status' = [status EXCEPT ![j] = "closed"]
            /\ UNCHANGED answers

Next == \E j \in Jobs : Submit(j) \/ Refuse(j) \/ Answer(j) \/ Close(j)

Spec == Init /\ [][Next]_serviceVars
=============================================================================
