------------------------------ MODULE MCServer ------------------------------
(* An instance of ServerStart for TLC: a behaviour is of the index or of the    *)
(* threads, and the other stays in its initial state.                           *)
EXTENDS ServerStart, TLC

CONSTANTS f, g

VARIABLE part

MCIncludes == f :> {g} @@ g :> {}
MCEdits == f :> {"edit", "quick_edit"} @@ g :> {"remove", "touch"}
MCOutcomes == f :> {0, 3} @@ g :> {1}

MCInit == part \in {"index", "lifecycle"} /\ Init /\ L!Init
MCNext == /\ UNCHANGED part
          /\ \/ part = "index" /\ Next /\ UNCHANGED lifecycleVars
             \/ part = "lifecycle" /\ L!Next /\ UNCHANGED vars

MCSpec == MCInit /\ [][MCNext]_<<part, vars, lifecycleVars>>
=============================================================================
