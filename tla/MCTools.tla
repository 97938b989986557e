-------------------------------- MODULE MCTools --------------------------------
(***************************************************************************)
(* An instance of McpTools for TLC: a behaviour is of the calls, of the    *)
(* discovery, of the log or of a workflow, and the rest stays as it was.   *)
(***************************************************************************)
EXTENDS McpTools

\* Two servers of our workspace, one of another.
MCRootOf == [s |-> "w", t |-> "w", o |-> "v"]

VARIABLE part

MCInit ==
    /\ part \in {"calls", "discovery", "log", "flow"} /\ Discovery!Init /\ Sessions!Init
    /\ Init /\ (part # "calls" => sidecar = FALSE /\ building = FALSE)

\* A workflow is not followed further when what its property asks for is over.
SessionStep == \/ part = "log" /\ Sessions!Logging
               \/ part = "flow" /\ taint = {} /\ Sessions!Workflow

MCNext ==
    /\ UNCHANGED part
    /\ \/ part = "calls" /\ Next /\ UNCHANGED <<discoveryVars, sessionVars>>
       \/ part = "discovery" /\ Discovery!Next /\ UNCHANGED <<vars, sessionVars>>
       \/ SessionStep /\ UNCHANGED <<vars, discoveryVars>>

MCSpec == MCInit /\ [][MCNext]_<<part, vars, discoveryVars, sessionVars>>
          /\ Fair /\ Discovery!Fair
================================================================================
