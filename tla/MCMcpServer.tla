----------------------------- MODULE MCMcpServer -----------------------------
(***************************************************************************)
(* An instance of McpServer for TLC: a behaviour is of the bridge or of    *)
(* the lazily built state, and the other stays in its initial state.       *)
(***************************************************************************)
EXTENDS McpServer

VARIABLE part

MCInit == part \in {"builder", "bridge"} /\ Init /\ Builder!Init
MCNext ==
    /\ UNCHANGED part
    /\ \/ part = "bridge" /\ Next /\ UNCHANGED builderVars
       \/ part = "builder" /\ Builder!Next /\ UNCHANGED vars

MCSpec == MCInit /\ [][MCNext]_<<part, vars, builderVars>> /\ Fair /\ Builder!Fair
================================================================================
