------------------------------- MODULE McpServer -------------------------------
(***************************************************************************)
(* The two parts of the MCP server that wait for others: the bridge        *)
(* (McpBridge), which is a process of its own, and the lazily built state  *)
(* of the standalone server (McpServerState).  They share no state.        *)
(***************************************************************************)
EXTENDS McpBridge

CONSTANTS Callers, Prewarm, MaxVersion, MaxBuilds

VARIABLES disk, promised, files, names, value, building, failure, lock, bridged,
          caller, thread, overlapped

builderVars == <<disk, promised, files, names, value, building, failure, lock, bridged,
                 caller, thread, overlapped>>
Builder == INSTANCE McpServerState

\* What the builders serve was read after the last invalidation, and their flag is
\* set only while someone builds (of McpServerState).
BuildersAreRight == Builder!BuildersAreRight

\* Whoever waits is served: a request the bridge has forwarded is settled, and
\* a caller that asks for the model or the graph gets its return.
EveryRequestEnds == PendingIsSettled /\ Builder!EveryGetEnds
================================================================================
