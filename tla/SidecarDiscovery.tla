-------------------------- MODULE SidecarDiscovery --------------------------
(***************************************************************************)
(* How a standalone MCP server finds the HTTP sidecar of a language server *)
(* on the same workspace: the search for a port, the readiness barrier and *)
(* the port file (mcp/sidecar.py, lsp/server.py), the monitor that polls   *)
(* the file (mcp/server.py), and the stored port that calls are delegated  *)
(* to (mcp/client.py).                                                     *)
(*                                                                         *)
(* Language servers are processes: they start once, are stopped or crash,  *)
(* and run beside others on the same workspace or on another.  Operating   *)
(* system, uvicorn and HTTP are external: a port has one listener.         *)
(***************************************************************************)
EXTENDS Naturals, FiniteSets

CONSTANTS Servers,      \* the language servers, each started once
          RootOf,       \* server -> its workspace
          Ours,         \* the workspace of the MCP server
          MaxPort       \* the ports of the search range are 1 .. MaxPort

VARIABLES server,       \* server -> where its start or its life is
          port,         \* server -> actual_port, or 0
          listener,     \* port -> who listens, or Nobody
          portFile,     \* workspace -> the port in its file, or 0
          stored,       \* _sidecar_port, or 0
          validated,    \* history: the server that answered for the stored port
          monitor       \* the monitor: what it asks of whom, and the answer

vars == <<server, port, listener, portFile, stored, validated, monitor>>

Ports == 1 .. MaxPort
Nobody == "nobody"
Roots == {RootOf[s] : s \in Servers} \cup {Ours}
Sleeping == [at |-> "sleep", port |-> 0, by |-> Nobody]

Init ==
    /\ server = [s \in Servers |-> "off"] /\ port = [s \in Servers |-> 0]
    /\ listener = [p \in Ports |-> Nobody] /\ portFile = [r \in Roots |-> 0]
    /\ stored = 0 /\ validated = Nobody /\ monitor = Sleeping

-----------------------------------------------------------------------------
(* The language servers.                                                    *)

\* _find_available_port binds to try a port and lets go of it.
FindPort(s) ==
    /\ server[s] = "off"
    /\ \E p \in Ports : /\ listener[p] = Nobody
                        /\ \A q \in 1 .. p - 1 : listener[q] # Nobody
                        /\ port' = [port EXCEPT ![s] = p]
    /\ server' = [server EXCEPT ![s] = "binding"]
    /\ UNCHANGED <<listener, portFile, stored, validated, monitor>>

NoPort(s) ==
    /\ server[s] = "off" /\ \A p \in Ports : listener[p] # Nobody
    /\ server' = [server EXCEPT ![s] = "alone"]
    /\ UNCHANGED <<port, listener, portFile, stored, validated, monitor>>

\* Another process may have taken the port meanwhile: the sidecar's thread ends,
\* which opens the barrier too.
Bind(s) ==
    /\ server[s] = "binding"
    /\ IF listener[port[s]] = Nobody
       THEN /\ listener' = [listener EXCEPT ![port[s]] = s]
            /\ server' = [server EXCEPT ![s] = "ready"]
       ELSE server' = [server EXCEPT ![s] = "failed"] /\ UNCHANGED listener
    /\ UNCHANGED <<port, portFile, stored, validated, monitor>>

\* Written when the barrier opens; a server whose sidecar failed writes it too.
WritePortFile(s) ==
    /\ server[s] \in {"ready", "failed"}
    /\ portFile' = [portFile EXCEPT ![RootOf[s]] = port[s]]
    /\ server' = [server EXCEPT ![s] = "up"]
    /\ UNCHANGED <<port, listener, stored, validated, monitor>>

Free(s) == [p \in Ports |-> IF listener[p] = s THEN Nobody ELSE listener[p]]

\* _stop_mcp_sidecar removes the file of the workspace, whoever wrote it; the
\* sidecar ends with the process.
Stop(s) ==
    /\ server[s] = "up"
    /\ portFile' = [portFile EXCEPT ![RootOf[s]] = 0]
    /\ server' = [server EXCEPT ![s] = "gone"] /\ listener' = Free(s)
    /\ UNCHANGED <<port, stored, validated, monitor>>

Crash(s) ==
    /\ server[s] \in {"binding", "ready", "failed", "up", "alone"}
    /\ server' = [server EXCEPT ![s] = "gone"] /\ listener' = Free(s)
    /\ UNCHANGED <<port, portFile, stored, validated, monitor>>

-----------------------------------------------------------------------------
(* _sidecar_monitor of the MCP server.                                      *)

\* Mutant: once a port is stored, the file is not read again.
PollUntilFound ==
    /\ monitor.at = "sleep" /\ portFile[Ours] # 0 /\ stored = 0
    /\ monitor' = [monitor EXCEPT !.at = "ask", !.port = portFile[Ours]]
    /\ UNCHANGED <<server, port, listener, portFile, stored, validated>>

\* It wakes, and asks the port of the file who it is if that is news.
Poll ==
    /\ monitor.at = "sleep" /\ portFile[Ours] # 0 /\ portFile[Ours] # stored
    /\ monitor' = [monitor EXCEPT !.at = "ask", !.port = portFile[Ours]]
    /\ UNCHANGED <<server, port, listener, portFile, stored, validated>>

\* /health answers with the workspace, or nobody answers.
Health ==
    /\ monitor.at = "ask"
    /\ monitor' = [monitor EXCEPT !.at = "told", !.by = listener[monitor.port]]
    /\ UNCHANGED <<server, port, listener, portFile, stored, validated>>

\* Mutant: who answers is the sidecar.
Answers == monitor.by # Nobody

Matches == monitor.by # Nobody /\ RootOf[monitor.by] = Ours

Store ==
    /\ monitor.at = "told" /\ monitor' = Sleeping
    /\ IF Matches THEN stored' = monitor.port /\ validated' = monitor.by
       ELSE UNCHANGED <<stored, validated>>
    /\ UNCHANGED <<server, port, listener, portFile>>

-----------------------------------------------------------------------------

Monitor == Poll \/ Health \/ Store
Next ==
    \/ \E s \in Servers : FindPort(s) \/ NoPort(s) \/ Bind(s) \/ WritePortFile(s) \/ Stop(s) \/ Crash(s)
    \/ Monitor

\* The monitor's loop goes on for ever.
Fair == WF_vars(Monitor)
Spec == Init /\ [][Next]_vars /\ Fair

-----------------------------------------------------------------------------

\* A call is delegated to the port stored: as long as the server that answered
\* for it lives, that is a sidecar of our workspace.  (Once it is gone, its port
\* may be another's, which nothing notices.)
CallsStayInWorkspace ==
    (stored # 0 /\ server[validated] # "gone") =>
        listener[stored] = validated /\ RootOf[validated] = Ours

\* When the file keeps naming a port on which a sidecar of our workspace
\* listens, that port becomes and stays the stored one, whatever was stored
\* before: a language server that restarts on another port is found.
Settled(p) == portFile[Ours] = p /\ listener[p] # Nobody /\ RootOf[listener[p]] = Ours
NewSidecarIsFound == \A p \in Ports : <>[]Settled(p) => <>[](stored = p)
=============================================================================
