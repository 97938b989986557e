------------------------------- MODULE McpTools -------------------------------
(***************************************************************************)
(* The tools of an MCP server: the calls (ToolCalls), which take the port  *)
(* they are delegated to as given, the discovery of the sidecar that sets  *)
(* it (SidecarDiscovery), and the files that tools of several servers of   *)
(* one workspace write (SessionFiles): the journal of a workflow and the   *)
(* log of every call.  They share no state.                                *)
(***************************************************************************)
EXTENDS ToolCalls

CONSTANTS Servers, RootOf, Ours, MaxPort

VARIABLES server, port, listener, portFile, stored, validated, monitor

discoveryVars == <<server, port, listener, portFile, stored, validated, monitor>>
Discovery == INSTANCE SidecarDiscovery

CONSTANTS Processes, PerFile, Backups, MaxEvents, JournalMax, Phases, MaxEntries,
          MaxCrashes, None, Torn

VARIABLES files, events, rotating, raced, state, journal, archive, op, log, taint, crashes

sessionVars == <<files, events, rotating, raced, state, journal, archive, op, log, taint,
                 crashes>>
Sessions == INSTANCE SessionFiles WITH Servers <- Processes

ASSUME DiscoveryBounds == Discovery!Nobody \notin Servers /\ MaxPort \in Nat

\* A file that is missing, or torn, is not one with entries or events in it.
ASSUME SessionBounds ==
    /\ {PerFile, Backups, JournalMax} \subseteq Nat \ {0}
    /\ None # Torn /\ {None, Torn} \cap (Seq(Nat) \cup Seq(Sessions!Entries)) = {}

\* A call gets an answer of its workspace and no older than itself: the port it is
\* delegated to is that of a sidecar of ours, and what it is told was read after it
\* was made (CallsStayInWorkspace of SidecarDiscovery, AnswersAreFresh of ToolCalls).
AnswersAreOfTheCall == AnswersAreFresh /\ Discovery!CallsStayInWorkspace

\* The log keeps its latest events unless two servers wrote it at the same time, the
\* journal and its archive every entry unless one was overtaken or killed in between
\* (of SessionFiles).
FilesAreKept == Sessions!LogKeepsTheLatest /\ Sessions!JournalIsKept

\* Every call is answered, and a sidecar that keeps listening is found
\* (EveryCallIsAnswered of ToolCalls, NewSidecarIsFound of SidecarDiscovery).
CallsAreServed == EveryCallIsAnswered /\ Discovery!NewSidecarIsFound
=============================================================================
