----------------------------- MODULE McpBridge -----------------------------
(***************************************************************************)
(* mcp/bridge.py: the process that carries JSON-RPC between a client on    *)
(* stdio and the HTTP sidecar.  One task reads stdin into a bounded queue, *)
(* one forwards the queue to the sidecar, one relays answers, one watches  *)
(* for requests that take too long.  A lost connection is answered for and *)
(* tried again; after the last attempt a standalone server is started.     *)
(*                                                                         *)
(* Lines are numbered in the order the client writes them.  The transport, *)
(* the sidecar and the standalone server are external: a connection may    *)
(* fail to open, may raise, or may just end.                               *)
(***************************************************************************)
EXTENDS Naturals, Sequences, FiniteSets

CONSTANTS MaxLines,      \* lines the client writes
          QueueSize,     \* asyncio.Queue(maxsize)
          MaxReconnects  \* _MAX_RECONNECT_ATTEMPTS

ASSUME BridgeBounds == MaxLines \in Nat /\ QueueSize \in Nat \ {0} /\ MaxReconnects \in Nat

VARIABLES kind,      \* line -> "request", "notification" or "odd", of those written
          stdin,     \* lines written and not read
          closed,    \* the client closed stdin
          reader,    \* "reading", "ended" or "cancelled": _relay_stdin
          hand,      \* the line _relay_stdin waits to put, or 0
          queue,     \* stdin_queue; Eof is the sentinel
          attempt,   \* turns of the reconnection loop
          phase,     \* where run() is
          sending,   \* the line _forward_to_sidecar has taken, or 0
          pending,   \* pending_requests
          forwarded, \* lines given to the sidecar or to the standalone server
          working,   \* requests the sidecar or the standalone server works on
          answers,   \* answers on their way back
          out        \* line -> what the client was told

vars == <<kind, stdin, closed, reader, hand, queue, attempt, phase, sending, pending,
          forwarded, working, answers, out>>

Lines == 1 .. MaxLines
Kinds == {"request", "notification", "odd"}
Phases == {"backoff", "connect", "up", "fallback", "done"}
Eof == MaxLines + 1
Requests == {l \in 1 .. Len(kind) : kind[l] = "request"}

Init ==
    /\ kind = <<>> /\ stdin = <<>> /\ closed = FALSE
    /\ reader = "reading" /\ hand = 0 /\ queue = <<>>
    /\ attempt = 0 /\ phase = "connect" /\ sending = 0
    /\ pending = {} /\ forwarded = <<>> /\ working = {} /\ answers = <<>>
    /\ out = [l \in Lines |-> <<>>]

Told(F, what) == [l \in Lines |-> IF l \in F THEN Append(out[l], what) ELSE out[l]]

-----------------------------------------------------------------------------
(* The client and _relay_stdin.                                            *)

Write(k) ==
    /\ ~closed /\ Len(kind) < MaxLines
    /\ kind' = Append(kind, k) /\ stdin' = Append(stdin, Len(kind) + 1)
    /\ UNCHANGED <<closed, reader, hand, queue, attempt, phase, sending, pending,
                   forwarded, working, answers, out>>

CloseStdin ==
    /\ ~closed /\ closed' = TRUE
    /\ UNCHANGED <<kind, stdin, reader, hand, queue, attempt, phase, sending, pending,
                   forwarded, working, answers, out>>

ReadLine ==
    /\ reader = "reading" /\ hand = 0 /\ stdin # <<>>
    /\ hand' = Head(stdin) /\ stdin' = Tail(stdin)
    /\ UNCHANGED <<kind, closed, reader, queue, attempt, phase, sending, pending,
                   forwarded, working, answers, out>>

ReadEof ==
    /\ reader = "reading" /\ hand = 0 /\ stdin = <<>> /\ closed
    /\ hand' = Eof
    /\ UNCHANGED <<kind, stdin, closed, reader, queue, attempt, phase, sending, pending,
                   forwarded, working, answers, out>>

\* put() waits while the queue is full.
PutLine ==
    /\ reader = "reading" /\ hand # 0 /\ Len(queue) < QueueSize
    /\ queue' = Append(queue, hand) /\ hand' = 0
    /\ reader' = IF hand = Eof THEN "ended" ELSE "reading"
    /\ UNCHANGED <<kind, stdin, closed, attempt, phase, sending, pending, forwarded,
                   working, answers, out>>

-----------------------------------------------------------------------------
(* The connection: _forward_to_sidecar and _relay_stdout in a task group    *)
(* inside the transport.                                                    *)

\* Tasks of the bridge that run() cancels when it leaves its loop.
Stop == reader' = IF reader = "reading" THEN "cancelled" ELSE reader

Backoff ==
    /\ phase = "backoff" /\ phase' = "connect"
    /\ UNCHANGED <<kind, stdin, closed, reader, hand, queue, attempt, sending, pending,
                   forwarded, working, answers, out>>

Connect ==
    /\ phase = "connect" /\ phase' = "up"
    /\ UNCHANGED <<kind, stdin, closed, reader, hand, queue, attempt, sending, pending,
                   forwarded, working, answers, out>>

\* Mutant: the pending requests are answered for and kept.
KeepPending(P) == P

Unanswered(P) == {}

\* The transport raises, on opening or later: what was on its way is gone, the
\* pending requests are answered for, and the loop goes on or falls back.
ConnectionLost ==
    /\ phase \in {"connect", "up"}
    /\ out' = Told(pending, "error") /\ pending' = Unanswered(pending)
    /\ sending' = 0 /\ working' = {} /\ answers' = <<>>
    /\ IF attempt < MaxReconnects
       THEN attempt' = attempt + 1 /\ phase' = "backoff" /\ UNCHANGED reader
       ELSE phase' = "fallback" /\ Stop /\ UNCHANGED attempt
    /\ UNCHANGED <<kind, stdin, closed, hand, queue, forwarded>>

\* The task group ends without an error, on the sentinel, on a line that is no
\* JSON-RPC message, or when the stream of answers ends: run() returns.
Leave ==
    /\ phase' = "done" /\ Stop
    /\ sending' = 0 /\ working' = {} /\ answers' = <<>>
    /\ UNCHANGED <<kind, stdin, closed, hand, attempt, forwarded, out>>

\* Mutant: a request is noted only once it was sent.
ForwardUnnoted ==
    /\ phase = "up" /\ sending = 0 /\ queue # <<>> /\ Head(queue) # Eof
    /\ queue' = Tail(queue) /\ UNCHANGED pending
    /\ IF kind[Head(queue)] = "odd" THEN Leave
       ELSE /\ sending' = Head(queue)
            /\ UNCHANGED <<kind, stdin, closed, reader, hand, attempt, phase, forwarded,
                           working, answers, out>>

\* A request is noted before it is parsed as a message and sent.
Forward ==
    /\ phase = "up" /\ sending = 0 /\ queue # <<>> /\ Head(queue) # Eof
    /\ queue' = Tail(queue)
    /\ pending' = pending \cup ({Head(queue)} \cap Requests)
    /\ IF kind[Head(queue)] = "odd" THEN Leave
       ELSE /\ sending' = Head(queue)
            /\ UNCHANGED <<kind, stdin, closed, reader, hand, attempt, phase, forwarded,
                           working, answers, out>>

ForwardEof ==
    /\ phase = "up" /\ sending = 0 /\ queue # <<>> /\ Head(queue) = Eof
    /\ queue' = Tail(queue) /\ UNCHANGED pending /\ Leave

Send ==
    /\ phase = "up" /\ sending # 0
    /\ sending' = 0 /\ forwarded' = Append(forwarded, sending)
    /\ working' = working \cup ({sending} \cap Requests)
    /\ UNCHANGED <<kind, stdin, closed, reader, hand, queue, attempt, phase, pending,
                   answers, out>>

StreamEnds == phase = "up" /\ Leave /\ UNCHANGED <<queue, pending>>

SidecarAnswers(l) ==
    /\ phase = "up" /\ l \in working
    /\ working' = working \ {l} /\ answers' = Append(answers, l)
    /\ UNCHANGED <<kind, stdin, closed, reader, hand, queue, attempt, phase, sending,
                   pending, forwarded, out>>

Relay ==
    /\ phase = "up" /\ answers # <<>>
    /\ answers' = Tail(answers)
    /\ pending' = pending \ {Head(answers)}
    /\ out' = Told({Head(answers)}, "result")
    /\ UNCHANGED <<kind, stdin, closed, reader, hand, queue, attempt, phase, sending,
                   forwarded, working>>

\* Mutant: the watchdog belongs to the first connection.
TimeOutOfFirst(P) ==
    /\ attempt = 0 /\ phase \notin {"fallback", "done"}
    /\ P # {} /\ P \subseteq pending
    /\ pending' = pending \ P /\ out' = Told(P, "timeout")
    /\ UNCHANGED <<kind, stdin, closed, reader, hand, queue, attempt, phase, sending,
                   forwarded, working, answers>>

\* _timeout_watchdog answers for the requests that are overdue, whatever the
\* state of the connection; an answer may still come.
TimeOut(P) ==
    /\ phase \notin {"fallback", "done"}
    /\ P # {} /\ P \subseteq pending
    /\ pending' = pending \ P /\ out' = Told(P, "timeout")
    /\ UNCHANGED <<kind, stdin, closed, reader, hand, queue, attempt, phase, sending,
                   forwarded, working, answers>>

-----------------------------------------------------------------------------
(* _fallback_standalone.                                                    *)

Drain ==
    /\ phase = "fallback" /\ queue # <<>> /\ Head(queue) # Eof
    /\ queue' = Tail(queue) /\ forwarded' = Append(forwarded, Head(queue))
    /\ working' = working \cup ({Head(queue)} \cap Requests)
    /\ UNCHANGED <<kind, stdin, closed, reader, hand, attempt, phase, sending, pending,
                   answers, out>>

\* The sentinel closes the server's input; the server ends when it has answered.
DrainEof ==
    /\ phase = "fallback" /\ queue # <<>> /\ Head(queue) = Eof /\ working = {}
    /\ queue' = Tail(queue) /\ phase' = "done"
    /\ UNCHANGED <<kind, stdin, closed, reader, hand, attempt, sending, pending,
                   forwarded, working, answers, out>>

ServerAnswers(l) ==
    /\ phase = "fallback" /\ l \in working
    /\ working' = working \ {l} /\ out' = Told({l}, "result")
    /\ UNCHANGED <<kind, stdin, closed, reader, hand, queue, attempt, phase, sending,
                   pending, forwarded, answers>>

-----------------------------------------------------------------------------

Client == CloseStdin \/ \E k \in Kinds : Write(k)
Reader == ReadLine \/ ReadEof \/ PutLine
Session == Forward \/ ForwardEof \/ Send \/ Relay
Outside == ConnectionLost \/ StreamEnds \/ (\E l \in Lines : SidecarAnswers(l))
Watchdog == \E P \in SUBSET pending : TimeOut(P)
Fallback == Drain \/ DrainEof \/ (\E l \in Lines : ServerAnswers(l))

Next == Client \/ Reader \/ Backoff \/ Connect \/ Session \/ Outside \/ Watchdog \/ Fallback

\* The event loop runs its ready tasks, the watchdog's clock goes on, and the
\* standalone server answers.  Nothing is asked of the client or the sidecar.
Fair == /\ WF_vars(Reader) /\ WF_vars(Backoff) /\ WF_vars(Connect) /\ WF_vars(Session)
        /\ WF_vars(Watchdog) /\ WF_vars(Fallback)

Spec == Init /\ [][Next]_vars /\ Fair

-----------------------------------------------------------------------------

Elements(s) == {s[i] : i \in DOMAIN s}

\* While the bridge serves a sidecar, every request the client wrote is still on its way
\* in, is noted as pending, or was answered: a connection that breaks between
\* taking a line from the queue and sending it loses no request.
RequestsAreAccountedFor ==
    phase \notin {"fallback", "done"} =>
        \A l \in Requests :
            \/ l \in Elements(stdin) \cup Elements(queue) \cup {hand} \cup pending \cup working
            \/ out[l] # <<>>

\* A client gets a second answer to a request only when the watchdog had given
\* it up, and never a third; lines reach the server once, in the order written.
AnswersComeOnce ==
    /\ \A l \in Lines : /\ Len(out[l]) <= 2
                        /\ Len(out[l]) = 2 => out[l] = <<"timeout", "result">>
                        /\ out[l] # <<>> => l \in Requests
    /\ \A i, j \in DOMAIN forwarded : i < j => forwarded[i] < forwarded[j]

\* No request is lost by a connection that breaks, nor answered twice unless the
\* watchdog had given it up.
RequestsAreKept == RequestsAreAccountedFor /\ AnswersComeOnce

\* A request the bridge has forwarded is settled: by an answer, by the watchdog
\* or because the connection broke, unless the bridge itself ends.
PendingIsSettled == \A l \in Lines : l \in pending ~> (l \notin pending \/ phase = "done")
=============================================================================
