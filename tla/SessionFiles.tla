----------------------------- MODULE SessionFiles -----------------------------
(***************************************************************************)
(* Files that several servers of one workspace write without a lock: the   *)
(* log of a session, which is rotated (infra/observability/session.py),    *)
(* and the state and journal of a workflow (mcp/tools/workflow_state.py).  *)
(* A step is one system call or the text of one read or write; a server    *)
(* may be killed between any two.                                          *)
(***************************************************************************)
EXTENDS Naturals, SequencesExt

CONSTANTS Servers,
          PerFile,      \* events in a file of max_bytes
          Backups,      \* backup_count
          MaxEvents,
          JournalMax,   \* 200
          Phases, MaxEntries, MaxCrashes,
          None, Torn    \* no file, a file that was opened for writing and not written

VARIABLES files,    \* events.jsonl, at 0, and its backups
          events,   \* how many were logged
          rotating, \* of a server: what it does to the log, the next backup to move
          raced,    \* two servers wrote the log at the same time
          state, journal, archive,
          op,       \* of a server: the call it works on
          log,      \* the entries written to the journal, in order
          taint,    \* "overlap", "crash": what may have cost entries
          crashes

logVars == <<files, events, rotating, raced>>
flowVars == <<state, journal, archive, op, log, taint, crashes>>
vars == <<logVars, flowVars>>

(***************************************************************************)
(* log_event, _maybe_rotate                                                *)
(***************************************************************************)
Resting == [pc |-> "idle", at |-> 0]
Rests(s) == rotating[s].pc = "idle"
Goes(s, pc, i) == rotating' = [rotating EXCEPT ![s] = [pc |-> pc, at |-> i]]

\* The size is checked first.
LogEvent(s) ==
    /\ Rests(s) /\ events < MaxEvents
    /\ IF files[0] # None /\ Len(files[0]) >= PerFile THEN Goes(s, "shift", Backups)
                                                      ELSE Goes(s, "append", 0)
    /\ raced' = (raced \/ \E q \in Servers \ {s} : ~Rests(q))
    /\ UNCHANGED <<files, events, flowVars>>

\* Mutant: the backups are moved from the first one on.
ShiftUpwards(s) ==
    LET i == Backups + 1 - rotating[s].at
    IN  /\ rotating[s].pc = "shift"
        /\ files' = IF files[i] = None THEN files
                    ELSE IF i = Backups THEN [files EXCEPT ![i] = None]
                    ELSE [files EXCEPT ![i + 1] = files[i], ![i] = None]
        /\ IF rotating[s].at = 1 THEN Goes(s, "rename", 0)
                                 ELSE Goes(s, "shift", rotating[s].at - 1)
        /\ UNCHANGED <<events, raced, flowVars>>

\* The last backup is removed, each other one takes the next number, over what is
\* there.
Shift(s) ==
    LET i == rotating[s].at
    IN  /\ rotating[s].pc = "shift"
        /\ files' = IF files[i] = None THEN files
                    ELSE IF i = Backups THEN [files EXCEPT ![i] = None]
                    ELSE [files EXCEPT ![i + 1] = files[i], ![i] = None]
        /\ IF i = 1 THEN Goes(s, "rename", 0) ELSE Goes(s, "shift", i - 1)
        /\ UNCHANGED <<events, raced, flowVars>>

Rename(s) ==
    /\ rotating[s].pc = "rename" /\ Goes(s, "append", 0)
    /\ files' = IF files[0] = None THEN files
                ELSE [files EXCEPT ![1] = files[0], ![0] = None]
    /\ UNCHANGED <<events, raced, flowVars>>

AppendEvent(s) ==
    /\ rotating[s].pc = "append" /\ Goes(s, "idle", 0)
    /\ files' = [files EXCEPT ![0] = IF @ = None THEN <<events + 1>> ELSE Append(@, events + 1)]
    /\ events' = events + 1
    /\ UNCHANGED <<raced, flowVars>>

(***************************************************************************)
(* ivy_workflow_state                                                      *)
(***************************************************************************)
NoOp == [pc |-> "idle", name |-> None, phase |-> None, entry |-> None, read |-> <<>>]
Doing(s, pc) == op[s].pc = pc
To(s, pc) == op' = [op EXCEPT ![s].pc = pc]

\* A record of the journal: an event in a phase, or a change of phase.
Entries == ({"event"} \cup Phases) \X (Phases \cup {None})

\* A file that is missing or cannot be read has nothing in it.
Read(file) == IF file \in {None, Torn} THEN <<>> ELSE file
Phase == IF state \in {None, Torn} THEN None ELSE state

\* _handle_set and _handle_append_journal read the state first.
Call(s, name, phase) ==
    /\ Doing(s, "idle") /\ Len(log) < MaxEntries
    /\ op' = [op EXCEPT ![s] = [NoOp EXCEPT !.name = name, !.phase = phase,
                !.pc = IF name = "set" THEN "state" ELSE "read",
                !.entry = IF name = "append" THEN <<"event", Phase>>
                          ELSE IF Phase \notin {None, phase} THEN <<Phase, phase>>
                          ELSE None]]
    /\ taint' = IF \E q \in Servers \ {s} : ~Doing(q, "idle") THEN taint \cup {"overlap"}
                ELSE taint
    /\ UNCHANGED <<logVars, state, journal, archive, log, crashes>>

\* _handle_set writes the state; a change of phase goes to the journal.
OpenState(s) ==
    /\ Doing(s, "state") /\ To(s, "set") /\ state' = Torn
    /\ UNCHANGED <<logVars, journal, archive, log, taint, crashes>>
WriteState(s) ==
    /\ Doing(s, "set") /\ state' = op[s].phase
    /\ To(s, IF op[s].entry = None THEN "idle" ELSE "read")
    /\ UNCHANGED <<logVars, journal, archive, log, taint, crashes>>

Clear(s) ==
    /\ Doing(s, "idle") /\ state # None /\ state' = None
    /\ UNCHANGED <<logVars, journal, archive, op, log, taint, crashes>>

ReadJournal(s) ==
    /\ Doing(s, "read")
    /\ op' = [op EXCEPT ![s].read = Append(Read(journal), op[s].entry), ![s].pc = "open"]
    /\ UNCHANGED <<logVars, state, journal, archive, log, taint, crashes>>

OpenJournal(s) ==
    /\ Doing(s, "open") /\ journal' = Torn /\ To(s, "write")
    /\ UNCHANGED <<logVars, state, archive, log, taint, crashes>>

\* Only an appended event looks at the size.
WriteJournal(s) ==
    /\ Doing(s, "write") /\ journal' = op[s].read
    /\ log' = Append(log, op[s].entry)
    /\ To(s, IF op[s].name = "append" /\ Len(op[s].read) > JournalMax THEN "rotate"
             ELSE "idle")
    /\ UNCHANGED <<logVars, state, archive, taint, crashes>>

Half(entries) == Len(entries) \div 2
OpenArchive(s) ==
    /\ Doing(s, "rotate")
    /\ op' = [op EXCEPT ![s].pc = "archive", ![s].entry = Read(archive)]
    /\ archive' = Torn
    /\ UNCHANGED <<logVars, state, journal, log, taint, crashes>>

\* Mutant: the archive of the day is written anew.
WriteArchiveAnew(s) ==
    /\ Doing(s, "archive") /\ To(s, "reopen")
    /\ archive' = SubSeq(op[s].read, 1, Half(op[s].read))
    /\ UNCHANGED <<logVars, state, journal, log, taint, crashes>>

\* _rotate_journal: the older half goes to the archive of the day, then out of the
\* journal.
WriteArchive(s) ==
    /\ Doing(s, "archive") /\ To(s, "reopen")
    /\ archive' = op[s].entry \o SubSeq(op[s].read, 1, Half(op[s].read))
    /\ UNCHANGED <<logVars, state, journal, log, taint, crashes>>
ReopenJournal(s) ==
    /\ Doing(s, "reopen") /\ To(s, "keep") /\ journal' = Torn
    /\ UNCHANGED <<logVars, state, archive, log, taint, crashes>>
KeepJournal(s) ==
    /\ Doing(s, "keep") /\ To(s, "idle")
    /\ journal' = SubSeq(op[s].read, Half(op[s].read) + 1, Len(op[s].read))
    /\ UNCHANGED <<logVars, state, archive, log, taint, crashes>>

\* The server is killed.
Crash(s) ==
    /\ ~Doing(s, "idle") /\ crashes < MaxCrashes /\ crashes' = crashes + 1
    /\ taint' = IF op[s].pc \in {"write", "archive", "reopen", "keep"}
                THEN taint \cup {"crash"} ELSE taint
    /\ op' = [op EXCEPT ![s] = NoOp]
    /\ UNCHANGED <<logVars, state, journal, archive, log>>

Logging == \E s \in Servers : LogEvent(s) \/ Shift(s) \/ Rename(s) \/ AppendEvent(s)
Workflow == \E s \in Servers :
    \/ Call(s, "append", None) \/ \E p \in Phases : Call(s, "set", p)
    \/ OpenState(s) \/ WriteState(s) \/ Clear(s) \/ ReadJournal(s) \/ OpenJournal(s)
    \/ WriteJournal(s) \/ OpenArchive(s) \/ WriteArchive(s) \/ ReopenJournal(s)
    \/ KeepJournal(s) \/ Crash(s)

Init ==
    /\ files = [i \in 0 .. Backups |-> None] /\ events = 0 /\ raced = FALSE
    /\ rotating = [s \in Servers |-> Resting]
    /\ state = None /\ journal = None /\ archive = None
    /\ op = [s \in Servers |-> NoOp] /\ log = <<>> /\ taint = {} /\ crashes = 0

Next == Logging \/ Workflow
Spec == Init /\ [][Next]_vars

(***************************************************************************)
(* Properties                                                              *)
(***************************************************************************)
Logged == UNION {Range(Read(files[i])) : i \in DOMAIN files}

\* The log keeps its latest events in order and loses only the oldest ones, and those
\* only when all backups are full (_maybe_rotate), if servers did not write it at
\* the same time.
LogKeepsTheLatest ==
    ~raced =>
        /\ \A e \in 1 .. events : e + Backups * PerFile > events => e \in Logged
        /\ \A i, j \in DOMAIN files : i < j =>
              \A d \in Range(Read(files[i])), e \in Range(Read(files[j])) : e < d

\* Archive and journal together hold every entry once, in order (_rotate_journal),
\* unless two servers were at work at the same time, or one was killed while it
\* had a file of theirs open or moved entries.
JournalIsKept ==
    taint = {} /\ (\A s \in Servers : Doing(s, "idle")) =>
        Read(archive) \o Read(journal) = log
=============================================================================
