---------------------------- MODULE CompileWorker ----------------------------
(***************************************************************************)
(* The worker process of a compilation (core/compilation/worker.py) and    *)
(* the extraction of the compiled module (core/compilation/extractor.py).  *)
(*                                                                         *)
(* Workers share the server's staging directory: a link for every basename *)
(* to a file of the workspace (core/staging/flat.py).  A worker goes there *)
(* and writes the text it is to compile under the file's basename, through *)
(* the link if there is one.  The user saves files at any moment; the      *)
(* compiler manager kills a worker at any moment.                          *)
(*                                                                         *)
(* A place is a file of the workspace, of the standard library, or a       *)
(* basename that stands for a file of the staging directory itself.  The   *)
(* compiler proper is external: it reads the included files by their names *)
(* from the staging directory.                                             *)
(***************************************************************************)
EXTENDS Naturals, SequencesExt

CONSTANTS Calls,
          Paths, Base,     \* the files of the workspace, sorted; their basenames
          StdFile,         \* of a basename of the standard library: the file
          Texts, Includes, \* texts; the basenames that a text includes
          Modules,         \* modules that the compiler may give
          Empty, None,
          MaxSaves

AllFiles == Range(Paths)
LibraryNames == DOMAIN StdFile
Bases == {Base[f] : f \in AllFiles} \cup LibraryNames
Places == AllFiles \cup Range(StdFile) \cup Bases

VARIABLES contents,   \* of each place
          saved,      \* what the user saved last
          link,       \* the staging directory: the place of a basename
          call,       \* the calls of the worker
          saves,
          mod, ir     \* a compiled module, and what was extracted of it

workVars == <<contents, saved, link, call, saves>>
vars == <<workVars, mod, ir>>

(***************************************************************************)
(* The worker                                                              *)
(***************************************************************************)
Idle == [pc |-> "idle", file |-> None, src |-> None, seen |-> <<>>, ok |-> FALSE,
         alone |-> TRUE]

\* The staging directory: the first file of every basename.
Staged == [b \in Bases |->
    LET S == {i \in DOMAIN Paths : Base[Paths[i]] = b}
    IN  IF S = {} THEN None ELSE Paths[CHOOSE i \in S : \A j \in S : i <= j]]

InitFiles == [p \in Places |-> IF p \in Bases THEN None ELSE CHOOSE t \in Texts : TRUE]

At(c, pc) == call[c].pc = pc
To(c, pc) == call' = [call EXCEPT ![c].pc = pc]
Name(c) == Base[call[c].file]
Running(c) == call[c].pc \in {"stage", "open", "write", "load", "send"}

\* Who else works under the same name: what they compile may be mixed up.
Clash(c, d) == c # d /\ Running(d) /\ Base[call[d].file] = Name(c)

\* A call with the text of the file at that moment; it waits for a permit then.
Submit(c, f) ==
    /\ At(c, "idle")
    /\ call' = [call EXCEPT ![c] = [Idle EXCEPT !.pc = "wait", !.file = f,
                                      !.src = contents[f]]]
    /\ UNCHANGED <<contents, saved, link, saves>>

Start(c) ==
    /\ At(c, "wait")
    /\ call' = [d \in Calls |->
                  IF d = c THEN [call[d] EXCEPT !.pc = "stage",
                                    !.alone = \A e \in Calls : ~Clash(c, e)]
                  ELSE IF Clash(c, d) THEN [call[d] EXCEPT !.alone = FALSE] ELSE call[d]]
    /\ UNCHANGED <<contents, saved, link, saves>>

\* The standard library is linked where the name is free.
Stage(c) ==
    /\ At(c, "stage") /\ To(c, "open")
    /\ link' = [b \in Bases |-> IF link[b] = None /\ b \in LibraryNames THEN StdFile[b]
                                ELSE link[b]]
    /\ UNCHANGED <<contents, saved, saves>>

\* open(source_path, "w") follows the link, and truncates; a name that is not there
\* becomes a file of the directory.
Open(c) ==
    LET place == IF link[Name(c)] = None THEN Name(c) ELSE link[Name(c)]
    IN  /\ At(c, "open") /\ To(c, "write")
        /\ link' = [link EXCEPT ![Name(c)] = place]
        /\ contents' = [contents EXCEPT ![place] = Empty]
        /\ UNCHANGED <<saved, saves>>

Write(c) ==
    /\ At(c, "write") /\ To(c, "load")
    /\ contents' = [contents EXCEPT ![link[Name(c)]] = call[c].src]
    /\ UNCHANGED <<saved, link, saves>>

\* Mutant: what stands at the file itself is compiled, not what was written.
LoadOriginal(c) ==
    /\ At(c, "load")
    /\ call' = [call EXCEPT ![c].pc = "send", ![c].seen = <<contents[call[c].file]>>]
    /\ UNCHANGED <<contents, saved, link, saves>>

\* ivy_load_file reads the text back.
Load(c) ==
    /\ At(c, "load")
    /\ call' = [call EXCEPT ![c].pc = "send", ![c].seen = <<contents[link[Name(c)]]>>]
    /\ UNCHANGED <<contents, saved, link, saves>>

\* An included file; without one by its name the compilation fails.
Import(c, b) ==
    /\ At(c, "send") /\ Len(call[c].seen) = 1
    /\ b \in Includes[call[c].seen[1]]
    /\ call' = IF link[b] = None THEN [call EXCEPT ![c].pc = "failed"]
               ELSE [call EXCEPT ![c].seen = Append(@, contents[link[b]])]
    /\ UNCHANGED <<contents, saved, link, saves>>

\* The extracted module is sent.
Send(c) ==
    /\ At(c, "send")
    /\ call' = [call EXCEPT ![c].pc = "sent", ![c].ok = TRUE]
    /\ UNCHANGED <<contents, saved, link, saves>>

\* The manager kills a worker that is late, or cancelled by another call.
Kill(c) ==
    /\ Running(c)
    /\ To(c, "failed")
    /\ UNCHANGED <<contents, saved, link, saves>>

Take(c) ==
    /\ call[c].pc \in {"sent", "failed"}
    /\ call' = [call EXCEPT ![c] = Idle]
    /\ UNCHANGED <<contents, saved, link, saves>>

\* The user saves; a worker that is to read the same place sees it.
Save(f, t) ==
    /\ saves < MaxSaves /\ saves' = saves + 1
    /\ contents' = [contents EXCEPT ![f] = t] /\ saved' = [saved EXCEPT ![f] = t]
    /\ call' = [c \in Calls |-> IF Running(c) /\ link[Name(c)] = f
                                THEN [call[c] EXCEPT !.alone = FALSE] ELSE call[c]]
    /\ UNCHANGED link

Work == \/ \E c \in Calls : \/ \E f \in AllFiles : Submit(c, f)
                            \/ Start(c) \/ Stage(c) \/ Open(c) \/ Write(c) \/ Load(c)
                            \/ (\E b \in Bases : Import(c, b))
                            \/ Send(c) \/ Kill(c) \/ Take(c)
        \/ \E f \in AllFiles, t \in Texts : Save(f, t)

(***************************************************************************)
(* extract_compiled_module_ir.  A module has actions, each with a body, a  *)
(* sequence in which "bad" raises when it is walked, and parameters that   *)
(* may raise; mixins in the order they are walked, the mixer None without  *)
(* arguments, of which the name of the mixee may raise; exports.           *)
(***************************************************************************)
Requirements == {"require", "ensure", "assume", "assert"}

\* Mutant: the kinds are taken of the mixins that were extracted.
MixerKindOfExtracted(m) ==
    LET good == SelectSeq(m.mixins, LAMBDA x : x.mixer # None /\ ~x.bad)
        K(a) == {i \in DOMAIN good : good[i].mixer = a}
    IN  [a \in DOMAIN m.actions |->
            IF K(a) = {} THEN "direct"
            ELSE good[CHOOSE i \in K(a) : \A j \in K(a) : j <= i].kind]

\* _build_mixer_kind_map: the kind of a mixer is that of its last mixin.
MixerKind(m) ==
    LET K(a) == {i \in DOMAIN m.mixins : m.mixins[i].mixer = a}
    IN  [a \in DOMAIN m.actions |->
            IF K(a) = {} THEN "direct"
            ELSE m.mixins[CHOOSE i \in K(a) : \A j \in K(a) : j <= i].kind]

\* _walk_action_body: what was found before an exception stays.
Walk(body) ==
    LET bad == {i \in DOMAIN body : body[i] = "bad"}
        end == IF bad = {} THEN Len(body)
               ELSE (CHOOSE i \in bad : \A j \in bad : i <= j) - 1
    IN  [i \in {k \in 1 .. end : body[k] \in Requirements} |-> body[i]]

\* An action that cannot be read has its name only; a mixin is left out then.
Extract(m) ==
    IF m = None THEN [success |-> FALSE]
    ELSE [success |-> TRUE,
          actions |-> [a \in DOMAIN m.actions |->
              [params |-> ~m.actions[a].bad,
               exported |-> ~m.actions[a].bad /\ a \in m.exports]],
          exports |-> m.exports,
          mixins |-> SelectSeq(m.mixins, LAMBDA x : ~x.bad),
          requirements |-> [a \in DOMAIN m.actions |->
              [kinds |-> Walk(m.actions[a].body), mixin |-> MixerKind(m)[a]]]]

Extraction == /\ ir = None /\ mod # None
              /\ ir' = Extract(mod)
              /\ UNCHANGED <<workVars, mod>>

Init ==
    /\ contents = InitFiles
    /\ saved = [f \in AllFiles |-> InitFiles[f]]
    /\ link = Staged /\ call = [c \in Calls |-> Idle] /\ saves = 0
    /\ mod \in Modules \cup {None} /\ ir = None

Next == (Work /\ UNCHANGED <<mod, ir>>) \/ Extraction

Spec == Init /\ [][Next]_vars

(***************************************************************************)
(* Properties                                                              *)
(***************************************************************************)
\* A worker that no other one of the same basename overlaps, and whose file is not
\* saved while it runs, compiles the text of its call (compiler_worker).
IrIsOfItsCall ==
    \A c \in Calls : At(c, "sent") /\ call[c].alone => call[c].seen[1] = call[c].src

\* "Run the full Ivy compilation pipeline in an isolated process": when no worker is
\* running the files of the workspace are as the user saved them.
CompilationLeavesFiles ==
    (\A c \in Calls : ~Running(c)) => \A f \in AllFiles : contents[f] = saved[f]

\* What cannot be read of a module costs nothing else (the except clauses of the
\* extractor): every action is there, exported as the exports say or unread, and
\* a requirement is "direct" only in an action that mixes into nothing, whichever
\* mixins were left out.
FailureIsLocal ==
    ir # None => \A a \in DOMAIN mod.actions :
        /\ ir.actions[a].params => (ir.actions[a].exported <=> a \in ir.exports)
        /\ ir.requirements[a].mixin = "direct" <=>
              \A i \in DOMAIN mod.mixins : mod.mixins[i].mixer # a
        /\ \A k \in DOMAIN mod.actions[a].body :
              /\ mod.actions[a].body[k] \in Requirements
              /\ \A j \in 1 .. k : mod.actions[a].body[j] # "bad"
              => mod.actions[a].body[k] \in Range(ir.requirements[a].kinds)
=============================================================================
