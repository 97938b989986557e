------------------------------- MODULE Parsing -------------------------------
(***************************************************************************)
(* Parsing (core/parsing/): sessions of the Ivy parser, whose state is the *)
(* globals of its modules, of several threads (parser_session.py,          *)
(* core/adapters/compiler_adapter.py); the extractor that tries the        *)
(* parser, then the lexer, then regular expressions                        *)
(* (tiered_extractor.py); the scanner of tokens (fallback_scanner.py); and *)
(* the tree of symbols that is made of the declarations                    *)
(* (ast_to_symbols.py).                                                    *)
(***************************************************************************)
EXTENDS Naturals, FiniteSets, SequencesExt

CONSTANTS Threads, SourceFiles,
          Content,   \* of a file: "good", "broken", "illegal", "empty", "blank"
          Includes,  \* of a file: the files it includes
          Tokens, MaxTokens, DeclNames, MaxDecls,
          None

VARIABLES env,       \* "full", "noz3" (no parser), "noivy" (no lexer either)
          lock,      \* _ivy_state_lock
          globals,   \* the twelve globals that a session saves
          report,    \* whose filter ip.report_error is
          cwd, thread, extractor,
          tokens, decls   \* what a scan and a parse of some file gave

parseVars == <<env, lock, globals, report, cwd, thread, extractor>>
vars == <<parseVars, tokens, decls>>

Outside == [filename |-> None, stack |-> None]
Reset == [filename |-> None, stack |-> {}]
Idle == [pc |-> "idle", file |-> None, kind |-> None, force |-> 0, nest |-> <<>>,
         saved |-> Outside, errors |-> {}, result |-> None]

Init == /\ env \in {"full", "noz3", "noivy"}
        /\ lock = None /\ globals = Outside /\ report = None /\ cwd = "root"
        /\ thread = [t \in Threads |-> Idle]
        /\ extractor = [parser |-> TRUE, lexer |-> TRUE]
        /\ tokens = <<>> /\ decls = <<>>

(***************************************************************************)
(* ParserSession, CompilerSession                                          *)
(***************************************************************************)
Parses(f) == Content[f] \notin {"broken", "illegal"}
At(t, pc) == thread[t].pc = pc
To(t, pc) == thread' = [thread EXCEPT ![t].pc = pc]
other == <<env, extractor>>

\* Mutant: the session goes on when the lock was not had in time.
EnterAnyway(t) ==
    /\ At(t, "enter")
    /\ lock' = t
    /\ thread' = [thread EXCEPT ![t].pc = "begin", ![t].saved = globals]
    /\ globals' = Reset
    /\ UNCHANGED <<report, cwd, other>>

\* __enter__: the lock, then the globals are saved and reset.
Enter(t) ==
    /\ At(t, "enter") /\ lock = None
    /\ lock' = t
    /\ thread' = [thread EXCEPT ![t].pc = "begin", ![t].saved = globals]
    /\ globals' = Reset
    /\ UNCHANGED <<report, cwd, other>>

\* The parser's filter of errors is set in the session; the compiler goes to the
\* staging directory.
Begin(t) ==
    /\ At(t, "begin") /\ To(t, "run")
    /\ globals' = [globals EXCEPT !.filename = thread[t].file]
    /\ IF thread[t].kind = "parse" THEN report' = t /\ UNCHANGED cwd
                                   ELSE cwd' = "staging" /\ UNCHANGED report
    /\ UNCHANGED <<lock, other>>

\* _lsp_importer parses an included file in the same session.
Import(t, f) ==
    /\ At(t, "run") /\ Content[globals.filename] # "illegal"
    /\ f \in Includes[globals.filename] /\ Len(thread[t].nest) < 2
    /\ thread' = [thread EXCEPT ![t].nest = Append(@, globals.filename)]
    /\ globals' = [filename |-> f, stack |-> globals.stack \cup {globals.filename}]
    /\ UNCHANGED <<lock, report, cwd, other>>

Return(t) ==
    /\ At(t, "run") /\ thread[t].nest # <<>> /\ Parses(globals.filename)
    /\ globals' = [globals EXCEPT !.filename = Last(thread[t].nest)]
    /\ thread' = [thread EXCEPT ![t].nest = Front(@)]
    /\ UNCHANGED <<lock, report, cwd, other>>

\* The parse ends, with a tree or an error, in the file itself or in an included one.
Finish(t) ==
    /\ At(t, "run")
    /\ thread[t].nest = <<>> \/ ~Parses(globals.filename)
    /\ thread' = [thread EXCEPT ![t].pc = "exit", ![t].nest = <<>>,
                     ![t].result = Parses(globals.filename)]
    /\ report' = IF thread[t].kind = "parse" THEN None ELSE report
    /\ cwd' = "root"
    /\ UNCHANGED <<globals, lock, other>>

\* __exit__
Exit(t) ==
    /\ At(t, "exit") /\ To(t, "after")
    /\ globals' = thread[t].saved /\ lock' = None
    /\ UNCHANGED <<report, cwd, other>>

(***************************************************************************)
(* TieredExtractor                                                         *)
(***************************************************************************)
\* An extraction, or a compilation in this process.
Start(t, f, kind, force) ==
    /\ At(t, "idle")
    /\ thread' = [thread EXCEPT ![t] =
                     [Idle EXCEPT !.pc = IF kind = "compile" THEN "enter" ELSE "parser",
                                  !.file = f, !.kind = kind, !.force = force]]
    /\ kind = "compile" => env = "full"
    /\ UNCHANGED <<lock, globals, report, cwd, other>>

Done(t, tier, found) ==
    thread' = [thread EXCEPT ![t].pc = "done", ![t].result = [tier |-> tier, found |-> found]]
Failed(t, tier, error, next) ==
    thread' = [thread EXCEPT ![t].pc = next, ![t].errors = @ \cup {<<tier, error>>}]

session == <<lock, globals, report, cwd>>
HasSymbols(f) == Content[f] \notin {"empty", "blank"}

\* Without the parser its wrapper raises RuntimeError, so it is not remembered.
TryParser(t) ==
    /\ At(t, "parser")
    /\ IF Content[thread[t].file] = "blank" THEN Done(t, 0, FALSE)
       ELSE IF ~extractor.parser \/ thread[t].force \notin {0, 1} THEN To(t, "lexer")
       ELSE IF env # "full" THEN Failed(t, 1, "RuntimeError", "lexer")
       ELSE To(t, "enter")
    /\ UNCHANGED <<session, other>>

\* The lock was not had in time; a compilation has no result then.
GiveUp(t) ==
    /\ At(t, "enter") /\ lock # None
    /\ IF thread[t].kind = "parse" THEN Failed(t, 1, "TimeoutError", "lexer")
                                   ELSE To(t, "done")
    /\ UNCHANGED <<session, other>>

\* With a tree the symbols and references are taken from it, without the lock.
AfterParse(t) ==
    /\ At(t, "after")
    /\ IF thread[t].kind = "compile" THEN To(t, "done")
       ELSE IF thread[t].result THEN Done(t, 1, HasSymbols(thread[t].file))
       ELSE Failed(t, 1, "RuntimeError", "lexer")
    /\ UNCHANGED <<session, other>>

\* fallback_scan: the symbols up to the first illegal character; none at all, and no
\* error, when the lexer cannot be imported.
Scanned(f) == IF env = "noivy" THEN [found |-> FALSE, error |-> FALSE]
              ELSE [found |-> Content[f] \notin {"illegal", "empty"},
                    error |-> Content[f] = "illegal"]

\* Mutant: an error of the lexer counts as a scan with no symbols.
TryLexerQuietly(t) ==
    /\ At(t, "lexer")
    /\ IF extractor.lexer /\ thread[t].force \in {0, 2}
       THEN Done(t, 2, Scanned(thread[t].file).found)
       ELSE To(t, "regex")
    /\ UNCHANGED <<session, other>>

TryLexer(t) ==
    /\ At(t, "lexer")
    /\ LET s == Scanned(thread[t].file)
       IN  IF ~extractor.lexer \/ thread[t].force \notin {0, 2} THEN To(t, "regex")
           ELSE IF ~s.found /\ s.error THEN Failed(t, 2, "RuntimeError", "regex")
           ELSE Done(t, 2, s.found)
    /\ UNCHANGED <<session, other>>

TryRegex(t) == /\ At(t, "regex") /\ Done(t, 3, HasSymbols(thread[t].file))
               /\ UNCHANGED <<session, other>>

\* The caller takes the result.
Take(t) == /\ At(t, "done")
           /\ thread' = [thread EXCEPT ![t] = Idle]
           /\ UNCHANGED <<session, other>>

(***************************************************************************)
(* fallback_scan: a symbol for every declaration, under the object or      *)
(* module whose braces are open                                            *)
(***************************************************************************)
\* Mutant: a scope stays on the stack when its own brace closes.
ClosedLate(stack, depth) == SelectSeq(stack, LAMBDA e : e.depth <= depth)

\* Scopes are pushed with a depth that never falls towards the top.
Closed(stack, depth) == SelectSeq(stack, LAMBDA e : e.depth < depth)

\* The parents of the first n tokens, 0 for none.
Scan(toks) ==
    LET s[n \in 0 .. Len(toks)] ==
            IF n = 0 THEN [depth |-> Len(toks), stack |-> <<>>, parent |-> <<>>]
            ELSE LET p == s[n - 1]
                     in == IF p.stack = <<>> THEN 0 ELSE Last(p.stack).at
                 IN  CASE toks[n] = "{" ->
                              [p EXCEPT !.depth = @ + 1, !.parent = Append(@, 0)]
                       [] toks[n] = "}" ->
                              [p EXCEPT !.depth = @ - 1, !.parent = Append(@, 0),
                                        !.stack = Closed(@, p.depth - 1)]
                       [] toks[n] = "decl" -> [p EXCEPT !.parent = Append(@, in)]
                       [] OTHER -> [p EXCEPT !.parent = Append(@, in),
                                      !.stack = Append(@, [at |-> n, depth |-> p.depth])]
    IN  s[Len(toks)].parent

(***************************************************************************)
(* ast_to_symbols: the declarations of this file, each with its dotted     *)
(* name, are put into a tree                                               *)
(***************************************************************************)
\* is_from_included_file: a declaration with no location counts as the file's own.
Flat(ds) == SelectSeq(ds, LAMBDA d : d.from # "other")

First(S) == CHOOSE i \in S : \A j \in S : i <= j
Parent(name) == Front(name)

\* Mutant: the first symbol of a name, whatever it is.
ByNameFirst(syms, name) == First({i \in DOMAIN syms : syms[i].name = name})

\* The first symbol of the name that is a container, else the first.
ByName(syms, name) ==
    LET S == {i \in DOMAIN syms : syms[i].name = name}
        C == {i \in S : syms[i].kind = "container"}
    IN  First(IF C # {} THEN C ELSE S)

\* _reconstruct_hierarchy: what each symbol is put under, 0 for the root.  A symbol
\* that is copied into its parent shares its list of children with the original.
Tree(syms) ==
    [i \in DOMAIN syms |->
        LET s == syms[i]
            canon == ByName(syms, s.name)
            InSame == canon # i /\ syms[canon].kind = "container"
        IN  IF s.kind = "flat" THEN 0
            ELSE IF InSame THEN canon
            ELSE IF Len(s.name) > 1 /\ \E j \in DOMAIN syms : syms[j].name = Parent(s.name)
            THEN ByName(syms, Parent(s.name))
            ELSE 0]

Read(tok) == /\ Len(tokens) < MaxTokens /\ tokens' = Append(tokens, tok)
             /\ UNCHANGED <<parseVars, decls>>
Declare(d) == /\ Len(decls) < MaxDecls /\ decls' = Append(decls, d)
              /\ UNCHANGED <<parseVars, tokens>>
Decls == [name : DeclNames, kind : {"container", "other", "flat"},
          from : {"own", "other", "unknown"}]

Sessions == \E t \in Threads :
    \/ \E f \in SourceFiles, kind \in {"parse", "compile"}, force \in 0 .. 3 :
          (kind = "compile" => force = 0) /\ Start(t, f, kind, force)
    \/ Enter(t) \/ Begin(t) \/ (\E f \in SourceFiles : Import(t, f)) \/ Return(t) \/ Finish(t)
    \/ Exit(t)
    \/ TryParser(t) \/ GiveUp(t) \/ AfterParse(t) \/ TryLexer(t) \/ TryRegex(t)
    \/ Take(t)

Next == \/ Sessions /\ UNCHANGED <<tokens, decls>>
        \/ \E tok \in Tokens : Read(tok)
        \/ \E d \in Decls : Declare(d)

Spec == Init /\ [][Next]_vars

(***************************************************************************)
(* Properties                                                              *)
(***************************************************************************)
\* Parses and compilations in this process never meet each other's state
\* (ParserSession): the globals, the directory and the filter of errors are as they
\* were whenever the lock is free, and a running session sees the names of its own
\* file and of what that includes.
SessionsAreIsolated ==
    /\ lock = None => globals = Outside /\ report = None /\ cwd = "root"
    /\ \A t \in Threads : At(t, "run") =>
          /\ lock = t /\ thread[t].saved = Outside
          /\ thread[t].nest = <<>> => globals.filename = thread[t].file
          /\ thread[t].nest # <<>> => thread[t].nest[1] = thread[t].file
          /\ thread[t].kind = "parse" <=> report = t

\* Where there is a lexer an extraction finds the symbols of any file that has some,
\* whatever fails or is late (extract).
SymbolsAreFound ==
    \A t \in Threads : At(t, "done") /\ thread[t].kind = "parse" /\ env # "noivy" =>
        (thread[t].result.found <=> HasSymbols(thread[t].file))

\* A declaration is put under the last object before it whose body is open, in any
\* text, half-written ones too, in which every object has a body (fallback_scan).
Depth(i, j) == Cardinality({k \in i .. j : tokens[k] = "{"})
Ends(i, j) == Cardinality({k \in i .. j : tokens[k] = "}"})
ScanNests ==
    (\A i \in DOMAIN tokens : tokens[i] = "obj" =>
        i = Len(tokens) \/ tokens[i + 1] = "{") =>
    \A i \in DOMAIN tokens : tokens[i] \in {"obj", "decl"} =>
        LET open == {j \in 1 .. i - 1 : tokens[j] = "obj" /\
                       \A k \in j + 1 .. i - 1 : Depth(j + 1, k) > Ends(j + 1, k)}
        IN  Scan(tokens)[i] = IF open = {} THEN 0
                              ELSE CHOOSE j \in open : \A k \in open : k <= j

\* The tree of symbols (_reconstruct_hierarchy) has all of them and no cycle, and what
\* is declared inside an object or module is under it, never under the type or an
\* attribute of its name.
TreeIsFaithful ==
    LET syms == Flat(decls)
        up == Tree(syms)
        Path[n \in 0 .. Len(syms)] == [i \in DOMAIN syms |->
            IF n = 0 THEN i ELSE IF Path[n - 1][i] = 0 THEN 0 ELSE up[Path[n - 1][i]]]
    IN  \A i \in DOMAIN syms :
            /\ Path[Len(syms)][i] = 0
            /\ syms[i].kind # "flat" /\ Len(syms[i].name) > 1
               /\ (\E j \in DOMAIN syms : syms[j].name = Parent(syms[i].name)
                                        /\ syms[j].kind = "container")
               => \/ syms[up[i]].kind = "container"
                     /\ syms[up[i]].name \in {Parent(syms[i].name), syms[i].name}
=============================================================================
