---------------------------- MODULE CallHierarchy ----------------------------
(***************************************************************************)
(* Incoming and outgoing calls (lsp/navigation/call_hierarchy.py), of the  *)
(* edges of the semantic model, or else of the text.  A line of a file is  *)
(* [k, n, c]: "action" n with a body that starts, "inline" an action n     *)
(* with the body { call c }, "monitor" of n, or "call" of n.  The symbols  *)
(* are those of the text that was indexed last, the edges those of the     *)
(* text that was compiled last.                                            *)
(***************************************************************************)
EXTENDS Naturals, FiniteSetsExt, Sequences

CONSTANTS FileSeq,   \* the files, in the order of the symbol table
          Lines, MaxLines, None

AllFiles == {FileSeq[i] : i \in DOMAIN FileSeq}

VARIABLES source, indexed, edges
vars == <<source, indexed, edges>>

Kinds == {"action", "inline", "monitor"}
Actions == {"action", "inline"}

\* The symbols of a text: their kind, name and line.
SymbolsOf(f, t) == {[kind |-> t[i].k, name |-> t[i].n, file |-> f, line |-> i] :
                       i \in {j \in DOMAIN t : t[j].k \in Kinds}}
Symbols(f) == SymbolsOf(f, indexed[f])
AllSymbols == UNION {Symbols(f) : f \in AllFiles}

\* The words of a line.
Words(l) == {l.n, l.c}

\* Mutant: the first symbol that starts at the line or before.
FirstContainer(S, i) ==
    LET before == {s \in S : s.line <= i}
    IN  IF before = {} THEN None ELSE CHOOSE s \in before : \A r \in before : s.line <= r.line

\* The symbol that starts last, not after the line.
ContainerIn(S, i) ==
    LET before == {s \in S : s.line <= i}
    IN  IF before = {} THEN None ELSE CHOOSE s \in before : \A r \in before : r.line <= s.line

(***************************************************************************)
(* The regular expressions                                                 *)
(***************************************************************************)
\* Where an action n is mentioned, except in its own symbol; in the file of the item
\* the lines on which any n is declared are left out.
Callers(n, item) ==
    LET declared == {s.line : s \in {r \in AllSymbols : r.name = n}}
        At(f, i) == ContainerIn(Symbols(f), i)
        mentions(f) == {i \in DOMAIN source[f] :
                           /\ n \in Words(source[f][i])
                           /\ ~(f = item /\ i \in declared)
                           /\ At(f, i) # None
                           /\ ~(At(f, i).name = n /\ At(f, i).kind \in Actions)}
    IN  UNION {{At(f, i) : i \in mentions(f)} : f \in AllFiles}

\* The first symbol of a name in its file, and the first action of a name anywhere.
FirstIn(f, n) ==
    LET S == {s \in Symbols(f) : s.name = n}
    IN  IF S = {} THEN None ELSE CHOOSE s \in S : \A r \in S : s.line <= r.line
ActionNamed(n) ==
    LET S == {s \in AllSymbols : s.name = n /\ s.kind \in Actions}
        Before(s, r) == \E i, j \in DOMAIN FileSeq :
                           /\ FileSeq[i] = s.file /\ FileSeq[j] = r.file
                           /\ i < j \/ (i = j /\ s.line <= r.line)
    IN  IF S = {} THEN None ELSE CHOOSE s \in S : \A r \in S : Before(s, r)

\* The actions that are mentioned below the declaration, up to the next symbol.
Callees(n, item) ==
    LET decl == FirstIn(item, n)
        later == {s.line : s \in {r \in Symbols(item) : r.line > decl.line}}
        end == IF later = {} THEN Len(source[item]) + 1 ELSE Min(later)
        body == {i \in DOMAIN source[item] : decl.line < i /\ i < end}
    IN  IF decl = None THEN {}
        ELSE {ActionNamed(m) : m \in {s.name : s \in {r \in AllSymbols :
                 /\ r.kind \in Actions /\ r.name # n
                 /\ \E i \in body : r.name \in Words(source[item][i])}}}

(***************************************************************************)
(* The edges                                                               *)
(***************************************************************************)
Ends == {e[1] : e \in edges} \cup {e[3] : e \in edges}
\* The node of a name, in the file if there is one.
Nodes(n, f) ==
    LET S == {s \in Ends : s.name = n /\ s.kind \in Actions}
    IN  IF \E s \in S : s.file = f THEN {s \in S : s.file = f} ELSE S
Chosen(S) == IF S = {} THEN None ELSE CHOOSE s \in S : TRUE

EdgesIn(n, f) == {e[1] : e \in {d \in edges : d[3] = Chosen(Nodes(n, f))}}
EdgesOut(n, f) == {e[3] : e \in {d \in edges : d[1] = Chosen(Nodes(n, f)) /\ d[2] = "calls"}}

\* get_incoming_calls, get_outgoing_calls
Incoming(n, f) == IF EdgesIn(n, f) # {} THEN EdgesIn(n, f) ELSE Callers(n, f)
Outgoing(n, f) == IF EdgesOut(n, f) # {} THEN EdgesOut(n, f) ELSE Callees(n, f)

(***************************************************************************)
(* Behaviours                                                              *)
(***************************************************************************)
Total == FoldSet(LAMBDA f, n : n + Len(source[f]), 0, AllFiles)
Type(f, l) ==
    /\ Total < MaxLines /\ source' = [source EXCEPT ![f] = Append(@, l)]
    /\ UNCHANGED <<indexed, edges>>
Index(f) ==
    /\ indexed[f] # source[f] /\ indexed' = [indexed EXCEPT ![f] = source[f]]
    /\ UNCHANGED <<source, edges>>

\* What the compiler finds in a file, of the names that are indexed.
Compiled(f) ==
    LET S == SymbolsOf(f, source[f])
    IN  {<<ContainerIn(S, i), "calls", ActionNamed(source[f][i].c)>> :
            i \in {j \in DOMAIN source[f] : /\ source[f][j].k = "inline"
                                          /\ ActionNamed(source[f][j].c) # None}}
        \cup {<<ContainerIn(S, i), "calls", ActionNamed(source[f][i].n)>> :
            i \in {j \in DOMAIN source[f] : /\ source[f][j].k = "call"
                                          /\ ContainerIn(S, j) # None
                                          /\ ActionNamed(source[f][j].n) # None}}
        \cup {<<s, "monitors", ActionNamed(s.name)>> :
            s \in {r \in S : r.kind = "monitor" /\ ActionNamed(r.name) # None}}
Compile(f) ==
    /\ edges' = {e \in edges : e[1].file # f} \cup Compiled(f)
    /\ UNCHANGED <<source, indexed>>

Init == /\ source = [f \in AllFiles |-> <<>>] /\ indexed = source /\ edges = {}
Next == \E f \in AllFiles : (\E l \in Lines : Type(f, l)) \/ Index(f) \/ Compile(f)
Spec == Init /\ [][Next]_vars

(***************************************************************************)
(* Properties                                                              *)
(***************************************************************************)
Once(n) == Cardinality({s \in AllSymbols : s.name = n /\ s.kind \in Actions}) = 1
Monitored(n) == \E s \in AllSymbols : s.name = n /\ s.kind = "monitor"
AllCompiled == indexed = source /\ edges = UNION {Compiled(f) : f \in AllFiles}

\* What an action calls is called by it, without edges, also while the index lags
\* behind the text, and with the edges of all files: the two scans, of which one goes
\* through a body and the other through all files, and the edges agree
\* (get_incoming_calls, get_outgoing_calls).  Only of actions that are declared once,
\* the caller first in its file and the callee without monitors, the lines of which
\* are taken for declarations in the file of the item too; and the scan for callees
\* leaves out the line of the declaration.
CallsAreDual ==
    edges = {} \/ AllCompiled =>
        \A s \in AllSymbols :
            s.kind \in Actions /\ Once(s.name) /\ FirstIn(s.file, s.name) = s =>
                \A r \in {q \in AllSymbols : q.kind \in Actions /\ Once(q.name)
                                             /\ q.name # s.name /\ ~Monitored(q.name)} :
                    /\ r \in Outgoing(s.name, s.file) => s \in Incoming(r.name, r.file)
                    /\ s \in Incoming(r.name, r.file) =>
                          \/ r \in Outgoing(s.name, s.file)
                          \/ r.name \in Words(source[s.file][s.line])
=============================================================================
