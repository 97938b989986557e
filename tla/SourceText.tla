----------------------------- MODULE SourceText -----------------------------
(***************************************************************************)
(* What is taken of a text without compiling it: the requirements and      *)
(* writes of its blocks, by three extractors (core/analysis/               *)
(* requirement_extractor.py from the syntax tree, lexer_requirement_       *)
(* extractor.py from tokens, light_mode_extractor.py by regular            *)
(* expressions), the structural checks (core/structural_lint.py), the      *)
(* coverage hints (core/coverage_hints.py) and the diagnostics that are    *)
(* made of them (lsp/diagnostics/compute.py).                              *)
(*                                                                         *)
(* A text is a sequence of lines with one statement or brace each, a       *)
(* record of what it is, t, and the name in it, n: "action", "monitor"     *)
(* (also of "init"), "object" and "if" lines open a brace, "close" closes  *)
(* one, "require" reads and "set" writes a variable, "relation" declares   *)
(* one; "#require" and "#monitor" are commented out; "bad" has a character *)
(* that the lexer does not know, "foreign" a declaration that a parse      *)
(* includes from another file.                                             *)
(***************************************************************************)
EXTENDS Naturals, FiniteSets, SequencesExt

CONSTANTS Lines, MaxLines,
          Resolvable   \* the includes that are resolved

VARIABLES text,    \* the text in the editor
          graphed    \* the text that the graph was made of

Line(t) == {i \in DOMAIN text : text[i].t = t}
OpenKinds == {"action", "monitor", "object", "if"}

\* For some checks the braces in comments count.
NestsInComments(x, k) == x[k].t \in OpenKinds \cup {"#monitor"}

Nests(x, k) == x[k].t \in OpenKinds

Balance(Opening(_, _), x, i, j) ==
    <<Cardinality({k \in i .. j : Opening(x, k)}),
      Cardinality({k \in i .. j : x[k].t = "close"})>>

\* _find_matching_rcb, _find_matching_brace: the line that closes the brace of line i.
Closes(x, i) ==
    LET S == {j \in i + 1 .. Len(x) :
                 x[j].t = "close"
                 /\ LET b == Balance(Nests, x, i + 1, j) IN b[2] = b[1] + 1}
    IN  IF S = {} THEN 0 ELSE CHOOSE j \in S : \A k \in S : j <= k

(***************************************************************************)
(* Requirements and writes: records of the line, the action and the        *)
(* variable                                                                *)
(***************************************************************************)
Of(x, K, action) ==
    [reqs |-> {[line |-> k, action |-> action, var |-> x[k].n] :
                  k \in {k \in K : x[k].t = "require"}},
     writes |-> {[line |-> k, var |-> x[k].n] : k \in {k \in K : x[k].t = "set"}}]
All(x, Blocks, Name(_)) ==
    LET of(i) == Of(x, i + 1 .. Closes(x, i) - 1, Name(i))
    IN  [reqs |-> UNION {of(i).reqs : i \in Blocks},
         writes |-> UNION {of(i).writes : i \in Blocks}]

\* A text that parses: every brace is matched, monitors and actions stand at the
\* top or in objects, statements in them.
Within(x, i) == {j \in 1 .. i - 1 : Nests(x, j) /\ (Closes(x, j) = 0 \/ Closes(x, j) > i)}
Parses(x) ==
    /\ \A i \in DOMAIN x : Nests(x, i) => Closes(x, i) # 0
    /\ Cardinality({i \in DOMAIN x : Nests(x, i)})
          = Cardinality({i \in DOMAIN x : x[i].t = "close"})
    /\ \A i \in DOMAIN x :
          LET in == {x[j].t : j \in Within(x, i)}
          IN  /\ x[i].t # "bad"
              /\ x[i].t \in {"action", "monitor", "object", "relation", "export",
                             "foreign"} => in \subseteq {"object"}
              /\ x[i].t \in {"require", "set", "if"} => in \cap {"action", "monitor"} # {}

\* extract_requirements_full: the bodies of the text's own actions; the name of one
\* in an object has the object's name before it.
Qualified(x, i) == IF Within(x, i) = {} THEN x[i].n ELSE x[i].n \o ".in"
FromTree(x) ==
    All(x, {i \in DOMAIN x : x[i].t \in {"action", "monitor"}},
        LAMBDA i : Qualified(x, i))

\* Mutant: the search goes on inside a block that was found.
BlocksNested(x) ==
    {i \in DOMAIN x : x[i].t \in {"action", "monitor", "if"} /\ Closes(x, i) # 0}

\* _find_blocks: after a block the search goes on behind it.
Blocks(x) ==
    LET found[n \in 0 .. Len(x)] ==
            IF n = 0 THEN [next |-> 1, at |-> {}]
            ELSE IF n >= found[n - 1].next /\ x[n].t \in {"action", "monitor"}
                    /\ Closes(x, n) # 0
                 THEN [next |-> Closes(x, n) + 1, at |-> found[n - 1].at \cup {n}]
                 ELSE found[n - 1]
    IN  found[Len(x)].at
FromTokens(x) == All(x, Blocks(x), LAMBDA i : x[i].n)

\* _extract_requirements_regex: every opening that matches, one in a comment as well.
FromRegex(x) ==
    All(x, {i \in DOMAIN x : x[i].t \in {"action", "monitor", "#monitor"}
                             /\ Closes(x, i) # 0},
        LAMBDA i : x[i].n)

\* extract_requirements_light: by tokens, unless the lexer has an error.
Light(x) == IF \E i \in DOMAIN x : x[i].t = "bad" THEN FromRegex(x) ELSE FromTokens(x)

(***************************************************************************)
(* Structural checks: sets of the lines reported                           *)
(***************************************************************************)
MissingHeader(x) == x = <<>> \/ x[1].t # "lang"

\* Mutant: the depth is not set to zero again by a closing brace too many.
BracesSinking(x) ==
    [stray |-> {i \in DOMAIN x : x[i].t = "close" /\
                   LET b == Balance(Nests, x, 1, i) IN b[1] < b[2]},
     unclosed |-> LET b == Balance(Nests, x, 1, Len(x))
                  IN  IF b[1] > b[2] THEN b[1] - b[2] ELSE 0]

\* The closing braces with nothing open, and the number that stay open.
Braces(x) ==
    LET s[n \in 0 .. Len(x)] ==
            IF n = 0 THEN [stray |-> {}, unclosed |-> 0]
            ELSE LET p == s[n - 1]
                 IN  CASE Nests(x, n) -> [p EXCEPT !.unclosed = @ + 1]
                       [] x[n].t = "close" /\ p.unclosed > 0 -> [p EXCEPT !.unclosed = @ - 1]
                       [] x[n].t = "close" /\ p.unclosed = 0 -> [p EXCEPT !.stray = @ \cup {n}]
                       [] OTHER -> p
    IN  s[Len(x)]

\* Relations that no "after init" assigns; there braces in comments count.
InitBody(x, i) ==
    LET S == {j \in i + 1 .. Len(x) : x[j].t = "close"
                 /\ LET b == Balance(NestsInComments, x, i, j) IN b[1] <= b[2]}
    IN  i + 1 .. (IF S = {} THEN Len(x) ELSE CHOOSE j \in S : \A k \in S : j <= k)
Inits(x) == {i \in DOMAIN x : x[i].t = "monitor" /\ x[i].n = "init"}
MissingInit(x) ==
    {x[i].n : i \in {i \in DOMAIN x : x[i].t = "relation"}}
    \ {x[k].n : k \in {k \in UNION {InitBody(x, i) : i \in Inits(x)} : x[k].t = "set"}}
EmptyInit(x) == {i \in Inits(x) : i < Len(x) /\ x[i + 1].t = "close"}

Duplicates(x) ==
    {i \in DOMAIN x : x[i].t = "relation"
                      /\ \E j \in 1 .. i - 1 : x[j].t = "relation" /\ x[j].n = x[i].n}

\* An action that assigns with no require before its end, a commented one counting.
UnguardedActions(x) ==
    {i \in DOMAIN x : x[i].t = "action" /\
        LET end == {j \in i + 1 .. Len(x) : x[j].t = "close"
                       /\ LET b == Balance(NestsInComments, x, i, j) IN b[1] = b[2]}
            body == i + 1 .. (IF end = {} THEN Len(x)
                              ELSE CHOOSE j \in end : \A k \in end : j <= k)
        IN  /\ \E k \in body : x[k].t = "set"
            /\ \A k \in body : x[k].t \notin {"require", "#require"}}

CommentedOut(x) == {i \in DOMAIN x : x[i].t = "#require"}
Unresolved(x) == {i \in DOMAIN x : x[i].t = "include" /\ x[i].n \notin Resolvable}

(***************************************************************************)
(* The graph of a text, and the hints of coverage                          *)
(***************************************************************************)
First(S) == CHOOSE i \in S : \A j \in S : i <= j

\* Of a text x and what is extracted of it, e.  An action that is not defined stands
\* where a requirement of its monitors does.
GraphOf(x, e) ==
    LET at(n) == {i \in DOMAIN x : x[i].t = "action" /\ x[i].n = n}
        defined == {x[i].n : i \in {i \in DOMAIN x : x[i].t = "action"}}
        named == {r.action : r \in e.reqs} \ defined
    IN  [reqs |-> e.reqs, writes |-> e.writes,
         actions |-> {[name |-> n, line |-> First(at(n))] : n \in defined}
                     \cup {[name |-> n, line |->
                              First({r.line : r \in {q \in e.reqs : q.action = n}})] :
                              n \in named},
         vars |-> {x[i].n : i \in {i \in DOMAIN x : x[i].t = "relation"}}]

NoMonitor(g) == {a \in g.actions : \A r \in g.reqs : r.action # a.name}
Guarded(g) == {r.var : r \in g.reqs} \cap g.vars
Written(g) == {w.var : w \in g.writes}

\* The unguarded variables that are written from the line of an action to that of
\* the next one.
ByAction(g) ==
    LET next(a) == {b.line : b \in {b \in g.actions : b.line > a.line}}
        in(a) == {w \in g.writes : w.line >= a.line /\ \A l \in next(a) : w.line < l}
    IN  {<<a.name, v>> : <<a, v>> \in
           {p \in g.actions \X g.vars : p[2] \notin Guarded(g)
                                        /\ \E w \in in(p[1]) : w.var = p[2]}}

\* Mutant: the variables already reported are not left out.
ByVarAgain(g) == {v \in g.vars : v \in Written(g) \ Guarded(g)}

\* The others that are written somewhere.
ByVar(g) == {v \in g.vars : v \in Written(g) \ Guarded(g)
                            /\ \A p \in ByAction(g) : p[2] # v}

Orphaned(g) == {r \in g.reqs : \E a \in g.actions : a.name = r.action /\ a.line = r.line}
UnusedVars(g) == {v \in g.vars : v \notin Written(g) \cup Guarded(g)}

\* compute_diagnostics: of the text in the editor and of the graph, which is that
\* of the text saved last; without a graph the structural hint on writes stands.
Diagnostics(hasGraph, g) ==
    [header |-> MissingHeader(text), braces |-> Braces(text),
     init |-> MissingInit(text) \cup {text[i].n : i \in EmptyInit(text)},
     duplicates |-> Duplicates(text), commented |-> CommentedOut(text),
     unresolved |-> Unresolved(text),
     unguarded |-> IF hasGraph THEN ByAction(g) \cup {<<"", v>> : v \in ByVar(g)}
                   ELSE {<<text[i].n, "">> : i \in UnguardedActions(text)},
     noMonitor |-> IF hasGraph THEN {a.name : a \in NoMonitor(g)}
                      \cup {text[i].n : i \in {i \in Line("action") :
                               \A r \in g.reqs : r.action # text[i].n}}
                   ELSE {},
     orphaned |-> IF hasGraph THEN Orphaned(g) ELSE {},
     unused |-> IF hasGraph THEN UnusedVars(g) ELSE {}]

(***************************************************************************)
(* Editing                                                                 *)
(***************************************************************************)
Init == text = <<>> /\ graphed = <<>>
Type(l) == Len(text) < MaxLines /\ text' = Append(text, l) /\ UNCHANGED graphed
Save == graphed # text /\ graphed' = text /\ UNCHANGED text
Next == (\E l \in Lines : Type(l)) \/ Save
Spec == Init /\ [][Next]_<<text, graphed>>

(***************************************************************************)
(* Properties                                                              *)
(***************************************************************************)
\* The unmatched braces that are reported (check_structural_issues) are those that
\* no other brace matches.
BracesAreMatched ==
    LET closed == {Closes(text, i) : i \in {i \in DOMAIN text : Nests(text, i)}} \ {0}
    IN  /\ Braces(text).stray = Line("close") \ closed
        /\ Braces(text).unclosed =
              Cardinality({i \in DOMAIN text : Nests(text, i) /\ Closes(text, i) = 0})

\* In a text that parses the tokens give the lines that the tree gives, and regular
\* expressions do where no opening is commented out; the actions are the same
\* outside objects (extract_requirements_light, extract_requirements_full).
SameAs(a, b) ==
    /\ a.writes = b.writes
    /\ {r.line : r \in a.reqs} = {r.line : r \in b.reqs}
    /\ \A r \in a.reqs : \E q \in b.reqs :
          q.line = r.line /\ q.var = r.var
          /\ (q.action = r.action \/ \E i \in Within(text, r.line) : text[i].t = "object")
ExtractorsAgree ==
    Parses(text) =>
        /\ SameAs(FromTokens(text), FromTree(text))
        /\ Line("#monitor") = {} => SameAs(FromRegex(text), FromTree(text))

\* What an action of the text writes in its own body, and no requirement reads, is
\* reported for that action and not for the variable once more
\* (compute_coverage_hints: "to avoid double-warning"), though the writes of an
\* action are told from their lines only; where an action has one definition.
WritesAreReported ==
    LET actions == {i \in DOMAIN graphed : graphed[i].t = "action"}
    IN  Parses(graphed) /\ (\A i, j \in actions : graphed[i].n = graphed[j].n => i = j) =>
        \A g \in {GraphOf(graphed, Light(graphed))} :
        \A reported \in {Diagnostics(TRUE, g).unguarded} :
        \A i \in actions : \A k \in i + 1 .. Closes(graphed, i) - 1 :
            graphed[k].t = "set" /\ graphed[k].n \in g.vars \ Guarded(g) =>
                /\ <<graphed[i].n, graphed[k].n>> \in reported
                /\ <<"", graphed[k].n>> \notin reported
=============================================================================
