--------------------------- MODULE RequirementGraph ---------------------------
(***************************************************************************)
(* The graph of requirements that the indexer keeps for the workspace      *)
(* (core/analysis/requirement_graph.py) and its layer of test scopes       *)
(* (core/analysis/test_scope.py), as operators on a record.                *)
(*                                                                         *)
(* A requirement r is one statement of a monitor: it stands in the file    *)
(* FileOf[r], constrains the action ActionOf[r] ("" for none), reads       *)
(* VarsOf[r] and has bracket tags that name the RFC requirements           *)
(* TagsOf[r].  Edges are triples <<source, kind, target>>; the source of a *)
(* WRITES edge stands for the ids "path:line:write:var" of one file.       *)
(* Every mutator takes the graph's lock, and is one step of its caller.    *)
(* Properties (axioms, invariants) have no producer in the repository, so  *)
(* that DEPENDS_ON edges never arise.                                      *)
(***************************************************************************)
EXTENDS Integers, FiniteSets

CONSTANTS Files,     \* the files of the workspace
          Reqs,      \* requirement ids
          FileOf, ActionOf, VarsOf, TagsOf,   \* functions on Reqs
          WritesOf   \* the variables written by a text of a file, by <<f, text>>

\* A cached list of requirements, or the absence of one.
NoList == [known |-> FALSE, reqs |-> {}]
List(R) == [known |-> TRUE, reqs |-> R]

NoScope == [known |-> FALSE, closure |-> {}, exported |-> {}]

EmptyGraph ==
    [reqs |-> {}, actions |-> {}, vars |-> {}, rfcs |-> {}, edges |-> {},
     scopes |-> [t \in Files |-> NoScope],          \* _test_scopes
     testsOf |-> [f \in Files |-> {}],              \* _file_to_tests
     lists |-> [k \in Files \X BOOLEAN |-> NoList], \* _scope_cache
     active |-> [f \in Files |-> NoList]]           \* _active_reqs_cache

\* Mutant: the version stays.
Unmoved(g) == g

\* The version moves: lists kept for an older version are not found again.
Bumped(g) == [g EXCEPT !.active = [f \in Files |-> NoList]]

\* Nodes are pairs <<name, file>> with one pair per name.
NamesOf(N) == {n[1] : n \in N}

\* An edge is added once.
AddEdges(g, E) ==
    IF E \subseteq g.edges THEN g ELSE Bumped([g EXCEPT !.edges = @ \cup E])

ReqsIn(g, F) == {r \in g.reqs : FileOf[r] \in F}

\* Mutant: the edges that end at a node of the file stay.
RemoveFileOneSided(g, f) ==
    [g EXCEPT !.reqs = {r \in @ : FileOf[r] # f}, !.actions = {n \in @ : n[2] # f},
              !.vars = {n \in @ : n[2] # f},
              !.edges = {e \in @ : e[1] # f /\ e[3] # f}]

\* RemoveFile drops the file's nodes and every edge at either end of one: also
\* those by which requirements of other files constrain an action of this one.
RemoveFile(g, f) ==
    LET actions == {n \in g.actions : n[2] = f}
        vars == {n \in g.vars : n[2] = f}
        ids == ReqsIn(g, {f}) \cup NamesOf(actions) \cup NamesOf(vars)
        writes == {e \in g.edges : e[1] = f /\ e[2] = "writes"}
    IN IF ids = {} /\ writes = {} THEN g
       ELSE Bumped([g EXCEPT
                !.reqs = @ \ ReqsIn(g, {f}), !.actions = @ \ actions, !.vars = @ \ vars,
                !.edges = {e \in @ \ writes : e[1] \notin ids /\ e[3] \notin ids}])

\* The lists of the tests in whose scope f is are forgotten.
DropLists(g, f) ==
    [g EXCEPT !.lists = [k \in DOMAIN @ |->
                           IF k[1] \in g.testsOf[f] THEN NoList ELSE @[k]]]

\* Mutant: no list is forgotten when requirements arrive.
AddFileKeepingLists(g, f, R, W) ==
    LET e == RemoveFile(g, f)
        added == IF R = {} THEN e ELSE Bumped([e EXCEPT !.reqs = @ \cup R])
    IN AddEdges(added, {<<r, "constrains", ActionOf[r]>> :
                          r \in {q \in R : ActionOf[q] # ""}}
                       \cup {<<f, "writes", w>> : w \in W})

\* add_file_requirements: the requirements R and the writes W replace the file's.
AddFileRequirements(g, f, R, W) ==
    LET e == RemoveFile(g, f)
        added == IF R = {} THEN e ELSE Bumped([e EXCEPT !.reqs = @ \cup R])
    IN DropLists(AddEdges(added, {<<r, "constrains", ActionOf[r]>> :
                                    r \in {q \in R : ActionOf[q] # ""}}
                                 \cup {<<f, "writes", w>> : w \in W}), f)

AddRfcRequirements(g, S) == Bumped([g EXCEPT !.rfcs = @ \cup S])

\* Actions for the callable symbols of the table, then for the actions that a
\* requirement names: a node that exists is kept.  declared[f] are the names of
\* the functions and methods among the table's symbols of f.
PopulateActions(g, declared) ==
    LET have == NamesOf(g.actions)
        names == UNION {declared[f] : f \in Files} \ have
        fromSymbols == {<<n, CHOOSE f \in Files : n \in declared[f]>> : n \in names}
        rest == {ActionOf[r] : r \in g.reqs} \ (have \cup names \cup {""})
        fromReqs == {<<n, FileOf[CHOOSE r \in g.reqs : ActionOf[r] = n]>> : n \in rest}
        new == fromSymbols \cup fromReqs
    IN IF new = {} THEN g ELSE Bumped([g EXCEPT !.actions = @ \cup new])

\* State variables for every known name; only a variable's symbol gives a file.
PopulateVars(g, known, variables) ==
    LET new == {<<n, IF \E f \in Files : n \in variables[f]
                     THEN CHOOSE f \in Files : n \in variables[f] ELSE "">> :
                  n \in known \ NamesOf(g.vars)}
    IN IF new = {} THEN g ELSE Bumped([g EXCEPT !.vars = @ \cup new])

Kept == {"constrains", "writes", "covers"}

ClearWiring(g) == Bumped([g EXCEPT !.edges = {e \in @ : e[2] \in Kept}])

\* _wire_requirement_graph: nodes from the table, then the edges that follow
\* from them and from the includes.
Wire(g, declared, variables, includes) ==
    LET actions == PopulateActions(g, declared)
        known == NamesOf(g.vars) \cup UNION {declared[f] \cup variables[f] : f \in Files}
        cleared == ClearWiring(PopulateVars(actions, known, variables))
        reads == {<<p[1], "reads", p[2]>> :
                    p \in {q \in cleared.reqs \X known : q[2] \in VarsOf[q[1]]}}
        spread == {<<p[1], "propagated", p[2]>> :
                     p \in {q \in cleared.reqs \X Files : <<q[2], FileOf[q[1]]>> \in includes}}
    IN AddEdges(AddEdges(cleared, reads), spread)

\* wire_coverage_edges: a tag covers the manifest's requirement that it names.
WireCoverage(g) ==
    AddEdges(g, {<<p[1], "covers", p[2]>> :
                   p \in {q \in g.reqs \X g.rfcs : q[2] \in TagsOf[q[1]]}})

\* The files reachable from f, itself among them, in a set of pairs.
Reach(f, E) ==
    LET within[n \in Nat] ==
            IF n = 0 THEN {f}
            ELSE within[n - 1] \cup {e[2] : e \in {d \in E : d[1] \in within[n - 1]}}
    IN within[Cardinality(Files)]

Converse(E) == {<<e[2], e[1]>> : e \in E}

\* A scope replaces the test's scope of before; the reverse index only grows.
RegisterScope(g, t, closure, exported) ==
    [g EXCEPT !.scopes[t] = [known |-> TRUE, closure |-> closure, exported |-> exported],
              !.testsOf = [f \in Files |->
                             IF f \in closure THEN @[f] \cup {t} ELSE @[f]],
              !.lists = [k \in DOMAIN @ |-> IF k[1] = t THEN NoList ELSE @[k]]]

\* What get_scoped_requirements computes for the key <<test, include_imported>>.
Scoped(g, k) ==
    {r \in ReqsIn(g, g.scopes[k[1]].closure) :
        k[2] \/ ActionOf[r] \in g.scopes[k[1]].exported}

QueryScoped(g, k) ==
    IF g.lists[k].known \/ ~g.scopes[k[1]].known THEN g
    ELSE [g EXCEPT !.lists[k] = List(Scoped(g, k))]

\* What get_active_requirements_for_file computes and keeps for the version.
Active(g, f, includes) == ReqsIn(g, Reach(f, includes))

QueryActive(g, f, includes) ==
    IF g.active[f].known THEN g
    ELSE [g EXCEPT !.active[f] = List(Active(g, f, includes))]
=============================================================================
