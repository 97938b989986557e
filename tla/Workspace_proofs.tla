--------------------------- MODULE Workspace_proofs ---------------------------
(***************************************************************************)
(* Proofs about what the server knows of the files of a workspace, for any *)
(* files, texts, layers, saves, deep indexes, parses on demand, scans and  *)
(* compilations, and without the bounds that MCWorkspace puts on them.     *)
(*                                                                         *)
(* First the operations of the graph, whoever calls them: what they leave  *)
(* sound and complete, and which kept lists they leave.  Then the jobs:    *)
(* what is left to show of each is where it stands, since that says who    *)
(* will still wire the graph, and whose includes are not wired yet.  Then  *)
(* the symbols: the cache and the lists of a scan have one entry of each   *)
(* file, and a job that is alone says by where it stands which file has no *)
(* symbols.  Last the parts that share no state with the index: include    *)
(* resolution, a compilation in the shared directory, and the calls.       *)
(***************************************************************************)
EXTENDS Workspace, FiniteSetTheorems, SequenceTheorems, WellFoundedInduction, TLAPS

-----------------------------------------------------------------------------
(***************************************************************************)
(* The requirement graph.                                                  *)
(***************************************************************************)
\* A graph is a record of these fields, of functions on the files and the keys.
GraphFields == {"reqs", "actions", "vars", "rfcs", "edges", "scopes", "testsOf", "lists", "active"}
GraphShaped(g) ==
    /\ g = [x \in GraphFields |-> g[x]]
    /\ g.scopes = [t \in Files |-> g.scopes[t]]
    /\ g.testsOf = [f \in Files |-> g.testsOf[f]]
    /\ g.lists = [k \in Files \X BOOLEAN |-> g.lists[k]]
    /\ g.active = [f \in Files |-> g.active[f]]

\* The reverse index has every test in whose scope a file is.
Reversed(g) == \A t, f \in Files : f \in g.scopes[t].closure => t \in g.testsOf[f]

\* An edge ends where a node is; the action of a requirement may have none yet.
EdgeOK(g, e) ==
    /\ e[2] # "writes" => e[1] \in g.reqs
    /\ e[2] = "constrains" => e[3] = ActionOf[e[1]] /\ e[3] # ""
    /\ e[2] = "reads" => e[3] \in NamesOf(g.vars)
    /\ e[2] = "covers" => e[3] \in g.rfcs

\* What every operation keeps of a graph, but for the lists.
Sound(g) == GraphShaped(g) /\ Reversed(g) /\ \A e \in g.edges : EdgeOK(g, e)

\* A list of a test's requirements that is kept is complete.
CompleteFor(g, k) == g.lists[k].known => Scoped(g, k) \subseteq g.lists[k].reqs
Complete(g) == \A k \in Files \X BOOLEAN : CompleteFor(g, k)

\* What holds of the graph between any two steps.
GraphOK(g) == Sound(g) /\ Complete(g)

\* Every action that a requirement constrains has its node.
Bound(g) == \A e \in g.edges : e[2] = "constrains" => e[3] \in NamesOf(g.actions)

\* A list of active requirements that is still there is of the same requirements.
ActiveKept(g, h) ==
    \A f \in Files : h.active[f].known => h.active[f] = g.active[f] /\ h.reqs = g.reqs

\* All but the edges and the lists of active requirements.
SameNodes(g, h) ==
    /\ h.reqs = g.reqs /\ h.actions = g.actions /\ h.vars = g.vars /\ h.rfcs = g.rfcs
    /\ h.scopes = g.scopes /\ h.testsOf = g.testsOf /\ h.lists = g.lists

\* A new version leaves the graph as it was, without lists of active requirements.
LEMMA BumpKeeps ==
    ASSUME NEW g, GraphShaped(g)
    PROVE  /\ SameNodes(g, Bumped(g)) /\ Bumped(g).edges = g.edges
           /\ GraphShaped(Bumped(g))
           /\ \A f \in Files : ~Bumped(g).active[f].known
           /\ Sound(g) => Sound(Bumped(g))
           /\ Complete(g) => Complete(Bumped(g))
           /\ Bound(g) => Bound(Bumped(g))
<1> DEFINE h == Bumped(g)
<1>1. /\ h.reqs = g.reqs /\ h.actions = g.actions /\ h.vars = g.vars /\ h.rfcs = g.rfcs
      /\ h.scopes = g.scopes /\ h.testsOf = g.testsOf /\ h.lists = g.lists
      /\ h.edges = g.edges
      /\ h.active = [f \in Files |-> NoList]
      /\ GraphShaped(h)
    BY DEF Bumped, GraphShaped, GraphFields
<1> HIDE DEF h
<1>2. \A f \in Files : ~h.active[f].known
    BY <1>1 DEF NoList
<1>3. Sound(g) => Sound(h)
    BY <1>1 DEF Sound, Reversed, EdgeOK
<1>4. Complete(g) => Complete(h)
    BY <1>1 DEF Complete, CompleteFor, Scoped, ReqsIn
<1>5. Bound(g) => Bound(h)
    BY <1>1 DEF Bound
<1> QED BY <1>1, <1>2, <1>3, <1>4, <1>5 DEF h, SameNodes

\* Edges that end where nodes are leave a graph sound.
LEMMA AddEdgesKeeps ==
    ASSUME NEW g, Sound(g), NEW E, \A e \in E : EdgeOK(g, e)
    PROVE  /\ Sound(AddEdges(g, E)) /\ ActiveKept(g, AddEdges(g, E))
           /\ SameNodes(g, AddEdges(g, E))
           /\ AddEdges(g, E).edges = g.edges \cup E
           /\ (\A e \in E : e[2] # "constrains") /\ Bound(g) => Bound(AddEdges(g, E))
           /\ Complete(g) => Complete(AddEdges(g, E))
<1> DEFINE h == [g EXCEPT !.edges = @ \cup E]
<1>1. AddEdges(g, E) = IF E \subseteq g.edges THEN g ELSE Bumped(h)
    BY DEF AddEdges
<1>2. /\ h.edges = g.edges \cup E
      /\ h.reqs = g.reqs /\ h.actions = g.actions /\ h.vars = g.vars /\ h.rfcs = g.rfcs
      /\ h.scopes = g.scopes /\ h.testsOf = g.testsOf /\ h.lists = g.lists
      /\ GraphShaped(h)
    BY DEF Sound, GraphShaped, GraphFields
<1> HIDE DEF h
<1>3. Sound(h)
    BY <1>2 DEF Sound, EdgeOK, Reversed
<1>4. Complete(g) => Complete(h)
    BY <1>2 DEF Complete, CompleteFor, Scoped, ReqsIn
<1>5. (\A e \in E : e[2] # "constrains") /\ Bound(g) => Bound(h)
    BY <1>2 DEF Bound
<1>6. /\ Sound(Bumped(h)) /\ (Bound(h) => Bound(Bumped(h))) /\ (Complete(h) => Complete(Bumped(h)))
      /\ SameNodes(h, Bumped(h)) /\ Bumped(h).edges = h.edges
      /\ \A f \in Files : ~Bumped(h).active[f].known
    BY <1>2, <1>3, BumpKeeps
<1>7. CASE E \subseteq g.edges
    <2>1. AddEdges(g, E) = g /\ g.edges = g.edges \cup E
        BY <1>1, <1>7
    <2> QED BY <2>1 DEF ActiveKept, SameNodes
<1>8. CASE ~(E \subseteq g.edges)
    <2>1. AddEdges(g, E) = Bumped(h)
        BY <1>1, <1>8
    <2>2. ActiveKept(g, Bumped(h))
        BY <1>6 DEF ActiveKept
    <2>3. SameNodes(g, Bumped(h))
        BY <1>2, <1>6 DEF SameNodes
    <2> QED BY <1>2, <1>4, <1>5, <1>6, <2>1, <2>2, <2>3
<1> QED BY <1>7, <1>8

\* Without a file's nodes and the edges at them a graph is sound, its lists complete
\* and no constrained action without a node.
LEMMA RemoveFileKeeps ==
    ASSUME NEW g, GraphOK(g), NEW f
    PROVE  /\ GraphOK(RemoveFile(g, f)) /\ ActiveKept(g, RemoveFile(g, f))
           /\ Bound(g) => Bound(RemoveFile(g, f))
<1> DEFINE actions == {n \in g.actions : n[2] = f}
           variables == {n \in g.vars : n[2] = f}
           ids == ReqsIn(g, {f}) \cup NamesOf(actions) \cup NamesOf(variables)
           writes == {e \in g.edges : e[1] = f /\ e[2] = "writes"}
           edges == {e \in g.edges \ writes : e[1] \notin ids /\ e[3] \notin ids}
           h == [g EXCEPT !.reqs = @ \ ReqsIn(g, {f}), !.actions = @ \ actions,
                          !.vars = @ \ variables,
                          !.edges = {e \in @ \ writes : e[1] \notin ids /\ e[3] \notin ids}]
<1>1. RemoveFile(g, f) = IF ids = {} /\ writes = {} THEN g ELSE Bumped(h)
    BY DEF RemoveFile
<1>2. /\ h.reqs = g.reqs \ ReqsIn(g, {f}) /\ h.actions = g.actions \ actions
      /\ h.vars = g.vars \ variables /\ h.rfcs = g.rfcs /\ h.edges = edges
      /\ h.scopes = g.scopes /\ h.testsOf = g.testsOf /\ h.lists = g.lists
      /\ GraphShaped(h)
    BY DEF GraphOK, Sound, GraphShaped, GraphFields
<1> HIDE DEF h, ids, actions, variables, writes, edges
<1>3. ASSUME NEW e \in edges PROVE e \in g.edges /\ e[1] \notin ids /\ e[3] \notin ids
    BY <1>3 DEF edges
<1>4. /\ \A a \in NamesOf(g.actions) \ ids : a \in NamesOf(g.actions \ actions)
      /\ \A a \in NamesOf(g.vars) \ ids : a \in NamesOf(g.vars \ variables)
      /\ ReqsIn(g, {f}) \subseteq ids
    BY DEF NamesOf, ids
<1>5. \A e \in edges : EdgeOK(h, e)
    BY <1>2, <1>3, <1>4 DEF GraphOK, Sound, EdgeOK
<1>6. Bound(g) => Bound(h)
    BY <1>2, <1>3, <1>4 DEF Bound
<1>7. Sound(h)
    BY <1>2, <1>5 DEF GraphOK, Sound, Reversed
<1>8. Complete(h)
    BY <1>2 DEF GraphOK, Complete, CompleteFor, Scoped, ReqsIn
<1>9. /\ Sound(Bumped(h)) /\ Complete(Bumped(h)) /\ (Bound(h) => Bound(Bumped(h)))
      /\ \A y \in Files : ~Bumped(h).active[y].known
    BY <1>7, <1>8, BumpKeeps DEF Sound
<1> QED BY <1>1, <1>6, <1>9 DEF ActiveKept, GraphOK

\* The requirements of a file may replace those of before: the tests that have the
\* file in scope are in the reverse index, so that their lists are dropped.
LEMMA AddFileKeeps ==
    ASSUME NEW g, GraphOK(g), NEW f, NEW R, NEW W, \A r \in R : FileOf[r] = f,
           R # {} => f \in Files
    PROVE  /\ GraphOK(AddFileRequirements(g, f, R, W))
           /\ ActiveKept(g, AddFileRequirements(g, f, R, W))
<1> DEFINE e == RemoveFile(g, f)
           more == [e EXCEPT !.reqs = @ \cup R]
           added == IF R = {} THEN e ELSE Bumped(more)
           E == {<<r, "constrains", ActionOf[r]>> : r \in {q \in R : ActionOf[q] # ""}}
                \cup {<<f, "writes", w>> : w \in W}
           h == AddEdges(added, E)
           d == [h EXCEPT !.lists = [k \in DOMAIN @ |->
                                      IF k[1] \in h.testsOf[f] THEN NoList ELSE @[k]]]
<1>1. AddFileRequirements(g, f, R, W) = d
    BY DEF AddFileRequirements, DropLists
<1>2. Sound(e) /\ Complete(e) /\ ActiveKept(g, e)
    BY RemoveFileKeeps DEF GraphOK
<1> HIDE DEF e
<1>3. /\ more.reqs = e.reqs \cup R
      /\ more.actions = e.actions /\ more.vars = e.vars /\ more.rfcs = e.rfcs
      /\ more.edges = e.edges /\ more.scopes = e.scopes /\ more.testsOf = e.testsOf
      /\ more.lists = e.lists /\ more.active = e.active
      /\ GraphShaped(more)
    BY <1>2 DEF Sound, GraphShaped, GraphFields
<1> HIDE DEF more
<1>4. Sound(more)
    BY <1>2, <1>3 DEF Sound, EdgeOK, Reversed
<1>5. \A k \in Files \X BOOLEAN : k[1] \notin more.testsOf[f] => CompleteFor(more, k)
    <2> SUFFICES ASSUME NEW k \in Files \X BOOLEAN, k[1] \notin more.testsOf[f], more.lists[k].known
                 PROVE  Scoped(more, k) \subseteq more.lists[k].reqs
        BY DEF CompleteFor
    <2>1. ASSUME NEW r \in Scoped(more, k) PROVE r \in Scoped(e, k)
        <3>1. r \in e.reqs \cup R /\ FileOf[r] \in more.scopes[k[1]].closure
            BY <1>3, <2>1 DEF Scoped, ReqsIn
        <3>2. r \notin R
            BY <1>4, <3>1 DEF Sound, Reversed
        <3> QED BY <1>3, <2>1, <3>1, <3>2 DEF Scoped, ReqsIn
    <2> QED BY <1>2, <1>3, <2>1 DEF Complete, CompleteFor
<1>6. /\ Sound(added) /\ R \subseteq added.reqs /\ ActiveKept(g, added)
      /\ \A k \in Files \X BOOLEAN : k[1] \notin added.testsOf[f] => CompleteFor(added, k)
    <2>1. CASE R = {}
        BY <1>2, <2>1 DEF Complete
    <2>2. CASE R # {}
        <3>1. /\ Sound(Bumped(more)) /\ SameNodes(more, Bumped(more))
              /\ \A y \in Files : ~Bumped(more).active[y].known
            BY <1>4, BumpKeeps DEF Sound
        <3>2. \A k \in Files \X BOOLEAN :
                  k[1] \notin Bumped(more).testsOf[f] => CompleteFor(Bumped(more), k)
            BY <1>5, <3>1 DEF SameNodes, CompleteFor, Scoped, ReqsIn
        <3>3. added = Bumped(more) /\ R \subseteq Bumped(more).reqs
            BY <1>3, <2>2, <3>1 DEF SameNodes
        <3> QED BY <3>1, <3>2, <3>3 DEF ActiveKept
    <2> QED BY <2>1, <2>2
<1> HIDE DEF added
<1>7. \A y \in E : EdgeOK(added, y)
    <2> SUFFICES ASSUME NEW y \in E PROVE EdgeOK(added, y)
        OBVIOUS
    <2>1. CASE \E r \in R : ActionOf[r] # "" /\ y = <<r, "constrains", ActionOf[r]>>
        <3>1. PICK r \in R : ActionOf[r] # "" /\ y = <<r, "constrains", ActionOf[r]>>
            BY <2>1
        <3>2. y[1] = r /\ y[2] = "constrains" /\ y[3] = ActionOf[r]
            BY <3>1
        <3>3. r \in added.reqs
            BY <1>6
        <3> QED BY <3>1, <3>2, <3>3 DEF EdgeOK
    <2>2. CASE \E w \in W : y = <<f, "writes", w>>
        BY <2>2 DEF EdgeOK
    <2>3. \/ \E r \in R : ActionOf[r] # "" /\ y = <<r, "constrains", ActionOf[r]>>
          \/ \E w \in W : y = <<f, "writes", w>>
        OBVIOUS
    <2> QED BY <2>1, <2>2, <2>3
<1> HIDE DEF E
<1>8. Sound(h) /\ SameNodes(added, h) /\ ActiveKept(added, h)
    BY <1>6, <1>7, AddEdgesKeeps
<1> HIDE DEF h
<1>9. \A k \in Files \X BOOLEAN : k[1] \notin h.testsOf[f] => CompleteFor(h, k)
    BY <1>6, <1>8 DEF SameNodes, CompleteFor, Scoped, ReqsIn
<1>10. /\ d.reqs = h.reqs /\ d.vars = h.vars /\ d.rfcs = h.rfcs
       /\ d.edges = h.edges /\ d.scopes = h.scopes /\ d.testsOf = h.testsOf
       /\ d.active = h.active
       /\ \A k \in Files \X BOOLEAN :
             d.lists[k] = IF k[1] \in h.testsOf[f] THEN NoList ELSE h.lists[k]
       /\ GraphShaped(d)
    BY <1>8 DEF Sound, GraphShaped, GraphFields
<1> HIDE DEF d
<1>11. Sound(d)
    BY <1>8, <1>10 DEF Sound, EdgeOK, Reversed
<1>12. Complete(d)
    <2> SUFFICES ASSUME NEW k \in Files \X BOOLEAN PROVE CompleteFor(d, k)
        BY DEF Complete
    <2>1. CASE k[1] \in h.testsOf[f]
        BY <1>10, <2>1 DEF CompleteFor, NoList
    <2>2. CASE k[1] \notin h.testsOf[f]
        BY <1>9, <1>10, <2>2 DEF CompleteFor, Scoped, ReqsIn
    <2> QED BY <2>1, <2>2
<1>13. ActiveKept(g, d)
    BY <1>6, <1>8, <1>10 DEF ActiveKept, SameNodes
<1> QED BY <1>1, <1>11, <1>12, <1>13 DEF GraphOK

\* The manifests add targets only.
LEMMA AddRfcKeeps ==
    ASSUME NEW g, GraphOK(g), NEW S
    PROVE  /\ GraphOK(AddRfcRequirements(g, S)) /\ ActiveKept(g, AddRfcRequirements(g, S))
           /\ Bound(g) => Bound(AddRfcRequirements(g, S))
<1> DEFINE h == [g EXCEPT !.rfcs = @ \cup S]
<1>1. /\ h.rfcs = g.rfcs \cup S /\ h.reqs = g.reqs /\ h.actions = g.actions /\ h.vars = g.vars
      /\ h.edges = g.edges /\ h.scopes = g.scopes /\ h.testsOf = g.testsOf /\ h.lists = g.lists
      /\ GraphShaped(h)
    BY DEF GraphOK, Sound, GraphShaped, GraphFields
<1> HIDE DEF h
<1>2. Sound(h)
    BY <1>1 DEF GraphOK, Sound, EdgeOK, Reversed
<1>3. Complete(h) /\ (Bound(g) => Bound(h))
    BY <1>1 DEF GraphOK, Complete, CompleteFor, Scoped, ReqsIn, Bound
<1> QED BY <1>2, <1>3, BumpKeeps DEF AddRfcRequirements, Sound, GraphOK, ActiveKept, h

\* More actions: every action that a requirement names has a node.
LEMMA PopulateActionsKeeps ==
    ASSUME NEW g, GraphOK(g), NEW declared
    PROVE  /\ GraphOK(PopulateActions(g, declared))
           /\ Bound(PopulateActions(g, declared))
<1> DEFINE have == NamesOf(g.actions)
           names == UNION {declared[f] : f \in Files} \ have
           fromSymbols == {<<n, CHOOSE f \in Files : n \in declared[f]>> : n \in names}
           rest == {ActionOf[r] : r \in g.reqs} \ (have \cup names \cup {""})
           fromReqs == {<<n, FileOf[CHOOSE r \in g.reqs : ActionOf[r] = n]>> : n \in rest}
           new == fromSymbols \cup fromReqs
           h == [g EXCEPT !.actions = @ \cup new]
<1>1. PopulateActions(g, declared) = IF new = {} THEN g ELSE Bumped(h)
    BY DEF PopulateActions
<1>2. \A n \in names \cup rest : n \in NamesOf(new)
    <2> HIDE DEF names, rest
    <2>1. ASSUME NEW n \in names PROVE \E p \in new : n = p[1]
        <3> DEFINE p == <<n, CHOOSE f \in Files : n \in declared[f]>>
        <3>1. p \in new /\ p[1] = n
            OBVIOUS
        <3> QED BY <3>1
    <2>2. ASSUME NEW n \in rest PROVE \E p \in new : n = p[1]
        <3> DEFINE p == <<n, FileOf[CHOOSE r \in g.reqs : ActionOf[r] = n]>>
        <3>1. p \in new /\ p[1] = n
            OBVIOUS
        <3> QED BY <3>1
    <2> QED BY <2>1, <2>2 DEF NamesOf
<1>3. \A r \in g.reqs : ActionOf[r] # "" => ActionOf[r] \in have \cup names \cup rest
    OBVIOUS
<1> HIDE DEF names, rest, new, have
<1>4. /\ h.actions = g.actions \cup new
      /\ h.rfcs = g.rfcs /\ h.reqs = g.reqs /\ h.vars = g.vars
      /\ h.edges = g.edges /\ h.scopes = g.scopes /\ h.testsOf = g.testsOf /\ h.lists = g.lists
      /\ GraphShaped(h)
    BY DEF GraphOK, Sound, GraphShaped, GraphFields
<1> HIDE DEF h
<1>5. \A e \in g.edges : e[2] = "constrains" => e[3] \in have \cup NamesOf(new)
    BY <1>2, <1>3 DEF GraphOK, Sound, EdgeOK
<1>6. \A n \in have \cup NamesOf(new) : n \in NamesOf(g.actions \cup new)
    BY DEF NamesOf, have
<1>7. Sound(h) /\ Complete(h) /\ Bound(h)
    BY <1>4, <1>5, <1>6
       DEF GraphOK, Sound, EdgeOK, Reversed, Complete, CompleteFor, Scoped, ReqsIn, Bound
<1>8. GraphOK(Bumped(h)) /\ Bound(Bumped(h))
    BY <1>7, BumpKeeps DEF Sound, GraphOK
<1>9. CASE new = {}
    <2>1. NamesOf(new) = {}
        BY <1>9 DEF NamesOf
    <2>2. Bound(g)
        BY <1>5, <2>1 DEF have, Bound
    <2> QED BY <1>1, <1>9, <2>2
<1> QED BY <1>1, <1>8, <1>9

\* After the state variables are added each known name has a node.
LEMMA PopulateVarsKeeps ==
    ASSUME NEW g, GraphOK(g), Bound(g), NEW known, NEW variables
    PROVE  /\ GraphOK(PopulateVars(g, known, variables))
           /\ Bound(PopulateVars(g, known, variables))
           /\ known \subseteq NamesOf(PopulateVars(g, known, variables).vars)
<1> DEFINE names == known \ NamesOf(g.vars)
           new == {<<n, IF \E f \in Files : n \in variables[f]
                        THEN CHOOSE f \in Files : n \in variables[f] ELSE "">> : n \in names}
           h == [g EXCEPT !.vars = @ \cup new]
<1>1. PopulateVars(g, known, variables) = IF new = {} THEN g ELSE Bumped(h)
    BY DEF PopulateVars
<1>2. \A n \in names : n \in NamesOf(new)
    <2> HIDE DEF names
    <2> SUFFICES ASSUME NEW n \in names PROVE \E p \in new : n = p[1]
        BY DEF NamesOf
    <2> DEFINE p == <<n, IF \E f \in Files : n \in variables[f]
                         THEN CHOOSE f \in Files : n \in variables[f] ELSE "">>
    <2>1. p \in new /\ p[1] = n
        OBVIOUS
    <2> QED BY <2>1
<1>3. known \subseteq NamesOf(g.vars) \cup names
    OBVIOUS
<1> HIDE DEF names, new
<1>4. /\ h.vars = g.vars \cup new
      /\ h.rfcs = g.rfcs /\ h.reqs = g.reqs /\ h.actions = g.actions
      /\ h.edges = g.edges /\ h.scopes = g.scopes /\ h.testsOf = g.testsOf /\ h.lists = g.lists
      /\ GraphShaped(h)
    BY DEF GraphOK, Sound, GraphShaped, GraphFields
<1> HIDE DEF h
<1>5. NamesOf(h.vars) = NamesOf(g.vars) \cup NamesOf(new)
    BY <1>4 DEF NamesOf
<1>6. Sound(h) /\ Complete(h) /\ Bound(h) /\ known \subseteq NamesOf(h.vars)
    BY <1>2, <1>3, <1>4, <1>5
       DEF GraphOK, Sound, EdgeOK, Reversed, Complete, CompleteFor, Scoped, ReqsIn, Bound
<1>7. GraphOK(Bumped(h)) /\ Bound(Bumped(h)) /\ Bumped(h).vars = h.vars
    BY <1>6, BumpKeeps DEF Sound, GraphOK, SameNodes
<1>8. CASE new = {}
    <2>1. NamesOf(new) = {}
        BY <1>8 DEF NamesOf
    <2> QED BY <1>1, <1>2, <1>3, <1>8, <2>1
<1> QED BY <1>1, <1>6, <1>7, <1>8

\* The edges that are derived may be dropped.
LEMMA ClearWiringKeeps ==
    ASSUME NEW g, GraphOK(g), Bound(g)
    PROVE  /\ GraphOK(ClearWiring(g)) /\ Bound(ClearWiring(g))
           /\ ClearWiring(g).vars = g.vars /\ ClearWiring(g).reqs = g.reqs
           /\ \A f \in Files : ~ClearWiring(g).active[f].known
<1> DEFINE h == [g EXCEPT !.edges = {e \in @ : e[2] \in Kept}]
<1>1. /\ h.edges = {e \in g.edges : e[2] \in Kept}
      /\ h.rfcs = g.rfcs /\ h.reqs = g.reqs /\ h.actions = g.actions /\ h.vars = g.vars
      /\ h.scopes = g.scopes /\ h.testsOf = g.testsOf /\ h.lists = g.lists
      /\ GraphShaped(h)
    BY DEF GraphOK, Sound, GraphShaped, GraphFields
<1> HIDE DEF h
<1>2. Sound(h) /\ Complete(h) /\ Bound(h)
    BY <1>1
       DEF GraphOK, Sound, EdgeOK, Reversed, Complete, CompleteFor, Scoped, ReqsIn, Bound
<1> QED BY <1>1, <1>2, BumpKeeps DEF Sound, GraphOK, SameNodes, ClearWiring, h

\* What wiring leaves: nodes for all that edges end at, and no list of active
\* requirements of before.
LEMMA WireKeeps ==
    ASSUME NEW g, GraphOK(g), NEW declared, NEW variables, NEW E
    PROVE  /\ GraphOK(Wire(g, declared, variables, E)) /\ Bound(Wire(g, declared, variables, E))
           /\ \A f \in Files : ~Wire(g, declared, variables, E).active[f].known
<1> DEFINE actions == PopulateActions(g, declared)
           known == NamesOf(g.vars) \cup UNION {declared[f] \cup variables[f] : f \in Files}
           nodes == PopulateVars(actions, known, variables)
           cleared == ClearWiring(nodes)
           reads == {<<p[1], "reads", p[2]>> :
                       p \in {q \in cleared.reqs \X known : q[2] \in VarsOf[q[1]]}}
           spread == {<<p[1], "propagated", p[2]>> :
                        p \in {q \in cleared.reqs \X Files : <<q[2], FileOf[q[1]]>> \in E}}
           one == AddEdges(cleared, reads)
           two == AddEdges(one, spread)
<1>1. Wire(g, declared, variables, E) = two
    BY DEF Wire
<1>2. GraphOK(actions) /\ Bound(actions)
    BY PopulateActionsKeeps
<1> HIDE DEF actions, known
<1>3. GraphOK(nodes) /\ Bound(nodes) /\ known \subseteq NamesOf(nodes.vars)
    BY <1>2, PopulateVarsKeeps
<1> HIDE DEF nodes
<1>4. /\ GraphOK(cleared) /\ Bound(cleared) /\ known \subseteq NamesOf(cleared.vars)
      /\ \A f \in Files : ~cleared.active[f].known
    BY <1>3, ClearWiringKeeps
<1> HIDE DEF cleared
<1>5. \A e \in reads : EdgeOK(cleared, e) /\ e[2] # "constrains"
    <2> SUFFICES ASSUME NEW e \in reads PROVE EdgeOK(cleared, e) /\ e[2] # "constrains"
        OBVIOUS
    <2>1. PICK p \in cleared.reqs \X known : e = <<p[1], "reads", p[2]>>
        OBVIOUS
    <2>2. p[1] \in cleared.reqs /\ p[2] \in known
        BY <2>1
    <2>3. e[1] = p[1] /\ e[2] = "reads" /\ e[3] = p[2]
        BY <2>1
    <2> QED BY <1>4, <2>2, <2>3 DEF EdgeOK
<1> HIDE DEF reads
<1>6. GraphOK(one) /\ Bound(one) /\ one.reqs = cleared.reqs /\ ActiveKept(cleared, one)
    BY <1>4, <1>5, AddEdgesKeeps DEF GraphOK, SameNodes
<1> HIDE DEF one
<1>7. \A e \in spread : EdgeOK(one, e) /\ e[2] # "constrains"
    <2> SUFFICES ASSUME NEW e \in spread PROVE EdgeOK(one, e) /\ e[2] # "constrains"
        OBVIOUS
    <2>1. PICK p \in cleared.reqs \X Files : e = <<p[1], "propagated", p[2]>>
        OBVIOUS
    <2>2. p[1] \in one.reqs
        BY <1>6, <2>1
    <2>3. e[1] = p[1] /\ e[2] = "propagated"
        BY <2>1
    <2> QED BY <2>2, <2>3 DEF EdgeOK
<1> HIDE DEF spread
<1>8. GraphOK(two) /\ Bound(two) /\ ActiveKept(one, two)
    BY <1>6, <1>7, AddEdgesKeeps DEF GraphOK
<1> QED BY <1>1, <1>4, <1>6, <1>8 DEF ActiveKept

\* An edge to a manifest's requirement is added where that requirement is.
LEMMA WireCoverageKeeps ==
    ASSUME NEW g, GraphOK(g)
    PROVE  /\ GraphOK(WireCoverage(g)) /\ ActiveKept(g, WireCoverage(g))
           /\ Bound(g) => Bound(WireCoverage(g))
<1> DEFINE covers == {<<p[1], "covers", p[2]>> :
                        p \in {q \in g.reqs \X g.rfcs : q[2] \in TagsOf[q[1]]}}
<1>1. \A e \in covers : EdgeOK(g, e) /\ e[2] # "constrains"
    <2> SUFFICES ASSUME NEW e \in covers PROVE EdgeOK(g, e) /\ e[2] # "constrains"
        OBVIOUS
    <2>1. PICK p \in g.reqs \X g.rfcs : e = <<p[1], "covers", p[2]>>
        OBVIOUS
    <2>2. p[1] \in g.reqs /\ p[2] \in g.rfcs
        BY <2>1
    <2>3. e[1] = p[1] /\ e[2] = "covers" /\ e[3] = p[2]
        BY <2>1
    <2> QED BY <2>2, <2>3 DEF EdgeOK
<1>2. WireCoverage(g) = AddEdges(g, covers)
    BY DEF WireCoverage
<1> HIDE DEF covers
<1> QED BY <1>1, <1>2, AddEdgesKeeps DEF GraphOK

\* A test's new scope enters the reverse index with it, and its own lists go.
LEMMA RegisterScopeKeeps ==
    ASSUME NEW g, GraphOK(g), NEW t, NEW closure, NEW exported
    PROVE  /\ GraphOK(RegisterScope(g, t, closure, exported))
           /\ ActiveKept(g, RegisterScope(g, t, closure, exported))
           /\ Bound(g) => Bound(RegisterScope(g, t, closure, exported))
<1> DEFINE scope == [known |-> TRUE, closure |-> closure, exported |-> exported]
           h == RegisterScope(g, t, closure, exported)
<1>1. scope.closure = closure
    OBVIOUS
<1> HIDE DEF scope
<1>2. /\ h.reqs = g.reqs /\ h.actions = g.actions /\ h.vars = g.vars /\ h.rfcs = g.rfcs
      /\ h.edges = g.edges /\ h.active = g.active
      /\ h.scopes = [g.scopes EXCEPT ![t] = scope]
      /\ h.testsOf = [f \in Files |-> IF f \in closure THEN g.testsOf[f] \cup {t}
                                      ELSE g.testsOf[f]]
      /\ h.lists = [k \in Files \X BOOLEAN |-> IF k[1] = t THEN NoList ELSE g.lists[k]]
      /\ GraphShaped(h)
    BY DEF RegisterScope, GraphOK, Sound, GraphShaped, GraphFields, scope
<1> HIDE DEF h
<1>3. \A u \in Files : h.scopes[u] = IF u = t THEN scope ELSE g.scopes[u]
    BY <1>2 DEF GraphOK, Sound, GraphShaped
<1>4. Reversed(h)
    BY <1>1, <1>2, <1>3 DEF GraphOK, Sound, Reversed
<1>5. Complete(h)
    <2> SUFFICES ASSUME NEW k \in Files \X BOOLEAN, h.lists[k].known
                 PROVE  Scoped(h, k) \subseteq h.lists[k].reqs
        BY DEF Complete, CompleteFor
    <2>1. k[1] # t /\ h.lists[k] = g.lists[k] /\ k[1] \in Files
        BY <1>2 DEF NoList
    <2>2. h.scopes[k[1]] = g.scopes[k[1]]
        BY <1>3, <2>1
    <2>3. Scoped(h, k) = Scoped(g, k)
        BY <1>2, <2>2 DEF Scoped, ReqsIn
    <2> QED BY <2>1, <2>3 DEF GraphOK, Complete, CompleteFor
<1>6. Sound(h)
    <2>1. ASSUME NEW e \in h.edges PROVE EdgeOK(h, e)
        <3>1. EdgeOK(g, e) /\ h.reqs = g.reqs /\ h.vars = g.vars /\ h.rfcs = g.rfcs
            BY <1>2, <2>1 DEF GraphOK, Sound
        <3> QED BY <3>1 DEF EdgeOK
    <2> QED BY <1>2, <1>4, <2>1 DEF Sound
<1>7. (Bound(g) => Bound(h)) /\ ActiveKept(g, h)
    BY <1>2 DEF Bound, ActiveKept
<1> QED BY <1>5, <1>6, <1>7 DEF GraphOK, h

\* A list of a test's requirements that is kept is complete when it is kept.
LEMMA QueryScopedKeeps ==
    ASSUME NEW g, GraphOK(g), NEW k
    PROVE  /\ GraphOK(QueryScoped(g, k)) /\ ActiveKept(g, QueryScoped(g, k))
           /\ Bound(g) => Bound(QueryScoped(g, k))
<1> DEFINE h == [g EXCEPT !.lists[k] = List(Scoped(g, k))]
<1>1. /\ h.reqs = g.reqs /\ h.actions = g.actions /\ h.vars = g.vars /\ h.rfcs = g.rfcs
      /\ h.edges = g.edges /\ h.active = g.active /\ h.scopes = g.scopes
      /\ h.testsOf = g.testsOf
      /\ h.lists = [g.lists EXCEPT ![k] = List(Scoped(g, k))]
      /\ GraphShaped(h)
    BY DEF GraphOK, Sound, GraphShaped, GraphFields
<1> HIDE DEF h
<1>2. \A q \in Files \X BOOLEAN :
          h.lists[q] = IF q = k THEN List(Scoped(g, k)) ELSE g.lists[q]
    BY <1>1 DEF GraphOK, Sound, GraphShaped
<1>3. Complete(h)
    BY <1>1, <1>2 DEF GraphOK, Complete, CompleteFor, Scoped, ReqsIn, List
<1>4. Sound(h) /\ (Bound(g) => Bound(h)) /\ ActiveKept(g, h)
    BY <1>1 DEF GraphOK, Sound, Reversed, EdgeOK, Bound, ActiveKept
<1> QED BY <1>3, <1>4 DEF GraphOK, QueryScoped, ActiveKept, h

\* A list of active requirements that is kept is what would be computed.
LEMMA QueryActiveKeeps ==
    ASSUME NEW g, GraphOK(g), NEW f, NEW E
    PROVE  /\ GraphOK(QueryActive(g, f, E)) /\ (Bound(g) => Bound(QueryActive(g, f, E)))
           /\ QueryActive(g, f, E).reqs = g.reqs
           /\ \A d \in Files : \/ QueryActive(g, f, E).active[d] = g.active[d]
                              \/ QueryActive(g, f, E).active[d].reqs = Active(g, d, E)
<1> DEFINE h == [g EXCEPT !.active[f] = List(Active(g, f, E))]
<1>1. /\ h.reqs = g.reqs /\ h.actions = g.actions /\ h.vars = g.vars /\ h.rfcs = g.rfcs
      /\ h.edges = g.edges /\ h.scopes = g.scopes /\ h.testsOf = g.testsOf
      /\ h.lists = g.lists
      /\ h.active = [g.active EXCEPT ![f] = List(Active(g, f, E))]
      /\ GraphShaped(h)
    BY DEF GraphOK, Sound, GraphShaped, GraphFields
<1> HIDE DEF h
<1>2. \A d \in Files : h.active[d] = IF d = f THEN List(Active(g, f, E)) ELSE g.active[d]
    BY <1>1 DEF GraphOK, Sound, GraphShaped
<1>3. Complete(h) /\ Sound(h) /\ (Bound(g) => Bound(h))
    BY <1>1 DEF GraphOK, Sound, Reversed, EdgeOK, Bound, Complete, CompleteFor, Scoped, ReqsIn
<1> QED BY <1>1, <1>2, <1>3 DEF GraphOK, QueryActive, List, h

\* The requirements and the scopes that the operations leave: all but two leave them
\* as they were.
LEMMA RemoveFileLeaves ==
    ASSUME NEW g, GraphShaped(g), NEW f
    PROVE  /\ GraphShaped(RemoveFile(g, f)) /\ RemoveFile(g, f).scopes = g.scopes
           /\ RemoveFile(g, f).reqs = g.reqs \ ReqsIn(g, {f})
<1> DEFINE actions == {n \in g.actions : n[2] = f}
           variables == {n \in g.vars : n[2] = f}
           ids == ReqsIn(g, {f}) \cup NamesOf(actions) \cup NamesOf(variables)
           writes == {e \in g.edges : e[1] = f /\ e[2] = "writes"}
           h == [g EXCEPT !.reqs = @ \ ReqsIn(g, {f}), !.actions = @ \ actions,
                          !.vars = @ \ variables,
                          !.edges = {e \in @ \ writes : e[1] \notin ids /\ e[3] \notin ids}]
<1>1. RemoveFile(g, f) = IF ids = {} /\ writes = {} THEN g ELSE Bumped(h)
    BY DEF RemoveFile
<1>2. h.reqs = g.reqs \ ReqsIn(g, {f}) /\ h.scopes = g.scopes /\ GraphShaped(h)
    BY DEF GraphShaped, GraphFields
<1>3. ids = {} => ReqsIn(g, {f}) = {}
    OBVIOUS
<1> HIDE DEF h, ids, writes
<1>4. /\ GraphShaped(Bumped(h)) /\ Bumped(h).reqs = h.reqs /\ Bumped(h).scopes = h.scopes
    BY <1>2, BumpKeeps DEF SameNodes
<1> QED BY <1>1, <1>2, <1>3, <1>4

\* Adding edges leaves both.
LEMMA AddEdgesLeaves ==
    ASSUME NEW g, GraphShaped(g), NEW E
    PROVE  /\ GraphShaped(AddEdges(g, E)) /\ AddEdges(g, E).scopes = g.scopes
           /\ AddEdges(g, E).reqs = g.reqs
<1> DEFINE h == [g EXCEPT !.edges = @ \cup E]
<1>1. h.reqs = g.reqs /\ h.scopes = g.scopes /\ GraphShaped(h)
    BY DEF GraphShaped, GraphFields
<1> HIDE DEF h
<1>2. /\ GraphShaped(Bumped(h)) /\ Bumped(h).reqs = h.reqs /\ Bumped(h).scopes = h.scopes
    BY <1>1, BumpKeeps DEF SameNodes
<1> QED BY <1>1, <1>2 DEF AddEdges, h

\* Extracting leaves the scopes, and a file with the requirements of its new text.
LEMMA ExtractedLeaves ==
    ASSUME NEW g, GraphShaped(g), NEW f, NEW v
    PROVE  /\ Extracted(g, f, v).scopes = g.scopes
           /\ Extracted(g, f, v).reqs = (g.reqs \ ReqsIn(g, {f})) \cup Of(Requires, f, v)
           /\ \A r \in Of(Requires, f, v) : FileOf[r] = f
<1> DEFINE R == Of(Requires, f, v)
           W == Of(WritesOf, f, v)
           e == RemoveFile(g, f)
           more == [e EXCEPT !.reqs = @ \cup R]
           added == IF R = {} THEN e ELSE Bumped(more)
           E == {<<r, "constrains", ActionOf[r]>> : r \in {q \in R : ActionOf[q] # ""}}
                \cup {<<f, "writes", w>> : w \in W}
           h == AddEdges(added, E)
           d == DropLists(h, f)
<1>1. Extracted(g, f, v) = d
    BY DEF Extracted, AddFileRequirements
<1>2. \A r \in R : FileOf[r] = f
    <2>1. CASE <<f, v>> \in Texts
        <3>1. R \subseteq {r \in Reqs : FileOf[r] = <<f, v>>[1]}
            BY <2>1, OwnRequirements DEF Of
        <3> QED BY <3>1
    <2>2. CASE <<f, v>> \notin Texts
        BY <2>2 DEF Of
    <2> QED BY <2>1, <2>2
<1> HIDE DEF R, W
<1>3. GraphShaped(e) /\ e.scopes = g.scopes /\ e.reqs = g.reqs \ ReqsIn(g, {f})
    BY RemoveFileLeaves
<1> HIDE DEF e
<1>4. GraphShaped(more) /\ more.scopes = e.scopes /\ more.reqs = e.reqs \cup R
    BY <1>3 DEF GraphShaped, GraphFields
<1> HIDE DEF more
<1>5. /\ GraphShaped(Bumped(more)) /\ Bumped(more).reqs = more.reqs
      /\ Bumped(more).scopes = more.scopes
    BY <1>4, BumpKeeps DEF SameNodes
<1>6. GraphShaped(added) /\ added.scopes = g.scopes /\ added.reqs = e.reqs \cup R
    BY <1>3, <1>4, <1>5
<1> HIDE DEF added, E
<1>7. GraphShaped(h) /\ h.scopes = added.scopes /\ h.reqs = added.reqs
    BY <1>6, AddEdgesLeaves
<1> HIDE DEF h
<1>8. d.scopes = h.scopes /\ d.reqs = h.reqs
    BY <1>7 DEF DropLists, GraphShaped, GraphFields
<1> HIDE DEF d
<1>9. d.scopes = g.scopes /\ d.reqs = (g.reqs \ ReqsIn(g, {f})) \cup R
    BY <1>3, <1>6, <1>7, <1>8
<1> QED BY <1>1, <1>2, <1>9 DEF R

\* Nodes of actions and variables are no requirements.
LEMMA PopulatingLeaves ==
    ASSUME NEW g, GraphShaped(g), NEW declared, NEW known, NEW variables
    PROVE  /\ GraphShaped(PopulateActions(g, declared))
           /\ PopulateActions(g, declared).reqs = g.reqs
           /\ GraphShaped(PopulateVars(g, known, variables))
           /\ PopulateVars(g, known, variables).reqs = g.reqs
<1>1. ASSUME NEW N
      PROVE  /\ GraphShaped(Bumped([g EXCEPT !.actions = @ \cup N]))
             /\ Bumped([g EXCEPT !.actions = @ \cup N]).reqs = g.reqs
    <2> DEFINE h == [g EXCEPT !.actions = @ \cup N]
    <2>1. GraphShaped(h) /\ h.reqs = g.reqs
        BY DEF GraphShaped, GraphFields
    <2> HIDE DEF h
    <2>2. GraphShaped(Bumped(h)) /\ Bumped(h).reqs = g.reqs
        BY <2>1, BumpKeeps DEF SameNodes
    <2> QED BY <2>2 DEF h
<1>2. ASSUME NEW N
      PROVE  /\ GraphShaped(Bumped([g EXCEPT !.vars = @ \cup N]))
             /\ Bumped([g EXCEPT !.vars = @ \cup N]).reqs = g.reqs
    <2> DEFINE h == [g EXCEPT !.vars = @ \cup N]
    <2>1. GraphShaped(h) /\ h.reqs = g.reqs
        BY DEF GraphShaped, GraphFields
    <2> HIDE DEF h
    <2>2. GraphShaped(Bumped(h)) /\ Bumped(h).reqs = g.reqs
        BY <2>1, BumpKeeps DEF SameNodes
    <2> QED BY <2>2 DEF h
<1>3. \E N : PopulateActions(g, declared) \in {g, Bumped([g EXCEPT !.actions = @ \cup N])}
    BY DEF PopulateActions
<1>4. \E N : PopulateVars(g, known, variables) \in {g, Bumped([g EXCEPT !.vars = @ \cup N])}
    BY DEF PopulateVars
<1> QED BY <1>1, <1>2, <1>3, <1>4

\* Nor is anything that the wiring adds.
LEMMA WiringLeaves ==
    ASSUME NEW g, GraphShaped(g), NEW declared, NEW variables, NEW E, NEW S
    PROVE  /\ Wire(g, declared, variables, E).reqs = g.reqs
           /\ WireCoverage(AddRfcRequirements(g, S)).reqs = g.reqs
<1> DEFINE actions == PopulateActions(g, declared)
           known == NamesOf(g.vars) \cup UNION {declared[f] \cup variables[f] : f \in Files}
           nodes == PopulateVars(actions, known, variables)
           h == [nodes EXCEPT !.edges = {e \in @ : e[2] \in Kept}]
           cleared == Bumped(h)
           reads == {<<p[1], "reads", p[2]>> :
                       p \in {q \in cleared.reqs \X known : q[2] \in VarsOf[q[1]]}}
           spread == {<<p[1], "propagated", p[2]>> :
                        p \in {q \in cleared.reqs \X Files : <<q[2], FileOf[q[1]]>> \in E}}
           i == [g EXCEPT !.rfcs = @ \cup S]
           rfcs == Bumped(i)
           covers == {<<p[1], "covers", p[2]>> :
                        p \in {q \in rfcs.reqs \X rfcs.rfcs : q[2] \in TagsOf[q[1]]}}
<1>1. /\ Wire(g, declared, variables, E) = AddEdges(AddEdges(cleared, reads), spread)
      /\ WireCoverage(AddRfcRequirements(g, S)) = AddEdges(rfcs, covers)
    BY DEF Wire, WireCoverage, AddRfcRequirements, ClearWiring
<1>2. GraphShaped(actions) /\ actions.reqs = g.reqs
    BY PopulatingLeaves
<1> HIDE DEF actions, known
<1>3. GraphShaped(nodes) /\ nodes.reqs = g.reqs
    BY <1>2, PopulatingLeaves
<1> HIDE DEF nodes
<1>4. GraphShaped(h) /\ h.reqs = g.reqs /\ GraphShaped(i) /\ i.reqs = g.reqs
    BY <1>3 DEF GraphShaped, GraphFields
<1> HIDE DEF h, i
<1>5. GraphShaped(cleared) /\ cleared.reqs = g.reqs /\ GraphShaped(rfcs) /\ rfcs.reqs = g.reqs
    BY <1>4, BumpKeeps DEF SameNodes
<1> HIDE DEF cleared, rfcs, reads, spread, covers
<1>6. GraphShaped(AddEdges(cleared, reads)) /\ AddEdges(cleared, reads).reqs = g.reqs
    BY <1>5, AddEdgesLeaves
<1> QED BY <1>1, <1>5, <1>6, AddEdgesLeaves

\* Registering changes one scope.
LEMMA RegisterScopeLeaves ==
    ASSUME NEW g, GraphShaped(g), NEW t, NEW closure, NEW exported
    PROVE  /\ RegisterScope(g, t, closure, exported).reqs = g.reqs
           /\ \A y \in Files : y # t => RegisterScope(g, t, closure, exported).scopes[y] = g.scopes[y]
           /\ t \in Files => /\ RegisterScope(g, t, closure, exported).scopes[t].closure = closure
                             /\ RegisterScope(g, t, closure, exported).scopes[t].exported = exported
<1> DEFINE h == RegisterScope(g, t, closure, exported)
           scope == [known |-> TRUE, closure |-> closure, exported |-> exported]
<1>1. scope.closure = closure /\ scope.exported = exported
    OBVIOUS
<1> HIDE DEF scope
<1>2. h.reqs = g.reqs /\ h.scopes = [g.scopes EXCEPT ![t] = scope]
    BY DEF RegisterScope, GraphShaped, GraphFields, scope
<1> HIDE DEF h
<1>3. \A y \in Files : h.scopes[y] = IF y = t THEN scope ELSE g.scopes[y]
    BY <1>2 DEF GraphShaped
<1> QED BY <1>1, <1>2, <1>3 DEF h

\* Queries change neither.
LEMMA QueriesLeave ==
    ASSUME NEW g, GraphShaped(g), NEW k, NEW f, NEW E
    PROVE  /\ QueryScoped(g, k).reqs = g.reqs /\ QueryScoped(g, k).scopes = g.scopes
           /\ QueryActive(g, f, E).reqs = g.reqs /\ QueryActive(g, f, E).scopes = g.scopes
BY DEF QueryScoped, QueryActive, GraphShaped, GraphFields

\* What a scan starts from.
LEMMA EmptyGraphIsFine ==
    /\ GraphOK(EmptyGraph) /\ Bound(EmptyGraph)
    /\ \A f \in Files : ~EmptyGraph.active[f].known
<1> DEFINE h == EmptyGraph
<1>1. /\ h.edges = {} /\ h.scopes = [t \in Files |-> NoScope]
      /\ h.lists = [k \in Files \X BOOLEAN |-> NoList]
      /\ h.active = [f \in Files |-> NoList]
      /\ GraphShaped(h)
    BY DEF EmptyGraph, GraphShaped, GraphFields
<1> HIDE DEF h
<1>2. NoScope.closure = {} /\ NoList.known = FALSE
    BY DEF NoScope, NoList
<1>3. Sound(h) /\ Complete(h) /\ Bound(h) /\ \A f \in Files : ~h.active[f].known
    BY <1>1, <1>2 DEF Sound, Reversed, Complete, CompleteFor, Bound
<1> QED BY <1>3 DEF GraphOK, h

-----------------------------------------------------------------------------
(***************************************************************************)
(* The jobs.                                                               *)
(***************************************************************************)
\* The record of a job has these fields.
JobFields == {"at", "todo", "dirty", "file", "text", "mtime", "hit", "entry", "results", "old",
              "tests"}
JobShaped(r) == r = [x \in JobFields |-> r[x]]

\* What the state's functions are functions of.
ShapesOK ==
    /\ disk \in [Files -> Nat]
    /\ sources = [f \in Files |-> sources[f]]
    /\ job = [j \in Jobs |-> job[j]] /\ \A j \in Jobs : JobShaped(job[j])

\* What is kept of a source was there when the time was that, or before.
SourcesOK ==
    \A f \in Files :
        /\ sources[f].mtime \in Nat
        /\ disk[f] # 0 => /\ sources[f].mtime <= disk[f]
                          /\ sources[f].mtime = disk[f] => sources[f].text = disk[f]
\* A time that was taken of a file is not later than the one it has.
OpenedOK(j) ==
    job[j].at = "open" /\ job[j].file \in Files =>
        /\ job[j].mtime \in Nat
        /\ disk[job[j].file] # 0 => job[j].mtime <= disk[job[j].file]

\* Points of the scan and of a parse on demand.
PointOK(j, at) ==
    /\ j = Scan => at \in {"idle", "next", "stat", "open", "read", "wire", "manifests", "scopes",
                           "register", "launch", "done"}
    /\ j \in Demands => at \in {"idle", "copy", "swap", "store", "done"}

\* Linking, as it depends on the point; and the points from which a job comes to
\* wire the graph, unless a stop is requested.
LinkingAt(j, at) ==
    \/ j \in Saves /\ at \notin {"idle", "done", "scopes", "register"}
    \/ j = Scan /\ at \in {"next", "stat", "open", "read", "wire"}
WillWireAt(j, at) ==
    \/ LinkingAt(j, at)
    \/ j \in Deeps /\ at \in {"turn", "pool", "stat", "open", "read", "copy", "swap", "store",
                              "drop", "extract", "count", "wire"}

\* Unless a stop is requested, an action without a node is one that somebody is
\* still going to wire.
WillBeBound == stop \/ Bound(graph) \/ \E j \in Jobs : WillWireAt(j, job[j].at)

\* The inductive invariant.
IInv == /\ ShapesOK /\ GraphOK(graph) /\ SourcesOK
        /\ \A j \in Jobs : OpenedOK(j) /\ PointOK(j, job[j].at)
        /\ ActiveListsAreFresh /\ WillBeBound

\* Linking depends on the point of the job alone.
LEMMA LinkingIsAtPoint ==
    ASSUME NEW j \in Jobs
    PROVE  /\ Linking(j) <=> LinkingAt(j, job[j].at)
           /\ Linking(j)' <=> LinkingAt(j, job'[j].at)
BY KindsOfJobs DEF Linking, LinkingAt, Working

\* A step of one job.
StepOf(j) ==
    /\ job' = [k \in Jobs |-> job'[k]] /\ JobShaped(job'[j])
    /\ \A k \in Jobs \ {j} : job'[k] = job[k]

\* A move to a record of a job is a step of that job.
LEMMA MovesIsStep ==
    ASSUME ShapesOK, NEW j \in Jobs, NEW r, JobShaped(r), Moves(j, r)
    PROVE  StepOf(j) /\ job'[j] = r
BY DEF ShapesOK, Moves, StepOf

\* A step of one job that moves on towards the wiring.  It may add to the sources.
LEMMA MoveKeeps ==
    ASSUME IInv, NEW j \in Jobs, StepOf(j), PointOK(j, job'[j].at), OpenedOK(j)',
           LinkingAt(j, job[j].at) => LinkingAt(j, job'[j].at),
           WillWireAt(j, job[j].at) => WillWireAt(j, job'[j].at) \/ stop,
           includes' = includes \/ LinkingAt(j, job'[j].at),
           GraphOK(graph'), ActiveKept(graph, graph'),
           Bound(graph) => Bound(graph') \/ WillWireAt(j, job'[j].at),
           SourcesOK', sources' = [f \in Files |-> sources'[f]],
           UNCHANGED <<disk, stop>>
    PROVE  IInv'
<1>1. ShapesOK' /\ \A k \in Jobs : PointOK(k, job[k].at)'
    BY DEF IInv, ShapesOK, StepOf, PointOK
<1>2. \A k \in Jobs : OpenedOK(k)'
    BY DEF IInv, OpenedOK, StepOf
<1>3. WillBeBound'
    <2>1. CASE stop
        BY <2>1 DEF WillBeBound
    <2>2. CASE Bound(graph)
        BY <2>2 DEF WillBeBound
    <2>3. ASSUME NEW k \in Jobs, WillWireAt(k, job[k].at), ~stop PROVE WillWireAt(k, job'[k].at)
        BY <2>3 DEF StepOf
    <2> QED BY <2>1, <2>2, <2>3 DEF IInv, WillBeBound
<1>4. ActiveListsAreFresh'
    <2> SUFFICES ASSUME \A k \in Jobs : ~LinkingAt(k, job'[k].at),
                        NEW f \in Files, graph'.active[f].known
                 PROVE  graph'.active[f].reqs = Active(graph', f, includes')
        BY LinkingIsAtPoint DEF ActiveListsAreFresh
    <2>1. \A k \in Jobs : ~LinkingAt(k, job[k].at)
        BY DEF StepOf
    <2>2. includes' = includes
        OBVIOUS
    <2>3. graph'.active[f] = graph.active[f] /\ graph'.reqs = graph.reqs
        BY DEF ActiveKept
    <2>4. graph.active[f].reqs = Active(graph, f, includes)
        BY <2>1, <2>3, LinkingIsAtPoint DEF IInv, ActiveListsAreFresh
    <2> QED BY <2>2, <2>3, <2>4 DEF Active, ReqsIn
<1> QED BY <1>1, <1>2, <1>3, <1>4 DEF IInv

\* The same without a change of the sources.
LEMMA JobKeeps ==
    ASSUME IInv, NEW j \in Jobs, StepOf(j), PointOK(j, job'[j].at), OpenedOK(j)',
           LinkingAt(j, job[j].at) => LinkingAt(j, job'[j].at),
           WillWireAt(j, job[j].at) => WillWireAt(j, job'[j].at) \/ stop,
           includes' = includes \/ LinkingAt(j, job'[j].at),
           GraphOK(graph'), ActiveKept(graph, graph'),
           Bound(graph) => Bound(graph') \/ WillWireAt(j, job'[j].at),
           UNCHANGED <<disk, sources, stop>>
    PROVE  IInv'
<1>1. SourcesOK' /\ sources' = [f \in Files |-> sources'[f]]
    BY DEF IInv, SourcesOK, ShapesOK
<1> QED BY <1>1, MoveKeeps

\* A step that leaves every action with its node and no list of active requirements.
LEMMA WiredKeeps ==
    ASSUME IInv, NEW j \in Jobs, StepOf(j), PointOK(j, job'[j].at), job'[j].at # "open",
           GraphOK(graph'), Bound(graph'), \A f \in Files : ~graph'.active[f].known,
           UNCHANGED <<disk, sources>>
    PROVE  IInv'
<1>1. ShapesOK' /\ \A k \in Jobs : PointOK(k, job[k].at)'
    BY DEF IInv, ShapesOK, StepOf, PointOK
<1>2. SourcesOK' /\ \A k \in Jobs : OpenedOK(k)'
    BY DEF IInv, SourcesOK, OpenedOK, StepOf
<1>3. WillBeBound' /\ ActiveListsAreFresh'
    BY DEF WillBeBound, ActiveListsAreFresh
<1> QED BY <1>1, <1>2, <1>3 DEF IInv

\* Steps that leave all but the job alone, or the table and the caches.
LEMMA QuietKeeps ==
    ASSUME IInv, NEW j \in Jobs, StepOf(j), PointOK(j, job'[j].at), job'[j].at # "open",
           LinkingAt(j, job[j].at) => LinkingAt(j, job'[j].at),
           WillWireAt(j, job[j].at) => WillWireAt(j, job'[j].at) \/ stop,
           UNCHANGED <<includes, graph, disk, sources, stop>>
    PROVE  IInv'
<1>1. GraphOK(graph') /\ ActiveKept(graph, graph') /\ (Bound(graph) => Bound(graph'))
    BY DEF IInv, ActiveKept
<1>2. OpenedOK(j)'
    BY DEF OpenedOK
<1> QED BY <1>1, <1>2, JobKeeps

\* A job that goes to another point has a record of a job.
LEMMA ToIsShaped ==
    ASSUME ShapesOK, NEW j \in Jobs, NEW at
    PROVE  JobShaped(To(j, at)) /\ To(j, at).at = at
BY DEF ShapesOK, To, JobShaped, JobFields

\* So has one that begins anew.
LEMMA IdleIsShaped == JobShaped(Idle)
BY DEF Idle, JobShaped, JobFields

\* The steps of a deep index that take files and end.
LEMMA DeepSteps ==
    ASSUME ShapesOK, NEW d \in Deeps,
           BeginDeep(d) \/ Pool(d) \/ TakeResult(d) \/ TakeTest(d) \/ ReadTest(d)
           \/ Count(d) \/ EndOfTests(d)
    PROVE  /\ StepOf(d)
           /\ job[d].at \in {"begin", "pool", "turn", "read", "count"}
           /\ \/ job'[d].at \in {"turn", "pool", "stat", "copy", "count", "drop", "wire"}
              \/ job'[d].at = "done" /\ job[d].at = "begin"
              \/ job'[d].at = "finish" /\ stop
           /\ UNCHANGED <<includes, graph, exports, disk, sources, stop>>
<1>1. d \in Jobs /\ JobShaped(job[d])
    BY DEF Jobs, ShapesOK
<1>2. ASSUME BeginDeep(d)
      PROVE  StepOf(d) /\ job[d].at = "begin" /\ job'[d].at \in {"pool", "turn", "done"}
    <2> DEFINE r == [job[d] EXCEPT !.todo = {f \in Files : Exporting(f)},
                        !.at = IF parallel /\ Cardinality({f \in Files : Exporting(f)}) > ParallelAbove
                               THEN "pool" ELSE "turn"]
    <2>1. JobShaped(r) /\ r.at \in {"pool", "turn"}
        BY <1>1 DEF JobShaped, JobFields
    <2>2. Moves(d, IF stop THEN To(d, "done") ELSE r) /\ job[d].at = "begin"
        BY <1>2 DEF BeginDeep
    <2> HIDE DEF r
    <2> QED BY <1>1, <2>1, <2>2, MovesIsStep, ToIsShaped
<1>3. ASSUME Pool(d) PROVE StepOf(d) /\ job[d].at = "pool" /\ job'[d].at = "pool"
    <2>1. PICK f \in job[d].todo :
             Moves(d, [job[d] EXCEPT !.todo = @ \ {f},
                      !.results = IF stop THEN @ ELSE Append(@, [file |-> f, text |-> disk[f]])])
        BY <1>3 DEF Pool
    <2> DEFINE r == [job[d] EXCEPT !.todo = @ \ {f},
                      !.results = IF stop THEN @ ELSE Append(@, [file |-> f, text |-> disk[f]])]
    <2>2. JobShaped(r) /\ r.at = job[d].at
        BY <1>1 DEF JobShaped, JobFields
    <2> HIDE DEF r
    <2> QED BY <1>1, <1>3, <2>1, <2>2, MovesIsStep DEF Pool, r
<1>4. ASSUME TakeResult(d)
      PROVE  StepOf(d) /\ job[d].at = "pool" /\ job'[d].at \in {"copy", "count"}
    <2> DEFINE e == Head(job[d].results)
               good == e.text # 0 /\ <<e.file, e.text>> \notin Unparsable
               r == [job[d] EXCEPT !.results = Tail(@), !.file = e.file, !.text = e.text,
                                   !.hit = TRUE, !.at = IF good THEN "copy" ELSE "count"]
    <2>1. JobShaped(r) /\ r.at \in {"copy", "count"}
        BY <1>1 DEF JobShaped, JobFields
    <2>2. Moves(d, r) /\ job[d].at = "pool"
        BY <1>4 DEF TakeResult
    <2> HIDE DEF r
    <2> QED BY <1>1, <2>1, <2>2, MovesIsStep
<1>5. ASSUME TakeTest(d) PROVE StepOf(d) /\ job[d].at = "turn" /\ job'[d].at = "stat"
    <2>1. PICK f \in job[d].todo :
             Moves(d, [job[d] EXCEPT !.todo = @ \ {f}, !.file = f, !.hit = FALSE, !.at = "stat"])
        BY <1>5 DEF TakeTest
    <2> DEFINE r == [job[d] EXCEPT !.todo = @ \ {f}, !.file = f, !.hit = FALSE, !.at = "stat"]
    <2>2. JobShaped(r) /\ r.at = "stat"
        BY <1>1 DEF JobShaped, JobFields
    <2> HIDE DEF r
    <2> QED BY <1>1, <1>5, <2>1, <2>2, MovesIsStep DEF TakeTest, r
<1>6. ASSUME ReadTest(d)
      PROVE  StepOf(d) /\ job[d].at = "read" /\ job'[d].at \in {"count", "drop", "copy"}
    <2>1. \E p \in {"count", "drop", "copy"} : Moves(d, To(d, p))
        BY <1>6 DEF ReadTest
    <2> QED BY <1>1, <1>6, <2>1, MovesIsStep, ToIsShaped DEF ReadTest
<1>7. ASSUME Count(d)
      PROVE  StepOf(d) /\ job[d].at = "count" /\ job'[d].at \in {"pool", "turn"}
    <2>1. \E p \in {"pool", "turn"} : Moves(d, To(d, p))
        BY <1>7 DEF Count
    <2> QED BY <1>1, <1>7, <2>1, MovesIsStep, ToIsShaped DEF Count
<1>8. ASSUME EndOfTests(d)
      PROVE  StepOf(d) /\ job[d].at \in {"pool", "turn"}
             /\ (job'[d].at = "wire" \/ (job'[d].at = "finish" /\ stop))
    <2>1. Moves(d, To(d, IF stop THEN "finish" ELSE "wire"))
        BY <1>8 DEF EndOfTests
    <2> QED BY <1>1, <1>8, <2>1, MovesIsStep, ToIsShaped DEF EndOfTests
<1>9. UNCHANGED <<includes, graph, exports, disk, sources, stop>>
    BY DEF BeginDeep, Pool, TakeResult, TakeTest, ReadTest, Count, EndOfTests
<1> QED BY <1>2, <1>3, <1>4, <1>5, <1>6, <1>7, <1>8, <1>9

\* They keep the invariant: one that ends without wiring saw a stop.
LEMMA DeepKeeps ==
    ASSUME IInv, NEW d \in Deeps,
           BeginDeep(d) \/ Pool(d) \/ TakeResult(d) \/ TakeTest(d) \/ ReadTest(d)
           \/ Count(d) \/ EndOfTests(d)
    PROVE  IInv'
<1>1. d \in Jobs /\ ShapesOK
    BY DEF Jobs, IInv
<1>2. /\ StepOf(d)
      /\ job[d].at \in {"begin", "pool", "turn", "read", "count"}
      /\ \/ job'[d].at \in {"turn", "pool", "stat", "copy", "count", "drop", "wire"}
         \/ job'[d].at = "done" /\ job[d].at = "begin"
         \/ job'[d].at = "finish" /\ stop
      /\ UNCHANGED <<includes, graph, disk, sources, stop>>
    BY <1>1, DeepSteps
<1>3. ~LinkingAt(d, job[d].at)
    BY KindsOfJobs DEF LinkingAt
<1>4. PointOK(d, job'[d].at) /\ job'[d].at # "open"
    BY <1>2, KindsOfJobs DEF PointOK
<1>5. WillWireAt(d, job[d].at) => WillWireAt(d, job'[d].at) \/ stop
    BY <1>2, <1>3 DEF WillWireAt
<1> QED BY <1>1, <1>2, <1>3, <1>4, <1>5, QuietKeeps

\* The steps of a reindexing until it has wired: it is linking.
LEMMA SaveSteps ==
    ASSUME ShapesOK, NEW s \in Saves, SaveStep(s)
    PROVE  /\ StepOf(s)
           /\ job'[s].at \in {"remove", "invalidate", "index", "put", "add", "link",
                              "extract", "wire"}
           /\ UNCHANGED <<graph, exports, disk, sources, stop>>
<1>1. s \in Jobs /\ JobShaped(job[s])
    BY DEF Jobs, ShapesOK
<1>2. ASSUME SaveBegin(s) PROVE StepOf(s) /\ job'[s].at = "remove"
    <2> DEFINE r == [Idle EXCEPT !.at = "remove",
                                 !.todo = Reach(FileOfSave[s], Converse(includes)),
                                 !.dirty = Reach(FileOfSave[s], Converse(includes))]
    <2>1. JobShaped(r) /\ r.at = "remove"
        BY IdleIsShaped DEF JobShaped, JobFields
    <2>2. Moves(s, r)
        BY <1>2 DEF SaveBegin
    <2> HIDE DEF r
    <2> QED BY <1>1, <2>1, <2>2, MovesIsStep
<1>3. ASSUME Remove(s) PROVE StepOf(s) /\ job'[s].at = "invalidate"
    <2>1. PICK f \in job[s].todo :
             Moves(s, [job[s] EXCEPT !.at = "invalidate", !.file = f, !.todo = @ \ {f}])
        BY <1>3 DEF Remove
    <2> DEFINE r == [job[s] EXCEPT !.at = "invalidate", !.file = f, !.todo = @ \ {f}]
    <2>2. JobShaped(r) /\ r.at = "invalidate"
        BY <1>1 DEF JobShaped, JobFields
    <2> HIDE DEF r
    <2> QED BY <1>1, <2>1, <2>2, MovesIsStep DEF r
<1>4. ASSUME InvalidateEntry(s) \/ PutParsed(s) \/ AddSymbols(s) \/ EndOfDirty(s)
      PROVE  StepOf(s) /\ job'[s].at \in {"index", "add", "link", "wire"}
    <2>1. \E p \in {"index", "add", "link", "wire"} : Moves(s, To(s, p))
        BY <1>4 DEF InvalidateEntry, PutParsed, AddSymbols, EndOfDirty
    <2> QED BY <1>1, <2>1, MovesIsStep, ToIsShaped
<1>5. ASSUME IndexFile(s) PROVE StepOf(s) /\ job'[s].at \in {"remove", "put"}
    <2> DEFINE r == [job[s] EXCEPT !.at = "put", !.text = disk[job[s].file]]
    <2>1. JobShaped(r) /\ r.at = "put"
        BY <1>1 DEF JobShaped, JobFields
    <2>2. Moves(s, r) \/ Moves(s, To(s, "remove"))
        BY <1>5 DEF IndexFile
    <2> HIDE DEF r
    <2> QED BY <1>1, <2>1, <2>2, MovesIsStep, ToIsShaped
<1>6. ASSUME Link(s) PROVE StepOf(s) /\ job'[s].at = "extract"
    BY <1>1, <1>6, MovesIsStep, ToIsShaped DEF Link
<1>7. UNCHANGED <<graph, exports, disk, sources, stop>>
    BY DEF SaveStep, SaveBegin, Remove, InvalidateEntry, IndexFile, PutParsed, AddSymbols, Link,
           EndOfDirty
<1> QED BY <1>2, <1>3, <1>4, <1>5, <1>6, <1>7 DEF SaveStep

\* They keep the invariant.
LEMMA SaveKeeps ==
    ASSUME IInv, NEW s \in Saves, SaveStep(s)
    PROVE  IInv'
<1>1. s \in Jobs /\ ShapesOK
    BY DEF Jobs, IInv
<1>2. /\ StepOf(s)
      /\ job'[s].at \in {"remove", "invalidate", "index", "put", "add", "link", "extract", "wire"}
      /\ UNCHANGED <<graph, disk, sources, stop>>
    BY <1>1, SaveSteps
<1>3. LinkingAt(s, job'[s].at) /\ WillWireAt(s, job'[s].at)
    BY <1>2 DEF LinkingAt, WillWireAt
<1>4. PointOK(s, job'[s].at) /\ OpenedOK(s)'
    BY <1>2, KindsOfJobs DEF PointOK, OpenedOK
<1>5. GraphOK(graph') /\ ActiveKept(graph, graph')
    BY <1>2 DEF IInv, ActiveKept
<1> QED BY <1>1, <1>2, <1>3, <1>4, <1>5, JobKeeps

\* Extracting the requirements of any text.
LEMMA ExtractedKeeps ==
    ASSUME NEW g, GraphOK(g), NEW f, NEW v
    PROVE  GraphOK(Extracted(g, f, v)) /\ ActiveKept(g, Extracted(g, f, v))
<1> DEFINE R == Of(Requires, f, v)
           W == Of(WritesOf, f, v)
<1>1. (\A r \in R : FileOf[r] = f) /\ (R # {} => f \in Files)
    <2>1. CASE <<f, v>> \in Texts
        <3>1. R \subseteq {r \in Reqs : FileOf[r] = <<f, v>>[1]} /\ f \in Files
            BY <2>1, OwnRequirements DEF Of, Texts
        <3> QED BY <3>1
    <2>2. CASE <<f, v>> \notin Texts
        BY <2>2 DEF Of
    <2> QED BY <2>1, <2>2
<1> HIDE DEF R, W
<1>2. /\ GraphOK(AddFileRequirements(g, f, R, W))
      /\ ActiveKept(g, AddFileRequirements(g, f, R, W))
    BY <1>1, AddFileKeeps
<1> QED BY <1>2 DEF Extracted, R, W

\* The steps of a scan after its start.
LEMMA ScanSteps ==
    ASSUME ShapesOK,
           (\E f \in Files : Take(f)) \/ Scanned \/ Merge \/ EndOfFiles \/ Manifests \/ NoLaunch
    PROVE  /\ StepOf(Scan) /\ UNCHANGED <<disk, sources, stop>>
           /\ (\E f \in Files : Take(f)) \/ Scanned \/ Merge \/ EndOfFiles
                 => job'[Scan].at \in {"next", "stat", "wire"}
           /\ Manifests => job[Scan].at = "manifests" /\ job'[Scan].at = "scopes"
           /\ NoLaunch => job[Scan].at = "launch" /\ job'[Scan].at = "done"
<1>1. Scan \in Jobs /\ JobShaped(job[Scan])
    BY DEF Jobs, ShapesOK
<1>2. ASSUME NEW f \in Files, Take(f)
      PROVE  StepOf(Scan) /\ job'[Scan].at \in {"next", "stat"}
    <2> DEFINE e == Cache!Found(cache, f, disk[f])
               next == [job[Scan] EXCEPT !.todo = @ \ {f}, !.file = f, !.entry = e]
               one == [next EXCEPT !.results = Append(@, [file |-> f, symbols |-> e, text |-> e.text])]
               two == [next EXCEPT !.at = "stat"]
    <2>1. JobShaped(next) /\ next.at = job[Scan].at
        BY <1>1 DEF JobShaped, JobFields
    <2>2. Moves(Scan, one) \/ Moves(Scan, two)
        BY <1>2 DEF Take
    <2>3. job[Scan].at = "next"
        BY <1>2 DEF Take
    <2> HIDE DEF next
    <2>4. JobShaped(one) /\ one.at = "next" /\ JobShaped(two) /\ two.at = "stat"
        BY <2>1, <2>3 DEF JobShaped, JobFields
    <2> HIDE DEF one, two
    <2> QED BY <1>1, <2>2, <2>4, MovesIsStep
<1>3. ASSUME Scanned PROVE StepOf(Scan) /\ job'[Scan].at = "next"
    <2> DEFINE f == job[Scan].file
               v == job[Scan].text
               e == IF job[Scan].entry # Cache!NoEntry THEN job[Scan].entry
                    ELSE [Cache!NoEntry EXCEPT !.file = f, !.text = v, !.links = v,
                                               !.extracted = Of(Requires, f, v) # {}]
               r == [job[Scan] EXCEPT !.at = "next", !.results = Append(@,
                           [file |-> f, symbols |-> e, text |-> v])]
    <2>1. Moves(Scan, r)
        BY <1>3 DEF Scanned
    <2> HIDE DEF e
    <2>2. JobShaped(r) /\ r.at = "next"
        BY <1>1 DEF JobShaped, JobFields
    <2> HIDE DEF r
    <2> QED BY <1>1, <2>1, <2>2, MovesIsStep
<1>4. ASSUME Merge PROVE StepOf(Scan) /\ job'[Scan].at = "next"
    <2> DEFINE r == [job[Scan] EXCEPT !.results = Tail(@)]
    <2>1. Moves(Scan, r) /\ job[Scan].at = "next"
        BY <1>4 DEF Merge
    <2>2. JobShaped(r) /\ r.at = job[Scan].at
        BY <1>1 DEF JobShaped, JobFields
    <2> HIDE DEF r
    <2> QED BY <1>1, <2>1, <2>2, MovesIsStep
<1>5. ASSUME EndOfFiles PROVE StepOf(Scan) /\ job'[Scan].at = "wire"
    <2> DEFINE r == [To(Scan, "wire") EXCEPT !.dirty = {}]
    <2>1. Moves(Scan, r)
        BY <1>5 DEF EndOfFiles
    <2>2. JobShaped(r) /\ r.at = "wire"
        BY <1>1, ToIsShaped DEF JobShaped, JobFields
    <2> HIDE DEF r
    <2> QED BY <1>1, <2>1, <2>2, MovesIsStep
<1>6. ASSUME Manifests
      PROVE  StepOf(Scan) /\ job[Scan].at = "manifests" /\ job'[Scan].at = "scopes"
    BY <1>1, <1>6, MovesIsStep, ToIsShaped DEF Manifests
<1>7. ASSUME NoLaunch PROVE StepOf(Scan) /\ job[Scan].at = "launch" /\ job'[Scan].at = "done"
    BY <1>1, <1>7, ToIsShaped DEF NoLaunch, ShapesOK, StepOf
<1>8. StepOf(Scan) /\ UNCHANGED <<disk, sources, stop>>
    BY <1>2, <1>3, <1>4, <1>5, <1>6, <1>7
       DEF Take, Scanned, Merge, EndOfFiles, Manifests, NoLaunch
<1> QED BY <1>2, <1>3, <1>4, <1>5, <1>6, <1>7, <1>8

\* They keep the invariant.
LEMMA ScanKeeps ==
    ASSUME IInv,
           (\E f \in Files : Take(f)) \/ Scanned \/ Merge \/ EndOfFiles \/ Manifests \/ NoLaunch
    PROVE  IInv'
<1>1. Scan \in Jobs /\ ShapesOK /\ PointOK(Scan, job[Scan].at)
    BY DEF Jobs, IInv
<1>2. /\ StepOf(Scan) /\ UNCHANGED <<disk, sources, stop>>
      /\ (\E f \in Files : Take(f)) \/ Scanned \/ Merge \/ EndOfFiles
            => job'[Scan].at \in {"next", "stat", "wire"}
      /\ Manifests => job[Scan].at = "manifests" /\ job'[Scan].at = "scopes"
      /\ NoLaunch => job[Scan].at = "launch" /\ job'[Scan].at = "done"
    BY <1>1, ScanSteps
<1>3. CASE (\E f \in Files : Take(f)) \/ Scanned \/ Merge \/ EndOfFiles
    <2>1. job'[Scan].at \in {"next", "stat", "wire"}
        BY <1>2, <1>3
    <2>2. LinkingAt(Scan, job'[Scan].at) /\ WillWireAt(Scan, job'[Scan].at)
        BY <2>1 DEF LinkingAt, WillWireAt
    <2>3. PointOK(Scan, job'[Scan].at) /\ OpenedOK(Scan)'
        BY <2>1, KindsOfJobs DEF PointOK, OpenedOK
    <2>4. \/ graph' = graph
          \/ \E f, v : graph' = Extracted(graph, f, v)
        BY <1>3 DEF Take, Scanned, Merge, EndOfFiles
    <2>5. GraphOK(graph') /\ ActiveKept(graph, graph')
        BY <2>4, ExtractedKeeps DEF IInv, ActiveKept
    <2> QED BY <1>1, <1>2, <2>2, <2>3, <2>5, JobKeeps
<1>4. CASE Manifests
    <2>1. GraphOK(graph') /\ ActiveKept(graph, graph') /\ (Bound(graph) => Bound(graph'))
        <3> DEFINE e == AddRfcRequirements(graph, Rfcs)
        <3>1. GraphOK(e) /\ ActiveKept(graph, e) /\ (Bound(graph) => Bound(e))
            BY AddRfcKeeps DEF IInv
        <3> HIDE DEF e
        <3>2. /\ GraphOK(WireCoverage(e)) /\ ActiveKept(e, WireCoverage(e))
              /\ Bound(e) => Bound(WireCoverage(e))
            BY <3>1, WireCoverageKeeps
        <3>3. graph' = WireCoverage(e)
            BY <1>4 DEF Manifests, e
        <3> QED BY <3>1, <3>2, <3>3 DEF ActiveKept
    <2>2. ~WillWireAt(Scan, job[Scan].at) /\ ~LinkingAt(Scan, job[Scan].at)
        BY <1>2, <1>4, KindsOfJobs DEF WillWireAt, LinkingAt
    <2>3. PointOK(Scan, job'[Scan].at) /\ OpenedOK(Scan)'
        BY <1>2, <1>4, KindsOfJobs DEF PointOK, OpenedOK
    <2>4. UNCHANGED includes
        BY <1>4 DEF Manifests
    <2> QED BY <1>1, <1>2, <2>1, <2>2, <2>3, <2>4, JobKeeps
<1>5. CASE NoLaunch
    <2>1. ~WillWireAt(Scan, job[Scan].at) /\ ~LinkingAt(Scan, job[Scan].at)
        BY <1>2, <1>5, KindsOfJobs DEF WillWireAt, LinkingAt
    <2>2. PointOK(Scan, job'[Scan].at) /\ job'[Scan].at # "open"
        BY <1>2, <1>5, KindsOfJobs DEF PointOK
    <2>3. UNCHANGED <<includes, graph>>
        BY <1>5 DEF NoLaunch
    <2> QED BY <1>1, <1>2, <2>1, <2>2, <2>3, QuietKeeps
<1> QED BY <1>3, <1>4, <1>5

\* The time that is taken of a file is the one it has.
LEMMA StatKeeps ==
    ASSUME IInv, NEW j \in Jobs, Stat(j)
    PROVE  IInv'
<1>1. JobShaped(job[j]) /\ ShapesOK /\ PointOK(j, job[j].at) /\ job[j].at = "stat"
    BY DEF IInv, ShapesOK, Stat
<1> DEFINE f == job[j].file
           none == [job[j] EXCEPT !.at = "read", !.text = 0]
           kept == [job[j] EXCEPT !.at = "read", !.text = sources[f].text]
           open == [job[j] EXCEPT !.at = "open", !.mtime = disk[f]]
<1>2. /\ JobShaped(none) /\ none.at = "read" /\ JobShaped(kept) /\ kept.at = "read"
      /\ JobShaped(open) /\ open.at = "open" /\ open.mtime = disk[f] /\ open.file = f
    BY <1>1 DEF JobShaped, JobFields
<1>3. Moves(j, none) \/ Moves(j, kept) \/ Moves(j, open)
    BY DEF Stat
<1>4. UNCHANGED <<disk, sources, stop, graph, includes>>
    BY DEF Stat
<1> HIDE DEF none, kept, open
<1>5. StepOf(j) /\ (job'[j] = none \/ job'[j] = kept \/ job'[j] = open)
    BY <1>1, <1>2, <1>3, MovesIsStep
<1>6. OpenedOK(j)'
    BY <1>1, <1>2, <1>4, <1>5 DEF OpenedOK, ShapesOK
<1>7. /\ job'[j].at \in {"read", "open"}
      /\ PointOK(j, job'[j].at)
      /\ LinkingAt(j, job[j].at) => LinkingAt(j, job'[j].at)
      /\ WillWireAt(j, job[j].at) => WillWireAt(j, job'[j].at)
    BY <1>1, <1>2, <1>5 DEF PointOK, LinkingAt, WillWireAt
<1>8. GraphOK(graph') /\ ActiveKept(graph, graph') /\ (Bound(graph) => Bound(graph'))
    BY <1>4 DEF IInv, ActiveKept
<1> QED BY <1>4, <1>5, <1>6, <1>7, <1>8, JobKeeps

\* What is read after the time was taken is of that time or of a later one.
LEMMA OpenKeeps ==
    ASSUME IInv, NEW j \in Jobs, Open(j)
    PROVE  IInv'
<1>1. JobShaped(job[j]) /\ ShapesOK /\ PointOK(j, job[j].at) /\ job[j].at = "open"
    BY DEF IInv, ShapesOK, Open
<1> DEFINE f == job[j].file
           r == [job[j] EXCEPT !.at = "read", !.text = disk[f]]
           new == [text |-> disk[f], mtime |-> job[j].mtime]
<1>2. JobShaped(r) /\ r.at = "read" /\ new.text = disk[f] /\ new.mtime = job[j].mtime
    BY <1>1 DEF JobShaped, JobFields
<1>3. /\ Moves(j, r)
      /\ sources' = IF disk[f] = 0 THEN sources ELSE [sources EXCEPT ![f] = new]
      /\ UNCHANGED <<disk, stop, graph, includes>>
    BY DEF Open
<1> HIDE DEF r, new
<1>4. StepOf(j) /\ job'[j].at = "read"
    BY <1>1, <1>2, <1>3, MovesIsStep
<1>5. OpenedOK(j)
    BY DEF IInv
<1>6. sources' = [y \in Files |-> sources'[y]]
    BY <1>1, <1>3 DEF ShapesOK
<1>7. SourcesOK'
    <2> SUFFICES ASSUME NEW y \in Files
                 PROVE  /\ sources'[y].mtime \in Nat
                        /\ disk[y] # 0 => /\ sources'[y].mtime <= disk[y]
                                          /\ sources'[y].mtime = disk[y] => sources'[y].text = disk[y]
        BY <1>3 DEF SourcesOK
    <2>1. CASE y = f /\ disk[f] # 0
        <3>1. sources'[y] = new
            BY <1>1, <1>3, <2>1 DEF ShapesOK
        <3> QED BY <1>1, <1>2, <1>5, <2>1, <3>1 DEF OpenedOK
    <2>2. CASE ~(y = f /\ disk[f] # 0)
        <3>1. sources'[y] = sources[y]
            BY <1>1, <1>3, <2>2 DEF ShapesOK
        <3> QED BY <3>1 DEF IInv, SourcesOK
    <2> QED BY <2>1, <2>2
<1>8. /\ PointOK(j, job'[j].at) /\ OpenedOK(j)'
      /\ LinkingAt(j, job[j].at) => LinkingAt(j, job'[j].at)
      /\ WillWireAt(j, job[j].at) => WillWireAt(j, job'[j].at)
    BY <1>1, <1>4 DEF PointOK, LinkingAt, WillWireAt, OpenedOK
<1>9. GraphOK(graph') /\ ActiveKept(graph, graph') /\ (Bound(graph) => Bound(graph'))
    BY <1>3 DEF IInv, ActiveKept
<1> QED BY <1>3, <1>4, <1>6, <1>7, <1>8, <1>9, MoveKeeps

\* Wiring ends the linking of a job, and leaves no list of active requirements that
\* the includes could have changed.
LEMMA WireStepKeeps ==
    ASSUME IInv, NEW j \in Jobs, WireStep(j)
    PROVE  IInv'
<1>1. ShapesOK /\ PointOK(j, job[j].at) /\ job[j].at = "wire"
    BY DEF IInv, WireStep
<1>2. StepOf(j) /\ job'[j].at = IF j = Scan THEN "manifests" ELSE "scopes"
    BY <1>1, MovesIsStep, ToIsShaped DEF WireStep
<1>3. PointOK(j, job'[j].at) /\ job'[j].at # "open"
    BY <1>1, <1>2 DEF PointOK
<1>4. GraphOK(graph') /\ Bound(graph') /\ \A f \in Files : ~graph'.active[f].known
    <2>1. graph' = Wire(graph, Declared, TableVars, includes)
        BY DEF WireStep
    <2>2. GraphOK(graph)
        BY DEF IInv
    <2> QED BY <2>1, <2>2, WireKeeps
<1>5. UNCHANGED <<disk, sources>>
    BY DEF WireStep
<1> QED BY <1>2, <1>3, <1>4, <1>5, WiredKeeps

\* Test scopes are registered after the wiring.
LEMMA ScopeSteps ==
    ASSUME ShapesOK, NEW j \in Jobs
    PROVE  /\ BeginScopes(j) =>
                /\ StepOf(j) /\ job[j].at = "scopes" /\ job'[j].at = "register"
                /\ job'[j].tests = {f \in Files : Exporting(f)}
           /\ Register(j) =>
                /\ StepOf(j) /\ job[j].at = "register" /\ job'[j].at = "register"
                /\ \E t : /\ graph' = RegisterScope(graph, t, Closure(t), ExportedBy(t))
                        /\ job'[j].tests = job[j].tests \ {t}
           /\ ForgetScopes(j) =>
                /\ StepOf(j) /\ job[j].at = "register" /\ job[j].tests = {}
                /\ job'[j].at = After(j)
<1>1. JobShaped(job[j])
    BY DEF ShapesOK
<1>2. ASSUME BeginScopes(j)
      PROVE  /\ StepOf(j) /\ job[j].at = "scopes" /\ job'[j].at = "register"
             /\ job'[j].tests = {f \in Files : Exporting(f)}
    <2> DEFINE r == [To(j, "register") EXCEPT !.tests = {f \in Files : Exporting(f)}]
    <2>1. Moves(j, r) /\ job[j].at = "scopes"
        BY <1>2 DEF BeginScopes
    <2>2. JobShaped(To(j, "register")) /\ To(j, "register").at = "register"
        BY <1>1, ToIsShaped
    <2>3. JobShaped(r) /\ r.at = "register" /\ r.tests = {f \in Files : Exporting(f)}
        BY <2>2 DEF JobShaped, JobFields
    <2> HIDE DEF r
    <2> QED BY <1>1, <2>1, <2>3, MovesIsStep
<1>3. ASSUME Register(j)
      PROVE  /\ StepOf(j) /\ job[j].at = "register" /\ job'[j].at = "register"
             /\ \E t : /\ graph' = RegisterScope(graph, t, Closure(t), ExportedBy(t))
                     /\ job'[j].tests = job[j].tests \ {t}
    <2>1. PICK t \in job[j].tests :
             /\ graph' = RegisterScope(graph, t, Closure(t), ExportedBy(t))
             /\ Moves(j, [job[j] EXCEPT !.tests = @ \ {t}])
        BY <1>3 DEF Register
    <2> DEFINE r == [job[j] EXCEPT !.tests = @ \ {t}]
    <2>2. JobShaped(r) /\ r.at = job[j].at /\ r.tests = job[j].tests \ {t}
        BY <1>1 DEF JobShaped, JobFields
    <2>3. job[j].at = "register"
        BY <1>3 DEF Register
    <2> HIDE DEF r
    <2>4. StepOf(j) /\ job'[j] = r
        BY <1>1, <2>1, <2>2, MovesIsStep DEF r
    <2> QED BY <2>1, <2>2, <2>3, <2>4
<1>4. ASSUME ForgetScopes(j)
      PROVE  /\ StepOf(j) /\ job[j].at = "register" /\ job[j].tests = {}
             /\ job'[j].at = After(j)
    BY <1>1, <1>4, MovesIsStep, ToIsShaped DEF ForgetScopes
<1> QED BY <1>2, <1>3, <1>4

\* They come after the wiring, and keep the invariant.
LEMMA ScopesKeep ==
    ASSUME IInv, NEW j \in Jobs, BeginScopes(j) \/ Register(j) \/ ForgetScopes(j)
    PROVE  IInv'
<1>1. ShapesOK /\ PointOK(j, job[j].at)
    BY DEF IInv
<1>2. /\ StepOf(j) /\ job[j].at \in {"scopes", "register"}
      /\ job'[j].at = "register" \/ job'[j].at = After(j)
    BY <1>1, ScopeSteps
<1>3. UNCHANGED <<disk, sources, stop, includes>>
    BY DEF BeginScopes, Register, ForgetScopes
<1>4. /\ ~LinkingAt(j, job[j].at) /\ ~WillWireAt(j, job[j].at)
      /\ PointOK(j, job'[j].at) /\ job'[j].at # "open"
    BY <1>1, <1>2, KindsOfJobs DEF LinkingAt, WillWireAt, PointOK, After
<1>5. GraphOK(graph') /\ ActiveKept(graph, graph') /\ (Bound(graph) => Bound(graph'))
    <2>1. CASE Register(j)
        <3>1. PICK t : graph' = RegisterScope(graph, t, Closure(t), ExportedBy(t))
            BY <1>1, <2>1, ScopeSteps
        <3>2. GraphOK(graph)
            BY DEF IInv
        <3> QED BY <3>1, <3>2, RegisterScopeKeeps
    <2>2. CASE BeginScopes(j) \/ ForgetScopes(j)
        BY <2>2 DEF BeginScopes, ForgetScopes, IInv, ActiveKept
    <2> QED BY <2>1, <2>2
<1>6. OpenedOK(j)'
    BY <1>4 DEF OpenedOK
<1> QED BY <1>2, <1>3, <1>4, <1>5, <1>6, JobKeeps

\* Extracting: who does it has the wiring before it.
LEMMA ExtractKeeps ==
    ASSUME IInv, NEW j \in Jobs, Extract(j)
    PROVE  IInv'
<1>1. ShapesOK /\ PointOK(j, job[j].at) /\ job[j].at = "extract"
    BY DEF IInv, Extract
<1>2. StepOf(j) /\ job'[j].at = IF j \in Saves THEN "remove" ELSE "count"
    BY <1>1, MovesIsStep, ToIsShaped DEF Extract
<1>3. j \in Saves \cup Deeps
    BY <1>1 DEF PointOK, Jobs
<1>4. /\ PointOK(j, job'[j].at) /\ OpenedOK(j)' /\ WillWireAt(j, job'[j].at)
      /\ LinkingAt(j, job[j].at) => LinkingAt(j, job'[j].at)
    BY <1>1, <1>2, <1>3, KindsOfJobs DEF PointOK, OpenedOK, WillWireAt, LinkingAt
<1>5. GraphOK(graph') /\ ActiveKept(graph, graph')
    BY ExtractedKeeps DEF IInv, Extract
<1>6. UNCHANGED <<disk, sources, stop, includes>>
    BY DEF Extract
<1> QED BY <1>2, <1>4, <1>5, <1>6, JobKeeps

\* Dropping a file's requirements: as with extracting.
LEMMA DropKeeps ==
    ASSUME IInv, NEW d \in Deeps, Drop(d)
    PROVE  IInv'
<1>1. d \in Jobs /\ ShapesOK /\ job[d].at = "drop"
    BY DEF IInv, Drop, Jobs
<1>2. StepOf(d) /\ job'[d].at = "extract"
    BY <1>1, MovesIsStep, ToIsShaped DEF Drop
<1>3. /\ PointOK(d, job'[d].at) /\ OpenedOK(d)' /\ WillWireAt(d, job'[d].at)
      /\ ~LinkingAt(d, job[d].at)
    BY <1>1, <1>2, KindsOfJobs DEF PointOK, OpenedOK, WillWireAt, LinkingAt
<1>4. GraphOK(graph') /\ ActiveKept(graph, graph')
    BY RemoveFileKeeps DEF IInv, Drop
<1>5. UNCHANGED <<disk, sources, stop, includes>>
    BY DEF Drop
<1> QED BY <1>1, <1>2, <1>3, <1>4, <1>5, JobKeeps

\* The upgrade of a file's symbols.
LEMMA UpgradeSteps ==
    ASSUME ShapesOK, NEW j \in Jobs, Copy(j) \/ Swap(j) \/ Store(j)
    PROVE  /\ StepOf(j) /\ job[j].at \in {"copy", "swap", "store"}
           /\ \/ job'[j].at \in {"swap", "store"}
              \/ IF j \in Demands THEN job'[j].at = "done" ELSE job'[j].at \in {"stat", "drop"}
           /\ UNCHANGED <<disk, sources, stop, includes, graph, exports>>
<1>1. JobShaped(job[j])
    BY DEF ShapesOK
<1>2. ASSUME Copy(j) PROVE StepOf(j) /\ job[j].at = "copy" /\ job'[j].at = "swap"
    <2> DEFINE r == [job[j] EXCEPT !.at = "swap", !.old = table]
    <2>1. Moves(j, r) /\ job[j].at = "copy"
        BY ONLY <1>2, Zenon DEF Copy
    <2>2. JobShaped(r) /\ r.at = "swap"
        BY <1>1 DEF JobShaped, JobFields
    <2> HIDE DEF r
    <2> QED BY <1>1, <2>1, <2>2, MovesIsStep
<1>3. ASSUME Swap(j) PROVE StepOf(j) /\ job[j].at = "swap" /\ job'[j].at = "store"
    <2> DEFINE r == [job[j] EXCEPT !.at = "store", !.old = <<>>]
    <2>1. Moves(j, r) /\ job[j].at = "swap"
        BY ONLY <1>3, Zenon DEF Swap
    <2>2. JobShaped(r) /\ r.at = "store"
        BY <1>1 DEF JobShaped, JobFields
    <2> HIDE DEF r
    <2> QED BY <1>1, <2>1, <2>2, MovesIsStep
<1>4. ASSUME Store(j)
      PROVE  /\ StepOf(j) /\ job[j].at = "store"
             /\ IF j \in Demands THEN job'[j].at = "done" ELSE job'[j].at \in {"stat", "drop"}
    <2>1. CASE j \in Demands
        BY <1>1, <1>4, <2>1, MovesIsStep, ToIsShaped DEF Store
    <2>2. CASE j \notin Demands
        <3>1. Moves(j, To(j, "stat")) \/ Moves(j, To(j, "drop"))
            BY <1>4, <2>2 DEF Store
        <3> QED BY <1>1, <1>4, <2>2, <3>1, MovesIsStep, ToIsShaped DEF Store
    <2> QED BY <2>1, <2>2
<1>5. UNCHANGED <<disk, sources, stop, includes, graph, exports>>
    <2>1. CASE Copy(j)
        BY ONLY <2>1, Zenon DEF Copy
    <2>2. CASE Swap(j)
        BY ONLY <2>2, Zenon DEF Swap
    <2>3. CASE Store(j)
        BY ONLY <2>3 DEF Store
    <2> QED BY <2>1, <2>2, <2>3
<1> QED BY <1>2, <1>3, <1>4, <1>5

\* They keep the invariant.
LEMMA UpgradeKeeps ==
    ASSUME IInv, NEW j \in Jobs, Copy(j) \/ Swap(j) \/ Store(j)
    PROVE  IInv'
<1>1. ShapesOK /\ PointOK(j, job[j].at)
    BY DEF IInv
<1>2. /\ StepOf(j) /\ job[j].at \in {"copy", "swap", "store"}
      /\ \/ job'[j].at \in {"swap", "store"}
         \/ IF j \in Demands THEN job'[j].at = "done" ELSE job'[j].at \in {"stat", "drop"}
      /\ UNCHANGED <<disk, sources, stop, includes, graph>>
    BY <1>1, UpgradeSteps
<1>3. /\ PointOK(j, job'[j].at) /\ job'[j].at # "open"
      /\ LinkingAt(j, job[j].at) => LinkingAt(j, job'[j].at)
      /\ WillWireAt(j, job[j].at) => WillWireAt(j, job'[j].at)
    BY <1>1, <1>2, KindsOfJobs DEF PointOK, LinkingAt, WillWireAt
<1> QED BY <1>2, <1>3, QuietKeeps

\* The end of a deep index forgets the sources.
LEMMA FinishKeeps ==
    ASSUME IInv, NEW d \in Deeps, Finish(d)
    PROVE  IInv'
<1>1. d \in Jobs /\ ShapesOK /\ job[d].at = "finish"
    BY DEF IInv, Finish, Jobs
<1>2. StepOf(d) /\ job'[d].at = "done"
    BY <1>1, MovesIsStep, ToIsShaped DEF Finish
<1>3. /\ PointOK(d, job'[d].at) /\ OpenedOK(d)'
      /\ ~LinkingAt(d, job[d].at) /\ ~WillWireAt(d, job[d].at)
    BY <1>1, <1>2, KindsOfJobs DEF PointOK, OpenedOK, WillWireAt, LinkingAt
<1>4. UNCHANGED <<disk, stop, includes, graph>> /\ sources' = [f \in Files |-> NoSource]
    BY DEF Finish
<1>5. SourcesOK' /\ sources' = [f \in Files |-> sources'[f]]
    BY <1>4 DEF NoSource, SourcesOK, IInv, ShapesOK
<1>6. GraphOK(graph') /\ ActiveKept(graph, graph') /\ (Bound(graph) => Bound(graph'))
    BY <1>4 DEF IInv, ActiveKept
<1> QED BY <1>1, <1>2, <1>3, <1>4, <1>5, <1>6, MoveKeeps

\* A parse on demand begins.
LEMMA DemandKeeps ==
    ASSUME IInv, NEW q \in Demands, Demand(q)
    PROVE  IInv'
<1>1. q \in Jobs /\ ShapesOK /\ job[q].at = "idle"
    BY DEF IInv, Demand, Jobs
<1>2. StepOf(q) /\ job'[q].at \in {"done", "copy"}
    <2> DEFINE f == FileOfDemand[q]
               r == [Idle EXCEPT !.at = "copy", !.file = f, !.text = disk[f]]
    <2>1. Moves(q, To(q, "done")) \/ Moves(q, r)
        BY DEF Demand
    <2>2. JobShaped(r) /\ r.at = "copy"
        BY IdleIsShaped DEF JobShaped, JobFields
    <2> HIDE DEF r
    <2> QED BY <1>1, <2>1, <2>2, MovesIsStep, ToIsShaped
<1>3. /\ PointOK(q, job'[q].at) /\ job'[q].at # "open"
      /\ ~LinkingAt(q, job[q].at) /\ ~WillWireAt(q, job[q].at)
    BY <1>1, <1>2, KindsOfJobs DEF PointOK, LinkingAt, WillWireAt
<1>4. UNCHANGED <<disk, sources, stop, includes, graph>>
    BY DEF Demand
<1> QED BY <1>1, <1>2, <1>3, <1>4, QuietKeeps

\* A scan starts with an empty graph, whoever is under way.
LEMMA StartScanKeeps ==
    ASSUME IInv, NEW c, StartScan(c)
    PROVE  IInv'
<1> DEFINE r == [Idle EXCEPT !.at = "next", !.todo = Files]
<1>1. Scan \in Jobs /\ ShapesOK /\ Moves(Scan, r)
    BY DEF IInv, StartScan, Jobs
<1>2. JobShaped(r) /\ r.at = "next"
    BY IdleIsShaped DEF JobShaped, JobFields
<1> HIDE DEF r
<1>3. StepOf(Scan) /\ job'[Scan].at = "next"
    BY <1>1, <1>2, MovesIsStep
<1>4. PointOK(Scan, job'[Scan].at) /\ job'[Scan].at # "open"
    BY <1>3, KindsOfJobs DEF PointOK
<1>5. graph' = EmptyGraph /\ UNCHANGED <<disk, sources>>
    BY DEF StartScan
<1> QED BY <1>1, <1>3, <1>4, <1>5, EmptyGraphIsFine, WiredKeeps

\* The scan ends and a deep index begins: neither links.
LEMMA LaunchKeeps ==
    ASSUME IInv, Launch
    PROVE  IInv'
<1>1. ShapesOK /\ job[Scan].at = "launch"
    BY DEF IInv, Launch
<1> DEFINE begin == [Idle EXCEPT !.at = "begin"]
<1>2. PICK d \in Deeps :
         job[d].at = "idle" /\ job' = [job EXCEPT ![Scan] = To(Scan, "done"), ![d] = begin]
    BY DEF Launch
<1>3. JobShaped(begin) /\ begin.at = "begin"
    BY IdleIsShaped DEF JobShaped, JobFields
<1> HIDE DEF begin
<1>4. Scan \in Jobs /\ d \in Jobs /\ d # Scan /\ d \notin Demands /\ d \notin Saves
    BY KindsOfJobs DEF Jobs
<1>5. /\ job' = [k \in Jobs |-> job'[k]]
      /\ job'[Scan] = To(Scan, "done") /\ job'[d] = begin
      /\ \A k \in Jobs \ {Scan, d} : job'[k] = job[k]
    BY <1>1, <1>2, <1>4 DEF ShapesOK
<1>6. job'[Scan].at = "done" /\ job'[d].at = "begin" /\ JobShaped(job'[Scan]) /\ JobShaped(job'[d])
    BY <1>1, <1>3, <1>4, <1>5, ToIsShaped
<1>7. UNCHANGED <<disk, sources, stop, includes, graph>>
    BY DEF Launch
<1>8. \A k \in Jobs :
         /\ LinkingAt(k, job'[k].at) <=> LinkingAt(k, job[k].at)
         /\ WillWireAt(k, job'[k].at) <=> WillWireAt(k, job[k].at)
         /\ PointOK(k, job'[k].at) /\ OpenedOK(k)'
    <2> SUFFICES ASSUME NEW k \in Jobs
                 PROVE  /\ LinkingAt(k, job'[k].at) <=> LinkingAt(k, job[k].at)
                        /\ WillWireAt(k, job'[k].at) <=> WillWireAt(k, job[k].at)
                        /\ PointOK(k, job'[k].at) /\ OpenedOK(k)'
        OBVIOUS
    <2>1. CASE k = Scan
        BY <1>1, <1>6, <2>1, KindsOfJobs DEF LinkingAt, WillWireAt, PointOK, OpenedOK
    <2>2. CASE k = d
        BY <1>2, <1>4, <1>6, <2>2 DEF LinkingAt, WillWireAt, PointOK, OpenedOK
    <2>3. CASE k \notin {Scan, d}
        BY <1>5, <1>7, <2>3 DEF IInv, OpenedOK
    <2> QED BY <2>1, <2>2, <2>3
<1>9. ShapesOK' /\ SourcesOK' /\ GraphOK(graph')
    BY <1>5, <1>6, <1>7 DEF IInv, ShapesOK, SourcesOK
<1>10. WillBeBound'
    BY <1>7, <1>8 DEF IInv, WillBeBound
<1>11. ActiveListsAreFresh'
    BY <1>7, <1>8, LinkingIsAtPoint DEF IInv, ActiveListsAreFresh, Active, ReqsIn
<1> QED BY <1>8, <1>9, <1>10, <1>11 DEF IInv

\* A list of active requirements is computed with the includes of now.
LEMMA QueriesKeep ==
    ASSUME IInv, RequirementQuery
    PROVE  IInv'
<1>1. UNCHANGED <<disk, sources, stop, includes, job>>
    BY DEF RequirementQuery
<1>2. ShapesOK' /\ SourcesOK' /\ \A k \in Jobs : (OpenedOK(k) /\ PointOK(k, job[k].at))'
    BY <1>1 DEF IInv, ShapesOK, SourcesOK, OpenedOK
<1>3. /\ GraphOK(graph') /\ (Bound(graph) => Bound(graph')) /\ graph'.reqs = graph.reqs
      /\ \A f \in Files : \/ graph'.active[f].known => graph'.active[f] = graph.active[f]
                          \/ graph'.active[f].reqs = Active(graph, f, includes)
    <2>1. CASE \E k \in Asked \X BOOLEAN : graph' = QueryScoped(graph, k)
        <3>1. PICK k \in Asked \X BOOLEAN : graph' = QueryScoped(graph, k)
            BY <2>1
        <3>2. GraphOK(graph') /\ ActiveKept(graph, graph') /\ (Bound(graph) => Bound(graph'))
            BY <3>1, QueryScopedKeeps DEF IInv
        <3>3. graph'.reqs = graph.reqs
            BY <3>1, QueriesLeave DEF IInv, GraphOK, Sound
        <3> QED BY <3>2, <3>3 DEF ActiveKept
    <2>2. CASE \E f \in Asked : graph' = QueryActive(graph, f, includes)
        <3>1. PICK f \in Asked : graph' = QueryActive(graph, f, includes)
            BY <2>2
        <3>2. GraphOK(graph)
            BY DEF IInv
        <3> QED BY <3>1, <3>2, QueryActiveKeeps
    <2> QED BY <2>1, <2>2 DEF RequirementQuery
<1>4. WillBeBound'
    BY <1>1, <1>3 DEF IInv, WillBeBound
<1>5. ActiveListsAreFresh'
    <2> SUFFICES ASSUME \A k \in Jobs : ~LinkingAt(k, job'[k].at),
                        NEW f \in Files, graph'.active[f].known
                 PROVE  graph'.active[f].reqs = Active(graph', f, includes')
        BY LinkingIsAtPoint DEF ActiveListsAreFresh
    <2>1. Active(graph', f, includes') = Active(graph, f, includes)
        BY <1>1, <1>3 DEF Active, ReqsIn
    <2>2. \A k \in Jobs : ~Linking(k)
        BY <1>1, LinkingIsAtPoint
    <2>3. graph.active[f].known => graph.active[f].reqs = Active(graph, f, includes)
        BY <2>2 DEF IInv, ActiveListsAreFresh
    <2> QED BY <1>3, <2>1, <2>3
<1> QED BY <1>2, <1>3, <1>4, <1>5 DEF IInv

\* Edits, queries for symbols and a stop leave the graph alone; an edit takes a file
\* to a time that is later than any that was seen.
LEMMA SurroundingsKeep ==
    ASSUME IInv,
           \/ \E f \in Files : SymbolQuery(f) \/ Edit(f)
           \/ RequestStop
           \/ UNCHANGED vars
    PROVE  IInv'
<1>1. UNCHANGED <<sources, includes, graph, job>> /\ (stop => stop')
    BY DEF SymbolQuery, Edit, RequestStop, vars
<1>2. /\ disk' \in [Files -> Nat]
      /\ \A f \in Files : disk'[f] \in {disk[f], 0} \/ (disk[f] # 0 /\ disk'[f] = disk[f] + 1)
    <2>1. CASE \E f \in Files : Edit(f)
        BY <2>1 DEF Edit, IInv, ShapesOK
    <2>2. CASE UNCHANGED disk
        BY <2>2 DEF IInv, ShapesOK
    <2> QED BY <2>1, <2>2 DEF SymbolQuery, RequestStop, vars
<1>3. ShapesOK' /\ SourcesOK' /\ \A k \in Jobs : (OpenedOK(k) /\ PointOK(k, job[k].at))'
    <2>1. ShapesOK' /\ disk \in [Files -> Nat]
        BY <1>1, <1>2 DEF IInv, ShapesOK
    <2>2. SourcesOK'
        BY <1>1, <1>2, <2>1 DEF IInv, SourcesOK
    <2>3. \A k \in Jobs : (OpenedOK(k) /\ PointOK(k, job[k].at))'
        BY <1>1, <1>2, <2>1 DEF IInv, OpenedOK
    <2> QED BY <2>1, <2>2, <2>3
<1>4. WillBeBound'
    BY <1>1 DEF IInv, WillBeBound
<1>5. ActiveListsAreFresh'
    BY <1>1, LinkingIsAtPoint DEF IInv, ActiveListsAreFresh, Active, ReqsIn
<1> QED BY <1>1, <1>3, <1>4, <1>5 DEF IInv

\* With nothing done, the invariant holds.
LEMMA BlankIsFine ==
    ASSUME graph = EmptyGraph, sources = [f \in Files |-> NoSource], disk \in [Files -> Nat],
           \A j \in Jobs : PointOK(j, job[j].at) /\ job[j].at # "open",
           job = [j \in Jobs |-> job[j]], \A j \in Jobs : JobShaped(job[j])
    PROVE  IInv
<1>1. ShapesOK /\ SourcesOK /\ \A j \in Jobs : OpenedOK(j)
    BY DEF ShapesOK, SourcesOK, NoSource, OpenedOK
<1>2. GraphOK(graph) /\ ActiveListsAreFresh /\ WillBeBound
    BY EmptyGraphIsFine DEF ActiveListsAreFresh, WillBeBound
<1> QED BY <1>1, <1>2 DEF IInv

\* The initial states are of that kind.
LEMMA InitIsFine == Init => IInv
<1> SUFFICES ASSUME Init PROVE IInv
    OBVIOUS
<1>1. job = [j \in Jobs |-> Idle] /\ Idle.at = "idle"
    BY DEF Init, Idle
<1>2. /\ graph = EmptyGraph /\ sources = [f \in Files |-> NoSource]
      /\ disk \in [Files -> Nat]
    BY DEF Init
<1> QED BY <1>1, <1>2, IdleIsShaped, BlankIsFine DEF PointOK

\* So is what a new process finds, but for the job of its scan.
LEMMA RestartKeeps ==
    ASSUME IInv, Restart
    PROVE  IInv'
<1> DEFINE first == [Idle EXCEPT !.at = "next", !.todo = Files]
<1>1. JobShaped(first) /\ first.at = "next" /\ JobShaped(Idle) /\ Idle.at = "idle"
    BY IdleIsShaped DEF JobShaped, JobFields, Idle
<1>2. /\ graph' = EmptyGraph /\ sources' = [f \in Files |-> NoSource]
      /\ disk' \in [Files -> Nat]
      /\ job' = [j \in Jobs |-> IF j = Scan THEN first ELSE Idle]
    BY DEF IInv, ShapesOK, Restart
<1> HIDE DEF first
<1>3. /\ job' = [j \in Jobs |-> job'[j]]
      /\ \A j \in Jobs : /\ JobShaped(job'[j]) /\ PointOK(j, job'[j].at)
                         /\ job'[j].at # "open"
    BY <1>1, <1>2, KindsOfJobs DEF PointOK
<1>4. ShapesOK' /\ SourcesOK' /\ \A j \in Jobs : OpenedOK(j)'
    BY <1>2, <1>3 DEF ShapesOK, SourcesOK, NoSource, OpenedOK
<1>5. GraphOK(graph') /\ ActiveListsAreFresh' /\ WillBeBound'
    BY <1>2, EmptyGraphIsFine DEF ActiveListsAreFresh, WillBeBound
<1> QED BY <1>3, <1>4, <1>5 DEF IInv

\* Every step keeps the invariant.
LEMMA StepKeeps == IInv /\ [Next]_vars => IInv'
<1> SUFFICES ASSUME IInv, [Next]_vars PROVE IInv'
    OBVIOUS
<1>1. CASE ScanStep
    <2>1. CASE FirstScan \/ Reindex
        BY <2>1, StartScanKeeps DEF FirstScan, Reindex
    <2>2. CASE Launch
        BY <2>2, LaunchKeeps
    <2>3. CASE (\E f \in Files : Take(f)) \/ Scanned \/ Merge \/ EndOfFiles \/ Manifests \/ NoLaunch
        BY <2>3, ScanKeeps
    <2> QED BY <1>1, <2>1, <2>2, <2>3 DEF ScanStep
<1>2. CASE Surroundings
    <2>1. CASE RequirementQuery
        BY <2>1, QueriesKeep
    <2>2. CASE (\E f \in Files : SymbolQuery(f) \/ Edit(f)) \/ RequestStop
        BY <2>2, SurroundingsKeep
    <2>3. CASE Restart
        BY <2>3, RestartKeeps
    <2> QED BY <1>2, <2>1, <2>2, <2>3 DEF Surroundings
<1>3. ASSUME NEW j \in Jobs, SharedStep(j) PROVE IInv'
    <2>1. CASE Stat(j) \/ Open(j) \/ WireStep(j)
        BY <2>1, StatKeeps, OpenKeeps, WireStepKeeps
    <2>2. CASE BeginScopes(j) \/ Register(j) \/ ForgetScopes(j)
        BY <2>2, ScopesKeep
    <2>3. CASE Extract(j)
        BY <2>3, ExtractKeeps
    <2>4. CASE Copy(j) \/ Swap(j) \/ Store(j)
        BY <2>4, UpgradeKeeps
    <2> QED BY <1>3, <2>1, <2>2, <2>3, <2>4 DEF SharedStep
<1>4. ASSUME NEW d \in Deeps, DeepStep(d) PROVE IInv'
    <2>1. CASE Drop(d)
        BY <2>1, DropKeeps
    <2>2. CASE Finish(d)
        BY <2>2, FinishKeeps
    <2>3. CASE BeginDeep(d) \/ Pool(d) \/ TakeResult(d) \/ TakeTest(d) \/ ReadTest(d)
               \/ Count(d) \/ EndOfTests(d)
        BY <2>3, DeepKeeps
    <2> QED BY <1>4, <2>1, <2>2, <2>3 DEF DeepStep
<1>5. ASSUME NEW s \in Saves, SaveStep(s) PROVE IInv'
    BY <1>5, SaveKeeps
<1>6. ASSUME NEW q \in Demands, Demand(q) PROVE IInv'
    BY <1>6, DemandKeeps
<1>7. CASE UNCHANGED vars
    BY <1>7, SurroundingsKeep
<1> QED BY <1>1, <1>2, <1>3, <1>4, <1>5, <1>6, <1>7 DEF Next

-----------------------------------------------------------------------------
(***************************************************************************)
(* The theorems.                                                           *)
(***************************************************************************)
\* In every behaviour the graph is sound, its lists are complete, what is kept of a
\* source is of its time, and whoever adds actions, exports or includes is still
\* going to wire them (workspace_indexer.py, deep_indexer.py, requirement_graph.py).
THEOREM Inductive == Spec => []IInv
<1>1. Init => IInv
    BY InitIsFine
<1>2. IInv /\ [Next]_vars => IInv'
    BY StepKeeps
<1> QED BY <1>1, <1>2, PTL DEF Spec

\* What is cached is what would be computed, whatever jobs, edits, queries and
\* restarts come between: a source's text under the mtime that the file has
\* (workspace_indexer.py:245-265), the lists of a test's requirements
\* (test_scope.py:229-236, 316-344) and, while nobody is between adding includes and
\* wiring, the lists of active requirements (requirement_graph.py:716-738).
THEOREM CachesFresh == Spec => []CachesAreFresh
<1>1. IInv => CachesAreFresh
    <2> SUFFICES ASSUME IInv PROVE CachesAreFresh
        OBVIOUS
    <2>1. SourceCacheIsFresh
        BY DEF IInv, SourcesOK, SourceCacheIsFresh
    <2>2. ListsAreComplete
        BY DEF IInv, GraphOK, Complete, CompleteFor, ListsAreComplete
    <2> QED BY <2>1, <2>2 DEF IInv, CachesAreFresh
<1> QED BY <1>1, Inductive, PTL

\* No edge comes from a requirement that is gone, and when everyone has finished
\* none leads to an action, a variable or a manifest's requirement without a node
\* (requirement_graph.py:347-386, 487-526).
THEOREM GraphCoherent == Spec => []GraphIsCoherent
<1>1. IInv => GraphIsCoherent
    <2> SUFFICES ASSUME IInv, NEW e \in graph.edges
                 PROVE  /\ e[2] # "writes" => e[1] \in graph.reqs
                        /\ AtRest /\ ~stop =>
                             /\ e[2] = "constrains" => e[3] \in NamesOf(graph.actions)
                             /\ e[2] = "reads" => e[3] \in NamesOf(graph.vars)
                             /\ e[2] = "covers" => e[3] \in graph.rfcs
        BY DEF GraphIsCoherent
    <2>1. EdgeOK(graph, e)
        BY DEF IInv, GraphOK, Sound
    <2>2. ASSUME AtRest, ~stop PROVE Bound(graph)
        <3>1. ASSUME NEW j \in Jobs PROVE ~WillWireAt(j, job[j].at)
            BY <2>2, <3>1 DEF AtRest, Working, WillWireAt, LinkingAt, IInv, PointOK
        <3> QED BY <2>2, <3>1 DEF IInv, WillBeBound
    <2>3. AtRest /\ ~stop => (e[2] = "constrains" => e[3] \in NamesOf(graph.actions))
        BY <2>2 DEF Bound
    <2> QED BY <2>1, <2>3 DEF EdgeOK
<1> QED BY <1>1, Inductive, PTL

-----------------------------------------------------------------------------
(***************************************************************************)
(* Agreement: requirements with exports, scopes with includes.             *)
(***************************************************************************)

\* A job that is going to begin to register scopes.
WillScopeAt(j, at) == WillWireAt(j, at) \/ at \in {"scopes", "manifests"}

\* A file's requirements agree but between Drop and Extract of a deep index.
RequirementsFollow(f) ==
    \/ \E d \in Deeps : job[d].at = "extract" /\ job[d].file = f
    \/ RequirementsAgree(f)

\* A scope that does not follow is one that somebody is going to register.
ScopeFollows(t) ==
    Exporting(t) /\ ~stop =>
        \/ ScopeIsOfNow(t)
        \/ \E j \in Jobs : WillScopeAt(j, job[j].at)
        \/ \E j \in Jobs : job[j].at = "register" /\ t \in job[j].tests

Follows == /\ exports = [f \in Files |-> exports[f]]
           /\ \A f \in Files : RequirementsFollow(f) /\ ScopeFollows(f)

\* A job that is going to register all the scopes makes up for any change.
LEMMA ScopedLater ==
    ASSUME NEW j \in Jobs, WillScopeAt(j, job'[j].at)
    PROVE  \A t \in Files : ScopeFollows(t)'
BY DEF ScopeFollows

\* A step of one job that changes neither the requirements nor the exports.
LEMMA StepFollows ==
    ASSUME Follows, NEW j \in Jobs, StepOf(j), graph'.reqs = graph.reqs, UNCHANGED exports,
           j \in Deeps => job[j].at # "extract",
           \/ WillScopeAt(j, job'[j].at)
           \/ /\ WillScopeAt(j, job[j].at) => stop
              /\ job[j].at = "register" => job[j].tests = {}
              /\ graph'.scopes = graph.scopes /\ UNCHANGED <<includes, stop>>
    PROVE  Follows'
<1>1. \A f \in Files : RequirementsFollow(f)'
    <2> SUFFICES ASSUME NEW f \in Files PROVE RequirementsFollow(f)'
        OBVIOUS
    <2>1. RequirementsAgree(f)' <=> RequirementsAgree(f)
        BY DEF RequirementsAgree, ReqsIn
    <2>2. ASSUME NEW d \in Deeps, job[d].at = "extract" PROVE job'[d] = job[d]
        BY <2>2 DEF StepOf, Jobs
    <2> QED BY <2>1, <2>2 DEF Follows, RequirementsFollow
<1>2. \A t \in Files : ScopeFollows(t)'
    <2>1. CASE WillScopeAt(j, job'[j].at)
        BY <2>1, ScopedLater
    <2>2. CASE ~WillScopeAt(j, job'[j].at)
        <3> SUFFICES ASSUME NEW t \in Files PROVE ScopeFollows(t)'
            OBVIOUS
        <3>1. /\ WillScopeAt(j, job[j].at) => stop
              /\ job[j].at = "register" => job[j].tests = {}
              /\ graph'.scopes = graph.scopes /\ UNCHANGED <<includes, stop>>
            BY <2>2
        <3>2. /\ ScopeIsOfNow(t)' <=> ScopeIsOfNow(t)
              /\ Exporting(t)' <=> Exporting(t)
            BY <3>1 DEF ScopeIsOfNow, Exporting, Closure, ExportedBy
        <3>3. ASSUME NEW k \in Jobs, k # j PROVE job'[k] = job[k]
            BY <3>3 DEF StepOf
        <3>4. ScopeFollows(t)
            BY DEF Follows
        <3> QED BY <3>1, <3>2, <3>3, <3>4 DEF ScopeFollows
    <2> QED BY <2>1, <2>2
<1> QED BY <1>1, <1>2 DEF Follows

\* A text that is extracted gives the requirements and the exports at once.
LEMMA ExtractingFollows ==
    ASSUME IInv, Follows, NEW j \in Jobs, StepOf(j), WillScopeAt(j, job'[j].at),
           NEW file, NEW text, graph' = Extracted(graph, file, text), exports' = [exports EXCEPT ![file] = text],
           j \in Deeps /\ job[j].at = "extract" => job[j].file = file
    PROVE  Follows'
<1>1. /\ exports' = [y \in Files |-> exports'[y]]
      /\ \A y \in Files : exports'[y] = IF y = file THEN text ELSE exports[y]
    BY DEF Follows
<1>2. \A y : ReqsIn(graph', {y}) = IF y = file THEN Of(Requires, file, text) ELSE ReqsIn(graph, {y})
    <2>1. GraphShaped(graph)
        BY DEF IInv, GraphOK, Sound
    <2>2. /\ graph'.reqs = (graph.reqs \ ReqsIn(graph, {file})) \cup Of(Requires, file, text)
          /\ \A r \in Of(Requires, file, text) : FileOf[r] = file
        BY <2>1, ExtractedLeaves
    <2> QED BY <2>2 DEF ReqsIn
<1>3. ASSUME NEW y \in Files PROVE RequirementsFollow(y)'
    <2>1. CASE y = file
        BY <1>1, <1>2, <2>1 DEF RequirementsFollow, RequirementsAgree
    <2>2. CASE y # file
        <3>1. RequirementsAgree(y)' <=> RequirementsAgree(y)
            BY <1>1, <1>2, <2>2 DEF RequirementsAgree
        <3>2. ASSUME NEW d \in Deeps, job[d].at = "extract", job[d].file = y
              PROVE  job'[d] = job[d]
            BY <2>2, <3>2 DEF StepOf, Jobs
        <3> QED BY <3>1, <3>2 DEF Follows, RequirementsFollow
    <2> QED BY <2>1, <2>2
<1> QED BY <1>1, <1>3, ScopedLater DEF Follows

\* Nothing is exported where nothing was indexed.
Blank == graph = EmptyGraph /\ exports = [f \in Files |-> 0]

\* There, all that there is follows.
LEMMA BlankFollows == Blank => Follows
<1> SUFFICES ASSUME Blank PROVE Follows
    OBVIOUS
<1>1. ASSUME NEW data, NEW f PROVE Of(data, f, 0) = {}
    <2>1. <<f, 0>> \notin Texts
        BY DEF Texts
    <2> QED BY <2>1 DEF Of
<1>2. ASSUME NEW f \in Files PROVE RequirementsAgree(f) /\ ~Exporting(f)
    <2>1. exports[f] = 0 /\ ReqsIn(graph, {f}) = {}
        BY DEF Blank, ReqsIn, EmptyGraph
    <2> QED BY <1>1, <2>1 DEF RequirementsAgree, Exporting
<1> QED BY <1>2 DEF Blank, Follows, RequirementsFollow, ScopeFollows

\* The steps of a scan after its start.
LEMMA ScanFollows ==
    ASSUME IInv, Follows,
           (\E f \in Files : Take(f)) \/ Scanned \/ Merge \/ EndOfFiles \/ Manifests \/ NoLaunch
    PROVE  Follows'
<1>1. Scan \in Jobs /\ Scan \notin Deeps /\ ShapesOK /\ GraphShaped(graph)
    BY KindsOfJobs DEF Jobs, IInv, GraphOK, Sound
<1>2. /\ StepOf(Scan) /\ UNCHANGED stop
      /\ (\E f \in Files : Take(f)) \/ Scanned \/ Merge \/ EndOfFiles
            => job'[Scan].at \in {"next", "stat", "wire"}
      /\ Manifests => job[Scan].at = "manifests" /\ job'[Scan].at = "scopes"
      /\ NoLaunch => job[Scan].at = "launch" /\ job'[Scan].at = "done"
    BY <1>1, ScanSteps
<1>3. CASE (\E f \in Files : Take(f)) \/ Scanned \/ Merge \/ EndOfFiles
    <2>1. WillScopeAt(Scan, job'[Scan].at)
        BY <1>2, <1>3 DEF WillScopeAt, WillWireAt, LinkingAt
    <2>2. \/ UNCHANGED <<graph, exports>>
          \/ \E e : /\ graph' = Extracted(graph, e.file, e.text)
                   /\ exports' = [exports EXCEPT ![e.file] = e.text]
        BY <1>3 DEF Take, Scanned, Merge, EndOfFiles
    <2>3. CASE UNCHANGED <<graph, exports>>
        BY <1>1, <1>2, <2>1, <2>3, StepFollows
    <2>4. CASE \E e : /\ graph' = Extracted(graph, e.file, e.text)
                    /\ exports' = [exports EXCEPT ![e.file] = e.text]
        <3>1. PICK e : /\ graph' = Extracted(graph, e.file, e.text)
                       /\ exports' = [exports EXCEPT ![e.file] = e.text]
            BY <2>4
        <3> QED BY <1>1, <1>2, <2>1, <3>1, ExtractingFollows
    <2> QED BY <2>2, <2>3, <2>4
<1>4. CASE Manifests
    <2>1. WillScopeAt(Scan, job'[Scan].at)
        BY <1>2, <1>4 DEF WillScopeAt
    <2>2. graph'.reqs = graph.reqs /\ UNCHANGED exports
        BY <1>1, <1>4, WiringLeaves DEF Manifests
    <2> QED BY <1>1, <1>2, <2>1, <2>2, StepFollows
<1>5. CASE NoLaunch
    <2>1. ~WillScopeAt(Scan, job[Scan].at) /\ job[Scan].at # "register"
        BY <1>2, <1>5, KindsOfJobs DEF WillScopeAt, WillWireAt, LinkingAt
    <2>2. UNCHANGED <<graph, exports, includes, stop>>
        BY <1>5 DEF NoLaunch
    <2> QED BY <1>1, <1>2, <2>1, <2>2, StepFollows
<1> QED BY <1>3, <1>4, <1>5

\* The steps of a reindexing until it has wired.
LEMMA SaveFollows ==
    ASSUME IInv, Follows, NEW s \in Saves, SaveStep(s)
    PROVE  Follows'
<1>1. s \in Jobs /\ s \notin Deeps /\ ShapesOK
    BY KindsOfJobs DEF Jobs, IInv
<1>2. /\ StepOf(s) /\ UNCHANGED <<graph, exports>>
      /\ job'[s].at \in {"remove", "invalidate", "index", "put", "add", "link", "extract", "wire"}
    BY <1>1, SaveSteps
<1>3. WillScopeAt(s, job'[s].at)
    BY <1>2 DEF WillScopeAt, WillWireAt, LinkingAt
<1> QED BY <1>1, <1>2, <1>3, StepFollows

\* So do those of a deep index that take files and end.
LEMMA DeepFollows ==
    ASSUME IInv, Follows, NEW d \in Deeps,
           \/ BeginDeep(d) \/ Pool(d) \/ TakeResult(d) \/ TakeTest(d) \/ ReadTest(d)
              \/ Count(d) \/ EndOfTests(d)
           \/ Finish(d)
    PROVE  Follows'
<1>1. d \in Jobs /\ ShapesOK
    BY DEF Jobs, IInv
<1>2. CASE BeginDeep(d) \/ Pool(d) \/ TakeResult(d) \/ TakeTest(d) \/ ReadTest(d)
           \/ Count(d) \/ EndOfTests(d)
    <2>1. /\ StepOf(d) /\ UNCHANGED <<includes, graph, exports, stop>>
          /\ job[d].at \in {"begin", "pool", "turn", "read", "count"}
          /\ \/ job'[d].at \in {"turn", "pool", "stat", "copy", "count", "drop", "wire"}
             \/ job'[d].at = "done" /\ job[d].at = "begin"
             \/ job'[d].at = "finish" /\ stop
        BY <1>1, <1>2, DeepSteps
    <2>2. WillScopeAt(d, job'[d].at) \/ (WillScopeAt(d, job[d].at) => stop)
        BY <2>1, KindsOfJobs DEF WillScopeAt, WillWireAt, LinkingAt
    <2> QED BY <1>1, <2>1, <2>2, StepFollows
<1>3. CASE Finish(d)
    <2>1. job[d].at = "finish" /\ UNCHANGED <<includes, graph, exports, stop>>
        BY <1>3 DEF Finish
    <2>2. StepOf(d)
        BY <1>1, <1>3, MovesIsStep, ToIsShaped DEF Finish
    <2>3. ~WillScopeAt(d, job[d].at)
        BY <2>1, KindsOfJobs DEF WillScopeAt, WillWireAt, LinkingAt
    <2> QED BY <1>1, <2>1, <2>2, <2>3, StepFollows
<1> QED BY <1>2, <1>3

\* A file whose requirements are dropped is one that the deep index is at.
LEMMA DropFollows ==
    ASSUME IInv, Follows, NEW d \in Deeps, Drop(d)
    PROVE  Follows'
<1>1. d \in Jobs /\ ShapesOK /\ job[d].at = "drop"
    BY DEF IInv, Drop, Jobs
<1>2. StepOf(d) /\ job'[d] = To(d, "extract")
    BY <1>1, MovesIsStep, ToIsShaped DEF Drop
<1>3. job'[d].at = "extract" /\ job'[d].file = job[d].file
    BY <1>1, <1>2 DEF To, ShapesOK, JobShaped, JobFields
<1>4. UNCHANGED exports /\ graph'.reqs = graph.reqs \ ReqsIn(graph, {job[d].file})
    BY RemoveFileLeaves DEF Drop, IInv, GraphOK, Sound
<1>5. WillScopeAt(d, job'[d].at)
    BY <1>3 DEF WillScopeAt, WillWireAt
<1>6. ASSUME NEW f \in Files PROVE RequirementsFollow(f)'
    <2>1. CASE f = job[d].file
        BY <1>3, <2>1 DEF RequirementsFollow
    <2>2. CASE f # job[d].file
        <3>1. RequirementsAgree(f)' <=> RequirementsAgree(f)
            BY <1>4, <2>2 DEF RequirementsAgree, ReqsIn
        <3>2. ASSUME NEW e \in Deeps, job[e].at = "extract" PROVE job'[e] = job[e]
            BY <1>1, <1>2, <3>2 DEF StepOf, Jobs
        <3> QED BY <3>1, <3>2 DEF Follows, RequirementsFollow
    <2> QED BY <2>1, <2>2
<1> QED BY <1>1, <1>4, <1>5, <1>6, ScopedLater DEF Follows

\* The steps that several kinds of jobs take.
LEMMA SharedFollows ==
    ASSUME IInv, Follows, NEW j \in Jobs,
           Stat(j) \/ Open(j) \/ WireStep(j) \/ Extract(j) \/ Copy(j) \/ Swap(j) \/ Store(j)
    PROVE  Follows'
<1>1. ShapesOK /\ PointOK(j, job[j].at) /\ GraphShaped(graph) /\ JobShaped(job[j])
    BY DEF IInv, GraphOK, Sound, ShapesOK
<1>2. CASE Stat(j) \/ Open(j)
    <2>1. StepOf(j) /\ job[j].at \in {"stat", "open"} /\ job'[j].at \in {"read", "open"}
        <3> DEFINE f == job[j].file
                   none == [job[j] EXCEPT !.at = "read", !.text = 0]
                   kept == [job[j] EXCEPT !.at = "read", !.text = sources[f].text]
                   open == [job[j] EXCEPT !.at = "open", !.mtime = disk[f]]
                   new == [job[j] EXCEPT !.at = "read", !.text = disk[f]]
        <3>1. /\ JobShaped(none) /\ none.at = "read" /\ JobShaped(kept) /\ kept.at = "read"
              /\ JobShaped(open) /\ open.at = "open" /\ JobShaped(new) /\ new.at = "read"
            BY <1>1 DEF JobShaped, JobFields
        <3>2. /\ Moves(j, none) \/ Moves(j, kept) \/ Moves(j, open) \/ Moves(j, new)
              /\ job[j].at \in {"stat", "open"}
            BY <1>2 DEF Stat, Open
        <3> HIDE DEF none, kept, open, new
        <3> QED BY <1>1, <3>1, <3>2, MovesIsStep
    <2>2. WillScopeAt(j, job'[j].at)
        BY <1>1, <2>1 DEF PointOK, Jobs, WillScopeAt, WillWireAt, LinkingAt
    <2>3. UNCHANGED <<graph, exports>>
        BY <1>2 DEF Stat, Open
    <2> QED BY <2>1, <2>2, <2>3, StepFollows
<1>3. CASE WireStep(j)
    <2>1. StepOf(j) /\ job[j].at = "wire" /\ job'[j].at \in {"manifests", "scopes"}
        BY <1>1, <1>3, MovesIsStep, ToIsShaped DEF WireStep
    <2>2. graph'.reqs = graph.reqs /\ UNCHANGED exports
        BY <1>1, <1>3, WiringLeaves DEF WireStep
    <2> QED BY <2>1, <2>2, StepFollows DEF WillScopeAt
<1>4. CASE Extract(j)
    <2>1. job[j].at = "extract"
        BY <1>4 DEF Extract
    <2>2. StepOf(j) /\ job'[j].at = IF j \in Saves THEN "remove" ELSE "count"
        BY <1>1, <1>4, MovesIsStep, ToIsShaped DEF Extract
    <2>3. WillScopeAt(j, job'[j].at)
        BY <1>1, <2>1, <2>2 DEF PointOK, Jobs, WillScopeAt, WillWireAt, LinkingAt
    <2>4. /\ graph' = Extracted(graph, job[j].file, job[j].text)
          /\ exports' = [exports EXCEPT ![job[j].file] = job[j].text]
        BY <1>4 DEF Extract
    <2> QED BY <2>2, <2>3, <2>4, ExtractingFollows
<1>5. CASE Copy(j) \/ Swap(j) \/ Store(j)
    <2>1. /\ StepOf(j) /\ job[j].at \in {"copy", "swap", "store"}
          /\ \/ job'[j].at \in {"swap", "store"}
             \/ IF j \in Demands THEN job'[j].at = "done" ELSE job'[j].at \in {"stat", "drop"}
          /\ UNCHANGED <<stop, includes, graph, exports>>
        BY <1>1, <1>5, UpgradeSteps
    <2>2. WillScopeAt(j, job[j].at) => WillScopeAt(j, job'[j].at)
        BY <1>1, <2>1, KindsOfJobs DEF PointOK, WillScopeAt, WillWireAt, LinkingAt
    <2>3. j \in Deeps => job[j].at # "extract"
        BY <2>1
    <2>4. job[j].at # "register" /\ graph'.reqs = graph.reqs /\ graph'.scopes = graph.scopes
        BY <2>1
    <2> QED BY <2>1, <2>2, <2>3, <2>4, StepFollows
<1> QED BY <1>2, <1>3, <1>4, <1>5

\* Registering begins with every test, and gives one after the other its scope of now.
LEMMA ScopesFollow ==
    ASSUME IInv, Follows, NEW j \in Jobs, BeginScopes(j) \/ Register(j) \/ ForgetScopes(j)
    PROVE  Follows'
<1>1. ShapesOK /\ PointOK(j, job[j].at) /\ GraphShaped(graph)
    BY DEF IInv, GraphOK, Sound
<1>2. /\ StepOf(j) /\ job[j].at \in {"scopes", "register"}
      /\ UNCHANGED <<includes, exports, stop>>
    BY <1>1, ScopeSteps DEF BeginScopes, Register, ForgetScopes
<1>3. CASE ForgetScopes(j)
    <2>1. job[j].at = "register" /\ job[j].tests = {} /\ UNCHANGED graph
        BY <1>1, <1>3, ScopeSteps DEF ForgetScopes
    <2>2. ~WillScopeAt(j, job[j].at)
        BY <2>1, KindsOfJobs DEF WillScopeAt, WillWireAt, LinkingAt
    <2> QED BY <1>2, <2>1, <2>2, StepFollows
<1>4. CASE BeginScopes(j) \/ Register(j)
    <2>1. graph'.reqs = graph.reqs
        <3>1. CASE BeginScopes(j)
            BY <3>1 DEF BeginScopes
        <3>2. CASE Register(j)
            <4>1. PICK t : graph' = RegisterScope(graph, t, Closure(t), ExportedBy(t))
                BY <1>1, <3>2, ScopeSteps
            <4> QED BY <1>1, <4>1, RegisterScopeLeaves
        <3> QED BY <1>4, <3>1, <3>2
    <2>2. ASSUME NEW f \in Files PROVE RequirementsFollow(f)'
        <3>1. RequirementsAgree(f)' <=> RequirementsAgree(f)
            BY <1>2, <2>1 DEF RequirementsAgree, ReqsIn
        <3>2. ASSUME NEW d \in Deeps, job[d].at = "extract" PROVE job'[d] = job[d]
            BY <1>2, <3>2 DEF StepOf, Jobs
        <3> QED BY <3>1, <3>2 DEF Follows, RequirementsFollow
    <2>3. ASSUME NEW t \in Files PROVE ScopeFollows(t)'
        <3>1. CASE BeginScopes(j)
            <4>1. job'[j].at = "register" /\ job'[j].tests = {f \in Files : Exporting(f)}
                BY <1>1, <3>1, ScopeSteps
            <4>2. Exporting(t)' <=> Exporting(t)
                BY <1>2 DEF Exporting
            <4> QED BY <4>1, <4>2 DEF ScopeFollows
        <3>2. CASE Register(j)
            <4>1. job[j].at = "register" /\ job'[j].at = "register"
                BY <1>1, <3>2, ScopeSteps
            <4>2. PICK u : /\ graph' = RegisterScope(graph, u, Closure(u), ExportedBy(u))
                           /\ job'[j].tests = job[j].tests \ {u}
                BY <1>1, <3>2, ScopeSteps
            <4>3. /\ Exporting(t)' <=> Exporting(t)
                  /\ Closure(t)' = Closure(t) /\ ExportedBy(t)' = ExportedBy(t)
                BY <1>2 DEF Exporting, Closure, ExportedBy
            <4>4. CASE t = u
                <5>1. graph'.scopes[t].closure = Closure(t) /\ graph'.scopes[t].exported = ExportedBy(t)
                    BY <1>1, <4>2, <4>4, RegisterScopeLeaves
                <5> QED BY <4>3, <5>1 DEF ScopeFollows, ScopeIsOfNow
            <4>5. CASE t # u
                <5>1. graph'.scopes[t] = graph.scopes[t]
                    BY <1>1, <4>2, <4>5, RegisterScopeLeaves
                <5>2. ScopeIsOfNow(t)' <=> ScopeIsOfNow(t)
                    BY <4>3, <5>1 DEF ScopeIsOfNow
                <5>3. ASSUME NEW k \in Jobs, k # j PROVE job'[k] = job[k]
                    BY <1>2, <5>3 DEF StepOf
                <5>4. ~WillScopeAt(j, job[j].at)
                    BY <4>1, KindsOfJobs DEF WillScopeAt, WillWireAt, LinkingAt
                <5>5. t \in job[j].tests => t \in job'[j].tests
                    BY <4>2, <4>5
                <5>6. ScopeFollows(t)
                    BY DEF Follows
                <5> QED BY <1>2, <4>1, <4>3, <5>2, <5>3, <5>4, <5>5, <5>6 DEF ScopeFollows
            <4> QED BY <4>4, <4>5
        <3> QED BY <1>4, <3>1, <3>2
    <2> QED BY <1>2, <2>2, <2>3 DEF Follows
<1> QED BY <1>3, <1>4

\* The end of a scan and the start of its deep index change nothing that is followed.
LEMMA LaunchFollows ==
    ASSUME IInv, Follows, Launch
    PROVE  Follows'
<1>1. ShapesOK /\ job[Scan].at = "launch" /\ UNCHANGED <<includes, graph, exports, stop>>
    BY DEF IInv, Launch
<1> DEFINE begin == [Idle EXCEPT !.at = "begin"]
<1>2. PICK e \in Deeps :
         job[e].at = "idle" /\ job' = [job EXCEPT ![Scan] = To(Scan, "done"), ![e] = begin]
    BY DEF Launch
<1> HIDE DEF begin
<1>3. Scan \in Jobs /\ e \in Jobs /\ e # Scan /\ e \notin Saves /\ Scan \notin Saves \cup Deeps
    BY KindsOfJobs DEF Jobs
<1>4. \A k \in Jobs : k \notin {Scan, e} => job'[k] = job[k]
    BY <1>1, <1>2, <1>3 DEF ShapesOK
<1>5. ~WillScopeAt(Scan, job[Scan].at) /\ ~WillScopeAt(e, job[e].at)
    BY <1>1, <1>2, <1>3 DEF WillScopeAt, WillWireAt, LinkingAt
<1>6. ASSUME NEW f \in Files PROVE RequirementsFollow(f)'
    <2>1. RequirementsAgree(f)' <=> RequirementsAgree(f)
        BY <1>1 DEF RequirementsAgree
    <2>2. ASSUME NEW d \in Deeps, job[d].at = "extract" PROVE job'[d] = job[d]
        BY <1>1, <1>2, <1>4, <2>2 DEF Jobs
    <2> QED BY <2>1, <2>2 DEF Follows, RequirementsFollow
<1>7. ASSUME NEW t \in Files PROVE ScopeFollows(t)'
    <2>1. (ScopeIsOfNow(t)' <=> ScopeIsOfNow(t)) /\ (Exporting(t)' <=> Exporting(t))
        BY <1>1 DEF ScopeIsOfNow, Exporting, Closure, ExportedBy
    <2>2. ScopeFollows(t)
        BY DEF Follows
    <2> QED BY <1>1, <1>2, <1>4, <1>5, <2>1, <2>2 DEF ScopeFollows
<1> QED BY <1>1, <1>6, <1>7 DEF Follows

\* A parse on demand begins.
LEMMA DemandFollows ==
    ASSUME IInv, Follows, NEW q \in Demands, Demand(q)
    PROVE  Follows'
<1>1. q \in Jobs /\ q \notin Deeps /\ ShapesOK /\ job[q].at = "idle"
    BY KindsOfJobs DEF IInv, Demand, Jobs
<1>2. StepOf(q)
    <2> DEFINE f == FileOfDemand[q]
               r == [Idle EXCEPT !.at = "copy", !.file = f, !.text = disk[f]]
    <2>1. Moves(q, To(q, "done")) \/ Moves(q, r)
        BY DEF Demand
    <2>2. JobShaped(r)
        BY IdleIsShaped DEF JobShaped, JobFields
    <2> HIDE DEF r
    <2> QED BY <1>1, <2>1, <2>2, MovesIsStep, ToIsShaped
<1>3. ~WillScopeAt(q, job[q].at)
    BY <1>1, KindsOfJobs DEF WillScopeAt, WillWireAt, LinkingAt
<1>4. UNCHANGED <<stop, includes, graph, exports>>
    BY DEF Demand
<1> QED BY <1>1, <1>2, <1>3, <1>4, StepFollows

\* Queries, edits and a stop.
LEMMA SurroundingsFollow ==
    ASSUME IInv, Follows,
           \/ RequirementQuery
           \/ \E f \in Files : SymbolQuery(f) \/ Edit(f)
           \/ RequestStop
           \/ UNCHANGED vars
    PROVE  Follows'
<1>1. UNCHANGED <<includes, exports, job>> /\ (stop => stop')
    BY DEF RequirementQuery, SymbolQuery, Edit, RequestStop, vars
<1>2. graph'.reqs = graph.reqs /\ graph'.scopes = graph.scopes
    <2>1. GraphShaped(graph)
        BY DEF IInv, GraphOK, Sound
    <2>2. CASE RequirementQuery
        BY <2>1, <2>2, QueriesLeave DEF RequirementQuery
    <2>3. CASE UNCHANGED graph
        BY <2>3
    <2> QED BY <2>2, <2>3 DEF SymbolQuery, Edit, RequestStop, vars
<1>3. ASSUME NEW f \in Files PROVE RequirementsFollow(f)' /\ ScopeFollows(f)'
    <2>1. /\ RequirementsAgree(f)' <=> RequirementsAgree(f)
          /\ ScopeIsOfNow(f)' <=> ScopeIsOfNow(f)
          /\ Exporting(f)' <=> Exporting(f)
        BY <1>1, <1>2 DEF RequirementsAgree, ReqsIn, ScopeIsOfNow, Exporting, Closure, ExportedBy
    <2>2. RequirementsFollow(f) /\ ScopeFollows(f)
        BY DEF Follows
    <2> QED BY <1>1, <2>1, <2>2 DEF RequirementsFollow, ScopeFollows
<1> QED BY <1>1, <1>3 DEF Follows

\* Every step keeps that the index follows.
LEMMA EveryStepFollows == IInv /\ Follows /\ [Next]_vars => Follows'
<1>0. Blank' => Follows'
    BY BlankFollows, PTL
<1> SUFFICES ASSUME IInv, Follows, [Next]_vars PROVE Follows'
    OBVIOUS
<1>1. CASE ScanStep
    <2>1. CASE FirstScan \/ Reindex
        BY <1>0, <2>1 DEF FirstScan, Reindex, StartScan, Blank
    <2>2. CASE Launch
        BY <2>2, LaunchFollows
    <2>3. CASE (\E f \in Files : Take(f)) \/ Scanned \/ Merge \/ EndOfFiles \/ Manifests \/ NoLaunch
        BY <2>3, ScanFollows
    <2> QED BY <1>1, <2>1, <2>2, <2>3 DEF ScanStep
<1>2. CASE Surroundings
    <2>1. CASE Restart
        BY <1>0, <2>1 DEF Restart, Blank
    <2>2. CASE RequirementQuery \/ (\E f \in Files : SymbolQuery(f) \/ Edit(f)) \/ RequestStop
        BY <2>2, SurroundingsFollow
    <2> QED BY <1>2, <2>1, <2>2 DEF Surroundings
<1>3. ASSUME NEW j \in Jobs, SharedStep(j) PROVE Follows'
    <2>1. CASE BeginScopes(j) \/ Register(j) \/ ForgetScopes(j)
        BY <2>1, ScopesFollow
    <2>2. CASE Stat(j) \/ Open(j) \/ WireStep(j) \/ Extract(j) \/ Copy(j) \/ Swap(j) \/ Store(j)
        BY <2>2, SharedFollows
    <2> QED BY <1>3, <2>1, <2>2 DEF SharedStep
<1>4. ASSUME NEW d \in Deeps, DeepStep(d) PROVE Follows'
    <2>1. CASE Drop(d)
        BY <2>1, DropFollows
    <2>2. CASE \/ BeginDeep(d) \/ Pool(d) \/ TakeResult(d) \/ TakeTest(d) \/ ReadTest(d)
                  \/ Count(d) \/ EndOfTests(d)
               \/ Finish(d)
        BY <2>2, DeepFollows
    <2> QED BY <1>4, <2>1, <2>2 DEF DeepStep
<1>5. ASSUME NEW s \in Saves, SaveStep(s) PROVE Follows'
    BY <1>5, SaveFollows
<1>6. ASSUME NEW q \in Demands, Demand(q) PROVE Follows'
    BY <1>6, DemandFollows
<1>7. CASE UNCHANGED vars
    BY <1>7, SurroundingsFollow
<1> QED BY <1>1, <1>2, <1>3, <1>4, <1>5, <1>6, <1>7 DEF Next

\* At rest each file has the requirements of the text that its exports are of and,
\* unless a stop was requested, the scope of each test follows the includes and the
\* exports, also when scans, deep indexes and reindexings have overlapped
\* (scope_manager.py:122-148, 305-353; deep_indexer.py:135-148).
THEOREM IndexFollows == Spec => []RequirementsAndScopesAgree
<1>1. Init => Follows
    BY BlankFollows DEF Init, Blank
<1>2. IInv /\ Follows /\ [Next]_vars => Follows'
    BY EveryStepFollows
<1>3. IInv /\ Follows => RequirementsAndScopesAgree
    <2> SUFFICES ASSUME IInv, Follows, AtRest, NEW f \in Files
                 PROVE  RequirementsAgree(f) /\ (Exporting(f) /\ ~stop => ScopeIsOfNow(f))
        BY DEF RequirementsAndScopesAgree
    <2>1. \A d \in Deeps : job[d].at # "extract"
        BY DEF AtRest, Working, Jobs
    <2>2. \A j \in Jobs : job[j].at # "register" /\ ~WillScopeAt(j, job[j].at)
        BY DEF AtRest, Working, WillScopeAt, WillWireAt, LinkingAt
    <2>3. RequirementsFollow(f) /\ ScopeFollows(f)
        BY DEF Follows
    <2> QED BY <2>1, <2>2, <2>3 DEF RequirementsFollow, ScopeFollows
<1> QED BY <1>1, <1>2, <1>3, Inductive, PTL DEF Spec

-----------------------------------------------------------------------------
(***************************************************************************)
(* Symbols: the cache and the lists of a scan.                             *)
(***************************************************************************)
\* A sequence of records with at most one of each file: the memory of the cache and
\* the results of a scan.
Listed(s) == \E n \in Nat : s = [i \in 1 .. n |-> s[i]]
OnePerFile(s) == Listed(s) /\ \A i, k \in DOMAIN s : s[i].file = s[k].file => i = k

\* It is a sequence of what is in it.
LEMMA ListedIsSeq ==
    ASSUME NEW s, Listed(s)
    PROVE  /\ s \in Seq({s[i] : i \in DOMAIN s}) /\ Len(s) \in Nat
           /\ s = [i \in 1 .. Len(s) |-> s[i]]
<1>1. PICK n \in Nat : s = [i \in 1 .. n |-> s[i]]
    BY DEF Listed
<1>2. s \in [1 .. n -> {s[i] : i \in DOMAIN s}]
    BY <1>1
<1>3. s \in Seq({s[i] : i \in DOMAIN s})
    BY <1>2
<1> QED BY <1>3

\* So is every sequence.
LEMMA SeqIsListed ==
    ASSUME NEW S, NEW s \in Seq(S)
    PROVE  Listed(s) /\ Len(s) \in Nat /\ DOMAIN s = 1 .. Len(s)
<1>1. Len(s) \in Nat /\ s \in [1 .. Len(s) -> S]
    BY LenProperties
<1>2. s = [i \in 1 .. Len(s) |-> s[i]]
    BY <1>1
<1> QED BY <1>1, <1>2 DEF Listed

\* One more element at the end, of another file.
LEMMA AppendIsOne ==
    ASSUME NEW s, OnePerFile(s), NEW e, \A i \in DOMAIN s : s[i].file # e.file
    PROVE  /\ OnePerFile(Append(s, e))
           /\ DOMAIN Append(s, e) = 1 .. (Len(s) + 1)
           /\ \A i \in DOMAIN Append(s, e) :
                 \/ Append(s, e)[i] = e
                 \/ i \in DOMAIN s /\ Append(s, e)[i] = s[i]
<1> DEFINE t == Append(s, e)
           S == {s[i] : i \in DOMAIN s} \cup {e}
<1>1. /\ s \in Seq({s[i] : i \in DOMAIN s}) /\ Len(s) \in Nat
      /\ s = [i \in 1 .. Len(s) |-> s[i]]
    BY ListedIsSeq DEF OnePerFile
<1>2. s \in Seq(S) /\ e \in S
    BY <1>1
<1>3. /\ t \in Seq(S) /\ Len(t) = Len(s) + 1
      /\ t[Len(s) + 1] = e /\ \A i \in 1 .. Len(s) : t[i] = s[i]
    BY <1>2, AppendProperties
<1> HIDE DEF t
<1>5. Listed(t) /\ DOMAIN t = 1 .. Len(t)
    BY <1>3, SeqIsListed
<1>6. \A i \in DOMAIN t : (t[i] = e /\ i = Len(s) + 1) \/ (i \in DOMAIN s /\ t[i] = s[i])
    BY <1>1, <1>3, <1>5
<1>7. ASSUME NEW i \in DOMAIN t, NEW k \in DOMAIN t, t[i].file = t[k].file PROVE i = k
    BY <1>6, <1>7 DEF OnePerFile
<1> QED BY <1>3, <1>5, <1>6, <1>7 DEF OnePerFile, t

\* The first element taken off.
LEMMA TailIsOne ==
    ASSUME NEW s, OnePerFile(s), s # <<>>
    PROVE  /\ OnePerFile(Tail(s)) /\ 1 \in DOMAIN s /\ Head(s) = s[1]
           /\ \A i \in DOMAIN Tail(s) :
                 i + 1 \in DOMAIN s /\ Tail(s)[i] = s[i + 1] /\ Tail(s)[i].file # s[1].file
<1> DEFINE t == Tail(s)
           S == {s[i] : i \in DOMAIN s}
<1>1. /\ s \in Seq(S) /\ Len(s) \in Nat /\ s = [i \in 1 .. Len(s) |-> s[i]]
    BY ListedIsSeq DEF OnePerFile
<1>2. /\ t \in Seq(S) /\ Len(s) > 0 /\ Len(t) = Len(s) - 1
      /\ \A i \in 1 .. Len(t) : t[i] = s[i + 1]
      /\ Head(s) = s[1]
    BY <1>1, HeadTailProperties, EmptySeq
<1> HIDE DEF t
<1>3. DOMAIN t = 1 .. Len(t) /\ Len(t) \in Nat /\ DOMAIN s = 1 .. Len(s) /\ Listed(t)
    BY <1>1, <1>2, SeqIsListed
<1>6. ASSUME NEW i \in DOMAIN t PROVE i + 1 \in DOMAIN s /\ t[i] = s[i + 1] /\ t[i].file # s[1].file
    <2>1. i + 1 \in DOMAIN s /\ 1 \in DOMAIN s /\ i + 1 # 1
        BY <1>2, <1>3, <1>6
    <2>2. t[i] = s[i + 1]
        BY <1>2, <1>3, <1>6
    <2> QED BY <2>1, <2>2 DEF OnePerFile
<1>7. ASSUME NEW i \in DOMAIN t, NEW k \in DOMAIN t, t[i].file = t[k].file PROVE i = k
    BY <1>3, <1>6, <1>7 DEF OnePerFile
<1>8. 1 \in DOMAIN s
    BY <1>1, <1>2
<1> QED BY <1>2, <1>3, <1>6, <1>7, <1>8 DEF OnePerFile, t

\* An element taken out.
LEMMA RemovalIsOne ==
    ASSUME NEW s, OnePerFile(s), NEW p \in DOMAIN s
    PROVE  /\ OnePerFile(Cache!RemoveAt(s, p))
           /\ \A i \in DOMAIN Cache!RemoveAt(s, p) :
                 /\ Cache!RemoveAt(s, p)[i].file # s[p].file
                 /\ \E k \in DOMAIN s : Cache!RemoveAt(s, p)[i] = s[k]
<1> DEFINE t == Cache!RemoveAt(s, p)
           S == {s[i] : i \in DOMAIN s}
           a == SubSeq(s, 1, p - 1)
           b == SubSeq(s, p + 1, Len(s))
<1>1. /\ s \in Seq(S) /\ Len(s) \in Nat /\ s = [i \in 1 .. Len(s) |-> s[i]]
    BY ListedIsSeq DEF OnePerFile
<1>2. p \in 1 .. Len(s)
    BY <1>1
<1>3. a \in Seq(S) /\ Len(a) = p - 1 /\ \A i \in 1 .. (p - 1) : a[i] = s[i]
    <2>1. \A i \in 1 .. (p - 1) : s[i] \in S
        BY <1>1, <1>2
    <2> QED BY <1>1, <1>2, <2>1, SubSeqProperties
<1>4. b \in Seq(S) /\ Len(b) = Len(s) - p /\ \A i \in 1 .. (Len(s) - p) : b[i] = s[p + i]
    <2> DEFINE m == p + 1
               n == Len(s)
    <2>1. m \in Int /\ n \in Int /\ n - m + 1 = n - p /\ (m <= n \/ n - p = 0) /\ ~(m <= n /\ n - p = 0)
        BY <1>1, <1>2
    <2>2. \A i \in m .. n : s[i] \in S
        BY <1>1, <1>2
    <2>3. \A i \in 1 .. (n - p) : m + i - 1 = p + i
        BY <1>1, <1>2
    <2>4. b = SubSeq(s, m, n)
        OBVIOUS
    <2> HIDE DEF m, n, b, S
    <2>5. /\ SubSeq(s, m, n) \in Seq(S)
          /\ Len(SubSeq(s, m, n)) = IF m <= n THEN n - m + 1 ELSE 0
          /\ \A i \in 1 .. n - m + 1 : SubSeq(s, m, n)[i] = s[m + i - 1]
        BY <2>1, <2>2, SubSeqProperties
    <2>6. b \in Seq(S) /\ Len(b) = n - p /\ \A i \in 1 .. (n - p) : b[i] = s[p + i]
        BY <2>1, <2>3, <2>4, <2>5
    <2> QED BY <2>6 DEF n
<1>5. t = a \o b
    BY DEF Cache!RemoveAt
<1> HIDE DEF t, a, b
<1>6. /\ t \in Seq(S) /\ Len(t) = Len(a) + Len(b)
      /\ \A i \in 1 .. (Len(a) + Len(b)) :
            t[i] = IF i <= Len(a) THEN a[i] ELSE b[i - Len(a)]
    BY <1>3, <1>4, <1>5, ConcatProperties
<1>7. /\ DOMAIN t = 1 .. (Len(s) - 1) /\ Listed(t)
    BY <1>1, <1>2, <1>3, <1>4, <1>6, SeqIsListed
<1>8. ASSUME NEW i \in DOMAIN t PROVE t[i] = IF i < p THEN s[i] ELSE s[i + 1]
    <2>1. /\ Len(a) = p - 1 /\ i \in 1 .. (Len(a) + Len(b)) /\ i \in Int /\ p \in Int
        BY <1>1, <1>2, <1>3, <1>4, <1>7, <1>8
    <2>2. CASE i < p
        BY <1>2, <1>3, <1>6, <2>1, <2>2
    <2>3. CASE ~(i < p)
        <3>0. i \in 1 .. (Len(s) - 1) /\ p \in 1 .. Len(s) /\ Len(s) \in Int
            BY <1>1, <1>2, <1>7, <1>8
        <3>1. i - Len(a) \in 1 .. (Len(s) - p) /\ p + (i - Len(a)) = i + 1
            BY ONLY <3>0, <2>1, <2>3
        <3>2. t[i] = b[i - Len(a)]
            BY <1>6, <2>1, <2>3
        <3> QED BY <1>4, <2>3, <3>1, <3>2
    <2> QED BY <2>2, <2>3
<1>9. DOMAIN s = 1 .. Len(s)
    BY <1>1
<1>10. ASSUME NEW i \in DOMAIN t
       PROVE  \E k \in DOMAIN s \ {p} : t[i] = s[k] /\ k = IF i < p THEN i ELSE i + 1
    <2>1. CASE i < p
        BY <1>1, <1>2, <1>7, <1>8, <1>9, <2>1
    <2>2. CASE ~(i < p)
        <3>1. i + 1 \in DOMAIN s \ {p}
            BY <1>1, <1>2, <1>7, <1>9, <2>2
        <3> QED BY <1>8, <2>2, <3>1
    <2> QED BY <2>1, <2>2
<1>11. ASSUME NEW i \in DOMAIN t, NEW k \in DOMAIN t, t[i].file = t[k].file PROVE i = k
    <2>1. PICK m \in DOMAIN s \ {p} : t[i] = s[m] /\ m = IF i < p THEN i ELSE i + 1
        BY <1>10
    <2>2. PICK n \in DOMAIN s \ {p} : t[k] = s[n] /\ n = IF k < p THEN k ELSE k + 1
        BY <1>10
    <2>3. m = n
        BY <1>11, <2>1, <2>2 DEF OnePerFile
    <2> QED BY <1>1, <1>2, <1>7, <2>1, <2>2, <2>3
<1>12. ASSUME NEW i \in DOMAIN t
       PROVE  t[i].file # s[p].file /\ \E k \in DOMAIN s : t[i] = s[k]
    BY <1>10, <1>12 DEF OnePerFile
<1> QED BY <1>7, <1>11, <1>12 DEF OnePerFile, t

\* An entry of the cache is a record of these fields.
EntryFields == {"file", "text", "mtime", "full", "links", "extracted"}
EntryShaped(e) == e = [x \in EntryFields |-> e[x]]

\* The cache has one entry for each file, in memory as in the database.
MemoryOK(m) == OnePerFile(m) /\ \A i \in DOMAIN m : EntryShaped(m[i])
RowsOK(rows) ==
    rows = [f \in DOMAIN rows |-> rows[f]] /\ \A f \in DOMAIN rows : EntryShaped(rows[f])
CacheOK(c) ==
    /\ c = [x \in {"memory", "rows", "persistent"} |-> c[x]]
    /\ MemoryOK(c.memory) /\ RowsOK(c.rows)

\* What is found in memory is an entry.
LEMMA EntryIsShaped ==
    ASSUME NEW m, MemoryOK(m), NEW f
    PROVE  /\ EntryShaped(Cache!EntryOf(m, f)) /\ EntryShaped(Cache!NoEntry)
           /\ \/ Cache!EntryOf(m, f) = Cache!NoEntry /\ \A i \in DOMAIN m : m[i].file # f
              \/ Cache!EntryOf(m, f).file = f
<1>1. EntryShaped(Cache!NoEntry)
    BY DEF EntryShaped, EntryFields, Cache!NoEntry
<1>2. CASE Cache!PlacesOf(m, f) = {}
    BY <1>1, <1>2 DEF Cache!EntryOf, Cache!PlacesOf
<1>3. CASE Cache!PlacesOf(m, f) # {}
    <2>1. PICK p \in DOMAIN m : m[p].file = f /\ Cache!EntryOf(m, f) = m[p]
        BY <1>3 DEF Cache!EntryOf, Cache!PlacesOf
    <2> QED BY <1>1, <2>1 DEF MemoryOK
<1> QED BY <1>2, <1>3

\* Without its entry a file has none.
LEMMA WithoutKeeps ==
    ASSUME NEW m, MemoryOK(m), NEW f
    PROVE  /\ MemoryOK(Cache!Without(m, f))
           /\ \A i \in DOMAIN Cache!Without(m, f) : Cache!Without(m, f)[i].file # f
<1> DEFINE w == Cache!Without(m, f)
<1>1. CASE Cache!PlacesOf(m, f) = {}
    BY <1>1 DEF Cache!Without, Cache!PlacesOf
<1>2. CASE Cache!PlacesOf(m, f) # {}
    <2>1. PICK p \in DOMAIN m : m[p].file = f /\ w = Cache!RemoveAt(m, p)
        BY <1>2 DEF Cache!Without, Cache!PlacesOf
    <2> HIDE DEF w
    <2>2. /\ OnePerFile(w)
          /\ \A i \in DOMAIN w : w[i].file # m[p].file /\ \E k \in DOMAIN m : w[i] = m[k]
        BY <2>1, RemovalIsOne DEF MemoryOK
    <2>3. MemoryOK(w) /\ \A i \in DOMAIN w : w[i].file # f
        BY <2>1, <2>2 DEF MemoryOK
    <2> QED BY <2>3 DEF w
<1> QED BY <1>1, <1>2

\* Then another entry of it can come to the end, and the first may go.
LEMMA MemoryGrows ==
    ASSUME NEW m, MemoryOK(m), NEW e, EntryShaped(e), \A i \in DOMAIN m : m[i].file # e.file
    PROVE  /\ MemoryOK(Append(m, e)) /\ MemoryOK(Tail(Append(m, e)))
<1> DEFINE a == Append(m, e)
<1>1. /\ OnePerFile(a) /\ DOMAIN a = 1 .. (Len(m) + 1)
      /\ \A i \in DOMAIN a : a[i] = e \/ (i \in DOMAIN m /\ a[i] = m[i])
    BY AppendIsOne DEF MemoryOK
<1>2. a # <<>>
    <2>1. m \in Seq({m[i] : i \in DOMAIN m} \cup {e})
        <3>1. m \in Seq({m[i] : i \in DOMAIN m})
            BY ListedIsSeq DEF MemoryOK, OnePerFile
        <3> QED BY <3>1
    <2> QED BY <2>1, AppendProperties
<1> HIDE DEF a
<1>3. MemoryOK(a)
    BY <1>1 DEF MemoryOK
<1>4. MemoryOK(Tail(a))
    BY <1>2, <1>3, TailIsOne DEF MemoryOK
<1> QED BY <1>3, <1>4 DEF a

\* So does remembering an entry.
LEMMA RememberKeeps ==
    ASSUME NEW m, MemoryOK(m), NEW e, EntryShaped(e), NEW t
    PROVE  MemoryOK(Cache!Remember(m, e, t))
<1> DEFINE s == [e EXCEPT !.mtime = t]
           w == Cache!Without(m, e.file)
<1>1. EntryShaped(s) /\ s.file = e.file
    BY DEF EntryShaped, EntryFields
<1>2. MemoryOK(w) /\ \A i \in DOMAIN w : w[i].file # e.file
    BY WithoutKeeps
<1>3. Cache!Remember(m, e, t) \in {m, Append(w, s), Tail(Append(w, s))}
    BY DEF Cache!Remember
<1> HIDE DEF s, w
<1> QED BY <1>1, <1>2, <1>3, MemoryGrows

\* A touched entry comes to the end.
LEMMA TouchedKeeps ==
    ASSUME NEW m, MemoryOK(m), NEW f, NEW t
    PROVE  MemoryOK(Cache!Touched(m, f, t))
<1> DEFINE e == Cache!EntryOf(m, f)
           w == Cache!Without(m, f)
<1>1. MemoryOK(w) /\ \A i \in DOMAIN w : w[i].file # f
    BY WithoutKeeps
<1>2. EntryShaped(e) /\ (e = Cache!NoEntry \/ e.file = f)
    BY EntryIsShaped
<1>3. Cache!Touched(m, f, t) = IF Cache!Fresh(e, t) THEN Append(w, e) ELSE w
    BY DEF Cache!Touched
<1>4. ~Cache!Fresh(Cache!NoEntry, t)
    BY DEF Cache!Fresh, Cache!NoEntry
<1> HIDE DEF e, w
<1>5. CASE Cache!Fresh(e, t)
    BY <1>1, <1>2, <1>3, <1>4, <1>5, MemoryGrows
<1> QED BY <1>1, <1>3, <1>5

\* What a cache finds is an entry, and it stays a cache.
LEMMA GetKeeps ==
    ASSUME NEW c, CacheOK(c), NEW f, NEW t
    PROVE  EntryShaped(Cache!Found(c, f, t)) /\ CacheOK(Cache!AfterGet(c, f, t))
<1> DEFINE touched == [c EXCEPT !.memory = Cache!Touched(@, f, t)]
           again == [touched EXCEPT !.memory = Cache!Remember(@, c.rows[f], t)]
           gone == [touched EXCEPT !.rows = Cache!Delete(@, f)]
<1>1. EntryShaped(Cache!EntryOf(c.memory, f)) /\ EntryShaped(Cache!NoEntry)
    BY EntryIsShaped DEF CacheOK
<1>2. EntryShaped(Cache!Found(c, f, t))
    BY <1>1 DEF Cache!Found, Cache!RowOf, CacheOK, RowsOK
<1>3. /\ touched = [x \in {"memory", "rows", "persistent"} |-> touched[x]]
      /\ touched.memory = Cache!Touched(c.memory, f, t) /\ touched.rows = c.rows
    BY DEF CacheOK
<1>4. CacheOK(touched)
    <2>1. MemoryOK(touched.memory)
        BY <1>3, TouchedKeeps DEF CacheOK
    <2> QED BY <1>3, <2>1 DEF CacheOK
<1>5. \/ Cache!AfterGet(c, f, t) \in {touched, gone}
      \/ Cache!AfterGet(c, f, t) = again /\ f \in DOMAIN c.rows
    BY DEF Cache!AfterGet
<1> HIDE DEF touched
<1>6. ASSUME f \in DOMAIN c.rows PROVE CacheOK(again)
    <2>1. /\ again = [x \in {"memory", "rows", "persistent"} |-> again[x]]
          /\ again.memory = Cache!Remember(touched.memory, c.rows[f], t)
          /\ again.rows = touched.rows
        BY <1>3
    <2>2. MemoryOK(again.memory)
        <3>1. EntryShaped(c.rows[f]) /\ MemoryOK(touched.memory)
            BY <1>4, <1>6 DEF CacheOK, RowsOK
        <3> QED BY <2>1, <3>1, RememberKeeps
    <2> HIDE DEF again
    <2> QED BY <1>4, <2>1, <2>2 DEF CacheOK
<1>7. CacheOK(gone)
    <2>1. /\ gone = [x \in {"memory", "rows", "persistent"} |-> gone[x]]
          /\ gone.memory = touched.memory
          /\ gone.rows = Cache!Delete(touched.rows, f)
        BY <1>3
    <2> HIDE DEF gone
    <2>2. RowsOK(gone.rows)
        BY <1>4, <2>1 DEF CacheOK, RowsOK, Cache!Delete, Cache!Restrict
    <2> QED BY <1>4, <2>1, <2>2 DEF CacheOK
<1> QED BY <1>2, <1>4, <1>5, <1>6, <1>7

\* So it does when something is put into it.
LEMMA PutKeeps ==
    ASSUME NEW c, CacheOK(c), NEW e, EntryShaped(e), NEW t
    PROVE  CacheOK(Cache!Put(c, e, t))
<1> DEFINE s == [e EXCEPT !.mtime = t, !.extracted = FALSE]
           r == IF c.persistent /\ t # 0 THEN Cache!Insert(c.rows, s) ELSE c.rows
           p == Cache!Put(c, e, t)
<1>1. EntryShaped(s)
    BY DEF EntryShaped, EntryFields
<1>2. p = [c EXCEPT !.memory = Cache!Remember(@, e, t), !.rows = r]
    BY DEF Cache!Put
<1> HIDE DEF s
<1>3. RowsOK(r)
    BY <1>1 DEF CacheOK, RowsOK, Cache!Insert
<1> HIDE DEF r, p
<1>4. /\ p = [x \in {"memory", "rows", "persistent"} |-> p[x]]
      /\ p.memory = Cache!Remember(c.memory, e, t) /\ p.rows = r
    BY <1>2 DEF CacheOK
<1>5. MemoryOK(p.memory)
    BY <1>4, RememberKeeps DEF CacheOK
<1> QED BY <1>3, <1>4, <1>5 DEF CacheOK, p

\* A file without an entry in memory or in the database.
Absent(c, f) ==
    Cache!EntryOf(c.memory, f) = Cache!NoEntry /\ Cache!RowOf(c.rows, f) = Cache!NoEntry

\* After an invalidation there is none of the file.
LEMMA InvalidateKeeps ==
    ASSUME NEW c, CacheOK(c), NEW f
    PROVE  CacheOK(Cache!Invalidate(c, f)) /\ Absent(Cache!Invalidate(c, f), f)
<1> DEFINE i == Cache!Invalidate(c, f)
<1>1. /\ i = [x \in {"memory", "rows", "persistent"} |-> i[x]]
      /\ i.memory = Cache!Without(c.memory, f) /\ i.rows = Cache!Delete(c.rows, f)
    BY DEF Cache!Invalidate, CacheOK
<1> HIDE DEF i
<1>2. RowsOK(i.rows) /\ f \notin DOMAIN i.rows
    BY <1>1 DEF CacheOK, RowsOK, Cache!Delete, Cache!Restrict
<1>3. MemoryOK(i.memory) /\ \A k \in DOMAIN i.memory : i.memory[k].file # f
    BY <1>1, WithoutKeeps DEF CacheOK
<1>4. Cache!EntryOf(i.memory, f) = Cache!NoEntry /\ Cache!RowOf(i.rows, f) = Cache!NoEntry
    BY <1>2, <1>3 DEF Cache!EntryOf, Cache!PlacesOf, Cache!RowOf
<1> QED BY <1>1, <1>2, <1>3, <1>4 DEF CacheOK, Absent, i

\* Such a file is not found.
LEMMA AbsentIsMissed ==
    ASSUME NEW c, NEW f, Absent(c, f), NEW t
    PROVE  Cache!Found(c, f, t) = Cache!NoEntry
BY DEF Absent, Cache!Found, Cache!Fresh, Cache!NoEntry

-----------------------------------------------------------------------------
(***************************************************************************)
(* Symbols: the jobs.                                                      *)
(***************************************************************************)
\* The points of a save between removing a file's symbols and adding them, and those
\* of a scan or a deep index between choosing a file and having its source.
IndexingAt == {"invalidate", "index", "put", "add"}
ReadingAt == {"stat", "open", "read"}

\* A file that is there and was indexed has its symbols once.
Once(f) == exports[f] # 0 /\ disk[f] # 0 => Len(table[f]) = 1

\* The job goes on to extract its file, whose symbols were added or upgraded.
AtOnce(j) ==
    \/ job[j].at \in {"link", "store", "drop", "extract"}
    \/ j \in Deeps /\ job[j].hit /\ job[j].at \in ReadingAt

\* A file that the scan, of which s is the record, has not merged yet.
Pending(s, f) ==
    \/ f \in s.todo
    \/ s.at \in ReadingAt /\ s.file = f
    \/ \E i \in DOMAIN s.results : s.results[i].file = f

\* A file is in one place on its way through the scan, and comes with an entry.
ScanOK(s) ==
    /\ OnePerFile(s.results) /\ EntryShaped(s.entry)
    /\ \A i \in DOMAIN s.results :
          /\ EntryShaped(s.results[i].symbols) /\ s.results[i].file \notin s.todo
          /\ s.at \in ReadingAt => s.results[i].file # s.file
    /\ s.at \in ReadingAt => s.file \notin s.todo

\* What holds when no job but j is under way.
SymbolsFor(j) ==
    /\ \A f \in Files : Once(f) \/ (job[j].at \in IndexingAt /\ job[j].file = f)
    /\ \A f \in Files : job[j].file = f =>
          /\ job[j].at \in IndexingAt => table[f] = <<>>
          /\ AtOnce(j) => Len(table[f]) = 1
    /\ job[j].at = "index" => Absent(cache, job[j].file)
    /\ job[j].at = "swap" => job[j].old = table
    /\ j = Scan /\ job[j].at \in ReadingAt \cup {"next"} =>
          \A f \in Files : Pending(job[j], f) => table[f] = <<>>
\* A copy of the table is one.
CopyOK(r) == r.at = "swap" => r.old = [f \in Files |-> r.old[f]]

\* No other job is under way.
OnlyOne(j) == \A k \in Jobs \ {j} : ~Working(k)

\* What is inductive, on top of IInv.
SymbolsFollow ==
    /\ CacheOK(cache) /\ ScanOK(job[Scan])
    /\ table = [f \in Files |-> table[f]] /\ exports = [f \in Files |-> exports[f]]
    /\ \A j \in Jobs : CopyOK(job[j])
    /\ ~overlapped =>
          \A j \in Jobs : (Working(j) => OnlyOne(j)) /\ (OnlyOne(j) => SymbolsFor(j))

\* A step of j notes that another job is under way, unless it ends j.
NotedBy(j) ==
    overlapped' <=> overlapped \/ (job'[j].at # "done" /\ ~OnlyOne(j))

\* A move to a record of a job notes it.
LEMMA MovesIsNoted ==
    ASSUME ShapesOK, NEW j \in Jobs, NEW r, JobShaped(r), Moves(j, r)
    PROVE  StepOf(j) /\ job'[j] = r /\ NotedBy(j)
<1>1. StepOf(j) /\ job'[j] = r
    BY MovesIsStep
<1> QED BY <1>1 DEF Moves, NotedBy, OnlyOne

\* What another point leaves of a job's record.
LEMMA ToLeaves ==
    ASSUME ShapesOK, NEW j \in Jobs, NEW at
    PROVE  /\ JobShaped(To(j, at)) /\ To(j, at).at = at
           /\ To(j, at).file = job[j].file /\ To(j, at).hit = job[j].hit
           /\ To(j, at).todo = job[j].todo /\ To(j, at).results = job[j].results
           /\ To(j, at).entry = job[j].entry /\ To(j, at).text = job[j].text
BY DEF ShapesOK, To, JobShaped, JobFields

\* If a step of j keeps what holds of j alone, it keeps the invariant.
LEMMA AloneKeeps ==
    ASSUME SymbolsFollow, NEW j \in Jobs, StepOf(j), NotedBy(j),
           Working(j) \/ job'[j].at # "done",
           CacheOK(cache'), ScanOK(job'[Scan]), CopyOK(job'[j]),
           table' = [f \in Files |-> table'[f]], exports' = [f \in Files |-> exports'[f]],
           SymbolsFor(j) => SymbolsFor(j)'
    PROVE  SymbolsFollow'
<1>0. \A k \in Jobs : CopyOK(job'[k])
    BY DEF SymbolsFollow, StepOf
<1> SUFFICES ASSUME ~overlapped'
             PROVE  \A k \in Jobs : /\ Working(k)' => OnlyOne(k)'
                                    /\ OnlyOne(k)' => SymbolsFor(k)'
    BY <1>0 DEF SymbolsFollow
<1>1. ~overlapped /\ (job'[j].at = "done" \/ OnlyOne(j))
    BY DEF NotedBy
<1>2. OnlyOne(j)
    BY <1>1 DEF SymbolsFollow
<1>3. SymbolsFor(j)'
    BY <1>1, <1>2 DEF SymbolsFollow
<1>4. \A k \in Jobs \ {j} : job'[k] = job[k] /\ ~Working(k) /\ ~Working(k)'
    BY <1>2 DEF OnlyOne, StepOf, Working
<1>5. \A k \in Jobs : Working(k)' => OnlyOne(k)'
    BY <1>4 DEF OnlyOne
<1>6. ASSUME NEW k \in Jobs \ {j}, OnlyOne(k)' PROVE SymbolsFor(k)'
    <2>1. job'[j].at \in {"idle", "done"} /\ job'[k].at \in {"idle", "done"}
        BY <1>4, <1>6 DEF OnlyOne, Working
    <2>2. \A f \in Files : Once(f)'
        BY <1>3, <2>1 DEF SymbolsFor, IndexingAt
    <2> QED BY <2>1, <2>2 DEF SymbolsFor, IndexingAt, AtOnce, ReadingAt
<1> QED BY <1>3, <1>5, <1>6

\* So does one that adds no symbols and exports and comes to no point that says
\* more of them.
LEMMA QuietFollows ==
    ASSUME SymbolsFollow, NEW j \in Jobs, StepOf(j), NotedBy(j),
           Working(j) \/ job'[j].at # "done",
           UNCHANGED <<table, exports, disk>>, CacheOK(cache'),
           job[j].at \notin IndexingAt, job'[j].at \notin IndexingAt \cup {"swap"},
           AtOnce(j)' => AtOnce(j) /\ job'[j].file = job[j].file,
           j = Scan =>
              /\ job'[j].todo = job[j].todo /\ job'[j].results = job[j].results
              /\ job'[j].file = job[j].file /\ job'[j].entry = job[j].entry
              /\ job'[j].at \in ReadingAt => job[j].at \in ReadingAt
              /\ job'[j].at # "next"
    PROVE  SymbolsFollow'
<1>1. ScanOK(job'[Scan])
    <2>1. Scan \in Jobs /\ ScanOK(job[Scan])
        BY DEF Jobs, SymbolsFollow
    <2>2. CASE j = Scan
        BY <2>1, <2>2 DEF ScanOK
    <2>3. CASE j # Scan
        BY <2>1, <2>3 DEF StepOf
    <2> QED BY <2>2, <2>3
<1>2. ASSUME SymbolsFor(j) PROVE SymbolsFor(j)'
    <2>1. \A f \in Files : Once(f)'
        BY <1>2 DEF SymbolsFor, Once
    <2>2. \A f \in Files : job'[j].file = f => (AtOnce(j)' => Len(table'[f]) = 1)
        BY <1>2 DEF SymbolsFor
    <2>3. ASSUME j = Scan, job'[j].at \in ReadingAt, NEW f \in Files, Pending(job'[j], f)
          PROVE  table'[f] = <<>>
        BY <1>2, <2>3 DEF SymbolsFor, Pending
    <2>4. job'[j].at \notin IndexingAt /\ job'[j].at # "swap" /\ job'[j].at # "index"
        BY DEF IndexingAt
    <2> QED BY <2>1, <2>2, <2>3, <2>4 DEF SymbolsFor
<1>3. table' = [f \in Files |-> table'[f]] /\ exports' = [f \in Files |-> exports'[f]]
    BY DEF SymbolsFollow
<1>4. CopyOK(job'[j])
    BY DEF CopyOK
<1> QED BY <1>1, <1>2, <1>3, <1>4, AloneKeeps

\* A record with the file, and for a scan the files, that s has.
OfSameFile(s, r) ==
    /\ JobShaped(r) /\ r.file = s.file /\ r.hit = s.hit /\ r.todo = s.todo
    /\ r.results = s.results /\ r.entry = s.entry

\* The steps that several kinds of jobs take, but for extraction and the table.
LEMMA SharedIsQuiet ==
    ASSUME IInv, SymbolsFollow, NEW j \in Jobs,
           Stat(j) \/ Open(j) \/ WireStep(j) \/ BeginScopes(j) \/ Register(j) \/ ForgetScopes(j)
    PROVE  SymbolsFollow'
<1>1. ShapesOK /\ JobShaped(job[j])
    BY DEF IInv, ShapesOK
<1>2. UNCHANGED <<table, exports, disk, cache>>
    BY DEF Stat, Open, WireStep, BeginScopes, Register, ForgetScopes
<1>3. ASSUME NEW r, OfSameFile(job[j], r), Moves(j, r), Working(j),
             job[j].at \notin IndexingAt, r.at \notin IndexingAt \cup {"swap", "next"},
             r.at \in ReadingAt => job[j].at \in ReadingAt,
             r.at \notin {"link", "store", "drop", "extract"}
      PROVE  SymbolsFollow'
    <2>1. StepOf(j) /\ NotedBy(j) /\ job'[j] = r
        BY <1>1, <1>3, MovesIsNoted DEF OfSameFile
    <2>2. AtOnce(j)' => AtOnce(j) /\ job'[j].file = job[j].file
        BY <1>3, <2>1 DEF AtOnce, OfSameFile
    <2>3. CacheOK(cache')
        BY <1>2 DEF SymbolsFollow
    <2> QED BY <1>2, <1>3, <2>1, <2>2, <2>3, QuietFollows DEF OfSameFile
<1>4. ASSUME NEW at PROVE OfSameFile(job[j], To(j, at)) /\ To(j, at).at = at
    BY <1>1, ToLeaves DEF OfSameFile
<1>5. CASE Stat(j) \/ Open(j)
    <2> DEFINE f == job[j].file
               none == [job[j] EXCEPT !.at = "read", !.text = 0]
               kept == [job[j] EXCEPT !.at = "read", !.text = sources[f].text]
               open == [job[j] EXCEPT !.at = "open", !.mtime = disk[f]]
               new == [job[j] EXCEPT !.at = "read", !.text = disk[f]]
    <2>1. /\ OfSameFile(job[j], none) /\ none.at = "read"
          /\ OfSameFile(job[j], kept) /\ kept.at = "read"
          /\ OfSameFile(job[j], open) /\ open.at = "open"
          /\ OfSameFile(job[j], new) /\ new.at = "read"
        BY <1>1 DEF JobShaped, JobFields, OfSameFile
    <2>2. /\ Moves(j, none) \/ Moves(j, kept) \/ Moves(j, open) \/ Moves(j, new)
          /\ job[j].at \in {"stat", "open"}
        BY <1>5 DEF Stat, Open
    <2> HIDE DEF none, kept, open, new
    <2>3. PICK r \in {none, kept, open, new} : Moves(j, r)
        BY <2>2
    <2>4. OfSameFile(job[j], r) /\ r.at \in {"read", "open"}
        BY <2>1
    <2> QED BY <1>3, <2>2, <2>3, <2>4 DEF Working, IndexingAt, ReadingAt
<1>6. CASE WireStep(j)
    <2>1. PICK p \in {"manifests", "scopes"} : Moves(j, To(j, p)) /\ job[j].at = "wire"
        BY <1>6 DEF WireStep
    <2> QED BY <1>3, <1>4, <2>1 DEF Working, IndexingAt, ReadingAt
<1>7. CASE BeginScopes(j)
    <2> DEFINE r == [To(j, "register") EXCEPT !.tests = {f \in Files : Exporting(f)}]
    <2>1. Moves(j, r) /\ job[j].at = "scopes"
        BY <1>7 DEF BeginScopes
    <2>2. OfSameFile(job[j], r) /\ r.at = "register"
        BY <1>4 DEF OfSameFile, JobShaped, JobFields
    <2> HIDE DEF r
    <2> QED BY <1>3, <2>1, <2>2 DEF Working, IndexingAt, ReadingAt
<1>8. CASE Register(j)
    <2>1. PICK t \in job[j].tests : Moves(j, [job[j] EXCEPT !.tests = @ \ {t}])
        BY <1>8 DEF Register
    <2> DEFINE r == [job[j] EXCEPT !.tests = @ \ {t}]
    <2>2. OfSameFile(job[j], r) /\ r.at = job[j].at
        BY <1>1 DEF OfSameFile, JobShaped, JobFields
    <2>3. Moves(j, r) /\ job[j].at = "register"
        BY <1>8, <2>1 DEF Register
    <2> HIDE DEF r
    <2> QED BY <1>3, <2>2, <2>3 DEF Working, IndexingAt, ReadingAt
<1>9. CASE ForgetScopes(j)
    <2>1. PICK p \in {"launch", "finish", "done"} : Moves(j, To(j, p)) /\ job[j].at = "register"
        BY <1>9 DEF ForgetScopes, After
    <2> QED BY <1>3, <1>4, <2>1 DEF Working, IndexingAt, ReadingAt
<1> QED BY <1>5, <1>6, <1>7, <1>8, <1>9

\* A file is extracted after its symbols came into the table.
LEMMA ExtractIsOnce ==
    ASSUME IInv, SymbolsFollow, NEW j \in Jobs, Extract(j)
    PROVE  SymbolsFollow'
<1>1. ShapesOK /\ j # Scan /\ job[j].at = "extract"
    BY DEF IInv, PointOK, Extract
<1>2. PICK p \in {"remove", "count"} : Moves(j, To(j, p))
    BY DEF Extract
<1>3. StepOf(j) /\ NotedBy(j) /\ job'[j].at = p
    BY <1>1, <1>2, ToLeaves, MovesIsNoted
<1>4. /\ UNCHANGED <<table, disk, cache>>
      /\ exports' = [exports EXCEPT ![job[j].file] = job[j].text]
    BY DEF Extract
<1>5. ScanOK(job'[Scan]) /\ CacheOK(cache')
    BY <1>1, <1>3, <1>4 DEF StepOf, SymbolsFollow, Jobs
<1>6. table' = [f \in Files |-> table'[f]] /\ exports' = [f \in Files |-> exports'[f]]
    BY <1>4 DEF SymbolsFollow
<1>7. ASSUME SymbolsFor(j) PROVE SymbolsFor(j)'
    <2>1. ASSUME NEW f \in Files PROVE Once(f)'
        <3>1. CASE f = job[j].file
            BY <1>1, <1>4, <1>7, <3>1 DEF SymbolsFor, AtOnce, Once
        <3>2. CASE f # job[j].file
            BY <1>1, <1>4, <1>7, <3>2 DEF SymbolsFor, SymbolsFollow, Once
        <3> QED BY <3>1, <3>2
    <2> QED BY <1>1, <1>3, <2>1 DEF SymbolsFor, AtOnce, IndexingAt, ReadingAt
<1>8. Working(j) /\ CopyOK(job'[j])
    BY <1>1, <1>3 DEF Working, CopyOK
<1> QED BY <1>3, <1>5, <1>6, <1>7, <1>8, AloneKeeps

\* The table that is swapped in is the one that was copied, with one entry for the file.
LEMMA UpgradeIsOnce ==
    ASSUME IInv, SymbolsFollow, NEW j \in Jobs, Copy(j) \/ Swap(j) \/ Store(j)
    PROVE  SymbolsFollow'
<1>1. ShapesOK /\ JobShaped(job[j]) /\ PointOK(j, job[j].at)
    BY DEF IInv, ShapesOK
<1>2. j # Scan /\ Working(j)
    BY <1>1 DEF PointOK, Copy, Swap, Store, Working
<1>3. UNCHANGED <<exports, disk>>
    BY DEF Copy, Swap, Store
<1>4. exports' = [f \in Files |-> exports'[f]]
    BY <1>3 DEF SymbolsFollow
<1>5. CASE Copy(j)
    <2> DEFINE r == [job[j] EXCEPT !.at = "swap", !.old = table]
    <2>1. Moves(j, r) /\ job[j].at = "copy" /\ UNCHANGED <<table, cache>>
        BY <1>5 DEF Copy
    <2>2. JobShaped(r) /\ r.at = "swap" /\ r.old = table
        BY <1>1 DEF JobShaped, JobFields
    <2> HIDE DEF r
    <2>3. StepOf(j) /\ NotedBy(j) /\ job'[j] = r
        BY <1>1, <2>1, <2>2, MovesIsNoted
    <2>4. ScanOK(job'[Scan]) /\ CacheOK(cache') /\ table' = [f \in Files |-> table'[f]]
        BY <1>2, <2>1, <2>3 DEF StepOf, SymbolsFollow, Jobs
    <2>6. CopyOK(job'[j])
        BY <2>2, <2>3 DEF SymbolsFollow, CopyOK
    <2>5. ASSUME SymbolsFor(j) PROVE SymbolsFor(j)'
        <3>1. \A f \in Files : Once(f)'
            BY <1>3, <2>1, <2>5 DEF SymbolsFor, Once, IndexingAt
        <3> QED BY <1>2, <2>1, <2>2, <2>3, <3>1 DEF SymbolsFor, AtOnce, IndexingAt, ReadingAt
    <2> QED BY <1>2, <1>4, <2>3, <2>4, <2>5, <2>6, AloneKeeps
<1>6. CASE Swap(j)
    <2> DEFINE r == [job[j] EXCEPT !.at = "store", !.old = <<>>]
               new == <<[text |-> job[j].text, full |-> TRUE]>>
    <2>1. /\ Moves(j, r) /\ job[j].at = "swap" /\ UNCHANGED cache
          /\ table' = [job[j].old EXCEPT ![job[j].file] = new]
        BY <1>6 DEF Swap
    <2>2. JobShaped(r) /\ r.at = "store" /\ r.file = job[j].file
        BY <1>1 DEF JobShaped, JobFields
    <2>3. Len(new) = 1
        OBVIOUS
    <2> HIDE DEF r, new
    <2>4. StepOf(j) /\ NotedBy(j) /\ job'[j] = r
        BY <1>1, <2>1, <2>2, MovesIsNoted
    <2>5. ScanOK(job'[Scan]) /\ CacheOK(cache')
        BY <1>2, <2>1, <2>4 DEF StepOf, SymbolsFollow, Jobs
    <2>6. job[j].old = [f \in Files |-> job[j].old[f]]
        BY <2>1 DEF SymbolsFollow, CopyOK
    <2>7. table' = [f \in Files |-> table'[f]] /\ CopyOK(job'[j])
        BY <2>1, <2>2, <2>4, <2>6 DEF CopyOK
    <2>8. ASSUME SymbolsFor(j) PROVE SymbolsFor(j)'
        <3>1. ASSUME NEW f \in Files
              PROVE  Once(f)' /\ (job'[j].file = f => Len(table'[f]) = 1)
            <4>1. job[j].old = table /\ (Once(f) \/ job[j].at \in IndexingAt)
                BY <2>1, <2>8 DEF SymbolsFor
            <4>2. table'[f] = IF f = job[j].file THEN new ELSE table[f]
                BY <2>1, <2>6, <4>1
            <4> QED BY <1>3, <2>1, <2>2, <2>3, <2>4, <4>1, <4>2 DEF Once, IndexingAt
        <3> QED BY <1>2, <2>2, <2>4, <3>1 DEF SymbolsFor, IndexingAt, ReadingAt
    <2> QED BY <1>2, <1>4, <2>4, <2>5, <2>7, <2>8, AloneKeeps
<1>7. CASE Store(j)
    <2> DEFINE f == job[j].file
               e == [file |-> f, text |-> job[j].text, mtime |-> 0, full |-> TRUE,
                     links |-> Cache!Found(cache, f, disk[f]).links, extracted |-> FALSE]
    <2>1. /\ job[j].at = "store" /\ UNCHANGED table
          /\ cache' = Cache!Put(Cache!AfterGet(cache, f, disk[f]), e, disk[f])
          /\ Moves(j, IF j \in Demands THEN To(j, "done")
                      ELSE To(j, IF job[j].hit THEN "stat" ELSE "drop"))
        BY <1>7 DEF Store
    <2>2. EntryShaped(e)
        BY DEF EntryShaped, EntryFields
    <2> HIDE DEF e
    <2>3. CacheOK(cache')
        BY <2>1, <2>2, GetKeeps, PutKeeps DEF SymbolsFollow
    <2>4. PICK p \in {"done", "stat", "drop"} : Moves(j, To(j, p))
        BY <2>1
    <2>5. StepOf(j) /\ NotedBy(j) /\ job'[j].at = p /\ job'[j].file = job[j].file
        BY <1>1, <2>4, ToLeaves, MovesIsNoted
    <2>6. AtOnce(j)
        BY <2>1 DEF AtOnce
    <2> QED BY <1>2, <1>3, <2>1, <2>3, <2>5, <2>6, QuietFollows DEF IndexingAt
<1> QED BY <1>5, <1>6, <1>7

\* A reindexing removes the symbols of a file, finds no entry for it, and adds them.
LEMMA SaveIsOnce ==
    ASSUME IInv, SymbolsFollow, NEW s \in Saves, SaveStep(s)
    PROVE  SymbolsFollow'
<1>1. s \in Jobs /\ s # Scan /\ s \notin Deeps /\ ShapesOK /\ JobShaped(job[s])
    BY KindsOfJobs DEF Jobs, IInv, ShapesOK
<1>2. UNCHANGED <<exports, disk>>
    BY DEF SaveStep, SaveBegin, Remove, InvalidateEntry, IndexFile, PutParsed, AddSymbols, Link,
           EndOfDirty
<1>3. exports' = [f \in Files |-> exports'[f]]
    BY <1>2 DEF SymbolsFollow
<1>4. ASSUME StepOf(s) PROVE ScanOK(job'[Scan])
    BY <1>1, <1>4 DEF StepOf, SymbolsFollow, Jobs
<1>5. CASE SaveBegin(s)
    <2> DEFINE D == Reach(FileOfSave[s], Converse(includes))
               r == [Idle EXCEPT !.at = "remove", !.todo = D, !.dirty = D]
    <2>1. JobShaped(r) /\ r.at = "remove"
        BY IdleIsShaped DEF JobShaped, JobFields
    <2>2. Moves(s, r) /\ job[s].at = "idle" /\ UNCHANGED <<table, cache>>
        BY <1>5 DEF SaveBegin
    <2> HIDE DEF r
    <2>3. StepOf(s) /\ NotedBy(s) /\ job'[s].at = "remove"
        BY <1>1, <2>1, <2>2, MovesIsNoted
    <2>4. ~AtOnce(s)' /\ CacheOK(cache')
        BY <2>2, <2>3 DEF AtOnce, ReadingAt, SymbolsFollow
    <2> QED BY <1>1, <1>2, <2>2, <2>3, <2>4, QuietFollows DEF IndexingAt
<1>6. CASE Remove(s)
    <2>1. PICK f \in job[s].todo :
             /\ table' = [table EXCEPT ![f] = <<>>]
             /\ Moves(s, [job[s] EXCEPT !.at = "invalidate", !.file = f, !.todo = @ \ {f}])
        BY <1>6 DEF Remove
    <2> DEFINE r == [job[s] EXCEPT !.at = "invalidate", !.file = f, !.todo = @ \ {f}]
    <2>2. JobShaped(r) /\ r.at = "invalidate" /\ r.file = f
        BY <1>1 DEF JobShaped, JobFields
    <2>3. Moves(s, r) /\ job[s].at = "remove" /\ UNCHANGED cache
        BY <1>6, <2>1 DEF Remove
    <2> HIDE DEF r
    <2>4. StepOf(s) /\ NotedBy(s) /\ job'[s] = r
        BY <1>1, <2>2, <2>3, MovesIsNoted
    <2>5. /\ CacheOK(cache') /\ table' = [g \in Files |-> table'[g]] /\ CopyOK(job'[s])
          /\ \A g \in Files : table'[g] = IF g = f THEN <<>> ELSE table[g]
        BY <2>1, <2>2, <2>3, <2>4 DEF SymbolsFollow, CopyOK
    <2>6. ASSUME SymbolsFor(s) PROVE SymbolsFor(s)'
        <3>1. ASSUME NEW g \in Files PROVE g = f \/ Once(g)'
            BY <1>2, <2>3, <2>5, <2>6 DEF SymbolsFor, Once, IndexingAt
        <3> QED BY <1>1, <2>2, <2>4, <2>5, <3>1 DEF SymbolsFor, AtOnce, IndexingAt, ReadingAt
    <2>7. Working(s)
        BY <2>3 DEF Working
    <2> QED BY <1>1, <1>3, <1>4, <2>4, <2>5, <2>6, <2>7, AloneKeeps
<1>7. CASE InvalidateEntry(s)
    <2>1. /\ Moves(s, To(s, "index")) /\ job[s].at = "invalidate" /\ UNCHANGED table
          /\ cache' = Cache!Invalidate(cache, job[s].file)
        BY <1>7 DEF InvalidateEntry
    <2>2. /\ StepOf(s) /\ NotedBy(s) /\ job'[s].at = "index" /\ job'[s].file = job[s].file
        BY <1>1, <2>1, ToLeaves, MovesIsNoted
    <2>3. CacheOK(cache') /\ Absent(cache', job[s].file)
        BY <2>1, InvalidateKeeps DEF SymbolsFollow
    <2>4. table' = [f \in Files |-> table'[f]] /\ CopyOK(job'[s]) /\ Working(s)
        BY <2>1, <2>2 DEF SymbolsFollow, CopyOK, Working
    <2>5. ASSUME SymbolsFor(s) PROVE SymbolsFor(s)'
        <3>1. ASSUME NEW f \in Files
              PROVE  /\ Once(f)' \/ job[s].file = f
                     /\ job[s].file = f => table'[f] = <<>>
            BY <1>2, <2>1, <2>5 DEF SymbolsFor, Once, IndexingAt
        <3> QED BY <1>1, <2>2, <2>3, <3>1 DEF SymbolsFor, AtOnce, IndexingAt, ReadingAt
    <2> QED BY <1>1, <1>3, <1>4, <2>2, <2>3, <2>4, <2>5, AloneKeeps
<1>8. CASE IndexFile(s)
    <2> DEFINE f == job[s].file
               put == [job[s] EXCEPT !.at = "put", !.text = disk[f]]
               hit == Cache!Found(cache, f, disk[f]) # Cache!NoEntry
    <2>1. /\ Moves(s, IF hit \/ disk[f] = 0 THEN To(s, "remove") ELSE put)
          /\ job[s].at = "index" /\ UNCHANGED table
          /\ cache' = Cache!AfterGet(cache, f, disk[f])
        BY <1>8 DEF IndexFile
    <2>2. JobShaped(put) /\ put.at = "put" /\ put.file = f
        BY <1>1 DEF JobShaped, JobFields
    <2> HIDE DEF put, hit
    <2>3. /\ StepOf(s) /\ NotedBy(s) /\ job'[s].file = f
          /\ job'[s].at = IF hit \/ disk[f] = 0 THEN "remove" ELSE "put"
        BY <1>1, <2>1, <2>2, ToLeaves, MovesIsNoted
    <2>4. CacheOK(cache')
        BY <2>1, GetKeeps DEF SymbolsFollow
    <2>5. table' = [g \in Files |-> table'[g]] /\ CopyOK(job'[s]) /\ Working(s)
        BY <2>1, <2>3 DEF SymbolsFollow, CopyOK, Working
    <2>6. ASSUME SymbolsFor(s) PROVE SymbolsFor(s)'
        <3>1. ~hit
            BY <2>1, <2>6, AbsentIsMissed DEF SymbolsFor, hit
        <3>2. ASSUME NEW g \in Files
              PROVE  /\ Once(g)' \/ (disk[f] # 0 /\ f = g)
                     /\ f = g => table'[g] = <<>>
            BY <1>2, <2>1, <2>6 DEF SymbolsFor, Once, IndexingAt
        <3> QED BY <1>1, <2>3, <3>1, <3>2 DEF SymbolsFor, AtOnce, IndexingAt, ReadingAt
    <2> QED BY <1>1, <1>3, <1>4, <2>3, <2>4, <2>5, <2>6, AloneKeeps
<1>9. CASE PutParsed(s)
    <2> DEFINE e == [file |-> job[s].file, text |-> job[s].text, mtime |-> 0,
                     full |-> Parsed(s).full, links |-> job[s].text, extracted |-> FALSE]
    <2>1. /\ Moves(s, To(s, "add")) /\ job[s].at = "put" /\ UNCHANGED table
          /\ cache' = Cache!Put(cache, e, disk[job[s].file])
        BY <1>9 DEF PutParsed
    <2>2. EntryShaped(e)
        BY DEF EntryShaped, EntryFields
    <2> HIDE DEF e
    <2>3. StepOf(s) /\ NotedBy(s) /\ job'[s].at = "add" /\ job'[s].file = job[s].file
        BY <1>1, <2>1, ToLeaves, MovesIsNoted
    <2>4. CacheOK(cache')
        BY <2>1, <2>2, PutKeeps DEF SymbolsFollow
    <2>5. table' = [f \in Files |-> table'[f]] /\ CopyOK(job'[s]) /\ Working(s)
        BY <2>1, <2>3 DEF SymbolsFollow, CopyOK, Working
    <2>6. ASSUME SymbolsFor(s) PROVE SymbolsFor(s)'
        <3>1. ASSUME NEW f \in Files
              PROVE  /\ Once(f)' \/ job[s].file = f
                     /\ job[s].file = f => table'[f] = <<>>
            BY <1>2, <2>1, <2>6 DEF SymbolsFor, Once, IndexingAt
        <3> QED BY <1>1, <2>3, <3>1 DEF SymbolsFor, AtOnce, IndexingAt, ReadingAt
    <2> QED BY <1>1, <1>3, <1>4, <2>3, <2>4, <2>5, <2>6, AloneKeeps
<1>10. CASE AddSymbols(s)
    <2>1. /\ Moves(s, To(s, "link")) /\ job[s].at = "add" /\ UNCHANGED cache
          /\ table' = [table EXCEPT ![job[s].file] = Append(@, Parsed(s))]
        BY <1>10 DEF AddSymbols
    <2>2. StepOf(s) /\ NotedBy(s) /\ job'[s].at = "link" /\ job'[s].file = job[s].file
        BY <1>1, <2>1, ToLeaves, MovesIsNoted
    <2>3. CacheOK(cache') /\ table' = [f \in Files |-> table'[f]] /\ CopyOK(job'[s]) /\ Working(s)
        BY <2>1, <2>2 DEF SymbolsFollow, CopyOK, Working
    <2>4. ASSUME SymbolsFor(s) PROVE SymbolsFor(s)'
        <3>1. \A x : Len(Append(<<>>, x)) = 1
            OBVIOUS
        <3>2. ASSUME NEW f \in Files
              PROVE  Once(f)' /\ (job[s].file = f => Len(table'[f]) = 1)
            <4>1. CASE job[s].file = f
                <5>1. table'[f] = Append(<<>>, Parsed(s))
                    BY <2>1, <2>4, <4>1 DEF SymbolsFor, SymbolsFollow, IndexingAt
                <5> QED BY <3>1, <5>1 DEF Once
            <4>2. CASE job[s].file # f
                <5>1. table'[f] = table[f] /\ Once(f)
                    BY <2>1, <2>4, <4>2 DEF SymbolsFor, SymbolsFollow
                <5> QED BY <1>2, <4>2, <5>1 DEF Once
            <4> QED BY <4>1, <4>2
        <3> QED BY <1>1, <2>2, <3>2 DEF SymbolsFor, AtOnce, IndexingAt, ReadingAt
    <2> QED BY <1>1, <1>3, <1>4, <2>2, <2>3, <2>4, AloneKeeps
<1>11. CASE Link(s) \/ EndOfDirty(s)
    <2>1. /\ UNCHANGED <<table, cache>>
          /\ \/ job[s].at = "link" /\ Moves(s, To(s, "extract"))
             \/ job[s].at = "remove" /\ Moves(s, To(s, "wire"))
        BY <1>11 DEF Link, EndOfDirty
    <2>2. /\ StepOf(s) /\ NotedBy(s) /\ job'[s].file = job[s].file /\ Working(s)
          /\ \/ job[s].at = "link" /\ job'[s].at = "extract"
             \/ job[s].at = "remove" /\ job'[s].at = "wire"
        BY <1>1, <2>1, ToLeaves, MovesIsNoted DEF Working
    <2>3. AtOnce(s)' => AtOnce(s)
        BY <2>2 DEF AtOnce, ReadingAt
    <2>4. CacheOK(cache')
        BY <2>1 DEF SymbolsFollow
    <2> QED BY <1>1, <1>2, <2>1, <2>2, <2>3, <2>4, QuietFollows DEF IndexingAt
<1> QED BY <1>5, <1>6, <1>7, <1>8, <1>9, <1>10, <1>11 DEF SaveStep

\* A deep index adds to no table but by the upgrade of a file.
LEMMA DeepIsQuiet ==
    ASSUME IInv, SymbolsFollow, NEW d \in Deeps, DeepStep(d)
    PROVE  SymbolsFollow'
<1>1. d \in Jobs /\ d # Scan /\ ShapesOK /\ JobShaped(job[d])
    BY KindsOfJobs DEF Jobs, IInv, ShapesOK
<1>2. UNCHANGED <<table, exports, disk, cache>>
    BY DEF DeepStep, BeginDeep, Pool, TakeResult, TakeTest, ReadTest, Drop, Count, EndOfTests, Finish
<1>3. ASSUME NEW r, JobShaped(r), Moves(d, r), Working(d), job[d].at \notin IndexingAt,
             r.at \notin IndexingAt \cup {"swap", "link", "store", "drop", "extract"},
             r.at \notin ReadingAt \/ r.hit = FALSE
      PROVE  SymbolsFollow'
    <2>1. StepOf(d) /\ NotedBy(d) /\ job'[d] = r
        BY <1>1, <1>3, MovesIsNoted
    <2>2. ~AtOnce(d)' /\ CacheOK(cache')
        BY <1>2, <1>3, <2>1 DEF AtOnce, SymbolsFollow
    <2> QED BY <1>1, <1>2, <1>3, <2>1, <2>2, QuietFollows
<1>4. CASE BeginDeep(d)
    <2> DEFINE r == [job[d] EXCEPT !.todo = {f \in Files : Exporting(f)},
                        !.at = IF parallel /\ Cardinality({f \in Files : Exporting(f)}) > ParallelAbove
                               THEN "pool" ELSE "turn"]
    <2>1. JobShaped(r) /\ r.at \in {"pool", "turn"}
        BY <1>1 DEF JobShaped, JobFields
    <2>2. Moves(d, IF stop THEN To(d, "done") ELSE r) /\ job[d].at = "begin"
        BY <1>4 DEF BeginDeep
    <2> HIDE DEF r
    <2>3. PICK q \in {r, To(d, "done")} : Moves(d, q)
        BY <2>2
    <2>4. JobShaped(q) /\ q.at \in {"pool", "turn", "done"}
        BY <1>1, <2>1, ToLeaves
    <2> QED BY <1>3, <2>2, <2>3, <2>4 DEF Working, IndexingAt, ReadingAt
<1>5. CASE Pool(d)
    <2>1. PICK f \in job[d].todo :
             Moves(d, [job[d] EXCEPT !.todo = @ \ {f},
                      !.results = IF stop THEN @ ELSE Append(@, [file |-> f, text |-> disk[f]])])
        BY <1>5 DEF Pool
    <2> DEFINE r == [job[d] EXCEPT !.todo = @ \ {f},
                      !.results = IF stop THEN @ ELSE Append(@, [file |-> f, text |-> disk[f]])]
    <2>2. JobShaped(r) /\ r.at = job[d].at
        BY <1>1 DEF JobShaped, JobFields
    <2>3. Moves(d, r) /\ job[d].at = "pool"
        BY <1>5, <2>1 DEF Pool
    <2> HIDE DEF r
    <2> QED BY <1>3, <2>2, <2>3 DEF Working, IndexingAt, ReadingAt
<1>6. CASE TakeResult(d)
    <2> DEFINE e == Head(job[d].results)
               good == e.text # 0 /\ <<e.file, e.text>> \notin Unparsable
               r == [job[d] EXCEPT !.results = Tail(@), !.file = e.file, !.text = e.text,
                                   !.hit = TRUE, !.at = IF good THEN "copy" ELSE "count"]
    <2>1. JobShaped(r) /\ r.at \in {"copy", "count"}
        BY <1>1 DEF JobShaped, JobFields
    <2>2. Moves(d, r) /\ job[d].at = "pool"
        BY <1>6 DEF TakeResult
    <2> HIDE DEF r
    <2> QED BY <1>3, <2>1, <2>2 DEF Working, IndexingAt, ReadingAt
<1>7. CASE TakeTest(d)
    <2>1. PICK f \in job[d].todo :
             Moves(d, [job[d] EXCEPT !.todo = @ \ {f}, !.file = f, !.hit = FALSE, !.at = "stat"])
        BY <1>7 DEF TakeTest
    <2> DEFINE r == [job[d] EXCEPT !.todo = @ \ {f}, !.file = f, !.hit = FALSE, !.at = "stat"]
    <2>2. JobShaped(r) /\ r.at = "stat" /\ r.hit = FALSE
        BY <1>1 DEF JobShaped, JobFields
    <2>3. Moves(d, r) /\ job[d].at = "turn"
        BY <1>7, <2>1 DEF TakeTest
    <2> HIDE DEF r
    <2> QED BY <1>3, <2>2, <2>3 DEF Working, IndexingAt, ReadingAt
<1>8. CASE ReadTest(d) \/ Drop(d)
    <2>1. \/ job[d].at = "read" /\ \E p \in {"count", "copy"} : Moves(d, To(d, p))
          \/ job[d].at = "read" /\ job[d].hit /\ Moves(d, To(d, "drop"))
          \/ job[d].at = "drop" /\ Moves(d, To(d, "extract"))
        BY <1>8 DEF ReadTest, Drop
    <2>2. /\ StepOf(d) /\ NotedBy(d) /\ job'[d].file = job[d].file /\ Working(d)
          /\ \/ job[d].at = "read" /\ job'[d].at \in {"count", "copy"}
             \/ job[d].at = "read" /\ job[d].hit /\ job'[d].at = "drop"
             \/ job[d].at = "drop" /\ job'[d].at = "extract"
        BY <1>1, <2>1, ToLeaves, MovesIsNoted DEF Working
    <2>3. AtOnce(d)' => AtOnce(d)
        BY <2>2 DEF AtOnce, ReadingAt
    <2>4. CacheOK(cache')
        BY <1>2 DEF SymbolsFollow
    <2> QED BY <1>1, <1>2, <2>2, <2>3, <2>4, QuietFollows DEF IndexingAt
<1>9. CASE Count(d) \/ EndOfTests(d) \/ Finish(d)
    <2>1. /\ \E p \in {"pool", "turn", "finish", "wire", "done"} : Moves(d, To(d, p))
          /\ job[d].at \in {"count", "pool", "turn", "finish"}
        BY <1>9 DEF Count, EndOfTests, Finish
    <2> QED BY <1>1, <1>3, <2>1, ToLeaves DEF Working, IndexingAt, ReadingAt
<1> QED BY <1>4, <1>5, <1>6, <1>7, <1>8, <1>9 DEF DeepStep

\* One more result of a scan, of a file that has none.
LEMMA ResultIsOne ==
    ASSUME NEW s, OnePerFile(s.results), NEW x, EntryShaped(x.symbols),
           \A i \in DOMAIN s.results :
              EntryShaped(s.results[i].symbols) /\ s.results[i].file # x.file
    PROVE  /\ OnePerFile(Append(s.results, x))
           /\ \A i \in DOMAIN Append(s.results, x) :
                 /\ EntryShaped(Append(s.results, x)[i].symbols)
                 /\ \/ Append(s.results, x)[i].file = x.file
                    \/ \E k \in DOMAIN s.results : s.results[k].file = Append(s.results, x)[i].file
<1>1. /\ OnePerFile(Append(s.results, x))
      /\ \A i \in DOMAIN Append(s.results, x) :
            \/ Append(s.results, x)[i] = x
            \/ i \in DOMAIN s.results /\ Append(s.results, x)[i] = s.results[i]
    BY AppendIsOne
<1> QED BY <1>1

\* The files that a scan has still to merge have no symbols, as long as none is added.
LEMMA PendingKeeps ==
    ASSUME IInv, SymbolsFollow, NEW r, JobShaped(r), Moves(Scan, r), ScanOK(r),
           job[Scan].at \in ReadingAt \cup {"next"}, r.at \in ReadingAt \cup {"next"},
           UNCHANGED <<table, exports, disk>>, CacheOK(cache'),
           \A f \in Files : Pending(r, f) => Pending(job[Scan], f)
    PROVE  SymbolsFollow'
<1>1. Scan \in Jobs /\ Scan \notin Deeps /\ ShapesOK
    BY KindsOfJobs DEF Jobs, IInv
<1>2. StepOf(Scan) /\ NotedBy(Scan) /\ job'[Scan] = r
    BY <1>1, MovesIsNoted
<1>3. Working(Scan) /\ CopyOK(job'[Scan])
    BY <1>2 DEF Working, CopyOK, ReadingAt
<1>4. table' = [f \in Files |-> table'[f]] /\ exports' = [f \in Files |-> exports'[f]]
    BY DEF SymbolsFollow
<1>5. ASSUME SymbolsFor(Scan) PROVE SymbolsFor(Scan)'
    <2>1. \A f \in Files : Once(f)'
        BY <1>5 DEF SymbolsFor, Once, IndexingAt, ReadingAt
    <2>2. \A f \in Files : Pending(r, f) => table'[f] = <<>>
        BY <1>5 DEF SymbolsFor
    <2> QED BY <1>1, <1>2, <2>1, <2>2 DEF SymbolsFor, AtOnce, IndexingAt, ReadingAt
<1> QED BY <1>1, <1>2, <1>3, <1>4, <1>5, AloneKeeps

\* A scan takes a file from those left to do, and has its entry or looks for its source.
LEMMA TakeIsOnce ==
    ASSUME IInv, SymbolsFollow, NEW f \in Files, Take(f)
    PROVE  SymbolsFollow'
<1> DEFINE s == job[Scan]
           e == Cache!Found(cache, f, disk[f])
           next == [s EXCEPT !.todo = @ \ {f}, !.file = f, !.entry = e]
           x == [file |-> f, symbols |-> e, text |-> e.text]
           one == [next EXCEPT !.results = Append(@, x)]
           two == [next EXCEPT !.at = "stat"]
<1>1. JobShaped(s) /\ ScanOK(s)
    BY DEF IInv, ShapesOK, SymbolsFollow, Jobs
<1>2. /\ Moves(Scan, one) \/ Moves(Scan, two)
      /\ s.at = "next" /\ f \in s.todo /\ UNCHANGED <<table, exports, disk>>
      /\ cache' = Cache!AfterGet(cache, f, disk[f])
    BY DEF Take
<1>3. EntryShaped(e) /\ CacheOK(cache')
    BY <1>2, GetKeeps DEF SymbolsFollow
<1>4. x.file = f /\ x.symbols = e
    OBVIOUS
<1> HIDE DEF e, x
<1>5. /\ JobShaped(next) /\ next.at = "next" /\ next.todo = s.todo \ {f} /\ next.file = f
      /\ next.entry = e /\ next.results = s.results
    BY <1>1, <1>2 DEF JobShaped, JobFields
<1> HIDE DEF next
<1>6. /\ JobShaped(one) /\ one.at = "next" /\ one.todo = s.todo \ {f} /\ one.file = f
      /\ one.entry = e /\ one.results = Append(s.results, x)
      /\ JobShaped(two) /\ two.at = "stat" /\ two.todo = s.todo \ {f} /\ two.file = f
      /\ two.entry = e /\ two.results = s.results
    BY <1>5 DEF JobShaped, JobFields
<1> HIDE DEF one, two
<1>7. \A i \in DOMAIN s.results :
         EntryShaped(s.results[i].symbols) /\ s.results[i].file # f /\ s.results[i].file \notin s.todo
    BY <1>1, <1>2 DEF ScanOK
<1>8. ScanOK(two) /\ \A g \in Files : Pending(two, g) => Pending(s, g)
    BY <1>1, <1>2, <1>3, <1>6, <1>7 DEF ScanOK, Pending, ReadingAt
<1>9. ScanOK(one) /\ \A g \in Files : Pending(one, g) => Pending(s, g)
    <2>1. /\ OnePerFile(one.results)
          /\ \A i \in DOMAIN one.results :
                /\ EntryShaped(one.results[i].symbols)
                /\ \/ one.results[i].file = f
                   \/ \E k \in DOMAIN s.results : s.results[k].file = one.results[i].file
        BY <1>1, <1>3, <1>4, <1>6, <1>7, ResultIsOne DEF ScanOK
    <2> QED BY <1>2, <1>3, <1>6, <1>7, <2>1 DEF ScanOK, Pending, ReadingAt
<1>10. CASE Moves(Scan, one)
    BY <1>2, <1>3, <1>6, <1>9, <1>10, PendingKeeps
<1>11. CASE Moves(Scan, two)
    BY <1>2, <1>3, <1>6, <1>8, <1>11, PendingKeeps DEF ReadingAt
<1> QED BY <1>2, <1>10, <1>11

\* A source that was read makes the result of its file.
LEMMA ScannedIsOnce ==
    ASSUME IInv, SymbolsFollow, Scanned
    PROVE  SymbolsFollow'
<1> DEFINE s == job[Scan]
           new == [Cache!NoEntry EXCEPT !.file = s.file, !.text = s.text, !.links = s.text,
                                        !.extracted = Of(Requires, s.file, s.text) # {}]
           e == IF s.entry # Cache!NoEntry THEN s.entry ELSE new
           x == [file |-> s.file, symbols |-> e, text |-> s.text]
           r == [s EXCEPT !.at = "next", !.results = Append(@, x)]
<1>1. JobShaped(s) /\ ScanOK(s)
    BY DEF IInv, ShapesOK, SymbolsFollow, Jobs
<1>2. Moves(Scan, r) /\ s.at = "read" /\ UNCHANGED <<table, exports, disk, cache>>
    BY DEF Scanned
<1>3. EntryShaped(new)
    BY DEF EntryShaped, EntryFields, Cache!NoEntry
<1> HIDE DEF new
<1>4. EntryShaped(e) /\ x.file = s.file /\ x.symbols = e
    BY <1>1, <1>3 DEF ScanOK
<1> HIDE DEF e, x
<1>5. /\ JobShaped(r) /\ r.at = "next" /\ r.todo = s.todo /\ r.entry = s.entry
      /\ r.results = Append(s.results, x)
    BY <1>1 DEF JobShaped, JobFields
<1> HIDE DEF r
<1>6. /\ s.file \notin s.todo /\ EntryShaped(s.entry)
      /\ \A i \in DOMAIN s.results : /\ EntryShaped(s.results[i].symbols)
                                     /\ s.results[i].file # s.file
                                     /\ s.results[i].file \notin s.todo
    BY <1>1, <1>2 DEF ScanOK, ReadingAt
<1>7. /\ OnePerFile(r.results)
      /\ \A i \in DOMAIN r.results :
            /\ EntryShaped(r.results[i].symbols)
            /\ \/ r.results[i].file = s.file
               \/ \E k \in DOMAIN s.results : s.results[k].file = r.results[i].file
    BY <1>1, <1>4, <1>5, <1>6, ResultIsOne DEF ScanOK
<1>8. ScanOK(r) /\ \A g \in Files : Pending(r, g) => Pending(s, g)
    BY <1>2, <1>5, <1>6, <1>7 DEF ScanOK, Pending, ReadingAt
<1>9. CacheOK(cache')
    BY <1>2 DEF SymbolsFollow
<1> QED BY <1>2, <1>5, <1>8, <1>9, PendingKeeps DEF ReadingAt

\* A result adds the symbols of a file that had none.
LEMMA MergeIsOnce ==
    ASSUME IInv, SymbolsFollow, Merge
    PROVE  SymbolsFollow'
<1> DEFINE s == job[Scan]
           x == Head(s.results)
           f == x.file
           e == x.symbols
           new == [text |-> e.text, full |-> e.full]
           r == [s EXCEPT !.results = Tail(@)]
<1>1. /\ JobShaped(s) /\ ScanOK(s) /\ Scan \in Jobs /\ Scan \notin Deeps /\ ShapesOK
      /\ CacheOK(cache) /\ table = [g \in Files |-> table[g]]
      /\ exports = [g \in Files |-> exports[g]]
    BY KindsOfJobs DEF IInv, ShapesOK, SymbolsFollow, Jobs
<1>2. /\ Moves(Scan, r) /\ s.at = "next" /\ s.results # <<>> /\ UNCHANGED disk
      /\ \/ UNCHANGED <<cache, table, exports>>
         \/ /\ table' = [table EXCEPT ![f] = Append(@, new)]
            /\ exports' = exports \/ exports' = [exports EXCEPT ![f] = x.text]
            /\ cache' = cache \/ cache' = Cache!Put(cache, e, disk[f])
    BY DEF Merge
<1> HIDE DEF new
<1>3. /\ JobShaped(r) /\ r.at = "next" /\ r.todo = s.todo /\ r.entry = s.entry
      /\ r.results = Tail(s.results)
    BY <1>1, <1>2 DEF JobShaped, JobFields
<1> HIDE DEF r
<1>4. /\ OnePerFile(r.results) /\ 1 \in DOMAIN s.results /\ x = s.results[1]
      /\ \A i \in DOMAIN r.results : /\ i + 1 \in DOMAIN s.results
                                     /\ r.results[i] = s.results[i + 1]
                                     /\ r.results[i].file # f
    <2> DEFINE q == s.results
    <2>1. OnePerFile(q) /\ q # <<>> /\ r.results = Tail(q) /\ x = Head(q)
        BY <1>1, <1>2, <1>3 DEF ScanOK
    <2> HIDE DEF q
    <2>2. /\ OnePerFile(Tail(q)) /\ 1 \in DOMAIN q /\ Head(q) = q[1]
          /\ \A i \in DOMAIN Tail(q) :
                i + 1 \in DOMAIN q /\ Tail(q)[i] = q[i + 1] /\ Tail(q)[i].file # q[1].file
        BY <2>1, TailIsOne
    <2> QED BY <2>1, <2>2 DEF q
<1>5. EntryShaped(e) /\ f \notin s.todo
    BY <1>1, <1>4 DEF ScanOK
<1> HIDE DEF x
<1>6. ScanOK(r)
    BY <1>1, <1>3, <1>4 DEF ScanOK, ReadingAt
<1>7. CacheOK(cache')
    BY <1>1, <1>2, <1>5, PutKeeps
<1>8. table' = [g \in Files |-> table'[g]] /\ exports' = [g \in Files |-> exports'[g]]
    BY <1>1, <1>2
<1>9. StepOf(Scan) /\ NotedBy(Scan) /\ job'[Scan] = r
    BY <1>1, <1>2, <1>3, MovesIsNoted
<1>10. Working(Scan) /\ CopyOK(job'[Scan])
    BY <1>2, <1>3, <1>9 DEF Working, CopyOK
<1>11. ASSUME NEW g \in Files, Pending(r, g) PROVE Pending(s, g) /\ g # f
    BY <1>3, <1>4, <1>5, <1>11 DEF Pending, ReadingAt
<1>12. ASSUME f \in Files PROVE Pending(s, f)
    BY <1>4 DEF Pending
<1>13. ASSUME SymbolsFor(Scan) PROVE SymbolsFor(Scan)'
    <2>1. \A g \in Files : Once(g) /\ (Pending(s, g) => table[g] = <<>>)
        BY <1>2, <1>13 DEF SymbolsFor, IndexingAt
    <2>2. Len(Append(<<>>, new)) = 1
        OBVIOUS
    <2>3. ASSUME NEW g \in Files PROVE Once(g)' /\ (Pending(r, g) => table'[g] = <<>>)
        <3>1. CASE UNCHANGED <<table, exports>>
            BY <1>2, <1>11, <2>1, <3>1 DEF Once
        <3>2. CASE table' = [table EXCEPT ![f] = Append(@, new)]
            <4>1. CASE g = f
                <5>1. table'[g] = Append(<<>>, new)
                    BY <1>1, <1>12, <2>1, <3>2, <4>1
                <5> QED BY <1>11, <2>2, <4>1, <5>1 DEF Once
            <4>2. CASE g # f
                <5>1. table'[g] = table[g] /\ exports'[g] = exports[g]
                    BY <1>1, <1>2, <3>2, <4>2
                <5> QED BY <1>2, <1>11, <2>1, <5>1 DEF Once
            <4> QED BY <4>1, <4>2
        <3> QED BY <1>2, <3>1, <3>2
    <2> QED BY <1>1, <1>3, <1>9, <2>3 DEF SymbolsFor, AtOnce, IndexingAt, ReadingAt
<1> QED BY <1>1, <1>6, <1>7, <1>8, <1>9, <1>10, <1>13, AloneKeeps

\* The end of the files, the manifests, and the end of a scan without the full parser.
LEMMA ScanEndIsQuiet ==
    ASSUME IInv, SymbolsFollow, EndOfFiles \/ Manifests \/ NoLaunch
    PROVE  SymbolsFollow'
<1>1. Scan \in Jobs /\ Scan \notin Deeps /\ ShapesOK /\ JobShaped(job[Scan])
    BY KindsOfJobs DEF Jobs, IInv, ShapesOK
<1>2. UNCHANGED <<table, exports, disk, cache>>
    BY DEF EndOfFiles, Manifests, NoLaunch
<1>3. /\ StepOf(Scan) /\ NotedBy(Scan) /\ Working(Scan)
      /\ job[Scan].at \in {"next", "manifests", "launch"}
      /\ job'[Scan].at \in {"wire", "scopes", "done"}
      /\ job'[Scan].todo = job[Scan].todo /\ job'[Scan].results = job[Scan].results
      /\ job'[Scan].file = job[Scan].file /\ job'[Scan].entry = job[Scan].entry
    <2>1. CASE EndOfFiles
        <3> DEFINE r == [To(Scan, "wire") EXCEPT !.dirty = {}]
        <3>1. /\ JobShaped(r) /\ r.at = "wire" /\ r.todo = job[Scan].todo
              /\ r.results = job[Scan].results /\ r.file = job[Scan].file
              /\ r.entry = job[Scan].entry
            BY <1>1, ToLeaves DEF JobShaped, JobFields
        <3>2. Moves(Scan, r) /\ job[Scan].at = "next"
            BY <2>1 DEF EndOfFiles
        <3> HIDE DEF r
        <3> QED BY <1>1, <3>1, <3>2, MovesIsNoted DEF Working
    <2>2. CASE Manifests
        <3>1. Moves(Scan, To(Scan, "scopes")) /\ job[Scan].at = "manifests"
            BY <2>2 DEF Manifests
        <3> QED BY <1>1, <3>1, ToLeaves, MovesIsNoted DEF Working
    <2>3. CASE NoLaunch
        <3>1. /\ StepOf(Scan) /\ job[Scan].at = "launch" /\ job'[Scan].at = "done"
              /\ job'[Scan] = To(Scan, "done") /\ overlapped' = overlapped
            BY <1>1, <2>3, ToIsShaped, ScanSteps DEF NoLaunch, ShapesOK
        <3>2. NotedBy(Scan) /\ Working(Scan)
            BY <3>1 DEF NotedBy, Working
        <3> QED BY <1>1, <3>1, <3>2, ToLeaves
    <2> QED BY <2>1, <2>2, <2>3
<1>4. ~AtOnce(Scan)' /\ CacheOK(cache')
    BY <1>1, <1>2, <1>3 DEF AtOnce, ReadingAt, SymbolsFollow
<1> QED BY <1>1, <1>2, <1>3, <1>4, QuietFollows DEF IndexingAt, ReadingAt

\* The end of a scan and the start of its deep index.
LEMMA LaunchIsQuiet ==
    ASSUME IInv, SymbolsFollow, Launch
    PROVE  SymbolsFollow'
<1> DEFINE begin == [Idle EXCEPT !.at = "begin"]
           end == To(Scan, "done")
<1>1. PICK e \in Deeps : job[e].at = "idle" /\ job' = [job EXCEPT ![Scan] = end, ![e] = begin]
    BY DEF Launch
<1>2. /\ Scan \in Jobs /\ e \in Jobs /\ e # Scan /\ ShapesOK /\ job[Scan].at = "launch"
      /\ UNCHANGED <<table, exports, disk, cache, overlapped>>
    BY KindsOfJobs DEF Jobs, IInv, Launch
<1>3. /\ end.at = "done" /\ end.todo = job[Scan].todo /\ end.results = job[Scan].results
      /\ end.entry = job[Scan].entry /\ end.file = job[Scan].file /\ begin.at = "begin"
    BY <1>2, ToLeaves DEF Idle
<1> HIDE DEF begin, end
<1>4. /\ job'[Scan] = end /\ job'[e] = begin
      /\ \A k \in Jobs : k \notin {Scan, e} => job'[k] = job[k]
    BY <1>1, <1>2 DEF ShapesOK
<1>5. ScanOK(job'[Scan])
    BY <1>2, <1>3, <1>4 DEF SymbolsFollow, ScanOK, ReadingAt
<1>6. ASSUME NEW k \in Jobs PROVE CopyOK(job'[k])
    BY <1>3, <1>4 DEF SymbolsFollow, CopyOK
<1>7. /\ CacheOK(cache') /\ table' = [f \in Files |-> table'[f]]
      /\ exports' = [f \in Files |-> exports'[f]]
    BY <1>2 DEF SymbolsFollow
<1>8. ASSUME ~overlapped', NEW k \in Jobs
      PROVE  (Working(k)' => OnlyOne(k)') /\ (OnlyOne(k)' => SymbolsFor(k)')
    <2>1. OnlyOne(Scan) /\ SymbolsFor(Scan)
        BY <1>2, <1>8 DEF SymbolsFollow, Working
    <2>2. \A f \in Files : Once(f)'
        BY <1>2, <2>1 DEF SymbolsFor, IndexingAt, Once
    <2>3. \A i \in Jobs : i # e => job'[i].at \in {"idle", "done"}
        BY <1>3, <1>4, <2>1 DEF OnlyOne, Working
    <2>4. job'[k].at \in {"idle", "done", "begin"} /\ (Working(k)' => OnlyOne(k)')
        BY <1>3, <1>4, <2>3 DEF OnlyOne, Working
    <2> QED BY <2>2, <2>4 DEF SymbolsFor, AtOnce, IndexingAt, ReadingAt
<1> QED BY <1>5, <1>6, <1>7, <1>8 DEF SymbolsFollow

\* A parse on demand begins with the copy, or has nothing to do: others may be at work.
LEMMA DemandIsQuiet ==
    ASSUME IInv, SymbolsFollow, NEW q \in Demands, Demand(q)
    PROVE  SymbolsFollow'
<1>1. /\ q \in Jobs /\ q # Scan /\ q \notin Deeps /\ ShapesOK /\ job[q].at = "idle"
      /\ UNCHANGED <<table, exports, disk, cache>>
    BY KindsOfJobs DEF Jobs, IInv, Demand
<1>2. CacheOK(cache')
    BY <1>1 DEF SymbolsFollow
<1> DEFINE f == FileOfDemand[q]
           r == [Idle EXCEPT !.at = "copy", !.file = f, !.text = disk[f]]
<1>3. CASE Moves(q, r)
    <2>1. JobShaped(r) /\ r.at = "copy"
        BY IdleIsShaped DEF JobShaped, JobFields
    <2> HIDE DEF r
    <2>2. StepOf(q) /\ NotedBy(q) /\ job'[q].at = "copy"
        BY <1>1, <1>3, <2>1, MovesIsNoted
    <2>3. ~AtOnce(q)'
        BY <1>1, <2>2 DEF AtOnce, ReadingAt
    <2> QED BY <1>1, <1>2, <2>2, <2>3, QuietFollows DEF IndexingAt
<1>4. CASE Moves(q, To(q, "done"))
    <2>1. StepOf(q) /\ NotedBy(q) /\ job'[q].at = "done"
        BY <1>1, <1>4, ToLeaves, MovesIsNoted
    <2>2. \A k \in Jobs : (Working(k)' <=> Working(k)) /\ (k # q => job'[k] = job[k])
        BY <1>1, <2>1 DEF StepOf, Working
    <2>3. /\ ScanOK(job'[Scan]) /\ \A k \in Jobs : CopyOK(job'[k])
        BY <1>1, <2>1, <2>2 DEF SymbolsFollow, CopyOK, Jobs
    <2>4. table' = [g \in Files |-> table'[g]] /\ exports' = [g \in Files |-> exports'[g]]
        BY <1>1 DEF SymbolsFollow
    <2>5. ASSUME ~overlapped', NEW k \in Jobs
          PROVE  (Working(k)' => OnlyOne(k)') /\ (OnlyOne(k)' => SymbolsFor(k)')
        <3>1. ~overlapped
            BY <2>1, <2>5 DEF NotedBy
        <3>2. OnlyOne(k)' <=> OnlyOne(k)
            BY <2>2 DEF OnlyOne
        <3>3. ASSUME OnlyOne(k)' PROVE SymbolsFor(k)'
            <4>1. SymbolsFor(k)
                BY <3>1, <3>2, <3>3 DEF SymbolsFollow
            <4>2. CASE k = q
                <5>1. \A g \in Files : Once(g)'
                    BY <1>1, <4>1, <4>2 DEF SymbolsFor, IndexingAt, Once
                <5> QED BY <2>1, <4>2, <5>1 DEF SymbolsFor, AtOnce, IndexingAt, ReadingAt
            <4>3. CASE k # q
                <5>1. job'[k] = job[k]
                    BY <2>2, <4>3
                <5> QED BY <1>1, <4>1, <5>1 DEF SymbolsFor, AtOnce, Once
            <4> QED BY <4>2, <4>3
        <3> QED BY <2>2, <2>5, <3>1, <3>2, <3>3 DEF SymbolsFollow
    <2> QED BY <1>2, <2>3, <2>4, <2>5 DEF SymbolsFollow
<1> QED BY <1>3, <1>4 DEF Demand

\* An empty list has one entry of each file, as it has none.
LEMMA EmptyIsOne == OnePerFile(<<>>) /\ DOMAIN <<>> = {}
<1>1. <<>> = [i \in 1 .. 0 |-> <<>>[i]] /\ DOMAIN <<>> = {}
    OBVIOUS
<1> QED BY <1>1 DEF OnePerFile, Listed

\* An empty cache is one.
LEMMA EmptyCacheIsFine == \A p : CacheOK(Cache!EmptyCache(p))
<1> SUFFICES ASSUME NEW p PROVE CacheOK(Cache!EmptyCache(p))
    OBVIOUS
<1> DEFINE c == Cache!EmptyCache(p)
<1>1. /\ c = [x \in {"memory", "rows", "persistent"} |-> c[x]]
      /\ c.memory = <<>> /\ c.rows = [f \in {} |-> Cache!NoEntry]
    BY DEF Cache!EmptyCache
<1>2. MemoryOK(<<>>)
    BY EmptyIsOne DEF MemoryOK
<1>3. RowsOK([f \in {} |-> Cache!NoEntry])
    BY DEF RowsOK
<1> HIDE DEF c
<1> QED BY <1>1, <1>2, <1>3 DEF CacheOK, c

\* The scan's record before it begins, and when it does.
LEMMA IdleScanIsFine == ScanOK(Idle) /\ ScanOK([Idle EXCEPT !.at = "next", !.todo = Files])
<1>1. /\ Idle.results = <<>> /\ Idle.entry = Cache!NoEntry /\ Idle.at = "idle"
      /\ EntryShaped(Cache!NoEntry)
    BY DEF Idle, EntryShaped, EntryFields, Cache!NoEntry
<1> DEFINE r == [Idle EXCEPT !.at = "next", !.todo = Files]
<1>2. r.results = <<>> /\ r.entry = Cache!NoEntry /\ r.at = "next"
    BY DEF Idle
<1> HIDE DEF r
<1>3. ScanOK(Idle) /\ ScanOK(r)
    BY <1>1, <1>2, EmptyIsOne DEF ScanOK, ReadingAt
<1> QED BY <1>3 DEF r

\* A scan begins with no file's symbols.
LEMMA StartIsClean ==
    ASSUME IInv, SymbolsFollow, FirstScan \/ Reindex
    PROVE  SymbolsFollow'
<1> DEFINE r == [Idle EXCEPT !.at = "next", !.todo = Files]
<1>1. /\ Moves(Scan, r) /\ table' = [f \in Files |-> <<>>] /\ exports' = [f \in Files |-> 0]
      /\ cache' = cache \/ cache' = Cache!EmptyCache(FALSE)
    BY DEF FirstScan, Reindex, StartScan
<1>2. Scan \in Jobs /\ Scan \notin Deeps /\ ShapesOK
    BY KindsOfJobs DEF Jobs, IInv
<1>3. JobShaped(r) /\ r.at = "next" /\ ScanOK(r)
    BY IdleIsShaped, IdleScanIsFine DEF JobShaped, JobFields, Idle
<1> HIDE DEF r
<1>4. StepOf(Scan) /\ NotedBy(Scan) /\ job'[Scan] = r
    BY <1>1, <1>2, <1>3, MovesIsNoted
<1>5. CacheOK(cache')
    BY <1>1, EmptyCacheIsFine DEF SymbolsFollow
<1>6. SymbolsFor(Scan)'
    <2>1. \A f \in Files : Once(f)' /\ table'[f] = <<>>
        BY <1>1 DEF Once
    <2> QED BY <1>2, <1>3, <1>4, <2>1 DEF SymbolsFor, AtOnce, IndexingAt, ReadingAt
<1>7. CopyOK(job'[Scan])
    BY <1>3, <1>4 DEF CopyOK
<1> QED BY <1>1, <1>2, <1>3, <1>4, <1>5, <1>6, <1>7, AloneKeeps

\* A new process finds the rows of the one before it, and scans.
LEMMA RestartIsClean ==
    ASSUME IInv, SymbolsFollow, Restart
    PROVE  SymbolsFollow'
<1> DEFINE r == [Idle EXCEPT !.at = "next", !.todo = Files]
<1>1. /\ cache' = Cache!Reopened(cache) /\ table' = [f \in Files |-> <<>>]
      /\ exports' = [f \in Files |-> 0]
      /\ job' = [j \in Jobs |-> IF j = Scan THEN r ELSE Idle]
    BY DEF Restart
<1>2. Scan \in Jobs /\ Scan \notin Deeps
    BY KindsOfJobs DEF Jobs
<1>3. r.at = "next" /\ ScanOK(r) /\ Idle.at = "idle"
    BY IdleScanIsFine DEF Idle
<1> HIDE DEF r
<1>4. job'[Scan] = r /\ \A k \in Jobs : k # Scan => job'[k] = Idle
    BY <1>1, <1>2
<1>5. CacheOK(cache')
    <2>1. /\ cache' = [x \in {"memory", "rows", "persistent"} |-> cache'[x]]
          /\ cache'.memory = <<>> /\ cache'.rows = cache.rows
        BY <1>1 DEF SymbolsFollow, CacheOK, Cache!Reopened
    <2>2. MemoryOK(<<>>)
        BY EmptyIsOne DEF MemoryOK
    <2> QED BY <2>1, <2>2 DEF SymbolsFollow, CacheOK
<1>6. ASSUME NEW k \in Jobs
      PROVE  CopyOK(job'[k]) /\ (Working(k)' => OnlyOne(k)') /\ (OnlyOne(k)' => SymbolsFor(k)')
    <2>1. \A f \in Files : Once(f)' /\ table'[f] = <<>>
        BY <1>1 DEF Once
    <2>2. job'[k].at = IF k = Scan THEN "next" ELSE "idle"
        BY <1>3, <1>4
    <2>3. CopyOK(job'[k])
        BY <2>2 DEF CopyOK
    <2>4. Working(k)' => OnlyOne(k)'
        BY <1>3, <1>4, <2>2 DEF Working, OnlyOne
    <2>5. SymbolsFor(k)'
        BY <1>2, <2>1, <2>2 DEF SymbolsFor, AtOnce, IndexingAt, ReadingAt
    <2> QED BY <2>3, <2>4, <2>5
<1> QED BY <1>1, <1>3, <1>4, <1>5, <1>6 DEF SymbolsFollow

\* Queries, edits and a stop add no symbols; a file that was deleted does not come back.
LEMMA SurroundingsAreQuiet ==
    ASSUME IInv, SymbolsFollow,
           \/ RequirementQuery
           \/ \E f \in Files : SymbolQuery(f) \/ Edit(f)
           \/ RequestStop
           \/ UNCHANGED vars
    PROVE  SymbolsFollow'
<1>1. UNCHANGED <<cache, table, exports, overlapped, job>>
    BY DEF RequirementQuery, SymbolQuery, Edit, RequestStop, vars
<1>2. ASSUME NEW f \in Files, disk'[f] # 0 PROVE disk[f] # 0
    <2>1. CASE \E g \in Files : Edit(g)
        <3>1. PICK g \in Files : Edit(g)
            BY <2>1
        <3>2. /\ disk \in [Files -> Nat] /\ disk[g] \in 1 .. MaxText
              /\ \E v : disk' = [disk EXCEPT ![g] = v]
            BY <3>1 DEF Edit, IInv, ShapesOK
        <3>3. disk[g] # 0
            BY <3>2
        <3> QED BY <1>2, <3>2, <3>3
    <2>2. CASE UNCHANGED disk
        BY <1>2, <2>2
    <2> QED BY <2>1, <2>2 DEF RequirementQuery, SymbolQuery, RequestStop, vars
<1>3. ASSUME NEW j \in Jobs, SymbolsFor(j) PROVE SymbolsFor(j)'
    <2>1. \A f \in Files : Once(f) => Once(f)'
        BY <1>1, <1>2 DEF Once
    <2> QED BY <1>1, <1>3, <2>1 DEF SymbolsFor, AtOnce
<1>4. \A j \in Jobs : (Working(j)' <=> Working(j)) /\ (OnlyOne(j)' <=> OnlyOne(j))
    BY <1>1 DEF Working, OnlyOne
<1> QED BY <1>1, <1>3, <1>4 DEF SymbolsFollow

\* At first there are no symbols and no exports.
LEMMA InitIsClean == Init => SymbolsFollow
<1> SUFFICES ASSUME Init PROVE SymbolsFollow
    OBVIOUS
<1>1. CacheOK(cache)
    BY EmptyCacheIsFine DEF Init
<1>2. Scan \in Jobs /\ Idle.at = "idle" /\ ScanOK(Idle)
    BY IdleScanIsFine DEF Jobs, Idle
<1>3. /\ table = [f \in Files |-> <<>>] /\ exports = [f \in Files |-> 0]
      /\ \A j \in Jobs : job[j] = Idle
    BY DEF Init
<1>4. \A f \in Files : Once(f)
    BY <1>3 DEF Once
<1>5. ASSUME NEW j \in Jobs PROVE CopyOK(job[j]) /\ ~Working(j) /\ SymbolsFor(j)
    BY <1>2, <1>3, <1>4 DEF CopyOK, Working, SymbolsFor, AtOnce, IndexingAt, ReadingAt
<1> QED BY <1>1, <1>2, <1>3, <1>5 DEF SymbolsFollow

\* Every step keeps what is said of the symbols.
LEMMA EveryStepKeepsSymbols == IInv /\ SymbolsFollow /\ [Next]_vars => SymbolsFollow'
<1> SUFFICES ASSUME IInv, SymbolsFollow, [Next]_vars PROVE SymbolsFollow'
    OBVIOUS
<1>1. CASE ScanStep
    BY <1>1, StartIsClean, TakeIsOnce, ScannedIsOnce, MergeIsOnce, ScanEndIsQuiet, LaunchIsQuiet
       DEF ScanStep
<1>2. CASE Surroundings
    BY <1>2, RestartIsClean, SurroundingsAreQuiet DEF Surroundings
<1>3. ASSUME NEW j \in Jobs, SharedStep(j) PROVE SymbolsFollow'
    BY <1>3, SharedIsQuiet, ExtractIsOnce, UpgradeIsOnce DEF SharedStep
<1>4. ASSUME NEW s \in Saves, SaveStep(s) PROVE SymbolsFollow'
    BY <1>4, SaveIsOnce
<1>5. ASSUME NEW d \in Deeps, DeepStep(d) PROVE SymbolsFollow'
    BY <1>5, DeepIsQuiet
<1>6. ASSUME NEW q \in Demands, Demand(q) PROVE SymbolsFollow'
    BY <1>6, DemandIsQuiet
<1>7. CASE UNCHANGED vars
    BY <1>7, SurroundingsAreQuiet
<1> QED BY <1>1, <1>2, <1>3, <1>4, <1>5, <1>6, <1>7 DEF Next

\* At rest the index is consistent: requirements and scopes follow, whoever overlapped,
\* and as long as nobody has, the symbols of a file that is there and was indexed are in
\* the table once, whatever the caches answered meanwhile (scope_manager.py:122-148,
\* 305-353; deep_indexer.py:135-148; file_cache.py:47-118).
THEOREM IndexConsistent == Spec => []IndexAgrees
<1>1. IInv /\ SymbolsFollow /\ [Next]_vars => SymbolsFollow'
    BY EveryStepKeepsSymbols
<1>2. SymbolsFollow => SymbolsAreThereOnce
    <2> SUFFICES ASSUME SymbolsFollow, AtRest, ~overlapped, NEW f \in Files PROVE Once(f)
        BY DEF SymbolsAreThereOnce, Once
    <2>1. Scan \in Jobs /\ OnlyOne(Scan) /\ job[Scan].at \in {"idle", "done"}
        BY DEF AtRest, OnlyOne, Working, Jobs
    <2>2. SymbolsFor(Scan)
        BY <2>1 DEF SymbolsFollow
    <2> QED BY <2>1, <2>2 DEF SymbolsFor, IndexingAt
<1>3. IndexAgrees <=> RequirementsAndScopesAgree /\ SymbolsAreThereOnce
    BY DEF IndexAgrees
<1> QED BY <1>1, <1>2, <1>3, InitIsClean, Inductive, IndexFollows, PTL DEF Spec

-----------------------------------------------------------------------------
(***************************************************************************)
(* Include resolution and the active workspace.  What is noted of a file   *)
(* is the last layer that has it, whenever it is noted; a directory of     *)
(* links leads to files of its layer and of those it depends on; and       *)
(* while nothing changes outside, all directories are alike, so that a     *)
(* worker finds in the last what the resolver made it of.                  *)
(***************************************************************************)
\* A set of natural numbers has a least one, and a greatest if it is bounded.
LEMMA NatMin ==
    ASSUME NEW T \in SUBSET Nat, T # {}
    PROVE  \E x \in T : \A y \in T : x <= y
<1> DEFINE R == OpToRel(<, Nat)
<1>1. IsWellFoundedOn(R, Nat)
    BY NatLessThanWellFounded
<1>2. \A x, y \in Nat : y < x => <<y, x>> \in R
    BY DEF OpToRel
<1> HIDE DEF R
<1>3. PICK x \in T : \A y \in T : ~(<<y, x>> \in R)
    BY <1>1, WFMin
<1>4. \A y \in T : ~(y < x)
    BY <1>2, <1>3
<1>5. \A y \in T : x <= y
    BY ONLY <1>4, T \subseteq Nat, x \in T
<1> QED BY <1>5

LEMMA NatMax ==
    ASSUME NEW n \in Nat, NEW T \in SUBSET (0 .. n), T # {}
    PROVE  \E x \in T : \A y \in T : y <= x
<1> DEFINE D == {n - x : x \in T}
<1>1. D \in SUBSET Nat /\ D # {}
    <2>1. \A x \in T : n - x \in Nat
        OBVIOUS
    <2> QED BY <2>1
<1>2. PICK d \in D : \A e \in D : d <= e
    BY <1>1, NatMin
<1>3. PICK x \in T : d = n - x
    BY <1>2
<1>4. ASSUME NEW y \in T PROVE y <= x
    <2>1. n - x <= n - y
        BY <1>2, <1>3
    <2> QED BY <2>1
<1> QED BY <1>3, <1>4

IsResolver(rr) ==
    rr = [gen |-> rr.gen, parts |-> rr.parts, partGen |-> rr.partGen, layerOf |-> rr.layerOf,
          partOf |-> rr.partOf, byId |-> rr.byId, active |-> rr.active, staged |-> rr.staged,
          clash |-> rr.clash]

ResolutionTypeOK ==
    /\ IsResolver(resolver) /\ IsResolver(worker) /\ there \subseteq Resolution!AllFiles
    /\ links = [gen |-> links.gen, flat |-> links.flat, part |-> links.part]
    /\ resolver.gen \in Nat /\ resolver.partGen \in Nat /\ links.gen \in Nat /\ changes \in Nat

\* The layer that is noted of a file: the last that has it.
LayerNote(f) ==
    IF Resolution!LayersOf(f) = {} THEN None
    ELSE LayerSeq[CHOOSE i \in Resolution!LayersOf(f) : \A j \in Resolution!LayersOf(f) : j <= i]

\* What is noted of a file stays.
LayersNoted ==
    layered => \A f \in Resolution!AllFiles :
        /\ resolver.layerOf[f] \in {None, LayerNote(f)}
        /\ resolver.partOf[f] \in {None, resolver.layerOf[f]}

\* What the directory of links of a layer may lead to.
NearLayer(l) ==
    {None, Std} \cup {g \in Resolution!AllFiles :
        \E m \in {l} \cup Resolution!Range(DependsOn[l]) : Dir[g] \in LayerDirs[m]}

LinksInLayers ==
    layered => \A l \in Resolution!Layers, b \in Resolution!Bases :
        links.part[l][b] \in NearLayer(l)

\* While nothing changes outside, a directory of links of a layer is as it would be
\* made now, and the resolver knows the last directory.
LinksOfLayers == [l \in Resolution!Layers |-> Resolution!LayerLinks(l)]
LinksAreCurrent ==
    changes = 0 =>
        /\ resolver.gen # 0 => resolver.gen = links.gen
        /\ resolver.partGen <= links.gen
        /\ layered => links.part \in {Resolution!Gone.part, LinksOfLayers}
        /\ layered /\ resolver.gen # 0 /\ resolver.partGen = resolver.gen =>
               links.part = LinksOfLayers /\ resolver.byId /\ resolver.parts = Resolution!Layers

\* The layer that a worker finds of a file: the last that has it and links it.
LinkedIn(f) == {i \in Resolution!LayersOf(f) : LinksOfLayers[LayerSeq[i]][Base[f]] = f}
LinkedLayer(f) ==
    IF f \in there /\ LinkedIn(f) # {}
    THEN LayerSeq[CHOOSE i \in LinkedIn(f) : \A j \in LinkedIn(f) : j <= i] ELSE None

WorkerNotes ==
    layered /\ changes = 0 /\ worker.parts # {} =>
        /\ worker.gen # 0 /\ worker.partGen = worker.gen
        /\ worker.parts = Resolution!Layers /\ worker.byId /\ worker.active = {}
        /\ \A f \in Resolution!AllFiles :
              worker.layerOf[f] = LinkedLayer(f) /\ worker.partOf[f] = LinkedLayer(f)

ResolutionInv == /\ ResolutionTypeOK /\ LayersNoted /\ LinksInLayers /\ LinksAreCurrent
                 /\ WorkerNotes /\ Resolution!ScopeIsWorkspace

\* The first file of a set is of it.
LEMMA FirstIsOne ==
    ASSUME NEW S \in SUBSET Resolution!AllFiles
    PROVE  Resolution!First(S) \in S \cup {None}
<1> DEFINE P(i) == Paths[i] \in S /\ \A j \in 1 .. i - 1 : Paths[j] \notin S
           i0 == CHOOSE i \in DOMAIN Paths : P(i)
           I == {i \in DOMAIN Paths : Paths[i] \in S}
<1>1. Resolution!First(S) = IF S = {} THEN None ELSE Paths[i0]
    BY DEF Resolution!First
<1>2. CASE S # {}
    <2>1. I \in SUBSET Nat /\ I # {}
        BY <1>2, ResolutionAssumption DEF Resolution!AllFiles, Resolution!Range
    <2>2. PICK i \in I : \A j \in I : i <= j
        BY <2>1, NatMin
    <2>3. i \in DOMAIN Paths /\ \A j \in 1 .. i - 1 : j \in DOMAIN Paths
        BY <2>1, <2>2, ResolutionAssumption
    <2>4. P(i)
        BY <2>1, <2>2, <2>3
    <2>5. \E k \in DOMAIN Paths : P(k)
        BY <2>3, <2>4
    <2> HIDE DEF P
    <2>6. P(i0)
        BY <2>5
    <2> QED BY <1>1, <1>2, <2>6 DEF P
<1>3. CASE S = {}
    BY <1>1, <1>3
<1> QED BY <1>2, <1>3

\* What is found is one of what was asked.
LEMMA FirstAliveIsOne ==
    ASSUME NEW S, NEW s \in Seq(S)
    PROVE  Resolution!FirstAlive(s) \in S \cup {None}
<1> DEFINE A == {i \in DOMAIN s : Resolution!Alive(s[i])}
           i0 == CHOOSE i \in A : \A j \in A : i <= j
<1>1. Resolution!FirstAlive(s) = IF A = {} THEN None ELSE s[i0]
    BY DEF Resolution!FirstAlive
<1>2. CASE A # {}
    <2>1. A \in SUBSET Nat
        OBVIOUS
    <2>2. PICK i \in A : \A j \in A : i <= j
        BY <1>2, <2>1, NatMin
    <2>3. i0 \in A
        BY <2>2
    <2>4. \A j \in A : s[j] \in S
        OBVIOUS
    <2> HIDE DEF A
    <2> QED BY <1>1, <1>2, <2>3, <2>4
<1>3. CASE A = {}
    BY <1>1, <1>3
<1> QED BY <1>2, <1>3

\* The layer that is noted is a layer of the file.
LEMMA LastLayerIsOne ==
    ASSUME NEW f, NEW T \in SUBSET Resolution!LayersOf(f), T # {}
    PROVE  /\ \E i \in T : \A j \in T : j <= i
           /\ (CHOOSE i \in T : \A j \in T : j <= i) \in T
           /\ \A i \in T : LayerSeq[i] \in Resolution!Layers /\ Dir[f] \in LayerDirs[LayerSeq[i]]
<1>1. T \in SUBSET (0 .. Len(LayerSeq)) /\ Len(LayerSeq) \in Nat
    BY ResolutionAssumption DEF Resolution!LayersOf
<1>2. \E i \in T : \A j \in T : j <= i
    BY <1>1, NatMax
<1> QED BY <1>2, ResolutionAssumption DEF Resolution!LayersOf

LEMMA NoteIsALayer ==
    ASSUME NEW f, LayerNote(f) # None
    PROVE  LayerNote(f) \in Resolution!Layers /\ Dir[f] \in LayerDirs[LayerNote(f)]
BY LastLayerIsOne DEF LayerNote

\* A directory of links has files of its layer and of those that it depends on.
LEMMA LinksAreNear ==
    ASSUME there \subseteq Resolution!AllFiles, NEW l \in Resolution!Layers,
           NEW b \in Resolution!Bases
    PROVE  Resolution!LayerLinks(l)[b] \in NearLayer(l)
<1> DEFINE deps == IF Resolution!Acyclic THEN DependsOn[l] ELSE <<>>
           of == <<l>> \o deps
           own == [i \in DOMAIN of |->
                     Resolution!First(Resolution!Named(Resolution!FilesOf(of[i]), b))]
           N == NearLayer(l)
<1>1. Resolution!LayerLinks(l)[b] = Resolution!FirstAlive(own \o <<Resolution!InStd(b)>>)
    BY DEF Resolution!LayerLinks
<1>2. deps \in Seq(Resolution!Layers) /\ \A i \in DOMAIN deps : deps[i] \in Resolution!Range(DependsOn[l])
    <2>1. DependsOn[l] \in Seq(Resolution!Layers)
        BY ResolutionAssumption
    <2>2. <<>> \in Seq(Resolution!Layers) /\ DOMAIN <<>> = {}
        OBVIOUS
    <2> QED BY <2>1, <2>2 DEF Resolution!Range
<1> HIDE DEF deps
<1>3. of \in Seq(Resolution!Layers)
      /\ \A i \in DOMAIN of : of[i] \in {l} \cup Resolution!Range(DependsOn[l])
    BY <1>2
<1> HIDE DEF of
<1>4. \A i \in DOMAIN of : own[i] \in N
    <2> SUFFICES ASSUME NEW i \in DOMAIN of PROVE own[i] \in N
        OBVIOUS
    <2> DEFINE S == Resolution!Named(Resolution!FilesOf(of[i]), b)
    <2>1. S \in SUBSET Resolution!AllFiles /\ \A g \in S : Dir[g] \in LayerDirs[of[i]]
        BY DEF Resolution!Named, Resolution!FilesOf
    <2>2. Resolution!First(S) \in S \cup {None}
        BY <2>1, FirstIsOne
    <2> HIDE DEF S
    <2>3. Resolution!First(S) \in N
        BY <1>3, <2>1, <2>2 DEF NearLayer
    <2> QED BY <2>3 DEF S
<1>5. own \in Seq(N)
    <2>1. DOMAIN of = 1 .. Len(of) /\ Len(of) \in Nat
        BY <1>3
    <2>2. DOMAIN own = 1 .. Len(of)
        BY <2>1
    <2> QED BY <1>4, <2>1, <2>2
<1>6. <<Resolution!InStd(b)>> \in Seq(N)
    <2>1. Resolution!InStd(b) \in N
        BY DEF Resolution!InStd, NearLayer
    <2> QED BY <2>1
<1> HIDE DEF own, N
<1>7. own \o <<Resolution!InStd(b)>> \in Seq(N)
    BY <1>5, <1>6
<1>8. Resolution!FirstAlive(own \o <<Resolution!InStd(b)>>) \in N \cup {None}
    BY <1>7, FirstAliveIsOne
<1> QED BY <1>1, <1>8 DEF N, NearLayer

\* What depends on the files that there are stays while they do.
LEMMA SameFiles ==
    ASSUME there' = there
    PROVE  LinksOfLayers' = LinksOfLayers /\ \A f : LinkedLayer(f)' = LinkedLayer(f)
<1>1. \A s : Resolution!FirstAlive(s)' = Resolution!FirstAlive(s)
    BY DEF Resolution!FirstAlive, Resolution!Alive
<1>2. \A l : Resolution!LayerLinks(l)' = Resolution!LayerLinks(l)
    BY <1>1 DEF Resolution!LayerLinks, Resolution!FilesOf, Resolution!FirstAlive, Resolution!Alive
<1>3. LinksOfLayers' = LinksOfLayers
    BY <1>2 DEF LinksOfLayers
<1>4. \A f : LinkedIn(f)' = LinkedIn(f)
    BY <1>3 DEF LinkedIn
<1>5. ASSUME NEW f PROVE LinkedLayer(f)' = LinkedLayer(f)
    <2> DEFINE last(T) == LayerSeq[CHOOSE i \in T : \A j \in T : j <= i]
    <2>1. LinkedIn(f)' = LinkedIn(f)
        BY <1>4
    <2>2. LinkedLayer(f) = IF f \in there /\ LinkedIn(f) # {} THEN last(LinkedIn(f)) ELSE None
        BY DEF LinkedLayer
    <2>3. LinkedLayer(f)' = IF f \in there' /\ LinkedIn(f)' # {} THEN last(LinkedIn(f)') ELSE None
        BY DEF LinkedLayer
    <2> HIDE DEF last
    <2> QED BY <2>1, <2>2, <2>3
<1> QED BY <1>3, <1>5

\* Directories without links.
LEMMA GoneIs ==
    /\ Resolution!Gone = [gen |-> 0, flat |-> Resolution!NoFile, part |-> Resolution!Gone.part]
    /\ layered => Resolution!Gone.part = [l \in Resolution!Layers |-> Resolution!NoFile]
    /\ layered => \A l \in Resolution!Layers, b \in Resolution!Bases :
                      Resolution!Gone.part[l][b] \in NearLayer(l)
    /\ layered' = layered => Resolution!Gone' = Resolution!Gone
<1>1. Resolution!Gone = [gen |-> 0, flat |-> Resolution!NoFile,
                         part |-> [id \in Resolution!Ids |-> Resolution!NoFile]]
    BY DEF Resolution!Gone
<1>2. Resolution!Gone.part = [id \in Resolution!Ids |-> Resolution!NoFile]
    BY <1>1
<1>3. layered => Resolution!Ids = Resolution!Layers
    BY DEF Resolution!Ids
<1>4. \A l, b : b \in Resolution!Bases => Resolution!NoFile[b] \in NearLayer(l)
    BY DEF Resolution!NoFile, NearLayer
<1>5. layered' = layered => Resolution!Gone' = Resolution!Gone
    <2>1. layered' = layered => Resolution!Ids' = Resolution!Ids
        BY DEF Resolution!Ids
    <2> QED BY <2>1 DEF Resolution!Gone
<1> QED BY <1>1, <1>2, <1>3, <1>4, <1>5

Structure == /\ ResolutionTypeOK /\ LayersNoted /\ LinksInLayers /\ LinksAreCurrent
             /\ WorkerNotes

\* The tools narrow the resolver at most.
LEMMA ToolsNarrow ==
    ASSUME Structure, UNCHANGED <<layered, there, links, worker>>,
           changes' \in {changes, changes + 1},
           resolver' = resolver \/ \E x : resolver' = [resolver EXCEPT !.active = x]
    PROVE  Structure'
<1>1. /\ IsResolver(resolver) /\ changes \in Nat /\ resolver.gen \in Nat
      /\ resolver.partGen \in Nat
    BY DEF Structure, ResolutionTypeOK
<1>2. /\ IsResolver(resolver') /\ resolver'.gen = resolver.gen
      /\ resolver'.parts = resolver.parts /\ resolver'.partGen = resolver.partGen
      /\ resolver'.layerOf = resolver.layerOf /\ resolver'.partOf = resolver.partOf
      /\ resolver'.byId = resolver.byId
    BY <1>1 DEF IsResolver
<1>3. changes' \in Nat /\ (changes' = 0 => changes = 0)
    BY <1>1
<1>4. LinksOfLayers' = LinksOfLayers /\ (\A f : LinkedLayer(f)' = LinkedLayer(f))
      /\ Resolution!Gone' = Resolution!Gone
    BY SameFiles, GoneIs
<1>5. ResolutionTypeOK'
    <2>1. IsResolver(resolver)' /\ IsResolver(worker)'
        BY <1>2 DEF Structure, ResolutionTypeOK, IsResolver
    <2> QED BY <2>1, <1>2, <1>3 DEF Structure, ResolutionTypeOK
<1>6. LayersNoted' /\ LinksInLayers'
    BY <1>2 DEF Structure, LayersNoted, LinksInLayers
<1>7. LinksAreCurrent'
    BY <1>2, <1>3, <1>4 DEF Structure, LinksAreCurrent
<1>8. WorkerNotes'
    BY <1>3, <1>4 DEF Structure, WorkerNotes
<1> QED BY <1>5, <1>6, <1>7, <1>8 DEF Structure

\* Files and directories come and go.
LEMMA OutsideSteps ==
    ASSUME Structure,
           \/ Resolution!StaleRemoved \/ Resolution!Restart
           \/ \E f \in Resolution!AllFiles : Resolution!Change(f)
    PROVE  Structure'
<1>1. changes \in Nat /\ links.gen \in Nat /\ there \subseteq Resolution!AllFiles
      /\ links = [gen |-> links.gen, flat |-> links.flat, part |-> links.part]
    BY DEF Structure, ResolutionTypeOK
<1>2. layered' = layered /\ Resolution!Gone' = Resolution!Gone
    BY GoneIs DEF Resolution!StaleRemoved, Resolution!Restart, Resolution!Change
<1>3. changes' \in Nat /\ changes' # 0
    BY <1>1 DEF Resolution!StaleRemoved, Resolution!Restart, Resolution!Change
<1>4. LinksAreCurrent' /\ WorkerNotes'
    BY <1>3 DEF LinksAreCurrent, WorkerNotes
<1>5. there' \subseteq Resolution!AllFiles
    BY <1>1 DEF Resolution!StaleRemoved, Resolution!Restart, Resolution!Change
<1>6. \/ links' = links
      \/ /\ links' = [gen |-> links'.gen, flat |-> links'.flat, part |-> links'.part]
         /\ links'.gen = links.gen /\ links'.part = Resolution!Gone.part
    <2>1. CASE \E f \in Resolution!AllFiles : Resolution!Change(f)
        BY <2>1 DEF Resolution!Change
    <2>2. CASE Resolution!StaleRemoved \/ Resolution!Restart
        <3>1. links' = [Resolution!Gone EXCEPT !.gen = links.gen]
            BY <2>2 DEF Resolution!StaleRemoved, Resolution!Restart
        <3> QED BY <3>1, GoneIs
    <2> QED BY <2>1, <2>2
<1>7. LinksInLayers'
    BY <1>2, <1>6, GoneIs DEF Structure, LinksInLayers
<1>8. \/ resolver' = resolver /\ worker' = worker
      \/ resolver' = Resolution!Resolver /\ worker' = Resolution!Resolver
    BY DEF Resolution!StaleRemoved, Resolution!Restart, Resolution!Change
<1>9. LayersNoted'
    <2>1. CASE resolver' = resolver
        BY <2>1, <1>2 DEF Structure, LayersNoted
    <2>2. CASE resolver' = Resolution!Resolver
        BY <2>2 DEF LayersNoted, Resolution!Resolver, Resolution!Nowhere
    <2> QED BY <1>8, <2>1, <2>2
<1>10. ResolutionTypeOK'
    <2>1. links' = [gen |-> links'.gen, flat |-> links'.flat, part |-> links'.part]
          /\ links'.gen \in Nat
        BY <1>1, <1>6
    <2>2. CASE resolver' = resolver /\ worker' = worker
        BY <2>1, <2>2, <1>3, <1>5 DEF Structure, ResolutionTypeOK, IsResolver
    <2>3. CASE resolver' = Resolution!Resolver /\ worker' = Resolution!Resolver
        <3>1. IsResolver(Resolution!Resolver)
            BY DEF IsResolver, Resolution!Resolver
        <3>2. IsResolver(resolver)' /\ IsResolver(worker)'
            BY <3>1, <2>3 DEF IsResolver
        <3> QED BY <3>2, <2>1, <2>3, <1>3, <1>5 DEF ResolutionTypeOK, Resolution!Resolver
    <2> QED BY <1>8, <2>2, <2>3
<1> QED BY <1>4, <1>7, <1>9, <1>10 DEF Structure

\* What staging notes of the layers.
LEMMA NotedIs ==
    ASSUME layered, NEW layerOf, NEW f \in Resolution!AllFiles,
           layerOf[f] \in {None, LayerNote(f)}
    PROVE  /\ Resolution!Noted(layerOf)[f] \in {None, LayerNote(f)}
           /\ layerOf[f] # None => Resolution!Noted(layerOf)[f] = layerOf[f]
BY DEF Resolution!Noted, LayerNote, Resolution!Stageable

LEMMA StageKeeps ==
    ASSUME Structure, NEW ok \in BOOLEAN, Resolution!Stage(ok)
    PROVE  Structure'
<1> DEFINE own == [b \in Resolution!Bases |->
                     Resolution!First(Resolution!Named(Resolution!Stageable, b))]
           noted == [resolver EXCEPT !.layerOf = Resolution!Noted(@)]
<1>1. /\ IsResolver(resolver) /\ changes \in Nat /\ resolver.gen = 0
      /\ resolver.partGen \in Nat /\ links.gen \in Nat
      /\ links = [gen |-> links.gen, flat |-> links.flat, part |-> links.part]
    BY DEF Structure, ResolutionTypeOK, Resolution!Stage
<1>2. UNCHANGED <<layered, there, worker, changes>>
    BY DEF Resolution!Stage
<1>3. noted = [resolver EXCEPT !.layerOf = Resolution!Noted(resolver.layerOf)]
    BY <1>1 DEF IsResolver
<1>4. \/ resolver' = noted /\ links' = links
      \/ /\ \E x, y : resolver' = [noted EXCEPT !.gen = links.gen + 1, !.staged = x, !.clash = y]
         /\ \E x : links' = [Resolution!Gone EXCEPT !.gen = links.gen + 1, !.flat = x]
    BY DEF Resolution!Stage, Resolution!CreateStaging
<1>5. /\ IsResolver(resolver') /\ resolver'.parts = resolver.parts
      /\ resolver'.partGen = resolver.partGen /\ resolver'.partOf = resolver.partOf
      /\ resolver'.layerOf = Resolution!Noted(resolver.layerOf)
      /\ resolver'.byId = resolver.byId
    <2> HIDE DEF noted
    <2>1. /\ noted.parts = resolver.parts /\ IsResolver(noted) /\ noted.gen = 0
          /\ noted.partGen = resolver.partGen /\ noted.partOf = resolver.partOf
          /\ noted.layerOf = Resolution!Noted(resolver.layerOf)
          /\ noted.byId = resolver.byId
        BY <1>1, <1>3 DEF IsResolver
    <2> QED BY <1>4, <2>1 DEF IsResolver
<1>6. \/ resolver'.gen = 0 /\ links' = links
      \/ /\ resolver'.gen = links.gen + 1 /\ links'.gen = links.gen + 1
         /\ links'.part = Resolution!Gone.part
         /\ links' = [gen |-> links'.gen, flat |-> links'.flat, part |-> links'.part]
    <2> HIDE DEF noted
    <2>1. IsResolver(noted) /\ noted.gen = 0
        BY <1>1, <1>3 DEF IsResolver
    <2> QED BY <1>4, <2>1, GoneIs DEF IsResolver
<1> HIDE DEF own, noted
<1>7. LinksOfLayers' = LinksOfLayers /\ (\A f : LinkedLayer(f)' = LinkedLayer(f))
      /\ Resolution!Gone' = Resolution!Gone
    BY <1>2, SameFiles, GoneIs
<1>8. ResolutionTypeOK'
    <2>1. IsResolver(resolver)' /\ IsResolver(worker)'
        BY <1>2, <1>5 DEF Structure, ResolutionTypeOK, IsResolver
    <2> QED BY <2>1, <1>1, <1>2, <1>5, <1>6 DEF Structure, ResolutionTypeOK
<1>9. LayersNoted'
    <2> SUFFICES ASSUME layered, NEW f \in Resolution!AllFiles
                 PROVE  /\ resolver'.layerOf[f] \in {None, LayerNote(f)}
                        /\ resolver'.partOf[f] \in {None, resolver'.layerOf[f]}
        BY <1>2 DEF LayersNoted
    <2>1. resolver.layerOf[f] \in {None, LayerNote(f)}
          /\ resolver.partOf[f] \in {None, resolver.layerOf[f]}
        BY DEF Structure, LayersNoted
    <2>2. /\ resolver'.layerOf[f] \in {None, LayerNote(f)}
          /\ resolver.layerOf[f] # None => resolver'.layerOf[f] = resolver.layerOf[f]
        BY <2>1, <1>5, NotedIs
    <2> QED BY <2>1, <2>2, <1>5
<1>10. LinksInLayers'
    BY <1>2, <1>6, GoneIs DEF Structure, LinksInLayers
<1>11. LinksAreCurrent'
    BY <1>1, <1>2, <1>5, <1>6, <1>7 DEF Structure, LinksAreCurrent
<1>12. WorkerNotes'
    BY <1>2, <1>7 DEF Structure, WorkerNotes
<1> QED BY <1>8, <1>9, <1>10, <1>11, <1>12 DEF Structure

LEMMA CleanupKeeps ==
    ASSUME Structure, Resolution!Cleanup
    PROVE  Structure'
<1>1. /\ IsResolver(resolver) /\ links.gen \in Nat
      /\ UNCHANGED <<layered, there, worker, changes>>
    BY DEF Structure, ResolutionTypeOK, Resolution!Cleanup
<1>2. /\ IsResolver(resolver') /\ resolver'.parts = resolver.parts /\ resolver'.gen = 0
      /\ resolver'.partGen = resolver.partGen /\ resolver'.partOf = resolver.partOf
      /\ resolver'.layerOf = resolver.layerOf /\ resolver'.byId = resolver.byId
    BY <1>1 DEF Resolution!Cleanup, IsResolver
<1>3. /\ links'.gen = links.gen /\ links'.part = Resolution!Gone.part
      /\ links' = [gen |-> links'.gen, flat |-> links'.flat, part |-> links'.part]
    <2>1. links' = [Resolution!Gone EXCEPT !.gen = links.gen]
        BY DEF Resolution!Cleanup
    <2> QED BY <2>1, GoneIs
<1>4. LinksOfLayers' = LinksOfLayers /\ (\A f : LinkedLayer(f)' = LinkedLayer(f))
      /\ Resolution!Gone' = Resolution!Gone
    BY <1>1, SameFiles, GoneIs
<1>5. ResolutionTypeOK'
    <2>1. IsResolver(resolver)' /\ IsResolver(worker)'
        BY <1>1, <1>2 DEF Structure, ResolutionTypeOK, IsResolver
    <2> QED BY <2>1, <1>1, <1>2, <1>3 DEF Structure, ResolutionTypeOK
<1>6. LayersNoted' /\ LinksInLayers'
    BY <1>1, <1>2, <1>3, GoneIs DEF Structure, LayersNoted, LinksInLayers
<1>7. LinksAreCurrent' /\ WorkerNotes'
    BY <1>1, <1>2, <1>3, <1>4 DEF Structure, LinksAreCurrent, WorkerNotes
<1> QED BY <1>5, <1>6, <1>7 DEF Structure

LEMMA LayeredKeeps ==
    ASSUME Structure, Resolution!BuildLayered
    PROVE  Structure'
<1> DEFINE noted == Resolution!Noted(resolver.layerOf)
<1>1. /\ IsResolver(resolver) /\ links.gen \in Nat /\ resolver.gen \in Nat /\ layered
      /\ there \subseteq Resolution!AllFiles /\ resolver.gen # 0 /\ resolver.gen = links.gen
      /\ links = [gen |-> links.gen, flat |-> links.flat, part |-> links.part]
      /\ UNCHANGED <<layered, there, worker, changes>>
    BY DEF Structure, ResolutionTypeOK, Resolution!BuildLayered
<1>2. resolver' = [resolver EXCEPT !.layerOf = noted, !.parts = Resolution!Layers,
                     !.partGen = resolver.gen, !.byId = TRUE,
                     !.partOf = [f \in Resolution!AllFiles |->
                                   IF noted[f] # None THEN noted[f] ELSE resolver.partOf[f]]]
    BY <1>1 DEF Resolution!BuildLayered, IsResolver
<1> HIDE DEF noted
<1>3. /\ IsResolver(resolver') /\ resolver'.parts = Resolution!Layers
      /\ resolver'.gen = resolver.gen /\ resolver'.byId
      /\ resolver'.partGen = resolver.gen /\ resolver'.layerOf = noted
      /\ resolver'.partOf = [f \in Resolution!AllFiles |->
                               IF noted[f] # None THEN noted[f] ELSE resolver.partOf[f]]
    BY <1>1, <1>2 DEF IsResolver
<1>4. /\ links'.gen = links.gen /\ links'.part = LinksOfLayers
      /\ links' = [gen |-> links'.gen, flat |-> links'.flat, part |-> links'.part]
    BY <1>1 DEF Resolution!BuildLayered, LinksOfLayers
<1>5. LinksOfLayers' = LinksOfLayers /\ (\A f : LinkedLayer(f)' = LinkedLayer(f))
    BY <1>1, SameFiles
<1>6. ResolutionTypeOK'
    <2>1. IsResolver(resolver)' /\ IsResolver(worker)'
        BY <1>1, <1>3 DEF Structure, ResolutionTypeOK, IsResolver
    <2> QED BY <2>1, <1>1, <1>3, <1>4 DEF Structure, ResolutionTypeOK
<1>7. LayersNoted'
    <2> SUFFICES ASSUME NEW f \in Resolution!AllFiles
                 PROVE  /\ resolver'.layerOf[f] \in {None, LayerNote(f)}
                        /\ resolver'.partOf[f] \in {None, resolver'.layerOf[f]}
        BY DEF LayersNoted
    <2>1. resolver.layerOf[f] \in {None, LayerNote(f)}
          /\ resolver.partOf[f] \in {None, resolver.layerOf[f]}
        BY <1>1 DEF Structure, LayersNoted
    <2>2. /\ noted[f] \in {None, LayerNote(f)}
          /\ resolver.layerOf[f] # None => noted[f] = resolver.layerOf[f]
        BY <2>1, <1>1, NotedIs DEF noted
    <2> QED BY <2>1, <2>2, <1>3
<1>8. LinksInLayers'
    BY <1>1, <1>4, LinksAreNear DEF LinksInLayers, LinksOfLayers
<1>9. LinksAreCurrent' /\ WorkerNotes'
    BY <1>1, <1>3, <1>4, <1>5 DEF Structure, LinksAreCurrent, WorkerNotes
<1> QED BY <1>6, <1>7, <1>8, <1>9 DEF Structure

LEMMA PartitionedKeeps ==
    ASSUME Structure, Resolution!BuildPartitioned
    PROVE  Structure'
<1>1. /\ IsResolver(resolver) /\ links.gen \in Nat /\ resolver.gen \in Nat /\ ~layered
      /\ links = [gen |-> links.gen, flat |-> links.flat, part |-> links.part]
      /\ UNCHANGED <<layered, there, worker, changes>>
    BY DEF Structure, ResolutionTypeOK, Resolution!BuildPartitioned
<1>2. \E x, y : resolver' = [resolver EXCEPT !.parts = x, !.partGen = resolver.gen, !.partOf = y]
    BY DEF Resolution!BuildPartitioned
<1>3. links' = links \/ \E x : links' = [links EXCEPT !.part = x]
    BY DEF Resolution!BuildPartitioned
<1>4. /\ IsResolver(resolver') /\ resolver'.gen = resolver.gen
      /\ resolver'.partGen = resolver.gen
    BY <1>1, <1>2 DEF IsResolver
<1>5. /\ links'.gen = links.gen
      /\ links' = [gen |-> links'.gen, flat |-> links'.flat, part |-> links'.part]
    BY <1>1, <1>3
<1>6. ResolutionTypeOK'
    <2>1. IsResolver(resolver)' /\ IsResolver(worker)'
        BY <1>1, <1>4 DEF Structure, ResolutionTypeOK, IsResolver
    <2> QED BY <2>1, <1>1, <1>4, <1>5 DEF Structure, ResolutionTypeOK
<1>7. LayersNoted' /\ LinksInLayers' /\ WorkerNotes'
    BY <1>1 DEF LayersNoted, LinksInLayers, WorkerNotes
<1>8. LinksAreCurrent'
    BY <1>1, <1>4, <1>5 DEF Structure, LinksAreCurrent
<1> QED BY <1>6, <1>7, <1>8 DEF Structure

LEMMA ConfigKeeps ==
    ASSUME Structure, Resolution!FromConfig
    PROVE  Structure'
<1> DEFINE exists == links.gen = resolver.gen /\ links.part # Resolution!Gone.part
           linked(f) == {i \in Resolution!LayersOf(f) : links.part[LayerSeq[i]][Base[f]] = f}
           of == [f \in Resolution!AllFiles |->
                    IF layered /\ exists /\ f \in there /\ linked(f) # {}
                    THEN LayerSeq[CHOOSE i \in linked(f) : \A j \in linked(f) : j <= i]
                    ELSE None]
<1>1. /\ resolver.gen # 0 /\ resolver.gen \in Nat
      /\ UNCHANGED <<layered, there, links, resolver, changes>>
    BY DEF Structure, ResolutionTypeOK, Resolution!FromConfig
<1>2. worker' = [Resolution!Resolver EXCEPT !.gen = resolver.gen, !.partGen = resolver.gen,
                   !.parts = IF layered /\ exists THEN Resolution!Layers ELSE {},
                   !.byId = layered, !.layerOf = of, !.partOf = of]
    BY DEF Resolution!FromConfig
<1> HIDE DEF of
<1>3. /\ IsResolver(worker') /\ worker'.gen = resolver.gen /\ worker'.partGen = resolver.gen
      /\ worker'.parts = IF layered /\ exists THEN Resolution!Layers ELSE {}
      /\ worker'.byId = layered /\ worker'.layerOf = of /\ worker'.partOf = of
      /\ worker'.active = {}
    BY <1>2 DEF IsResolver, Resolution!Resolver
<1>4. LinksOfLayers' = LinksOfLayers /\ (\A f : LinkedLayer(f)' = LinkedLayer(f))
      /\ Resolution!Gone' = Resolution!Gone
    BY <1>1, SameFiles, GoneIs
<1>5. ResolutionTypeOK'
    <2>1. IsResolver(resolver)' /\ IsResolver(worker)'
        BY <1>1, <1>3 DEF Structure, ResolutionTypeOK, IsResolver
    <2> QED BY <2>1, <1>1 DEF Structure, ResolutionTypeOK
<1>6. LayersNoted' /\ LinksInLayers' /\ LinksAreCurrent'
    BY <1>1, <1>4 DEF Structure, LayersNoted, LinksInLayers, LinksAreCurrent
<1>7. WorkerNotes'
    <2> SUFFICES ASSUME layered, changes = 0, worker'.parts # {}
                 PROVE  /\ worker'.gen # 0 /\ worker'.partGen = worker'.gen
                        /\ worker'.parts = Resolution!Layers /\ worker'.byId
                        /\ worker'.active = {}
                        /\ \A f \in Resolution!AllFiles : worker'.layerOf[f] = LinkedLayer(f)
                              /\ worker'.partOf[f] = LinkedLayer(f)
        BY <1>1, <1>4 DEF WorkerNotes
    <2>1. exists
        BY <1>3
    <2>2. links.part = LinksOfLayers
        BY <2>1 DEF Structure, LinksAreCurrent
    <2>3. \A f \in Resolution!AllFiles : of[f] = LinkedLayer(f)
        BY <2>1, <2>2 DEF of, LinkedLayer, LinkedIn
    <2> QED BY <1>1, <1>3, <2>1, <2>3
<1> QED BY <1>5, <1>6, <1>7 DEF Structure

LEMMA ResolutionInit == Resolution!Init => ResolutionInv
<1> SUFFICES ASSUME Resolution!Init PROVE ResolutionInv
    OBVIOUS
<1>1. IsResolver(Resolution!Resolver) /\ resolver = Resolution!Resolver
      /\ worker = Resolution!Resolver /\ links = Resolution!Gone /\ changes = 0
    BY DEF IsResolver, Resolution!Resolver, Resolution!Init
<1>2. /\ links = [gen |-> links.gen, flat |-> links.flat, part |-> links.part]
      /\ links.gen = 0 /\ links.part = Resolution!Gone.part
    BY <1>1, GoneIs
<1>3. there \subseteq Resolution!AllFiles
    BY DEF Resolution!Init
<1>4. resolver.gen = 0 /\ resolver.partGen = 0 /\ worker.parts = {}
      /\ \A f \in Resolution!AllFiles : resolver.layerOf[f] = None /\ resolver.partOf[f] = None
    BY <1>1 DEF Resolution!Resolver, Resolution!Nowhere
<1>5. Resolution!ScopeIsWorkspace
    BY DEF Resolution!Init, Resolution!ScopeIsWorkspace
<1>6. ResolutionTypeOK
    BY <1>1, <1>2, <1>3, <1>4 DEF ResolutionTypeOK
<1>7. LayersNoted /\ LinksInLayers /\ LinksAreCurrent /\ WorkerNotes
    BY <1>1, <1>2, <1>4, GoneIs DEF LayersNoted, LinksInLayers, LinksAreCurrent, WorkerNotes
<1> QED BY <1>5, <1>6, <1>7 DEF ResolutionInv

LEMMA ToolsKeep ==
    ASSUME ResolutionInv, Resolution!Tools
    PROVE  ResolutionInv'
<1> USE DEF ResolutionInv
<1>1. IsResolver(resolver) /\ Structure
    BY DEF ResolutionTypeOK, Structure
<1>2. /\ UNCHANGED <<layered, there, links, worker>> /\ changes' \in {changes, changes + 1}
      /\ resolver' = resolver \/ \E x : resolver' = [resolver EXCEPT !.active = x]
    BY DEF Resolution!Tools, Resolution!HandleSet, Resolution!HandleSetFails,
           Resolution!Restore, Resolution!HandleClear, Resolution!LspStart,
           Resolution!FillCache, Resolution!Activate
<1>3. Structure'
    BY <1>1, <1>2, ToolsNarrow
<1>4. ASSUME NEW w, Resolution!Activate(w)
      PROVE  Resolution!ScopeIsWorkspace'
    BY <1>1, <1>4 DEF Resolution!Activate, Resolution!ScopeIsWorkspace, IsResolver
<1>5. CASE Resolution!HandleClear
    BY <1>1, <1>3, <1>5 DEF Resolution!HandleClear, Resolution!ScopeIsWorkspace, IsResolver,
                            Resolution!Cleared, Structure
<1>6. CASE Resolution!FillCache
    BY <1>3, <1>6 DEF Resolution!FillCache, Resolution!ScopeIsWorkspace, Structure
<1>7. CASE Resolution!HandleSetFails \/ Resolution!LspStart
    BY <1>3, <1>7 DEF Resolution!HandleSetFails, Resolution!LspStart,
                      Resolution!ScopeIsWorkspace, Structure
<1>8. CASE Resolution!Restore
    BY <1>3, <1>4, <1>8 DEF Resolution!Restore, Structure
<1>9. CASE \E w : Resolution!HandleSet(w)
    BY <1>3, <1>4, <1>9 DEF Resolution!HandleSet, Structure
<1> QED BY <1>5, <1>6, <1>7, <1>8, <1>9 DEF Resolution!Tools

LEMMA ResolutionSteps == ResolutionInv /\ [Resolution!Next]_(Resolution!vars) => ResolutionInv'
<1> SUFFICES ASSUME ResolutionInv, [Resolution!Next]_(Resolution!vars)
             PROVE  ResolutionInv'
    OBVIOUS
<1>1. Structure /\ Resolution!ScopeIsWorkspace /\ IsResolver(resolver)
    BY DEF ResolutionInv, Structure, ResolutionTypeOK
<1>2. ASSUME Structure', UNCHANGED <<ws, basenames, outdated>>,
             resolver'.active = resolver.active
      PROVE  ResolutionInv'
    BY <1>1, <1>2 DEF ResolutionInv, Structure, Resolution!ScopeIsWorkspace
<1>3. CASE Resolution!Tools
    BY <1>3, ToolsKeep
<1>4. CASE Resolution!StaleRemoved \/ \E f \in Resolution!AllFiles : Resolution!Change(f)
    BY <1>1, <1>2, <1>4, OutsideSteps DEF Resolution!StaleRemoved, Resolution!Change,
                                          Resolution!toolVars
<1>5. CASE Resolution!Restart
    <2>1. Structure'
        BY <1>1, <1>5, OutsideSteps
    <2> QED BY <2>1, <1>5 DEF ResolutionInv, Structure, Resolution!ScopeIsWorkspace,
                              Resolution!Restart
<1>6. CASE \E ok \in BOOLEAN : Resolution!Stage(ok)
    <2>1. PICK ok \in BOOLEAN : Resolution!Stage(ok)
        BY <1>6
    <2>2. resolver'.active = resolver.active
        BY <1>1, <2>1 DEF Resolution!Stage, Resolution!CreateStaging, IsResolver
    <2> QED BY <1>1, <1>2, <2>1, <2>2, StageKeeps DEF Resolution!Stage, Resolution!toolVars
<1>7. CASE Resolution!BuildLayered
    <2>1. resolver'.active = resolver.active
        BY <1>1, <1>7 DEF Resolution!BuildLayered, IsResolver
    <2> QED BY <1>1, <1>2, <1>7, <2>1, LayeredKeeps DEF Resolution!BuildLayered,
                                                       Resolution!toolVars
<1>8. CASE Resolution!BuildPartitioned
    <2>1. resolver'.active = resolver.active
        BY <1>1, <1>8 DEF Resolution!BuildPartitioned, IsResolver
    <2> QED BY <1>1, <1>2, <1>8, <2>1, PartitionedKeeps DEF Resolution!BuildPartitioned,
                                                           Resolution!toolVars
<1>9. CASE Resolution!Cleanup
    <2>1. resolver'.active = resolver.active
        BY <1>1, <1>9 DEF Resolution!Cleanup, IsResolver
    <2> QED BY <1>1, <1>2, <1>9, <2>1, CleanupKeeps DEF Resolution!Cleanup,
                                                       Resolution!toolVars
<1>10. CASE Resolution!FromConfig
    BY <1>1, <1>2, <1>10, ConfigKeeps DEF Resolution!FromConfig, Resolution!toolVars
<1>11. CASE UNCHANGED Resolution!vars
    <2>1. Structure'
        BY <1>1, <1>11, ToolsNarrow DEF Resolution!vars
    <2> QED BY <1>2, <1>11, <2>1 DEF Resolution!vars
<1> QED BY <1>3, <1>4, <1>5, <1>6, <1>7, <1>8, <1>9, <1>10, <1>11 DEF Resolution!Next

\* What a resolver with noted layers may find of an include of a file.
LEMMA IncludesAreNear ==
    ASSUME ResolutionInv, layered, Resolution!HasLayers(resolver), NEW f \in there,
           NEW b \in Resolution!Bases, Resolution!Resolve(resolver, b, f) \notin {None, Std},
           Dir[Resolution!Resolve(resolver, b, f)] # Dir[f]
    PROVE  \E l \in Resolution!Layers :
              /\ Dir[f] \in LayerDirs[l]
              /\ \E m \in {l} \cup Resolution!Range(DependsOn[l]) :
                    Resolution!Resolve(resolver, b, f) \in NearLayer(m)
<1> DEFINE g == Resolution!Resolve(resolver, b, f)
           id == resolver.partOf[f]
           beside == {None, Std} \cup {h \in Resolution!AllFiles : Dir[h] = Dir[f]}
           near == IF id = None THEN {}
                   ELSE UNION {NearLayer(m) : m \in {id} \cup Resolution!Range(DependsOn[id])}
           A == beside \cup near
           via == Resolution!ViaLayers(resolver, b, f)
<1>1. g = Resolution!FirstAlive((<<Resolution!At(Dir[f], b)>> \o via) \o <<>>
                                 \o <<Resolution!InStd(b)>>)
    BY DEF Resolution!Resolve, Resolution!ViaFlat
<1>2. there \subseteq Resolution!AllFiles /\ f \in Resolution!AllFiles
    BY DEF ResolutionInv, ResolutionTypeOK
<1>3. id # None => id \in Resolution!Layers /\ Dir[f] \in LayerDirs[id]
    BY <1>2, NoteIsALayer DEF ResolutionInv, LayersNoted
<1>4. Resolution!At(Dir[f], b) \in A
    <2> DEFINE S == {h \in Resolution!Named(there, b) : Dir[h] = Dir[f]}
    <2>1. S \in SUBSET Resolution!AllFiles /\ S \subseteq beside
        BY <1>2 DEF Resolution!Named
    <2>2. Resolution!First(S) \in S \cup {None}
        BY <2>1, FirstIsOne
    <2>3. Resolution!At(Dir[f], b) = Resolution!First(S)
        BY DEF Resolution!At
    <2> QED BY <2>1, <2>2, <2>3
<1>5. Resolution!InStd(b) \in A
    BY DEF Resolution!InStd
<1>6. via \in Seq(A)
    <2>1. CASE ~Resolution!Routed(resolver, f)
        BY <2>1 DEF Resolution!ViaLayers
    <2>2. CASE Resolution!Routed(resolver, f)
        <3> DEFINE deps == IF resolver.byId /\ layered THEN DependsOn[id] ELSE <<>>
                   Visible(d) == resolver.active = {} \/ d \in resolver.active
                   tail == [i \in DOMAIN deps |->
                              IF Visible(deps[i]) THEN Resolution!InPart(resolver, deps[i], b)
                              ELSE None]
        <3>1. via = <<Resolution!InPart(resolver, id, b)>> \o tail
            BY <2>2 DEF Resolution!ViaLayers
        <3>2. id # None
            BY <2>2 DEF Resolution!Routed
        <3>3. \A l \in Resolution!Layers :
                 Resolution!InPart(resolver, l, b) \in {None} \cup NearLayer(l)
            BY DEF ResolutionInv, LinksInLayers, Resolution!InPart
        <3>4. deps \in Seq(Resolution!Layers)
              /\ \A i \in DOMAIN deps : deps[i] \in Resolution!Range(DependsOn[id])
            <4>1. DependsOn[id] \in Seq(Resolution!Layers)
                BY <1>3, <3>2, ResolutionAssumption
            <4>2. <<>> \in Seq(Resolution!Layers) /\ DOMAIN <<>> = {}
                OBVIOUS
            <4> QED BY <4>1, <4>2 DEF Resolution!Range
        <3> HIDE DEF deps
        <3>5. \A i \in DOMAIN deps : deps[i] \in Resolution!Layers
            BY <3>4
        <3>6. \A m \in {id} \cup Resolution!Range(DependsOn[id]) : NearLayer(m) \subseteq A
            BY <3>2
        <3>7. \A i \in DOMAIN deps : tail[i] \in A
            BY <3>3, <3>4, <3>5, <3>6
        <3>8. Resolution!InPart(resolver, id, b) \in A
            BY <1>3, <3>2, <3>3, <3>6
        <3>9. DOMAIN deps = 1 .. Len(deps) /\ Len(deps) \in Nat
            BY <3>4
        <3>10. DOMAIN tail = 1 .. Len(deps)
            BY <3>9
        <3> HIDE DEF tail, A
        <3>11. tail \in Seq(A)
            <4>1. tail = [i \in 1 .. Len(deps) |-> tail[i]]
                BY <3>10 DEF tail
            <4> QED BY <3>7, <3>9, <3>10, <4>1
        <3>12. <<Resolution!InPart(resolver, id, b)>> \in Seq(A)
            BY <3>8
        <3> QED BY <3>1, <3>11, <3>12
    <2> QED BY <2>1, <2>2
<1> HIDE DEF via, A
<1>7. g \in A \cup {None}
    <2>1. (<<Resolution!At(Dir[f], b)>> \o via) \o <<>> \o <<Resolution!InStd(b)>> \in Seq(A)
        BY <1>4, <1>5, <1>6
    <2> QED BY <1>1, <2>1, FirstAliveIsOne
<1>8. g \in near /\ id # None
    BY <1>7 DEF A
<1> QED BY <1>3, <1>8

LEMMA InLayers == ResolutionInv => Resolution!ResolvesInLayers
<1> SUFFICES ASSUME ResolutionInv, layered, Resolution!HasLayers(resolver), NEW f \in there,
                    NEW b \in Resolution!Bases
             PROVE  LET g == Resolution!Resolve(resolver, b, f)
                        near == {l \in Resolution!Layers : Dir[f] \in LayerDirs[l]}
                        Step(S) == S \cup UNION {Resolution!Range(DependsOn[l]) : l \in S}
                    IN  g \notin {None, Std} /\ Dir[g] # Dir[f] =>
                            \E l \in Step(Step(near)) : Dir[g] \in LayerDirs[l]
    BY DEF Resolution!ResolvesInLayers
<1> DEFINE g == Resolution!Resolve(resolver, b, f)
           near == {l \in Resolution!Layers : Dir[f] \in LayerDirs[l]}
           Step(S) == S \cup UNION {Resolution!Range(DependsOn[l]) : l \in S}
<1>1. SUFFICES ASSUME g \notin {None, Std}, Dir[g] # Dir[f]
               PROVE  \E l \in Step(Step(near)) : Dir[g] \in LayerDirs[l]
    OBVIOUS
<1>2. PICK l \in near : \E m \in {l} \cup Resolution!Range(DependsOn[l]) : g \in NearLayer(m)
    BY <1>1, IncludesAreNear
<1>3. PICK m \in {l} \cup Resolution!Range(DependsOn[l]) : g \in NearLayer(m)
    BY <1>2
<1> HIDE DEF g, near
<1>4. m \in Step(near)
    BY <1>2, <1>3
<1>5. PICK k \in {m} \cup Resolution!Range(DependsOn[m]) : Dir[g] \in LayerDirs[k]
    BY <1>1, <1>3 DEF NearLayer
<1>6. k \in Step(Step(near))
    BY <1>4, <1>5
<1> QED BY <1>5, <1>6

LEMMA WorkersAlike == ResolutionInv => Resolution!WorkerResolvesAlike
<1> SUFFICES ASSUME ResolutionInv, layered, worker.parts # {}, worker.gen = resolver.gen,
                    resolver.partGen = resolver.gen, resolver.active = {}, changes = 0,
                    NEW f \in there, NEW b \in Resolution!Bases, resolver.partOf[f] # None,
                    links.part[resolver.partOf[f]][Base[f]] = f
             PROVE  Resolution!Resolve(worker, b, f) = Resolution!Resolve(resolver, b, f)
    BY DEF Resolution!WorkerResolvesAlike
<1>1. f \in Resolution!AllFiles
    BY DEF ResolutionInv, ResolutionTypeOK
<1>2. /\ worker.gen # 0 /\ worker.partGen = worker.gen
      /\ worker.parts = Resolution!Layers /\ worker.byId /\ worker.active = {}
      /\ worker.layerOf[f] = LinkedLayer(f) /\ worker.partOf[f] = LinkedLayer(f)
    BY <1>1 DEF ResolutionInv, WorkerNotes
<1>3. /\ links.part = LinksOfLayers /\ resolver.byId /\ resolver.parts = Resolution!Layers
    BY <1>2 DEF ResolutionInv, LinksAreCurrent
<1>4. /\ resolver.partOf[f] = LayerNote(f) /\ resolver.layerOf[f] = LayerNote(f)
      /\ LayerNote(f) # None
    BY <1>1 DEF ResolutionInv, LayersNoted
<1>5. LinkedLayer(f) = LayerNote(f)
    <2> DEFINE L == Resolution!LayersOf(f)
               last == CHOOSE i \in L : \A j \in L : j <= i
               T == LinkedIn(f)
               end == CHOOSE i \in T : \A j \in T : j <= i
    <2>1. L # {} /\ LayerNote(f) = LayerSeq[last]
        BY <1>4 DEF LayerNote
    <2>2. last \in L /\ \A j \in L : j <= last
        BY <2>1, LastLayerIsOne
    <2>3. last \in T /\ T \subseteq L
        BY <1>3, <1>4, <2>1, <2>2 DEF LinkedIn
    <2>4. end \in T /\ \A j \in T : j <= end
        BY <2>3, LastLayerIsOne
    <2>5. L \subseteq Nat
        BY ResolutionAssumption DEF Resolution!LayersOf
    <2>6. LinkedLayer(f) = LayerSeq[end]
        BY <2>3 DEF LinkedLayer
    <2> HIDE DEF L, last, T, end
    <2>7. last = end
        BY <2>2, <2>3, <2>4, <2>5
    <2> QED BY <2>1, <2>6, <2>7
<1>6. Resolution!HasLayers(worker) /\ Resolution!HasLayers(resolver)
    BY <1>1, <1>2, <1>4, <1>5 DEF Resolution!HasLayers
<1>7. \A l : Resolution!InPart(worker, l, b) = Resolution!InPart(resolver, l, b)
    BY <1>2, <1>3 DEF Resolution!InPart
<1>8. Resolution!Routed(worker, f) <=> Resolution!Routed(resolver, f)
    BY <1>2, <1>3, <1>4, <1>5 DEF Resolution!Routed
<1>9. Resolution!ViaLayers(worker, b, f) = Resolution!ViaLayers(resolver, b, f)
    BY <1>2, <1>3, <1>4, <1>5, <1>7, <1>8 DEF Resolution!ViaLayers
<1>10. Resolution!ViaFlat(worker, b) = Resolution!ViaFlat(resolver, b)
    BY <1>6 DEF Resolution!ViaFlat
<1> QED BY <1>9, <1>10 DEF Resolution!Resolve

\* Once the layers are noted an include stays in the layers that its file depends on,
\* whatever directories are gone or made again; a worker resolves as the server; and the
\* resolver and the basenames are those of the active workspace (_resolve_via_layers,
\* from_config, _handle_set).
THEOREM ResolutionInductive == Resolution!Spec => []IncludesResolve
<1>1. ResolutionInv => IncludesResolve
    BY InLayers, WorkersAlike DEF IncludesResolve, ResolutionInv
<1> QED BY <1>1, ResolutionInit, ResolutionSteps, PTL DEF Resolution!Spec

-----------------------------------------------------------------------------
(***************************************************************************)
(* A compilation in the shared directory.  A basename leads to a place of  *)
(* its own, so that two workers meet only where they have the same name;   *)
(* the ones that do are not alone.                                         *)
(***************************************************************************)
SomeTexts == Sources \cup {Empty, None}
WorkPoints == {"idle", "wait", "stage", "open", "write", "load", "send", "sent", "failed"}
WorkRecords == [pc : WorkPoints, file : Compiling!AllFiles \cup {None}, src : SomeTexts,
                seen : Seq(SomeTexts), ok : BOOLEAN, alone : BOOLEAN]

\* Where a basename may lead.
LeadsTo(b) == {b} \cup {f \in Compiling!AllFiles : StagedBase[f] = b}
                   \cup {StdFile[n] : n \in Compiling!LibraryNames \cap {b}}

WorkTypeOK ==
    /\ contents \in [Compiling!Places -> SomeTexts]
    /\ link \in [Compiling!Bases -> Compiling!Places \cup {None}]
    /\ call \in [Calls -> WorkRecords]
    /\ \A c \in Calls : call[c].pc # "idle" => call[c].file \in Compiling!AllFiles

LinksStayInPlace == \A b \in Compiling!Bases : link[b] \in {None} \cup LeadsTo(b)

\* What a worker has at each point.
WorkFollows ==
    \A c \in Calls :
        /\ call[c].pc \in {"write", "load", "send"} => link[Compiling!Name(c)] # None
        /\ call[c].pc = "load" /\ call[c].alone =>
               contents[link[Compiling!Name(c)]] = call[c].src
        /\ call[c].pc \in {"send", "sent"} => call[c].seen # <<>>
        /\ call[c].pc \in {"send", "sent"} /\ call[c].alone => call[c].seen[1] = call[c].src

\* Who was not overlapped is the only one of its basename.
AloneIsAlone ==
    \A c, d \in Calls :
        c # d /\ Compiling!Running(c) /\ call[c].alone /\ Compiling!Running(d) =>
            Compiling!Name(c) # Compiling!Name(d)

WorkInv == WorkTypeOK /\ LinksStayInPlace /\ WorkFollows /\ AloneIsAlone

LEMMA NameIsBase ==
    ASSUME WorkTypeOK, NEW c \in Calls, call[c].pc # "idle"
    PROVE  Compiling!Name(c) \in Compiling!Bases
BY DEF WorkTypeOK, Compiling!Name, Compiling!Bases

LEMMA BasesArePlaces ==
    /\ Compiling!Bases \subseteq Compiling!Places /\ Compiling!AllFiles \subseteq Compiling!Places
    /\ \A b \in Compiling!Bases : LeadsTo(b) \subseteq Compiling!Places
    /\ None \notin Compiling!Places
<1>1. \A n \in Compiling!LibraryNames : StdFile[n] \in Compiling!Range(StdFile)
    BY DEF Compiling!LibraryNames, Compiling!Range
<1> QED BY <1>1, CompilingAssumption DEF LeadsTo, Compiling!Places

\* Two basenames lead to different places.
LEMMA PlacesAreApart ==
    ASSUME NEW b \in Compiling!Bases, NEW d \in Compiling!Bases, b # d
    PROVE  LeadsTo(b) \cap LeadsTo(d) = {}
<1>1. \A n \in Compiling!LibraryNames : StdFile[n] \in Compiling!Range(StdFile)
    BY DEF Compiling!LibraryNames, Compiling!Range
<1>2. ASSUME NEW p \in LeadsTo(b), p \in LeadsTo(d)
      PROVE  FALSE
    <2>1. CASE p = b
        BY <1>1, <1>2, <2>1, CompilingAssumption DEF LeadsTo
    <2>2. CASE p \in {f \in Compiling!AllFiles : StagedBase[f] = b}
        BY <1>1, <1>2, <2>2, CompilingAssumption DEF LeadsTo
    <2>3. CASE p \in {StdFile[n] : n \in Compiling!LibraryNames \cap {b}}
        BY <1>1, <1>2, <2>3, CompilingAssumption DEF LeadsTo
    <2> QED BY <1>2, <2>1, <2>2, <2>3 DEF LeadsTo
<1> QED BY <1>2

\* The directory has files of the names that they are linked by.
LEMMA StagedIs ==
    ASSUME NEW b \in Compiling!Bases
    PROVE  Compiling!Staged[b] \in {None} \cup LeadsTo(b)
<1> DEFINE S == {i \in DOMAIN StagedPaths : StagedBase[StagedPaths[i]] = b}
<1>1. Compiling!Staged[b] = IF S = {} THEN None
                            ELSE StagedPaths[CHOOSE i \in S : \A j \in S : i <= j]
    BY DEF Compiling!Staged
<1>2. CASE S # {}
    <2>1. S \in SUBSET Nat
        BY CompilingAssumption
    <2>2. PICK i \in S : \A j \in S : i <= j
        BY <1>2, <2>1, NatMin
    <2>3. (CHOOSE k \in S : \A j \in S : k <= j) \in S
        BY <2>2
    <2>4. \A k \in S : StagedPaths[k] \in Compiling!AllFiles
        BY CompilingAssumption
    <2> HIDE DEF S
    <2>5. Compiling!Staged[b] \in Compiling!AllFiles
        BY <1>1, <1>2, <2>3, <2>4
    <2>6. \A k \in S : StagedBase[StagedPaths[k]] = b
        BY DEF S
    <2> QED BY <1>1, <1>2, <2>3, <2>5, <2>6 DEF LeadsTo
<1> QED BY <1>1, <1>2

LEMMA IdleIsARecord == Compiling!Idle \in WorkRecords
<1>1. <<>> \in Seq(SomeTexts) /\ None \in SomeTexts
    BY DEF SomeTexts
<1> QED BY <1>1 DEF WorkRecords, WorkPoints, Compiling!Idle

LEMMA WorkInit == Compiling!Init => WorkInv
<1> SUFFICES ASSUME Compiling!Init PROVE WorkInv
    OBVIOUS
<1>1. WorkTypeOK
    <2>1. (CHOOSE t \in Sources : TRUE) \in Sources
        BY CompilingAssumption
    <2>2. contents \in [Compiling!Places -> SomeTexts]
        BY <2>1 DEF Compiling!Init, Compiling!InitFiles, SomeTexts
    <2>3. link \in [Compiling!Bases -> Compiling!Places \cup {None}]
        <3>1. ASSUME NEW b \in Compiling!Bases
              PROVE  Compiling!Staged[b] \in Compiling!Places \cup {None}
            BY <3>1, StagedIs, BasesArePlaces
        <3>2. Compiling!Staged = [b \in Compiling!Bases |-> Compiling!Staged[b]]
            BY DEF Compiling!Staged
        <3> QED BY <3>1, <3>2 DEF Compiling!Init
    <2>4. call \in [Calls -> WorkRecords]
        BY IdleIsARecord DEF Compiling!Init
    <2> QED BY <2>2, <2>3, <2>4 DEF WorkTypeOK, Compiling!Init, Compiling!Idle
<1>2. LinksStayInPlace
    BY StagedIs DEF LinksStayInPlace, Compiling!Init
<1>3. \A c \in Calls : call[c].pc = "idle"
    BY DEF Compiling!Init, Compiling!Idle
<1> QED BY <1>1, <1>2, <1>3 DEF WorkInv, WorkFollows, AloneIsAlone, Compiling!Running

\* What a call is in does not matter to the others: a step of c that leaves its
\* file, text and whether it was alone, and does not begin to run.
LEMMA StaysAlone ==
    ASSUME WorkInv, NEW c \in Calls, NEW r \in WorkRecords,
           call' = [call EXCEPT ![c] = r],
           \/ r = Compiling!Idle \/ r.pc = "wait" \/ r.pc \in {"sent", "failed"}
           \/ Compiling!Running(c) /\ r.file = call[c].file /\ r.alone = call[c].alone
    PROVE  AloneIsAlone'
<1>1. call \in [Calls -> WorkRecords]
    BY DEF WorkInv, WorkTypeOK
<1>2. \A d \in Calls : call'[d] = IF d = c THEN r ELSE call[d]
    BY <1>1
<1>3. \A d \in Calls : Compiling!Running(d)' => Compiling!Running(d)
    BY <1>2 DEF Compiling!Running, Compiling!Idle
<1>4. \A d \in Calls : Compiling!Running(d)' =>
         Compiling!Name(d)' = Compiling!Name(d) /\ call'[d].alone = call[d].alone
    BY <1>2 DEF Compiling!Running, Compiling!Idle, Compiling!Name
<1> QED BY <1>3, <1>4 DEF WorkInv, AloneIsAlone

\* A record of a call that its links and places agree with.
RecordFollows(r) ==
    /\ r.pc # "idle" => r.file \in Compiling!AllFiles
    /\ r.pc \in {"write", "load", "send"} => link[StagedBase[r.file]] # None
    /\ r.pc = "load" /\ r.alone => contents[link[StagedBase[r.file]]] = r.src
    /\ r.pc \in {"send", "sent"} => r.seen # <<>>
    /\ r.pc \in {"send", "sent"} /\ r.alone => r.seen[1] = r.src

LEMMA RecordsFollow ==
    ASSUME WorkInv, NEW c \in Calls
    PROVE  RecordFollows(call[c]) /\ call[c] \in WorkRecords
BY DEF WorkInv, WorkTypeOK, WorkFollows, RecordFollows, Compiling!Name

\* A step that reads the places at most.
LEMMA CallMoves ==
    ASSUME WorkInv, NEW c \in Calls, NEW r \in WorkRecords,
           call' = [call EXCEPT ![c] = r], UNCHANGED <<contents, link>>, RecordFollows(r),
           \/ r = Compiling!Idle \/ r.pc = "wait" \/ r.pc \in {"sent", "failed"}
           \/ Compiling!Running(c) /\ r.file = call[c].file /\ r.alone = call[c].alone
    PROVE  WorkInv'
<1>1. call \in [Calls -> WorkRecords]
    BY DEF WorkInv, WorkTypeOK
<1>2. \A d \in Calls : call'[d] = IF d = c THEN r ELSE call[d]
    BY <1>1
<1>3. WorkTypeOK'
    BY <1>1, <1>2 DEF WorkInv, WorkTypeOK, RecordFollows
<1>4. LinksStayInPlace'
    BY DEF WorkInv, LinksStayInPlace
<1>5. WorkFollows'
    <2>1. contents' = contents /\ link' = link
        OBVIOUS
    <2>2. \A d \in Calls : RecordFollows(call'[d])
        BY <1>2, RecordsFollow
    <2>3. \A d \in Calls : Compiling!Name(d)' = StagedBase[call'[d].file]
        BY DEF Compiling!Name
    <2> QED BY <2>1, <2>2, <2>3 DEF WorkFollows, RecordFollows
<1>6. AloneIsAlone'
    BY StaysAlone
<1> QED BY <1>3, <1>4, <1>5, <1>6 DEF WorkInv

\* The steps that only read.
LEMMA ReadingSteps ==
    ASSUME WorkInv, NEW c \in Calls,
           \/ \E f \in Compiling!AllFiles : Compiling!Submit(c, f)
           \/ Compiling!Load(c) \/ Compiling!Send(c) \/ Compiling!Kill(c) \/ Compiling!Take(c)
           \/ \E b \in Compiling!Bases : Compiling!Import(c, b)
    PROVE  WorkInv'
<1> DEFINE q == call[c]
<1>1. call \in [Calls -> WorkRecords] /\ q \in WorkRecords /\ RecordFollows(q)
      /\ contents \in [Compiling!Places -> SomeTexts]
    BY RecordsFollow DEF WorkInv, WorkTypeOK
<1>2. \A b \in Compiling!Bases : link[b] # None => contents[link[b]] \in SomeTexts
    BY DEF WorkInv, WorkTypeOK
<1>3. ASSUME NEW f \in Compiling!AllFiles, Compiling!Submit(c, f)
      PROVE  WorkInv'
    <2> DEFINE r == [Compiling!Idle EXCEPT !.pc = "wait", !.file = f, !.src = contents[f]]
    <2>1. contents[f] \in SomeTexts
        BY <1>1, BasesArePlaces
    <2>2. r \in WorkRecords /\ r.pc = "wait" /\ r.file = f
        BY <2>1, IdleIsARecord DEF WorkRecords, WorkPoints, Compiling!Idle
    <2>3. call' = [call EXCEPT ![c] = r] /\ UNCHANGED <<contents, link>>
        BY <1>3 DEF Compiling!Submit
    <2>4. RecordFollows(r)
        BY <2>2 DEF RecordFollows
    <2> HIDE DEF r
    <2> QED BY <2>2, <2>3, <2>4, CallMoves
<1>4. CASE Compiling!Load(c)
    <2> DEFINE place == link[Compiling!Name(c)]
               r == [q EXCEPT !.pc = "send", !.seen = <<contents[place]>>]
    <2>1. q.pc = "load" /\ UNCHANGED <<contents, link>>
        BY <1>4 DEF Compiling!Load, Compiling!At
    <2>2. call' = [call EXCEPT ![c] = r]
        BY <1>1, <1>4 DEF Compiling!Load
    <2>3. Compiling!Name(c) \in Compiling!Bases /\ place # None
        BY <1>1, <2>1, NameIsBase DEF WorkInv, RecordFollows, Compiling!Name
    <2>4. contents[place] \in SomeTexts
        BY <1>2, <2>3
    <2>5. \A t \in SomeTexts : <<t>> \in Seq(SomeTexts)
        OBVIOUS
    <2>6. <<contents[place]>> \in Seq(SomeTexts)
        BY <2>4, <2>5
    <2>7. r \in WorkRecords /\ r.pc = "send" /\ r.file = q.file /\ r.src = q.src
          /\ r.alone = q.alone /\ r.seen = <<contents[place]>>
        BY <1>1, <2>6 DEF WorkRecords, WorkPoints
    <2>8. RecordFollows(r)
        BY <1>1, <2>1, <2>3, <2>7 DEF RecordFollows, Compiling!Name
    <2>9. Compiling!Running(c)
        BY <2>1 DEF Compiling!Running
    <2> HIDE DEF r
    <2> QED BY <2>1, <2>2, <2>7, <2>8, <2>9, CallMoves
<1>5. CASE Compiling!Send(c)
    <2> DEFINE r == [q EXCEPT !.pc = "sent", !.ok = TRUE]
    <2>1. q.pc = "send" /\ UNCHANGED <<contents, link>>
        BY <1>5 DEF Compiling!Send, Compiling!At
    <2>2. call' = [call EXCEPT ![c] = r]
        BY <1>1, <1>5 DEF Compiling!Send
    <2>3. r \in WorkRecords /\ r.pc = "sent" /\ r.file = q.file /\ r.src = q.src
          /\ r.alone = q.alone /\ r.seen = q.seen
        BY <1>1 DEF WorkRecords, WorkPoints
    <2>4. RecordFollows(r)
        BY <1>1, <2>1, <2>3 DEF RecordFollows
    <2> HIDE DEF r
    <2> QED BY <2>1, <2>2, <2>3, <2>4, CallMoves
<1>6. CASE Compiling!Kill(c)
    <2> DEFINE r == [q EXCEPT !.pc = "failed"]
    <2>1. Compiling!Running(c) /\ UNCHANGED <<contents, link>>
        BY <1>6 DEF Compiling!Kill
    <2>2. call' = [call EXCEPT ![c] = r]
        BY <1>1, <1>6 DEF Compiling!Kill, Compiling!To
    <2>3. r \in WorkRecords /\ r.pc = "failed" /\ r.file = q.file
        BY <1>1 DEF WorkRecords, WorkPoints
    <2>4. RecordFollows(r)
        BY <1>1, <2>1, <2>3 DEF RecordFollows, Compiling!Running
    <2> HIDE DEF r
    <2> QED BY <2>1, <2>2, <2>3, <2>4, CallMoves
<1>7. CASE Compiling!Take(c)
    <2> DEFINE r == Compiling!Idle
    <2>1. call' = [call EXCEPT ![c] = r] /\ UNCHANGED <<contents, link>>
        BY <1>7 DEF Compiling!Take
    <2>2. r \in WorkRecords /\ RecordFollows(r)
        BY IdleIsARecord DEF Compiling!Idle, RecordFollows
    <2> QED BY <2>1, <2>2, CallMoves
<1>8. ASSUME NEW b \in Compiling!Bases, Compiling!Import(c, b)
      PROVE  WorkInv'
    <2>1. q.pc = "send" /\ UNCHANGED <<contents, link>>
        BY <1>8 DEF Compiling!Import, Compiling!At
    <2>2. CASE link[b] = None
        <3> DEFINE r == [q EXCEPT !.pc = "failed"]
        <3>1. call' = [call EXCEPT ![c] = r]
            BY <1>1, <1>8, <2>2 DEF Compiling!Import
        <3>2. r \in WorkRecords /\ r.pc = "failed" /\ r.file = q.file
            BY <1>1 DEF WorkRecords, WorkPoints
        <3>3. RecordFollows(r)
            BY <1>1, <2>1, <3>2 DEF RecordFollows
        <3> HIDE DEF r
        <3> QED BY <2>1, <3>1, <3>2, <3>3, CallMoves
    <2>3. CASE link[b] # None
        <3> DEFINE r == [q EXCEPT !.seen = Append(@, contents[link[b]])]
        <3>1. call' = [call EXCEPT ![c] = r]
            BY <1>1, <1>8, <2>3 DEF Compiling!Import
        <3>2. contents[link[b]] \in SomeTexts /\ q.seen \in Seq(SomeTexts) /\ q.seen # <<>>
            BY <1>1, <1>2, <2>1, <2>3 DEF WorkRecords, RecordFollows
        <3>3. Append(q.seen, contents[link[b]]) \in Seq(SomeTexts)
            BY <3>2
        <3>4. r \in WorkRecords /\ r.pc = q.pc /\ r.file = q.file /\ r.src = q.src
              /\ r.alone = q.alone /\ r.seen = Append(q.seen, contents[link[b]])
            BY <1>1, <3>3 DEF WorkRecords
        <3>5. r.seen # <<>> /\ r.seen[1] = q.seen[1]
            BY <3>2, <3>4
        <3>6. RecordFollows(r)
            BY <1>1, <2>1, <3>4, <3>5 DEF RecordFollows
        <3>7. Compiling!Running(c)
            BY <2>1 DEF Compiling!Running
        <3> HIDE DEF r
        <3> QED BY <2>1, <3>1, <3>4, <3>6, <3>7, CallMoves
    <2> QED BY <2>2, <2>3
<1> QED BY <1>3, <1>4, <1>5, <1>6, <1>7, <1>8

LEMMA StartStep ==
    ASSUME WorkInv, NEW c \in Calls, Compiling!Start(c)
    PROVE  WorkInv'
<1> DEFINE Now(d) == IF d = c THEN [call[d] EXCEPT !.pc = "stage",
                                    !.alone = \A e \in Calls : ~Compiling!Clash(c, e)]
                     ELSE IF Compiling!Clash(c, d) THEN [call[d] EXCEPT !.alone = FALSE]
                     ELSE call[d]
<1>1. \A d \in Calls : call[d] \in WorkRecords /\ RecordFollows(call[d])
    BY RecordsFollow
<1>2. call' = [d \in Calls |-> Now(d)] /\ contents' = contents /\ link' = link
      /\ call[c].pc = "wait"
    BY DEF Compiling!Start, Compiling!At
<1>3. \A d \in Calls : call'[d] = Now(d)
    BY <1>2
<1>4. (\A e \in Calls : ~Compiling!Clash(c, e)) \in BOOLEAN
    OBVIOUS
<1>5. \A d \in Calls :
         /\ Now(d) \in WorkRecords
         /\ Now(d).file = call[d].file /\ Now(d).src = call[d].src /\ Now(d).seen = call[d].seen
         /\ Now(d).pc = IF d = c THEN "stage" ELSE call[d].pc
    BY <1>1, <1>4 DEF WorkRecords, WorkPoints
<1>6. \A d \in Calls : d # c =>
         Now(d).alone = IF Compiling!Clash(c, d) THEN FALSE ELSE call[d].alone
    BY <1>1 DEF WorkRecords
<1>7. Now(c).alone = \A e \in Calls : ~Compiling!Clash(c, e)
    BY <1>1 DEF WorkRecords
<1> HIDE DEF Now
<1>8. WorkTypeOK'
    <2>1. \A d \in Calls : call'[d].pc # "idle" => call'[d].file \in Compiling!AllFiles
        BY <1>1, <1>2, <1>3, <1>5 DEF RecordFollows
    <2> QED BY <2>1, <1>2, <1>5 DEF WorkInv, WorkTypeOK
<1>9. LinksStayInPlace'
    BY <1>2 DEF WorkInv, LinksStayInPlace
<1>10. WorkFollows'
    <2>1. RecordFollows(Now(c))
        BY <1>1, <1>2, <1>5 DEF RecordFollows
    <2>2. \A d \in Calls : d # c => Now(d).pc = call[d].pc /\ (Now(d).alone => call[d].alone)
        BY <1>5, <1>6
    <2>3. \A d \in Calls : d # c => RecordFollows(Now(d))
        BY <1>1, <1>5, <2>2 DEF RecordFollows
    <2>4. \A d \in Calls : RecordFollows(call'[d])
        BY <1>3, <2>1, <2>3
    <2>5. \A d \in Calls : Compiling!Name(d)' = StagedBase[call'[d].file]
        BY DEF Compiling!Name
    <2> QED BY <2>4, <2>5, <1>2 DEF WorkFollows, RecordFollows
<1>11. AloneIsAlone'
    <2>1. \A d \in Calls : Compiling!Name(d)' = Compiling!Name(d)
        BY <1>3, <1>5 DEF Compiling!Name
    <2>2. \A d \in Calls : d # c => (Compiling!Running(d)' <=> Compiling!Running(d))
        BY <1>3, <1>5 DEF Compiling!Running
    <2>3. \A d \in Calls : d # c /\ call'[d].alone => call[d].alone /\ ~Compiling!Clash(c, d)
        BY <1>3, <1>6
    <2>4. call'[c].alone => \A e \in Calls : ~Compiling!Clash(c, e)
        BY <1>3, <1>7
    <2>5. \A e \in Calls : Compiling!Clash(c, e) <=>
             c # e /\ Compiling!Running(e) /\ Compiling!Name(e) = Compiling!Name(c)
        BY DEF Compiling!Clash, Compiling!Name
    <2> QED BY <2>1, <2>2, <2>3, <2>4, <2>5 DEF WorkInv, AloneIsAlone
<1> QED BY <1>8, <1>9, <1>10, <1>11 DEF WorkInv

LEMMA UserSaves ==
    ASSUME WorkInv, NEW f \in Compiling!AllFiles, NEW t \in Sources, Compiling!Save(f, t)
    PROVE  WorkInv'
<1> DEFINE Near(d) == Compiling!Running(d) /\ link[Compiling!Name(d)] = f
           Now(d) == IF Near(d) THEN [call[d] EXCEPT !.alone = FALSE] ELSE call[d]
<1>1. \A d \in Calls : call[d] \in WorkRecords /\ RecordFollows(call[d])
    BY RecordsFollow
<1>2. call' = [d \in Calls |-> Now(d)] /\ contents' = [contents EXCEPT ![f] = t]
      /\ link' = link
    BY DEF Compiling!Save
<1>3. \A d \in Calls : call'[d] = Now(d)
    BY <1>2
<1>4. contents \in [Compiling!Places -> SomeTexts] /\ f \in Compiling!Places
      /\ t \in SomeTexts
    BY BasesArePlaces DEF WorkInv, WorkTypeOK, SomeTexts
<1>5. \A d \in Calls :
         /\ Now(d) \in WorkRecords
         /\ Now(d).file = call[d].file /\ Now(d).src = call[d].src /\ Now(d).seen = call[d].seen
         /\ Now(d).pc = call[d].pc
         /\ Now(d).alone => call[d].alone /\ ~Near(d)
    BY <1>1 DEF WorkRecords
<1>6. \A d \in Calls : Compiling!Name(d) = StagedBase[call[d].file]
    BY DEF Compiling!Name
<1>7. ASSUME NEW d \in Calls, Now(d).alone, call[d].pc = "load"
      PROVE  link[StagedBase[call[d].file]] # f
    <2>1. Compiling!Running(d)
        BY <1>7 DEF Compiling!Running
    <2> QED BY <1>7, <1>5, <1>6, <2>1
<1> HIDE DEF Now
<1>8. WorkTypeOK'
    <2>1. \A d \in Calls : call'[d].pc # "idle" => call'[d].file \in Compiling!AllFiles
        BY <1>1, <1>3, <1>5 DEF RecordFollows
    <2>2. contents' \in [Compiling!Places -> SomeTexts]
        BY <1>2, <1>4
    <2> QED BY <2>1, <2>2, <1>2, <1>5 DEF WorkInv, WorkTypeOK
<1>9. LinksStayInPlace'
    BY <1>2 DEF WorkInv, LinksStayInPlace
<1>10. WorkFollows'
    <2>1. \A p : p # f => contents'[p] = contents[p]
        BY <1>2, <1>4
    <2>2. \A d \in Calls : Compiling!Name(d)' = StagedBase[call[d].file]
        BY <1>3, <1>5 DEF Compiling!Name
    <2> QED BY <2>1, <2>2, <1>1, <1>2, <1>3, <1>5, <1>7 DEF WorkFollows, RecordFollows
<1>11. AloneIsAlone'
    <2>1. \A d \in Calls : Compiling!Name(d)' = Compiling!Name(d)
        BY <1>3, <1>5 DEF Compiling!Name
    <2>2. \A d \in Calls : Compiling!Running(d)' <=> Compiling!Running(d)
        BY <1>3, <1>5 DEF Compiling!Running
    <2>3. \A d \in Calls : call'[d].alone => call[d].alone
        BY <1>3, <1>5
    <2> QED BY <2>1, <2>2, <2>3 DEF WorkInv, AloneIsAlone
<1> QED BY <1>8, <1>9, <1>10, <1>11 DEF WorkInv

\* A worker that runs goes on, with the same text.
LEMMA WorkGoesOn ==
    ASSUME WorkInv, NEW c \in Calls, NEW point \in WorkPoints, Compiling!Running(c),
           Compiling!To(c, point), point \in {"open", "write", "load"}
    PROVE  /\ AloneIsAlone' /\ call' \in [Calls -> WorkRecords]
           /\ \A d \in Calls :
                 /\ call'[d].pc = IF d = c THEN point ELSE call[d].pc
                 /\ call'[d].file = call[d].file /\ call'[d].src = call[d].src
                 /\ call'[d].seen = call[d].seen /\ call'[d].alone = call[d].alone
           /\ \A d \in Calls : call'[d].pc # "idle" => call'[d].file \in Compiling!AllFiles
           /\ \A d \in Calls : Compiling!Name(d)' = Compiling!Name(d)
<1> DEFINE r == [call[c] EXCEPT !.pc = point]
<1>1. call \in [Calls -> WorkRecords] /\ call[c] \in WorkRecords
    BY DEF WorkInv, WorkTypeOK
<1>2. r \in WorkRecords /\ r.pc = point /\ r.file = call[c].file /\ r.src = call[c].src
      /\ r.seen = call[c].seen /\ r.alone = call[c].alone
    BY <1>1 DEF WorkRecords
<1>3. call' = [call EXCEPT ![c] = r]
    BY <1>1 DEF Compiling!To
<1> HIDE DEF r
<1>4. AloneIsAlone'
    BY <1>2, <1>3, StaysAlone
<1>5. \A d \in Calls : call'[d] = IF d = c THEN r ELSE call[d]
    BY <1>1, <1>3
<1>6. call' \in [Calls -> WorkRecords]
    BY <1>1, <1>2, <1>3
<1>7. \A d \in Calls : call'[d].file = call[d].file
    BY <1>2, <1>5
<1>8. \A d \in Calls : call'[d].pc # "idle" => call'[d].file \in Compiling!AllFiles
    BY <1>2, <1>5, <1>7 DEF WorkInv, WorkTypeOK, Compiling!Running
<1> QED BY <1>2, <1>4, <1>5, <1>6, <1>7, <1>8 DEF Compiling!Name

\* Another worker that was not overlapped reads another place.
LEMMA OthersAreElsewhere ==
    ASSUME WorkInv, NEW c \in Calls, Compiling!Running(c), NEW d \in Calls, d # c,
           Compiling!Running(d), call[d].alone, link[Compiling!Name(d)] # None,
           NEW place \in LeadsTo(Compiling!Name(c))
    PROVE  link[Compiling!Name(d)] # place /\ Compiling!Name(d) # Compiling!Name(c)
<1>1. Compiling!Name(c) \in Compiling!Bases /\ Compiling!Name(d) \in Compiling!Bases
    BY NameIsBase DEF WorkInv, Compiling!Running
<1>2. Compiling!Name(d) # Compiling!Name(c)
    BY DEF WorkInv, AloneIsAlone
<1>3. link[Compiling!Name(d)] \in LeadsTo(Compiling!Name(d))
    BY <1>1 DEF WorkInv, LinksStayInPlace
<1>4. LeadsTo(Compiling!Name(d)) \cap LeadsTo(Compiling!Name(c)) = {}
    BY <1>1, <1>2, PlacesAreApart
<1> QED BY <1>2, <1>3, <1>4

LEMMA StageStep ==
    ASSUME WorkInv, NEW c \in Calls, Compiling!Stage(c)
    PROVE  WorkInv'
<1>1. Compiling!Running(c) /\ Compiling!To(c, "open") /\ contents' = contents
    BY DEF Compiling!Stage, Compiling!Running, Compiling!At
<1>2. \A b \in Compiling!Bases :
         /\ link[b] # None => link'[b] = link[b]
         /\ link'[b] \in {None} \cup LeadsTo(b)
    BY DEF Compiling!Stage, WorkInv, LinksStayInPlace, LeadsTo
<1>3. WorkTypeOK'
    <2>1. link' \in [Compiling!Bases -> Compiling!Places \cup {None}]
        <3>1. link' = [b \in Compiling!Bases |-> link'[b]]
            BY DEF Compiling!Stage
        <3> QED BY <3>1, <1>2, BasesArePlaces
    <2> QED BY <2>1, <1>1, WorkGoesOn DEF WorkPoints, WorkInv, WorkTypeOK
<1>4. LinksStayInPlace'
    BY <1>2 DEF LinksStayInPlace
<1>5. WorkFollows' /\ AloneIsAlone'
    <2>1. /\ AloneIsAlone'
          /\ \A d \in Calls :
                 /\ call'[d].pc = IF d = c THEN "open" ELSE call[d].pc
                 /\ call'[d].file = call[d].file /\ call'[d].src = call[d].src
                 /\ call'[d].seen = call[d].seen /\ call'[d].alone = call[d].alone
          /\ \A d \in Calls : Compiling!Name(d)' = Compiling!Name(d)
        BY <1>1, WorkGoesOn DEF WorkPoints
    <2>2. \A d \in Calls : call[d].pc \in {"write", "load", "send"} =>
             link'[Compiling!Name(d)] = link[Compiling!Name(d)]
        BY <1>2, NameIsBase DEF WorkInv, WorkFollows
    <2> QED BY <1>1, <2>1, <2>2 DEF WorkInv, WorkFollows
<1> QED BY <1>3, <1>4, <1>5 DEF WorkInv

LEMMA OpenStep ==
    ASSUME WorkInv, NEW c \in Calls, Compiling!Open(c)
    PROVE  WorkInv'
<1> DEFINE n == Compiling!Name(c)
           place == IF link[n] = None THEN n ELSE link[n]
<1>1. /\ Compiling!Running(c) /\ Compiling!To(c, "write") /\ call[c].pc = "open"
      /\ link' = [link EXCEPT ![n] = place] /\ contents' = [contents EXCEPT ![place] = Empty]
    BY DEF Compiling!Open, Compiling!Running, Compiling!At
<1>2. n \in Compiling!Bases /\ link \in [Compiling!Bases -> Compiling!Places \cup {None}]
      /\ contents \in [Compiling!Places -> SomeTexts]
    BY <1>1, NameIsBase DEF WorkInv, WorkTypeOK
<1>3. place \in LeadsTo(n) /\ place \in Compiling!Places /\ place # None
    BY <1>2, BasesArePlaces DEF WorkInv, LinksStayInPlace, LeadsTo
<1>4. /\ AloneIsAlone' /\ call' \in [Calls -> WorkRecords]
      /\ \A d \in Calls :
             /\ call'[d].pc = IF d = c THEN "write" ELSE call[d].pc
             /\ call'[d].file = call[d].file /\ call'[d].src = call[d].src
             /\ call'[d].seen = call[d].seen /\ call'[d].alone = call[d].alone
      /\ \A d \in Calls : call'[d].pc # "idle" => call'[d].file \in Compiling!AllFiles
      /\ \A d \in Calls : Compiling!Name(d)' = Compiling!Name(d)
    BY <1>1, WorkGoesOn DEF WorkPoints
<1> HIDE DEF place
<1>5. WorkTypeOK'
    <2>1. contents' \in [Compiling!Places -> SomeTexts]
        BY <1>1, <1>2, <1>3 DEF SomeTexts
    <2>2. link' \in [Compiling!Bases -> Compiling!Places \cup {None}]
        BY <1>1, <1>2, <1>3
    <2> QED BY <2>1, <2>2, <1>4 DEF WorkTypeOK
<1>6. LinksStayInPlace'
    BY <1>1, <1>2, <1>3 DEF WorkInv, LinksStayInPlace
<1>7. WorkFollows'
    <2>1. \A b \in Compiling!Bases : link'[b] = IF b = n THEN place ELSE link[b]
        BY <1>1, <1>2
    <2>2. \A p : p # place => contents'[p] = contents[p]
        BY <1>1, <1>2
    <2>3. ASSUME NEW d \in Calls, call'[d].pc \in {"write", "load", "send"}
          PROVE  link'[Compiling!Name(d)] # None
        <3>1. CASE d = c
            BY <3>1, <2>1, <1>2, <1>3
        <3>2. CASE d # c
            <4>1. link[Compiling!Name(d)] # None /\ Compiling!Name(d) \in Compiling!Bases
                BY <2>3, <3>2, <1>4, NameIsBase DEF WorkInv, WorkFollows
            <4> QED BY <4>1, <2>1, <1>3
        <3> QED BY <3>1, <3>2
    <2>4. ASSUME NEW d \in Calls, call'[d].pc = "load", call'[d].alone
          PROVE  contents'[link'[Compiling!Name(d)]] = call'[d].src
        <3>1. d # c /\ call[d].pc = "load" /\ call[d].alone /\ Compiling!Running(d)
            BY <2>4, <1>4 DEF Compiling!Running
        <3>2. link[Compiling!Name(d)] # None /\ Compiling!Name(d) \in Compiling!Bases
              /\ contents[link[Compiling!Name(d)]] = call[d].src
            BY <3>1, NameIsBase DEF WorkInv, WorkFollows
        <3>3. link[Compiling!Name(d)] # place /\ Compiling!Name(d) # n
            BY <3>1, <3>2, <1>1, <1>3, OthersAreElsewhere
        <3> QED BY <3>2, <3>3, <2>1, <2>2, <1>4
    <2> QED BY <2>3, <2>4, <1>4 DEF WorkInv, WorkFollows
<1> QED BY <1>4, <1>5, <1>6, <1>7 DEF WorkInv

LEMMA WriteStep ==
    ASSUME WorkInv, NEW c \in Calls, Compiling!Write(c)
    PROVE  WorkInv'
<1> DEFINE n == Compiling!Name(c)
           place == link[n]
<1>1. /\ Compiling!Running(c) /\ Compiling!To(c, "load") /\ call[c].pc = "write"
      /\ link' = link /\ contents' = [contents EXCEPT ![place] = call[c].src]
    BY DEF Compiling!Write, Compiling!Running, Compiling!At
<1>2. n \in Compiling!Bases /\ link \in [Compiling!Bases -> Compiling!Places \cup {None}]
      /\ contents \in [Compiling!Places -> SomeTexts] /\ call[c].src \in SomeTexts
    BY <1>1, NameIsBase DEF WorkInv, WorkTypeOK, WorkRecords
<1>3. place # None
    BY <1>1 DEF WorkInv, WorkFollows
<1>4. place \in LeadsTo(n) /\ place \in Compiling!Places
    BY <1>2, <1>3, BasesArePlaces DEF WorkInv, LinksStayInPlace
<1>5. /\ AloneIsAlone' /\ call' \in [Calls -> WorkRecords]
      /\ \A d \in Calls :
             /\ call'[d].pc = IF d = c THEN "load" ELSE call[d].pc
             /\ call'[d].file = call[d].file /\ call'[d].src = call[d].src
             /\ call'[d].seen = call[d].seen /\ call'[d].alone = call[d].alone
      /\ \A d \in Calls : call'[d].pc # "idle" => call'[d].file \in Compiling!AllFiles
      /\ \A d \in Calls : Compiling!Name(d)' = Compiling!Name(d)
    BY <1>1, WorkGoesOn DEF WorkPoints
<1>6. WorkTypeOK'
    <2>1. contents' \in [Compiling!Places -> SomeTexts]
        BY <1>1, <1>2, <1>4
    <2> QED BY <2>1, <1>1, <1>2, <1>5 DEF WorkTypeOK
<1>7. LinksStayInPlace'
    BY <1>1 DEF WorkInv, LinksStayInPlace
<1>8. WorkFollows'
    <2>1. \A p : p # place => contents'[p] = contents[p]
        BY <1>1, <1>2
    <2>2. ASSUME NEW d \in Calls, call'[d].pc \in {"write", "load", "send"}
          PROVE  link'[Compiling!Name(d)] # None
        BY <2>2, <1>1, <1>3, <1>5 DEF WorkInv, WorkFollows
    <2>3. ASSUME NEW d \in Calls, call'[d].pc = "load", call'[d].alone
          PROVE  contents'[link'[Compiling!Name(d)]] = call'[d].src
        <3>1. CASE d = c
            BY <3>1, <1>1, <1>2, <1>4, <1>5
        <3>2. CASE d # c
            <4>1. call[d].pc = "load" /\ call[d].alone /\ Compiling!Running(d)
                BY <2>3, <3>2, <1>5 DEF Compiling!Running
            <4>2. link[Compiling!Name(d)] # None
                  /\ contents[link[Compiling!Name(d)]] = call[d].src
                BY <4>1 DEF WorkInv, WorkFollows
            <4>3. link[Compiling!Name(d)] # place
                BY <4>1, <4>2, <3>2, <1>1, <1>4, OthersAreElsewhere
            <4> QED BY <4>2, <4>3, <2>1, <1>1, <1>5
        <3> QED BY <3>1, <3>2
    <2> QED BY <2>2, <2>3, <1>5 DEF WorkInv, WorkFollows
<1> QED BY <1>5, <1>6, <1>7, <1>8 DEF WorkInv

\* What was extracted is of the module.
ExtractedOfModule ==
    ir # None => \E m \in Modules : m # None /\ mod = m /\ ir = Compiling!Extract(m)

CompilingInv == WorkInv /\ mod \in Modules \cup {None} /\ ExtractedOfModule

\* A mixin is of the kind that it has: an action is "direct" that mixes into nothing.
LEMMA MixersHaveKinds ==
    ASSUME NEW m \in Modules, NEW a \in DOMAIN m.actions
    PROVE  Compiling!MixerKind(m)[a] = "direct" <=>
               \A i \in DOMAIN m.mixins : m.mixins[i].mixer # a
<1> DEFINE K == {i \in DOMAIN m.mixins : m.mixins[i].mixer = a}
           last == CHOOSE i \in K : \A j \in K : j <= i
<1>1. Compiling!MixerKind(m)[a] = IF K = {} THEN "direct" ELSE m.mixins[last].kind
    BY DEF Compiling!MixerKind
<1>2. m.mixins \in Seq([mixer : DOMAIN m.actions \cup {None}, kind : {"before", "after"},
                        bad : BOOLEAN])
    BY CompilingAssumption
<1> DEFINE Mixins == [mixer : DOMAIN m.actions \cup {None}, kind : {"before", "after"},
                     bad : BOOLEAN]
<1>3. \A x \in Mixins : x.kind \in {"before", "after"}
    OBVIOUS
<1>4. m.mixins \in Seq(Mixins)
    BY <1>2
<1>5. Len(m.mixins) \in Nat /\ DOMAIN m.mixins = 1 .. Len(m.mixins)
      /\ \A i \in DOMAIN m.mixins : m.mixins[i].kind \in {"before", "after"}
    <2> HIDE DEF Mixins
    <2>1. Len(m.mixins) \in Nat /\ DOMAIN m.mixins = 1 .. Len(m.mixins)
          /\ \A i \in DOMAIN m.mixins : m.mixins[i] \in Mixins
        BY <1>4
    <2> QED BY <2>1, <1>3
<1>6. CASE K # {}
    <2>1. K \in SUBSET (0 .. Len(m.mixins))
        BY <1>5
    <2>2. PICK i \in K : \A j \in K : j <= i
        BY <1>5, <1>6, <2>1, NatMax
    <2>3. last \in K
        BY <2>2
    <2>4. m.mixins[last].kind # "direct"
        BY <1>5, <2>3
    <2> QED BY <1>1, <1>6, <2>4
<1>7. CASE K = {}
    BY <1>1, <1>7
<1> QED BY <1>6, <1>7

\* What stands before an exception is found.
LEMMA WalkFinds ==
    ASSUME NEW body \in Seq(Compiling!Requirements \cup {"other", "bad"}),
           NEW k \in DOMAIN body, body[k] \in Compiling!Requirements,
           \A j \in 1 .. k : body[j] # "bad"
    PROVE  body[k] \in Compiling!Range(Compiling!Walk(body))
<1> DEFINE bad == {i \in DOMAIN body : body[i] = "bad"}
           first == CHOOSE i \in bad : \A j \in bad : i <= j
           end == IF bad = {} THEN Len(body) ELSE first - 1
<1>1. Compiling!Walk(body) =
         [i \in {j \in 1 .. end : body[j] \in Compiling!Requirements} |-> body[i]]
    BY DEF Compiling!Walk
<1>2. k \in Nat /\ 1 <= k /\ k <= Len(body) /\ Len(body) \in Nat /\ DOMAIN body \subseteq Nat
    OBVIOUS
<1>3. ASSUME k \in 1 .. end
      PROVE  body[k] \in Compiling!Range(Compiling!Walk(body))
    <2> HIDE DEF end
    <2> DEFINE D == {j \in 1 .. end : body[j] \in Compiling!Requirements}
    <2>1. k \in D
        BY <1>3
    <2>2. Compiling!Walk(body) = [i \in D |-> body[i]]
        BY <1>1
    <2> HIDE DEF D
    <2> QED BY <2>1, <2>2 DEF Compiling!Range
<1>4. CASE bad # {}
    <2>1. bad \in SUBSET Nat
        BY <1>2
    <2>2. PICK i \in bad : \A j \in bad : i <= j
        BY <1>4, <2>1, NatMin
    <2>3. first \in bad /\ first \in Nat
        BY <1>2, <2>2
    <2>4. k < first
        <3>1. body[first] = "bad" /\ 1 <= first
            BY <2>3
        <3> QED BY <1>2, <2>3, <3>1
    <2>5. end = first - 1
        BY <1>4
    <2>6. k <= end /\ end \in Nat
        BY <1>2, <2>3, <2>4, <2>5
    <2> QED BY <1>2, <2>6, <1>3
<1>5. CASE bad = {}
    BY <1>2, <1>5, <1>3
<1> QED BY <1>4, <1>5

\* What is extracted of a module is as the module has it.
LEMMA ExtractIsLocal == CompilingInv => Compiling!FailureIsLocal
<1> SUFFICES ASSUME CompilingInv, ir # None, NEW a \in DOMAIN mod.actions
             PROVE  /\ ir.actions[a].params => (ir.actions[a].exported <=> a \in ir.exports)
                    /\ ir.requirements[a].mixin = "direct" <=>
                          \A i \in DOMAIN mod.mixins : mod.mixins[i].mixer # a
                    /\ \A k \in DOMAIN mod.actions[a].body :
                          /\ mod.actions[a].body[k] \in Compiling!Requirements
                          /\ \A j \in 1 .. k : mod.actions[a].body[j] # "bad"
                          => mod.actions[a].body[k]
                                \in Compiling!Range(ir.requirements[a].kinds)
    BY DEF Compiling!FailureIsLocal
<1>1. mod \in Modules /\ mod # None /\ ir = Compiling!Extract(mod)
    BY DEF CompilingInv, ExtractedOfModule
<1>2. /\ ir.actions[a].params = ~mod.actions[a].bad
      /\ ir.actions[a].exported = (~mod.actions[a].bad /\ a \in mod.exports)
      /\ ir.exports = mod.exports
      /\ ir.requirements[a].kinds = Compiling!Walk(mod.actions[a].body)
      /\ ir.requirements[a].mixin = Compiling!MixerKind(mod)[a]
    BY <1>1 DEF Compiling!Extract
<1>3. mod.actions[a].body \in Seq(Compiling!Requirements \cup {"other", "bad"})
    BY <1>1, CompilingAssumption
<1>4. \A k \in DOMAIN mod.actions[a].body :
         /\ mod.actions[a].body[k] \in Compiling!Requirements
         /\ \A j \in 1 .. k : mod.actions[a].body[j] # "bad"
         => mod.actions[a].body[k] \in Compiling!Range(ir.requirements[a].kinds)
    BY <1>2, <1>3, WalkFinds
<1>5. ir.requirements[a].mixin = "direct" <=>
         \A i \in DOMAIN mod.mixins : mod.mixins[i].mixer # a
    BY <1>1, <1>2, MixersHaveKinds
<1>6. ir.actions[a].params => (ir.actions[a].exported <=> a \in ir.exports)
    BY <1>2
<1> QED BY <1>4, <1>5, <1>6

LEMMA CompilingSteps == CompilingInv /\ [Compiling!Next]_(Compiling!vars) => CompilingInv'
<1> SUFFICES ASSUME CompilingInv, [Compiling!Next]_(Compiling!vars)
             PROVE  CompilingInv'
    OBVIOUS
<1>1. CASE Compiling!Work /\ UNCHANGED <<mod, ir>>
    <2>1. WorkInv'
        <3>1. ASSUME NEW f \in Compiling!AllFiles, NEW t \in Sources, Compiling!Save(f, t)
              PROVE  WorkInv'
            BY <3>1, UserSaves DEF CompilingInv
        <3>2. ASSUME NEW c \in Calls,
                     \/ \E f \in Compiling!AllFiles : Compiling!Submit(c, f)
                     \/ Compiling!Load(c) \/ Compiling!Send(c) \/ Compiling!Kill(c)
                     \/ Compiling!Take(c) \/ \E b \in Compiling!Bases : Compiling!Import(c, b)
              PROVE  WorkInv'
            BY <3>2, ReadingSteps DEF CompilingInv
        <3>3. ASSUME NEW c \in Calls,
                     Compiling!Start(c) \/ Compiling!Stage(c) \/ Compiling!Open(c)
                     \/ Compiling!Write(c)
              PROVE  WorkInv'
            BY <3>3, StartStep, StageStep, OpenStep, WriteStep DEF CompilingInv
        <3> QED BY <1>1, <3>1, <3>2, <3>3 DEF Compiling!Work
    <2> QED BY <1>1, <2>1 DEF CompilingInv, ExtractedOfModule
<1>2. CASE Compiling!Extraction
    <2>1. /\ mod # None /\ mod' = mod /\ ir' = Compiling!Extract(mod)
          /\ UNCHANGED <<contents, link, call>>
        BY <1>2 DEF Compiling!Extraction, Compiling!workVars
    <2>2. PICK m \in Modules : m = mod
        BY <2>1 DEF CompilingInv
    <2>3. ExtractedOfModule'
        BY <2>1, <2>2 DEF ExtractedOfModule
    <2>4. WorkInv'
        BY <2>1 DEF CompilingInv, WorkInv, WorkTypeOK, LinksStayInPlace, WorkFollows,
                    AloneIsAlone, Compiling!Running, Compiling!Name
    <2> QED BY <2>1, <2>4, <2>3 DEF CompilingInv
<1>3. CASE UNCHANGED Compiling!vars
    BY <1>3 DEF CompilingInv, ExtractedOfModule, WorkInv, WorkTypeOK, LinksStayInPlace, WorkFollows,
                AloneIsAlone, Compiling!Running, Compiling!Name, Compiling!vars,
                Compiling!workVars
<1> QED BY <1>1, <1>2, <1>3 DEF Compiling!Next

\* A worker that no other one of the same basename overlaps, and whose file is not saved
\* while it runs, compiles the text of its call, whatever the others write in the
\* shared directory; and a module is extracted whole but for what cannot be read of it
\* (compiler_worker, extract_compiled_module_ir).
THEOREM CompilingInductive == Compiling!Spec => []IrIsRight
<1>1. Compiling!Init => CompilingInv
    BY WorkInit DEF Compiling!Init, CompilingInv, ExtractedOfModule
<1>2. CompilingInv => IrIsRight
    <2>1. CompilingInv => Compiling!IrIsOfItsCall
        BY DEF CompilingInv, WorkInv, WorkFollows, Compiling!IrIsOfItsCall, Compiling!At
    <2> QED BY <2>1, ExtractIsLocal DEF IrIsRight
<1> QED BY <1>1, <1>2, CompilingSteps, PTL DEF Compiling!Spec

-----------------------------------------------------------------------------
(***************************************************************************)
(* Incoming and outgoing calls.  Both scans and the edges find one thing:  *)
(* that a line of the body of an action mentions another.                  *)
(***************************************************************************)
CallingTypeOK == source \in [Calling!AllFiles -> Seq(Lines)] /\ indexed \in [Calling!AllFiles -> Seq(Lines)]

Symbol == [kind : Calling!Kinds, name : {l.n : l \in Lines}, file : Calling!AllFiles, line : Nat]

\* The symbols of a text: one of a line.
LEMMA SymbolsAre ==
    ASSUME NEW f \in Calling!AllFiles, NEW t \in Seq(Lines)
    PROVE  /\ Calling!SymbolsOf(f, t) \subseteq Symbol
           /\ \A s \in Calling!SymbolsOf(f, t) :
                 /\ s.file = f /\ s.line \in DOMAIN t /\ s.name = t[s.line].n
                 /\ s.kind = t[s.line].k
           /\ \A s, r \in Calling!SymbolsOf(f, t) : s.line = r.line => s = r
           /\ \A i \in DOMAIN t : t[i].k \in Calling!Kinds =>
                 \E s \in Calling!SymbolsOf(f, t) : s.line = i
<1> DEFINE D == {j \in DOMAIN t : t[j].k \in Calling!Kinds}
           sym(i) == [kind |-> t[i].k, name |-> t[i].n, file |-> f, line |-> i]
<1>1. Calling!SymbolsOf(f, t) = {sym(i) : i \in D}
    BY DEF Calling!SymbolsOf
<1>2. \A i \in D : t[i] \in Lines /\ i \in Nat /\ t[i].k \in Calling!Kinds
    OBVIOUS
<1>3. \A i \in D : /\ sym(i) \in Symbol /\ sym(i).file = f /\ sym(i).line = i
                    /\ sym(i).name = t[i].n /\ sym(i).kind = t[i].k
    BY <1>2 DEF Symbol
<1> HIDE DEF sym
<1> QED BY <1>1, <1>3

LEMMA SymbolsIndexed ==
    ASSUME CallingTypeOK, NEW f \in Calling!AllFiles
    PROVE  /\ Calling!Symbols(f) \subseteq Symbol /\ Calling!Symbols(f) \subseteq Calling!AllSymbols
           /\ \A s \in Calling!Symbols(f) : s.file = f /\ s.line \in Nat
           /\ \A s, r \in Calling!Symbols(f) : s.line = r.line => s = r
<1>1. indexed[f] \in Seq(Lines)
    BY DEF CallingTypeOK
<1>2. \A i \in DOMAIN indexed[f] : i \in Nat
    BY <1>1
<1>3. Calling!Symbols(f) \subseteq Calling!AllSymbols
    BY DEF Calling!AllSymbols
<1> QED BY <1>1, <1>2, <1>3, SymbolsAre DEF Calling!Symbols

LEMMA SymbolsOfFiles ==
    ASSUME CallingTypeOK, NEW s \in Calling!AllSymbols
    PROVE  s.file \in Calling!AllFiles /\ s \in Calling!Symbols(s.file) /\ s \in Symbol /\ s # None
<1>1. PICK f \in Calling!AllFiles : s \in Calling!Symbols(f)
    BY DEF Calling!AllSymbols
<1>2. s \in Symbol /\ s.file = f
    BY <1>1, SymbolsIndexed
<1> QED BY <1>1, <1>2, CallingAssumption DEF Symbol

\* The container of a line is the symbol that starts last.
LEMMA ContainerIs ==
    ASSUME NEW S, NEW n \in Nat, \A s \in S : s.line \in 0 .. n,
           \A s, r \in S : s.line = r.line => s = r, NEW i \in Nat
    PROVE  /\ \A s \in S : s.line <= i /\ (\A r \in S : r.line <= i => r.line <= s.line) =>
                  Calling!ContainerIn(S, i) = s
           /\ Calling!ContainerIn(S, i) # None =>
                  /\ Calling!ContainerIn(S, i) \in S /\ Calling!ContainerIn(S, i).line <= i
                  /\ \A r \in S : r.line <= i => r.line <= Calling!ContainerIn(S, i).line
<1> DEFINE before == {s \in S : s.line <= i}
           P(s) == \A r \in before : r.line <= s.line
           c == CHOOSE s \in before : P(s)
<1>1. Calling!ContainerIn(S, i) = IF before = {} THEN None ELSE c
    BY DEF Calling!ContainerIn
<1>2. CASE before = {}
    BY <1>1, <1>2
<1>3. CASE before # {}
    <2> DEFINE T == {s.line : s \in before}
    <2>1. T \in SUBSET (0 .. n) /\ T # {}
        BY <1>3
    <2>2. PICK m \in T : \A y \in T : y <= m
        BY <2>1, NatMax
    <2>3. \E s \in before : P(s)
        BY <2>2
    <2>4. c \in before /\ P(c)
        BY <2>3
    <2> HIDE DEF c
    <2>5. ASSUME NEW s \in S, s.line <= i, \A r \in S : r.line <= i => r.line <= s.line
          PROVE  c = s
        <3>1. s.line <= c.line /\ c.line <= s.line /\ c \in S
            BY <2>4, <2>5
        <3>2. s.line \in Nat /\ c.line \in Nat
            BY <3>1
        <3>3. s.line = c.line
            BY <3>1, <3>2
        <3> QED BY <3>1, <3>3
    <2> QED BY <1>1, <1>3, <2>4, <2>5
<1> QED BY <1>2, <1>3

LEMMA ContainerOf ==
    ASSUME NEW f \in Calling!AllFiles, NEW t \in Seq(Lines), NEW i \in Nat
    PROVE  LET S == Calling!SymbolsOf(f, t)
               c == Calling!ContainerIn(S, i)
           IN  /\ \A s \in S : s.line <= i /\ (\A r \in S : r.line <= i => r.line <= s.line)
                                 => c = s
               /\ c # None => /\ c \in S /\ c.line <= i
                              /\ \A r \in S : r.line <= i => r.line <= c.line
<1> DEFINE S == Calling!SymbolsOf(f, t)
<1>1. Len(t) \in Nat /\ DOMAIN t = 1 .. Len(t)
    OBVIOUS
<1>2. \A s \in S : s.line \in 0 .. Len(t)
    BY <1>1, SymbolsAre
<1>3. \A s, r \in S : s.line = r.line => s = r
    BY SymbolsAre
<1> HIDE DEF S
<1>4. /\ \A s \in S : s.line <= i /\ (\A r \in S : r.line <= i => r.line <= s.line) =>
                  Calling!ContainerIn(S, i) = s
      /\ Calling!ContainerIn(S, i) # None =>
                  /\ Calling!ContainerIn(S, i) \in S /\ Calling!ContainerIn(S, i).line <= i
                  /\ \A r \in S : r.line <= i => r.line <= Calling!ContainerIn(S, i).line
    BY <1>1, <1>2, <1>3, ContainerIs
<1> QED BY <1>4 DEF S

LEMMA FilesInOrder ==
    /\ DOMAIN FileSeq = 1 .. Len(FileSeq) /\ Len(FileSeq) \in Nat
    /\ \A i \in DOMAIN FileSeq : FileSeq[i] \in Calling!AllFiles
<1>1. FileSeq \in Seq(Calling!AllFiles)
    BY CallingAssumption
<1> QED BY <1>1

\* The first action of a name is one of that name.
LEMMA ActionIs ==
    ASSUME CallingTypeOK, NEW m
    PROVE  LET S == {s \in Calling!AllSymbols : s.name = m /\ s.kind \in Calling!Actions}
           IN  Calling!ActionNamed(m) \in S \cup {None} /\ (S # {} => Calling!ActionNamed(m) \in S)
<1> DEFINE S == {s \in Calling!AllSymbols : s.name = m /\ s.kind \in Calling!Actions}
           Before(s, r) == \E i, j \in DOMAIN FileSeq :
                              /\ FileSeq[i] = s.file /\ FileSeq[j] = r.file
                              /\ i < j \/ (i = j /\ s.line <= r.line)
           a == CHOOSE s \in S : \A r \in S : Before(s, r)
<1>1. Calling!ActionNamed(m) = IF S = {} THEN None ELSE a
    BY DEF Calling!ActionNamed
<1>2. CASE S # {}
    <2> DEFINE I == {i \in DOMAIN FileSeq : \E s \in S : s.file = FileSeq[i]}
    <2>1. DOMAIN FileSeq \subseteq Nat
        BY FilesInOrder
    <2>2. \A s \in S : s.line \in Nat /\ \E i \in DOMAIN FileSeq : s.file = FileSeq[i]
        BY SymbolsOfFiles, SymbolsIndexed DEF Calling!AllFiles
    <2> HIDE DEF S
    <2>3. I \in SUBSET Nat /\ I # {}
        BY <1>2, <2>1, <2>2
    <2>4. PICK i \in I : \A j \in I : i <= j
        BY <2>3, NatMin
    <2> DEFINE L == {s.line : s \in {r \in S : r.file = FileSeq[i]}}
    <2>5. L \in SUBSET Nat /\ L # {}
        BY <2>2
    <2>6. PICK n \in L : \A y \in L : n <= y
        BY <2>5, NatMin
    <2>7. PICK s \in S : s.file = FileSeq[i] /\ s.line = n
        BY <2>6
    <2>8. ASSUME NEW r \in S PROVE Before(s, r)
        <3>1. PICK j \in I : r.file = FileSeq[j]
            BY <2>2
        <3>2. i \in Nat /\ j \in Nat /\ i <= j /\ i \in DOMAIN FileSeq /\ j \in DOMAIN FileSeq
            BY <2>1, <2>4
        <3>3. i = j => s.line <= r.line
            BY <2>6, <2>7, <3>1
        <3> QED BY <2>7, <3>1, <3>2, <3>3
    <2> HIDE DEF Before
    <2>9. a \in S
        BY <2>8
    <2> QED BY <1>1, <1>2, <2>9 DEF S
<1>3. CASE S = {}
    BY <1>1, <1>3
<1> QED BY <1>2, <1>3

\* What is declared once.
LEMMA CardinalityIs == \A S : Calling!Cardinality(S) = Cardinality(S)
BY DEF Calling!Cardinality, Cardinality

LEMMA SymbolsAreFinite ==
    ASSUME CallingTypeOK
    PROVE  IsFiniteSet(Calling!AllSymbols)
<1>1. IsFiniteSet(Calling!AllFiles)
    <2>1. IsFiniteSet(DOMAIN FileSeq)
        BY FilesInOrder, FS_Interval
    <2>2. FileSeq \in Surjection(DOMAIN FileSeq, Calling!AllFiles)
        <3>1. FileSeq = [i \in DOMAIN FileSeq |-> FileSeq[i]]
            <4>1. FileSeq \in Seq(Calling!AllFiles)
                BY CallingAssumption
            <4> QED BY <4>1
        <3> QED BY <3>1, FilesInOrder DEF Surjection, Calling!AllFiles
    <2> QED BY <2>1, <2>2, FS_Surjection
<1>2. ASSUME NEW f \in Calling!AllFiles
      PROVE  IsFiniteSet(Calling!Symbols(f))
    <2> DEFINE S == Calling!Symbols(f)
               t == indexed[f]
               line == [s \in S |-> s.line]
    <2>1. t \in Seq(Lines)
        BY DEF CallingTypeOK
    <2>2. IsFiniteSet(1 .. Len(t))
        BY <2>1, FS_Interval
    <2>3. \A s \in S : s.line \in 1 .. Len(t)
        BY <2>1, SymbolsAre DEF Calling!Symbols
    <2>4. \A s, r \in S : s.line = r.line => s = r
        BY SymbolsIndexed
    <2> HIDE DEF S, t
    <2>5. line \in Injection(S, 1 .. Len(t))
        BY <2>3, <2>4 DEF Injection, IsInjective
    <2>6. IsFiniteSet(S)
        BY <2>2, <2>5, FS_Injection
    <2> QED BY <2>6 DEF S
<1> DEFINE syms == [f \in Calling!AllFiles |-> Calling!Symbols(f)]
           all == {Calling!Symbols(f) : f \in Calling!AllFiles}
<1>3. syms \in Surjection(Calling!AllFiles, all)
    BY DEF Surjection
<1> HIDE DEF syms
<1>4. IsFiniteSet(all)
    BY <1>1, <1>3, FS_Surjection
<1>5. \A T \in all : IsFiniteSet(T)
    BY <1>2
<1>6. IsFiniteSet(UNION all)
    BY <1>4, <1>5, FS_UNION
<1> QED BY <1>6 DEF Calling!AllSymbols

LEMMA OnceIs ==
    ASSUME CallingTypeOK, NEW s \in Calling!AllSymbols, s.kind \in Calling!Actions,
           Calling!Once(s.name)
    PROVE  /\ \A r \in Calling!AllSymbols : r.name = s.name /\ r.kind \in Calling!Actions => r = s
           /\ Calling!ActionNamed(s.name) = s
<1> DEFINE S == {r \in Calling!AllSymbols : r.name = s.name /\ r.kind \in Calling!Actions}
<1>1. IsFiniteSet(S)
    BY SymbolsAreFinite, FS_Subset
<1>2. Cardinality(S) = 1
    BY CardinalityIs DEF Calling!Once
<1>3. PICK x : S = {x}
    BY <1>1, <1>2, FS_Singleton
<1>4. s \in S
    OBVIOUS
<1>5. S = {s}
    BY <1>3, <1>4
<1> QED BY <1>5, ActionIs

\* An action that is first in its file, and another that is called.
Pair(s, r) ==
    /\ s \in Calling!AllSymbols /\ s.kind \in Calling!Actions /\ Calling!Once(s.name)
    /\ Calling!FirstIn(s.file, s.name) = s
    /\ r \in Calling!AllSymbols /\ r.kind \in Calling!Actions /\ Calling!Once(r.name)
    /\ r.name # s.name /\ ~Calling!Monitored(r.name)

\* r is mentioned on line i of the body of s.
InBody(s, r, i) ==
    /\ i \in DOMAIN source[s.file] /\ s.line < i
    /\ \A q \in Calling!Symbols(s.file) : q.line <= i => q.line <= s.line
    /\ r.name \in Calling!Words(source[s.file][i])

\* What is found below a declaration is what is in its body.
LEMMA CalleesAre ==
    ASSUME CallingTypeOK, NEW s, NEW r, Pair(s, r)
    PROVE  r \in Calling!Callees(s.name, s.file) <=> \E i \in Nat : InBody(s, r, i)
<1> DEFINE f == s.file
           later == {q.line : q \in {x \in Calling!Symbols(f) : x.line > s.line}}
           end == IF later = {} THEN Len(source[f]) + 1 ELSE Calling!Min(later)
           body == {i \in DOMAIN source[f] : s.line < i /\ i < end}
           found == {q \in Calling!AllSymbols :
                        /\ q.kind \in Calling!Actions /\ q.name # s.name
                        /\ \E i \in body : q.name \in Calling!Words(source[f][i])}
<1>1. s # None /\ f \in Calling!AllFiles /\ s \in Calling!Symbols(f)
    BY SymbolsOfFiles DEF Pair
<1>2. Calling!Callees(s.name, f) = {Calling!ActionNamed(m) : m \in {q.name : q \in found}}
    BY <1>1 DEF Pair, Calling!Callees
<1>3. source[f] \in Seq(Lines) /\ DOMAIN source[f] = 1 .. Len(source[f])
      /\ Len(source[f]) \in Nat
    BY <1>1 DEF CallingTypeOK
<1>4. s.line \in Nat /\ \A q \in Calling!Symbols(f) : q.line \in Nat
    BY <1>1, SymbolsIndexed
<1>5. ASSUME NEW i \in DOMAIN source[f], s.line < i
      PROVE  i < end <=> \A q \in Calling!Symbols(f) : q.line <= i => q.line <= s.line
    <2>1. i \in Nat
        BY <1>3
    <2>2. CASE later = {}
        <3>1. \A q \in Calling!Symbols(f) : q.line <= s.line
            BY <2>2, <1>4
        <3>2. end = Len(source[f]) + 1
            BY <2>2
        <3> HIDE DEF end, later
        <3> QED BY <2>1, <3>1, <3>2, <1>3
    <2>3. CASE later # {}
        <3>1. later \in SUBSET Nat
            BY <1>4
        <3>2. \E x \in later : \A y \in later : x <= y
            BY <2>3, <3>1, NatMin
        <3>3. Calling!Min(later) \in later /\ \A y \in later : Calling!Min(later) <= y
            <4> DEFINE low == CHOOSE x \in later : \A y \in later : x <= y
            <4>1. Calling!Min(later) = low
                BY DEF Calling!Min
            <4> HIDE DEF later
            <4>2. low \in later /\ \A y \in later : low <= y
                BY <3>2
            <4> QED BY <4>1, <4>2
        <3>4. end = Calling!Min(later)
            BY <2>3
        <3>5. \A q \in Calling!Symbols(f) : s.line < q.line => q.line \in later
            BY <1>4
        <3>6. \A y \in later : s.line < y /\ \E q \in Calling!Symbols(f) : q.line = y
            OBVIOUS
        <3> HIDE DEF end, later
        <3>7. ASSUME i < end, NEW q \in Calling!Symbols(f), q.line <= i
              PROVE  q.line <= s.line
            <4>1. q.line \in Nat /\ end \in Nat /\ (s.line < q.line => end <= q.line)
                BY <3>1, <3>3, <3>4, <3>5, <1>4
            <4> QED BY <4>1, <3>7, <2>1, <1>4
        <3>8. ASSUME \A q \in Calling!Symbols(f) : q.line <= i => q.line <= s.line
              PROVE  i < end
            <4>1. PICK q \in Calling!Symbols(f) : q.line = end
                BY <3>3, <3>4, <3>6
            <4>2. s.line < end /\ end \in Nat
                BY <3>1, <3>3, <3>4, <3>6
            <4> QED BY <4>1, <4>2, <3>8, <2>1, <1>4
        <3> QED BY <3>7, <3>8
    <2> QED BY <2>2, <2>3
<1>6. \A i \in Nat : InBody(s, r, i) <=> i \in body /\ r.name \in Calling!Words(source[f][i])
    BY <1>5 DEF InBody
<1>7. \A i \in body : i \in Nat
    BY <1>3
<1> HIDE DEF body
<1>8. ASSUME r \in Calling!Callees(s.name, f)
      PROVE  r \in found
    <2>1. PICK q \in found : r = Calling!ActionNamed(q.name)
        BY <1>2, <1>8
    <2>2. r.name = q.name /\ r.kind \in Calling!Actions
        BY <2>1, ActionIs
    <2>3. q = r
        BY <2>1, <2>2, OnceIs DEF Pair
    <2> QED BY <2>1, <2>3
<1>9. ASSUME r \in found
      PROVE  r \in Calling!Callees(s.name, f)
    <2>1. r = Calling!ActionNamed(r.name)
        BY OnceIs DEF Pair
    <2> QED BY <1>2, <1>9, <2>1
<1>10. r \in found <=> \E i \in body : r.name \in Calling!Words(source[f][i])
    BY DEF Pair
<1> HIDE DEF found
<1> QED BY <1>6, <1>7, <1>8, <1>9, <1>10

\* What mentions it: in its body, or on the line that declares it.
LEMMA CallersAre ==
    ASSUME CallingTypeOK, NEW s, NEW r, Pair(s, r)
    PROVE  /\ (\E i \in Nat : InBody(s, r, i)) => s \in Calling!Callers(r.name, r.file)
           /\ s \in Calling!Callers(r.name, r.file) =>
                 \/ \E i \in Nat : InBody(s, r, i)
                 \/ r.name \in Calling!Words(source[s.file][s.line])
<1> DEFINE declared == {q.line : q \in {x \in Calling!AllSymbols : x.name = r.name}}
           At(f, i) == Calling!ContainerIn(Calling!Symbols(f), i)
           mentions(f) == {i \in DOMAIN source[f] :
                              /\ r.name \in Calling!Words(source[f][i])
                              /\ ~(f = r.file /\ i \in declared)
                              /\ At(f, i) # None
                              /\ ~(At(f, i).name = r.name /\ At(f, i).kind \in Calling!Actions)}
<1>1. Calling!Callers(r.name, r.file) = UNION {{At(f, i) : i \in mentions(f)} : f \in Calling!AllFiles}
    BY DEF Calling!Callers
<1>2. /\ s # None /\ s.file \in Calling!AllFiles /\ s \in Calling!Symbols(s.file)
      /\ r \in Calling!Symbols(r.file) /\ s.line \in Nat
    BY SymbolsOfFiles, SymbolsIndexed DEF Pair
<1>3. declared = {r.line}
    <2>1. \A q \in Calling!AllSymbols : q.name = r.name => q.kind \in Calling!Actions
        <3>1. \A q \in Calling!AllSymbols : q.kind \in Calling!Kinds
            BY SymbolsOfFiles DEF Symbol
        <3> QED BY <3>1 DEF Pair, Calling!Monitored, Calling!Kinds, Calling!Actions
    <2>2. \A q \in Calling!AllSymbols : q.name = r.name => q = r
        BY <2>1, OnceIs DEF Pair
    <2> QED BY <2>2 DEF Pair
<1>4. \A f \in Calling!AllFiles : \A i \in DOMAIN source[f] : i \in Nat
    BY DEF CallingTypeOK
<1>5. \A f \in Calling!AllFiles : indexed[f] \in Seq(Lines)
    BY DEF CallingTypeOK
<1>6. \A f \in Calling!AllFiles, i \in Nat :
         /\ \A q \in Calling!Symbols(f) :
               q.line <= i /\ (\A x \in Calling!Symbols(f) : x.line <= i => x.line <= q.line)
                  => At(f, i) = q
         /\ At(f, i) # None =>
               /\ At(f, i) \in Calling!Symbols(f) /\ At(f, i).line <= i
               /\ \A x \in Calling!Symbols(f) : x.line <= i => x.line <= At(f, i).line
    BY <1>5, ContainerOf DEF Calling!Symbols
<1> HIDE DEF At
<1>7. ASSUME NEW i \in Nat, InBody(s, r, i)
      PROVE  s \in Calling!Callers(r.name, r.file)
    <2>1. At(s.file, i) = s
        BY <1>2, <1>6, <1>7 DEF InBody
    <2>2. ~(s.file = r.file /\ i \in declared)
        BY <1>2, <1>3, <1>7 DEF InBody
    <2>3. i \in mentions(s.file)
        BY <1>2, <1>7, <2>1, <2>2 DEF InBody, Pair
    <2> QED BY <1>1, <1>2, <2>1, <2>3
<1>8. ASSUME s \in Calling!Callers(r.name, r.file)
      PROVE  \/ \E i \in Nat : InBody(s, r, i)
             \/ r.name \in Calling!Words(source[s.file][s.line])
    <2>1. PICK f \in Calling!AllFiles : \E i \in mentions(f) : s = At(f, i)
        BY <1>1, <1>8
    <2>2. PICK i \in mentions(f) : s = At(f, i)
        BY <2>1
    <2>3. i \in Nat /\ i \in DOMAIN source[f] /\ r.name \in Calling!Words(source[f][i])
        BY <1>4, <2>2
    <2>4. s \in Calling!Symbols(f) /\ s.line <= i
          /\ \A x \in Calling!Symbols(f) : x.line <= i => x.line <= s.line
        BY <1>2, <1>6, <2>2, <2>3
    <2>5. s.file = f
        BY <2>4, SymbolsIndexed
    <2> QED BY <1>2, <2>3, <2>4, <2>5 DEF InBody
<1> QED BY <1>7, <1>8

\* With all files compiled: an edge for everything in a body.
LEMMA EdgesAre ==
    ASSUME CallingTypeOK, Calling!AllCompiled
    PROVE  /\ \A e \in callEdges :
                 /\ e[1] \in Calling!AllSymbols /\ e[3] \in Calling!AllSymbols
                 /\ e[2] = "calls" \/ e[1].kind = "monitor"
           /\ \A s, r : Pair(s, r) /\ (\E i \in Nat : InBody(s, r, i)) =>
                 <<s, "calls", r>> \in callEdges
<1>1. indexed = source /\ callEdges = UNION {Calling!Compiled(f) : f \in Calling!AllFiles}
    BY DEF Calling!AllCompiled
<1>2. ASSUME NEW f \in Calling!AllFiles
      PROVE  /\ source[f] \in Seq(Lines) /\ Calling!Symbols(f) = Calling!SymbolsOf(f, source[f])
             /\ Calling!Symbols(f) \subseteq Calling!AllSymbols
             /\ \A i \in DOMAIN source[f] : i \in Nat /\ source[f][i] \in Lines
    <2>1. source[f] \in Seq(Lines)
        BY DEF CallingTypeOK
    <2> QED BY <2>1, <1>1, SymbolsIndexed DEF Calling!Symbols
<1>3. \A m : Calling!ActionNamed(m) # None => Calling!ActionNamed(m) \in Calling!AllSymbols
    BY ActionIs
<1>4. ASSUME NEW f \in Calling!AllFiles, NEW i \in DOMAIN source[f]
      PROVE  LET c == Calling!ContainerIn(Calling!SymbolsOf(f, source[f]), i)
             IN  /\ c # None => c \in Calling!AllSymbols
                 /\ source[f][i].k \in Calling!Kinds => c \in Calling!AllSymbols
    <2> DEFINE S == Calling!SymbolsOf(f, source[f])
               c == Calling!ContainerIn(S, i)
    <2>1. /\ \A s \in S : s.line <= i /\ (\A r \in S : r.line <= i => r.line <= s.line) => c = s
          /\ c # None => c \in S
        BY <1>2, <1>4, ContainerOf
    <2>2. ASSUME source[f][i].k \in Calling!Kinds
          PROVE  c \in S
        <3>1. PICK s \in S : s.line = i
            BY <1>2, <2>2, SymbolsAre
        <3>2. s.line <= i /\ \A r \in S : r.line <= i => r.line <= s.line
            BY <1>2, <3>1
        <3> QED BY <2>1, <3>2
    <2>3. S \subseteq Calling!AllSymbols
        BY <1>2
    <2> QED BY <2>1, <2>2, <2>3
<1>5. ASSUME NEW e \in callEdges
      PROVE  /\ e[1] \in Calling!AllSymbols /\ e[3] \in Calling!AllSymbols
             /\ e[2] = "calls" \/ e[1].kind = "monitor"
    <2>1. PICK f \in Calling!AllFiles : e \in Calling!Compiled(f)
        BY <1>1
    <2> DEFINE S == Calling!SymbolsOf(f, source[f])
    <2>2. CASE \E i \in {j \in DOMAIN source[f] : /\ source[f][j].k = "inline"
                            /\ Calling!ActionNamed(source[f][j].c) # None} :
                  e = <<Calling!ContainerIn(S, i), "calls", Calling!ActionNamed(source[f][i].c)>>
        BY <2>2, <1>3, <1>4 DEF Calling!Kinds
    <2>3. CASE \E i \in {j \in DOMAIN source[f] : /\ source[f][j].k = "call"
                            /\ Calling!ContainerIn(S, j) # None
                            /\ Calling!ActionNamed(source[f][j].n) # None} :
                  e = <<Calling!ContainerIn(S, i), "calls", Calling!ActionNamed(source[f][i].n)>>
        BY <2>3, <1>3, <1>4
    <2>4. CASE \E s \in {r \in S : r.kind = "monitor" /\ Calling!ActionNamed(r.name) # None} :
                  e = <<s, "monitors", Calling!ActionNamed(s.name)>>
        BY <2>4, <1>2, <1>3
    <2> QED BY <2>1, <2>2, <2>3, <2>4 DEF Calling!Compiled
<1>6. ASSUME NEW s, NEW r, Pair(s, r), NEW i \in Nat, InBody(s, r, i)
      PROVE  <<s, "calls", r>> \in callEdges
    <2> DEFINE f == s.file
               S == Calling!SymbolsOf(f, source[f])
               l == source[f][i]
    <2>1. f \in Calling!AllFiles /\ s \in S /\ s # None /\ r # None /\ s.line \in Nat
        BY <1>2, <1>6, SymbolsOfFiles, SymbolsIndexed DEF Pair
    <2>2. i \in DOMAIN source[f] /\ s.line < i /\ r.name \in {l.n, l.c} /\ l \in Lines
          /\ \A q \in S : q.line <= i => q.line <= s.line
        BY <1>2, <1>6, <2>1 DEF InBody, Calling!Words
    <2>3. l.k \notin Calling!Kinds
        <3>1. ASSUME l.k \in Calling!Kinds PROVE FALSE
            <4>1. PICK q \in S : q.line = i
                BY <1>2, <2>1, <2>2, <3>1, SymbolsAre
            <4>2. i <= s.line
                BY <2>2, <4>1
            <4> QED BY <2>1, <2>2, <4>2
        <3> QED BY <3>1
    <2>4. l.k = "call" /\ l.c = ""
        BY <2>2, <2>3, CallingAssumption DEF Calling!Kinds
    <2>5. r.name # ""
        <3>1. \E x \in Lines : r.name = x.n
            BY <1>6, SymbolsOfFiles DEF Pair, Symbol
        <3> QED BY <3>1, CallingAssumption
    <2>6. r.name = l.n /\ Calling!ActionNamed(l.n) = r
        BY <1>6, <2>2, <2>4, <2>5, OnceIs DEF Pair
    <2>7. Calling!ContainerIn(S, i) = s
        <3>1. s.line <= i
            BY <2>1, <2>2
        <3>2. source[f] \in Seq(Lines)
            BY <1>2, <2>1
        <3> QED BY <2>1, <2>2, <3>1, <3>2, ContainerOf
    <2> DEFINE T == {j \in DOMAIN source[f] :
                        /\ source[f][j].k = "call"
                        /\ Calling!ContainerIn(S, j) # None
                        /\ Calling!ActionNamed(source[f][j].n) # None}
    <2>8. i \in T
        BY <2>1, <2>2, <2>4, <2>6, <2>7
    <2>9. <<s, "calls", r>> \in {<<Calling!ContainerIn(S, j), "calls",
                                   Calling!ActionNamed(source[f][j].n)>> : j \in T}
        BY <2>6, <2>7, <2>8
    <2>10. <<s, "calls", r>> \in Calling!Compiled(f)
        BY <2>9 DEF Calling!Compiled
    <2> QED BY <1>1, <2>1, <2>10
<1> QED BY <1>5, <1>6

\* The node of an action that is declared once.
LEMMA NodeIs ==
    ASSUME CallingTypeOK, Calling!AllCompiled, NEW s \in Calling!AllSymbols,
           s.kind \in Calling!Actions, Calling!Once(s.name)
    PROVE  /\ s \in Calling!Ends => Calling!Chosen(Calling!Nodes(s.name, s.file)) = s
           /\ Calling!Chosen(Calling!Nodes(s.name, s.file)) \in {s, None}
<1> DEFINE N == Calling!Nodes(s.name, s.file)
           S == {x \in Calling!Ends : x.name = s.name /\ x.kind \in Calling!Actions}
<1>1. Calling!Ends \subseteq Calling!AllSymbols
    BY EdgesAre DEF Calling!Ends
<1>2. S \subseteq {s} /\ (s \in Calling!Ends => s \in S)
    BY <1>1, OnceIs
<1>3. N = IF \E x \in S : x.file = s.file THEN {x \in S : x.file = s.file} ELSE S
    BY DEF Calling!Nodes
<1> HIDE DEF S
<1>4. N \subseteq {s} /\ (s \in Calling!Ends => N = {s})
    BY <1>2, <1>3
<1> HIDE DEF N
<1>5. Calling!Chosen(N) = IF N = {} THEN None ELSE CHOOSE x \in N : TRUE
    BY DEF Calling!Chosen
<1> QED BY <1>4, <1>5 DEF N

LEMMA DualIs == CallingTypeOK => Calling!CallsAreDual
<1> SUFFICES ASSUME CallingTypeOK, callEdges = {} \/ Calling!AllCompiled,
                    NEW s, NEW r, Pair(s, r)
             PROVE  /\ r \in Calling!Outgoing(s.name, s.file) =>
                           s \in Calling!Incoming(r.name, r.file)
                    /\ s \in Calling!Incoming(r.name, r.file) =>
                           \/ r \in Calling!Outgoing(s.name, s.file)
                           \/ r.name \in Calling!Words(source[s.file][s.line])
    BY DEF Calling!CallsAreDual, Pair
<1> DEFINE into == Calling!EdgesIn(r.name, r.file)
           out == Calling!EdgesOut(s.name, s.file)
           mentioned == \E i \in Nat : InBody(s, r, i)
<1>1. /\ r \in Calling!Callees(s.name, s.file) <=> mentioned
      /\ mentioned => s \in Calling!Callers(r.name, r.file)
      /\ s \in Calling!Callers(r.name, r.file) =>
            mentioned \/ r.name \in Calling!Words(source[s.file][s.line])
    BY CalleesAre, CallersAre
<1>2. /\ Calling!Incoming(r.name, r.file) =
             IF into # {} THEN into ELSE Calling!Callers(r.name, r.file)
      /\ Calling!Outgoing(s.name, s.file) =
             IF out # {} THEN out ELSE Calling!Callees(s.name, s.file)
    BY DEF Calling!Incoming, Calling!Outgoing
<1>3. CASE callEdges = {}
    <2>1. into = {} /\ out = {}
        BY <1>3 DEF Calling!EdgesIn, Calling!EdgesOut
    <2> HIDE DEF into, out, mentioned
    <2> QED BY <1>1, <1>2, <2>1
<1>4. CASE Calling!AllCompiled
    <2>1. s # None /\ r # None
        BY SymbolsOfFiles DEF Pair
    <2>2. mentioned => <<s, "calls", r>> \in callEdges
        BY <1>4, EdgesAre
    <2>3. <<s, "calls", r>> \in callEdges <=> s \in into
        <3>1. ASSUME <<s, "calls", r>> \in callEdges
              PROVE  s \in into
            <4>1. r \in Calling!Ends
                BY <3>1 DEF Calling!Ends
            <4>2. Calling!Chosen(Calling!Nodes(r.name, r.file)) = r
                BY <1>4, <4>1, NodeIs DEF Pair
            <4> QED BY <3>1, <4>2 DEF Calling!EdgesIn
        <3>2. ASSUME s \in into
              PROVE  <<s, "calls", r>> \in callEdges
            <4>1. PICK e \in callEdges :
                     e[1] = s /\ e[3] = Calling!Chosen(Calling!Nodes(r.name, r.file))
                BY <3>2 DEF Calling!EdgesIn
            <4>2. e[3] \in Calling!AllSymbols /\ (e[2] = "calls" \/ e[1].kind = "monitor")
                BY <1>4, EdgesAre
            <4>3. e[3] = r
                BY <1>4, <4>1, <4>2, NodeIs, SymbolsOfFiles DEF Pair
            <4>4. e[2] = "calls"
                BY <4>1, <4>2 DEF Pair, Calling!Actions
            <4>5. e = <<e[1], e[2], e[3]>>
                BY <1>4 DEF Calling!AllCompiled, Calling!Compiled
            <4> QED BY <4>1, <4>3, <4>4, <4>5
        <3> QED BY <3>1, <3>2
    <2>4. <<s, "calls", r>> \in callEdges <=> r \in out
        <3>1. ASSUME <<s, "calls", r>> \in callEdges
              PROVE  r \in out
            <4>1. s \in Calling!Ends
                BY <3>1 DEF Calling!Ends
            <4>2. Calling!Chosen(Calling!Nodes(s.name, s.file)) = s
                BY <1>4, <4>1, NodeIs DEF Pair
            <4> QED BY <3>1, <4>2 DEF Calling!EdgesOut
        <3>2. ASSUME r \in out
              PROVE  <<s, "calls", r>> \in callEdges
            <4>1. PICK e \in callEdges :
                     /\ e[1] = Calling!Chosen(Calling!Nodes(s.name, s.file))
                     /\ e[2] = "calls" /\ e[3] = r
                BY <3>2 DEF Calling!EdgesOut
            <4>2. e[1] \in Calling!AllSymbols
                BY <1>4, EdgesAre
            <4>3. e[1] = s
                BY <1>4, <4>1, <4>2, NodeIs, SymbolsOfFiles DEF Pair
            <4>4. e = <<e[1], e[2], e[3]>>
                BY <1>4 DEF Calling!AllCompiled, Calling!Compiled
            <4> QED BY <4>1, <4>3, <4>4
        <3> QED BY <3>1, <3>2
    <2> HIDE DEF into, out, mentioned
    <2> QED BY <1>1, <1>2, <2>2, <2>3, <2>4
<1> QED BY <1>3, <1>4

\* Incoming and outgoing calls agree, with the edges of all files and without edges,
\* also while the index lags behind the text (get_incoming_calls, get_outgoing_calls).
THEOREM CallingInductive == Calling!Spec => []CallsAreDual
<1>1. Calling!Init => CallingTypeOK
    BY DEF Calling!Init, CallingTypeOK
<1>2. CallingTypeOK /\ [Calling!Next]_(Calling!vars) => CallingTypeOK'
    <2> SUFFICES ASSUME CallingTypeOK, [Calling!Next]_(Calling!vars)
                 PROVE  CallingTypeOK'
        OBVIOUS
    <2>1. ASSUME NEW f \in Calling!AllFiles, NEW l \in Lines, Calling!Type(f, l)
          PROVE  CallingTypeOK'
        <3>1. Append(source[f], l) \in Seq(Lines)
            BY DEF CallingTypeOK
        <3>2. source' = [source EXCEPT ![f] = Append(source[f], l)] /\ indexed' = indexed
            BY <2>1 DEF Calling!Type, CallingTypeOK
        <3> QED BY <3>1, <3>2 DEF CallingTypeOK
    <2>2. ASSUME NEW f \in Calling!AllFiles, Calling!Index(f)
          PROVE  CallingTypeOK'
        BY <2>2 DEF Calling!Index, CallingTypeOK
    <2>3. ASSUME NEW f \in Calling!AllFiles, Calling!Compile(f)
          PROVE  CallingTypeOK'
        BY <2>3 DEF Calling!Compile, CallingTypeOK
    <2>4. CASE UNCHANGED Calling!vars
        BY <2>4 DEF Calling!vars, CallingTypeOK
    <2> QED BY <2>1, <2>2, <2>3, <2>4 DEF Calling!Next
<1>3. CallingTypeOK => CallsAreDual
    BY DualIs DEF CallsAreDual
<1> QED BY <1>1, <1>2, <1>3, PTL DEF Calling!Spec
=============================================================================
