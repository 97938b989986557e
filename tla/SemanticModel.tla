---------------------------- MODULE SemanticModel ----------------------------
(***************************************************************************)
(* SemanticModel (core/semantic/model.py): the graph that the three        *)
(* analysis tiers write and every reader queries.  A value of the class is *)
(* a record; an operation is an operator from a record to a record, since  *)
(* each of them runs under the model's lock.  What a node says is cut down *)
(* to its type and the text it was read from; a node's file and name are   *)
(* part of its id.  The version counter, which only grows, is left out.    *)
(***************************************************************************)
EXTENDS Naturals

CONSTANTS Ids,        \* node ids
          Files,
          FileOf,     \* of an id: the file it was made for
          Named,      \* ids whose node has a name (annotations have none)
          Types,      \* node classes
          Texts,      \* what a node was read from
          Edges       \* <<end, type, end>> that may occur; an end is an id, or
                      \*   the name of a sort that is none

ASSUME ModelAssumption ==
    /\ FileOf \in [Ids -> Files]
    /\ Named \subseteq Ids

Nodes == [id : Ids, type : Types, text : Texts]
NoNode == [type |-> "none"]
\* Adjacency lists, as how often each edge occurs in them.
Lists == [Edges -> Nat]

Models == [node : [Ids -> Nodes \cup {NoNode}], tier : [Ids -> 0 .. 3],
           byType : SUBSET (Types \X Ids), byFile : SUBSET Ids,
           byName : SUBSET Ids, edges : SUBSET Edges,
           outgoing : Lists, incoming : Lists]

EmptyModel == [node |-> [i \in Ids |-> NoNode], tier |-> [i \in Ids |-> 0],
               byType |-> {}, byFile |-> {}, byName |-> {}, edges |-> {},
               outgoing |-> [e \in Edges |-> 0],
               incoming |-> [e \in Edges |-> 0]]

IdsOf(nodes) == {n.id : n \in nodes}
Present(m) == {i \in Ids : m.node[i] # NoNode}

\* The entries the type index has for these ids under their present types.
TypeEntries(m, ids) == {<<m.node[i].type, i>> : i \in ids \cap Present(m)}

\* add_node, and the inner loops of update_file and merge_from: an old node of
\* the id stays in the index of its type.
\* The nodes enter the dictionary and the indexes; of those with one id, a type and
\* an action of the same name, the last wins, any here.
Put(m, nodes, tier) ==
    LET new == IdsOf(nodes)
        Of(i) == CHOOSE n \in nodes : n.id = i
    IN  [m EXCEPT
           !.node = [i \in Ids |-> IF i \in new THEN Of(i) ELSE @[i]],
           !.tier = [i \in Ids |-> IF i \in new /\ tier # 0 THEN tier ELSE @[i]],
           !.byType = @ \cup {<<Of(i).type, i>> : i \in new},
           !.byFile = @ \cup new,
           !.byName = @ \cup (new \cap Named)]

\* Edges that are known already are not added again.
AddEdges(m, edges) ==
    LET new == edges \ m.edges
        Longer(list) == [e \in Edges |-> IF e \in new THEN list[e] + 1
                                         ELSE list[e]]
    IN  [m EXCEPT !.edges = @ \cup new, !.outgoing = Longer(@),
                  !.incoming = Longer(@)]

\* Mutant: edges that end at a removed node stay in its incoming list.
WithoutOneSided(m, gone) ==
    LET cut == {e \in m.edges : e[1] \in gone \/ e[3] \in gone}
        Shorter(list) == [e \in Edges |-> IF e \in cut THEN 0 ELSE list[e]]
    IN  [m EXCEPT !.node = [i \in Ids |-> IF i \in gone THEN NoNode ELSE @[i]],
                  !.tier = [i \in Ids |-> IF i \in gone THEN 0 ELSE @[i]],
                  !.byType = @ \ TypeEntries(m, gone),
                  !.byFile = @ \ gone,
                  !.byName = @ \ gone,
                  !.edges = @ \ cut,
                  !.outgoing = Shorter(@)]

\* The nodes and every edge at one of them.
Without(m, gone) ==
    LET cut == {e \in m.edges : e[1] \in gone \/ e[3] \in gone}
        Shorter(list) == [e \in Edges |-> IF e \in cut /\ list[e] > 0
                                          THEN list[e] - 1 ELSE list[e]]
    IN  [m EXCEPT !.node = [i \in Ids |-> IF i \in gone THEN NoNode ELSE @[i]],
                  !.tier = [i \in Ids |-> IF i \in gone THEN 0 ELSE @[i]],
                  !.byType = @ \ TypeEntries(m, gone),
                  !.byFile = @ \ gone,
                  !.byName = @ \ gone,
                  !.edges = @ \ cut,
                  !.outgoing = Shorter(@), !.incoming = Shorter(@)]

InFile(m, file) == {i \in m.byFile : FileOf[i] = file}

RemoveFile(m, file) == Without(m, InFile(m, file))

RankOf(m, id) == IF m.tier[id] = 0 THEN 1 ELSE m.tier[id]

\* Mutant: nodes of the tier that is updated are not removed first.
UpdateFileOfLower(m, file, nodes, edges, tier) ==
    LET old == {i \in InFile(m, file) : RankOf(m, i) < tier}
        rest == Without(m, old)
        taken == {n \in nodes : rest.tier[n.id] <= tier}
        clean == [rest EXCEPT !.byType = @ \ TypeEntries(rest, IdsOf(taken))]
    IN  AddEdges(Put(clean, taken, tier), edges)

UpdateFile(m, file, nodes, edges, tier) ==
    LET old == {i \in InFile(m, file) : RankOf(m, i) <= tier}
        rest == Without(m, old)
        taken == {n \in nodes : rest.tier[n.id] <= tier}
        clean == [rest EXCEPT !.byType = @ \ TypeEntries(rest, IdsOf(taken))]
    IN  AddEdges(Put(clean, taken, tier), edges)

\* Tiers are those the nodes carry, which annotations do not.
MergeFrom(m, other) ==
    LET new == {other.node[i] : i \in Present(other)}
        merged == Put(m, new, 0)
    IN  AddEdges([merged EXCEPT !.tier =
                     [i \in Ids |-> IF other.tier[i] # 0 THEN other.tier[i]
                                    ELSE @[i]]], other.edges)

(***************************************************************************)
(* Queries                                                                 *)
(***************************************************************************)
OfType(m, type) == {i \in Ids : <<type, i>> \in m.byType}
NodesInFile(m, file) == InFile(m, file) \cap Present(m)
(***************************************************************************)
(* The indexes, the adjacency lists and the dictionary say the same.       *)
(***************************************************************************)
Coherent(m) ==
    /\ \A i \in Present(m) : m.node[i].id = i
    /\ m.byType = TypeEntries(m, Ids)
    /\ m.byFile = Present(m)
    /\ m.byName = Present(m) \cap Named
    /\ \A i \in Ids : m.tier[i] # 0 => i \in Present(m)
    /\ \A e \in Edges : m.outgoing[e] = (IF e \in m.edges THEN 1 ELSE 0)
    /\ m.incoming = m.outgoing
=============================================================================
