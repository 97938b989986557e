----------------------- MODULE SemanticAnalysis_proofs -----------------------
(***************************************************************************)
(* Proofs about SemanticModel and AnalysisPipeline, for any nodes, files,  *)
(* tiers and edges, any number of calls and any texts.  The operations of  *)
(* the model keep it coherent and, for nodes of one text, each tier of a   *)
(* file of one text: that is shown of the operators, whoever calls them.   *)
(* What is left for the pipeline is that every thread calls them with      *)
(* nodes of one file, read from one text.  Then the sessions of the parser *)
(* that tier 1 is read in (Parsing), for any threads and files.  Then the  *)
(* models that a server builds, stores and merges (ModelBuilder).          *)
(***************************************************************************)
EXTENDS SemanticAnalysis, FiniteSetTheorems, SequenceTheorems, WellFoundedInduction, TLAPS

-----------------------------------------------------------------------------
(* The operations of a model.                                               *)

LEMMA NodesAreThere == NoNode \notin Nodes
BY DEF NoNode, Nodes

LEMMA PresentOf ==
    ASSUME NEW m \in Models, NEW i \in Ids
    PROVE  /\ i \in Present(m) <=> m.node[i] \in Nodes
           /\ i \notin Present(m) <=> m.node[i] = NoNode
BY NodesAreThere DEF Present, Models

\* w is m without some nodes and the edges at them.
IsWithout(w, m, gone) ==
    LET Cut(e) == e \in m.edges /\ (e[1] \in gone \/ e[3] \in gone)
    IN  /\ w \in Models
        /\ \A i \in Ids : /\ w.node[i] = IF i \in gone THEN NoNode ELSE m.node[i]
                          /\ w.tier[i] = IF i \in gone THEN 0 ELSE m.tier[i]
        /\ w.byType = m.byType \ TypeEntries(m, gone)
        /\ w.byFile = m.byFile \ gone /\ w.byName = m.byName \ gone
        /\ \A e \in Edges :
              /\ e \in w.edges <=> e \in m.edges /\ ~Cut(e)
              /\ w.outgoing[e] = IF Cut(e) /\ m.outgoing[e] > 0 THEN m.outgoing[e] - 1
                                 ELSE m.outgoing[e]
              /\ w.incoming[e] = IF Cut(e) /\ m.incoming[e] > 0 THEN m.incoming[e] - 1
                                 ELSE m.incoming[e]

LEMMA WithoutFields ==
    ASSUME NEW m \in Models, NEW gone \in SUBSET Ids
    PROVE  IsWithout(Without(m, gone), m, gone)
<1> DEFINE cut == {e \in m.edges : e[1] \in gone \/ e[3] \in gone}
           Shorter(list) == [e \in Edges |-> IF e \in cut /\ list[e] > 0
                                             THEN list[e] - 1 ELSE list[e]]
           node == [i \in Ids |-> IF i \in gone THEN NoNode ELSE m.node[i]]
           tier == [i \in Ids |-> IF i \in gone THEN 0 ELSE m.tier[i]]
           byType == m.byType \ TypeEntries(m, gone)
           byFile == m.byFile \ gone
           byName == m.byName \ gone
           edges == m.edges \ cut
           out == Shorter(m.outgoing)
           into == Shorter(m.incoming)
           w == Without(m, gone)
<1>1. /\ node \in [Ids -> Nodes \cup {NoNode}] /\ tier \in [Ids -> 0 .. 3]
      /\ byType \in SUBSET (Types \X Ids) /\ byFile \in SUBSET Ids
      /\ byName \in SUBSET Ids /\ edges \in SUBSET Edges
    BY DEF Models
<1>2. out \in Lists /\ into \in Lists
    BY DEF Models, Lists
<1>3. w = [m EXCEPT !.node = node, !.tier = tier, !.byType = byType, !.byFile = byFile,
                    !.byName = byName, !.edges = edges, !.outgoing = out, !.incoming = into]
    BY DEF Without
<1>4. \A e \in Edges : /\ out[e] = IF e \in cut /\ m.outgoing[e] > 0
                                   THEN m.outgoing[e] - 1 ELSE m.outgoing[e]
                       /\ into[e] = IF e \in cut /\ m.incoming[e] > 0
                                    THEN m.incoming[e] - 1 ELSE m.incoming[e]
    OBVIOUS
<1>5. \A i \in Ids : /\ node[i] = IF i \in gone THEN NoNode ELSE m.node[i]
                     /\ tier[i] = IF i \in gone THEN 0 ELSE m.tier[i]
    OBVIOUS
<1>6. \A e \in Edges : /\ e \in cut <=> e \in m.edges /\ (e[1] \in gone \/ e[3] \in gone)
                       /\ e \in edges <=> e \in m.edges /\ e \notin cut
    OBVIOUS
<1> HIDE DEF node, tier, byType, byFile, byName, edges, out, into, cut
<1>7. /\ w \in Models /\ w.node = node /\ w.tier = tier /\ w.byType = byType
      /\ w.byFile = byFile /\ w.byName = byName /\ w.edges = edges
      /\ w.outgoing = out /\ w.incoming = into
    BY <1>1, <1>2, <1>3 DEF Models
<1> HIDE DEF w
<1>8. w.byType = m.byType \ TypeEntries(m, gone) /\ w.byFile = m.byFile \ gone
      /\ w.byName = m.byName \ gone
    BY <1>7 DEF byType, byFile, byName
<1>9. IsWithout(w, m, gone)
    BY <1>4, <1>5, <1>6, <1>7, <1>8 DEF IsWithout
<1> QED BY <1>9 DEF w

\* A model whose nodes are removed is coherent and has the others as they were.
LEMMA WithoutKeeps ==
    ASSUME NEW m \in Models, Coherent(m), NEW gone \in SUBSET Ids
    PROVE  /\ Without(m, gone) \in Models /\ Coherent(Without(m, gone))
           /\ Present(Without(m, gone)) = Present(m) \ gone
           /\ \A i \in Ids \ gone : /\ Without(m, gone).node[i] = m.node[i]
                                    /\ Without(m, gone).tier[i] = m.tier[i]
<1> DEFINE w == Without(m, gone)
<1>0. IsWithout(w, m, gone)
    BY WithoutFields
<1> HIDE DEF w
<1>1. /\ w \in Models /\ w.byType = m.byType \ TypeEntries(m, gone)
      /\ w.byFile = m.byFile \ gone /\ w.byName = m.byName \ gone
    BY <1>0 DEF IsWithout
<1>3. \A i \in Ids : w.node[i] = (IF i \in gone THEN NoNode ELSE m.node[i])
                     /\ w.tier[i] = (IF i \in gone THEN 0 ELSE m.tier[i])
    BY <1>0 DEF IsWithout
<1>4. Present(w) = Present(m) \ gone
    BY <1>3 DEF Present
<1>5. TypeEntries(w, Ids) = TypeEntries(m, Ids) \ TypeEntries(m, gone)
    BY <1>3, <1>4 DEF TypeEntries
<1>6. \A i \in Present(w) : w.node[i].id = i
    BY <1>3, <1>4 DEF Coherent, Present
<1>7. /\ \A e \in Edges : w.outgoing[e] = (IF e \in w.edges THEN 1 ELSE 0)
      /\ w.incoming = w.outgoing
    <2>1. \A e \in Edges : w.outgoing[e] = (IF e \in w.edges THEN 1 ELSE 0)
                           /\ w.incoming[e] = w.outgoing[e]
        BY <1>0 DEF Coherent, IsWithout
    <2>2. w.incoming \in [Edges -> Nat] /\ w.outgoing \in [Edges -> Nat]
        BY <1>1 DEF Models, Lists
    <2> QED BY <2>1, <2>2
<1>8. Coherent(w)
    BY <1>1, <1>3, <1>4, <1>5, <1>6, <1>7 DEF Coherent
<1> QED BY <1>1, <1>3, <1>4, <1>8 DEF w

LEMMA AddEdgesKeeps ==
    ASSUME NEW m \in Models, Coherent(m), NEW edges \in SUBSET Edges
    PROVE  /\ AddEdges(m, edges) \in Models /\ Coherent(AddEdges(m, edges))
           /\ AddEdges(m, edges).node = m.node /\ AddEdges(m, edges).tier = m.tier
<1> DEFINE new == edges \ m.edges
           Longer(list) == [e \in Edges |-> IF e \in new THEN list[e] + 1 ELSE list[e]]
           out == Longer(m.outgoing)
           into == Longer(m.incoming)
           w == AddEdges(m, edges)
<1>1. w = [m EXCEPT !.edges = @ \cup new, !.outgoing = out, !.incoming = into]
    BY DEF AddEdges
<1>2. out \in Lists /\ into \in Lists /\ out = into
    BY DEF Models, Lists, Coherent
<1>3. \A e \in Edges : out[e] = IF e \in m.edges \cup new THEN 1 ELSE 0
    BY DEF Coherent
<1>4. new \subseteq Edges
    OBVIOUS
<1> HIDE DEF new, out, into
<1>5. /\ w \in Models /\ w.node = m.node /\ w.tier = m.tier /\ w.byType = m.byType
      /\ w.byFile = m.byFile /\ w.byName = m.byName /\ w.edges = m.edges \cup new
      /\ w.outgoing = out /\ w.incoming = into
    BY <1>1, <1>2, <1>4 DEF Models
<1> HIDE DEF w
<1>6. Present(w) = Present(m) /\ TypeEntries(w, Ids) = TypeEntries(m, Ids)
    BY <1>5 DEF Present, TypeEntries
<1>7. Coherent(w)
    BY <1>2, <1>3, <1>5, <1>6 DEF Coherent
<1> QED BY <1>5, <1>7 DEF w

\* w is m with these nodes, at this tier, in the place of what their ids were.
IsPut(w, m, nodes, tier) ==
    LET new == IdsOf(nodes)
    IN  /\ w \in Models
        /\ \A i \in Ids :
              /\ i \in new => w.node[i] \in nodes /\ w.node[i].id = i /\ w.tier[i] = tier
              /\ i \notin new => w.node[i] = m.node[i] /\ w.tier[i] = m.tier[i]
        /\ w.byType = m.byType \cup {<<w.node[i].type, i>> : i \in new}
        /\ w.byFile = m.byFile \cup new
        /\ w.byName = m.byName \cup (new \cap Named)
        /\ w.edges = m.edges /\ w.outgoing = m.outgoing /\ w.incoming = m.incoming

LEMMA PutFields ==
    ASSUME NEW m \in Models, NEW nodes \in SUBSET Nodes, NEW tier \in 1 .. 3
    PROVE  IsPut(Put(m, nodes, tier), m, nodes, tier)
<1> DEFINE new == IdsOf(nodes)
           Of(i) == CHOOSE n \in nodes : n.id = i
           node == [i \in Ids |-> IF i \in new THEN Of(i) ELSE m.node[i]]
           tiers == [i \in Ids |-> IF i \in new /\ tier # 0 THEN tier ELSE m.tier[i]]
           byType == m.byType \cup {<<Of(i).type, i>> : i \in new}
           byFile == m.byFile \cup new
           byName == m.byName \cup (new \cap Named)
           w == Put(m, nodes, tier)
<1>1. new \subseteq Ids /\ \A i \in new : Of(i) \in nodes /\ Of(i).id = i
    BY DEF IdsOf, Nodes
<1>2. w = [m EXCEPT !.node = node, !.tier = tiers, !.byType = byType, !.byFile = byFile,
                    !.byName = byName]
    BY DEF Put
<1> HIDE DEF new, Of
<1>3. \A i \in new : Of(i) \in Nodes /\ Of(i).type \in Types
    BY <1>1 DEF Nodes
<1>4. /\ node \in [Ids -> Nodes \cup {NoNode}] /\ tiers \in [Ids -> 0 .. 3]
      /\ byType \in SUBSET (Types \X Ids) /\ byFile \in SUBSET Ids /\ byName \in SUBSET Ids
    BY <1>1, <1>3 DEF Models
<1>5. \A i \in Ids : /\ i \in new => node[i] = Of(i) /\ tiers[i] = tier
                     /\ i \notin new => node[i] = m.node[i] /\ tiers[i] = m.tier[i]
    OBVIOUS
<1>6. byType = m.byType \cup {<<node[i].type, i>> : i \in new}
    BY <1>1, <1>5
<1> HIDE DEF node, tiers, byType
<1>7. /\ w \in Models /\ w.node = node /\ w.tier = tiers /\ w.byType = byType
      /\ w.byFile = byFile /\ w.byName = byName /\ w.edges = m.edges
      /\ w.outgoing = m.outgoing /\ w.incoming = m.incoming
    BY <1>2, <1>4 DEF Models
<1> HIDE DEF w
<1>8. IsPut(w, m, nodes, tier)
    BY <1>1, <1>5, <1>6, <1>7 DEF IsPut, new
<1> QED BY <1>8 DEF w

IsSound(m) == m \in Models /\ Coherent(m) /\ OneText(m)

LEMMA RemoveKeeps ==
    ASSUME NEW m, IsSound(m), NEW f
    PROVE  IsSound(RemoveFile(m, f))
<1> DEFINE gone == InFile(m, f)
<1>1. gone \in SUBSET Ids
    BY DEF InFile, IsSound, Models
<1> DEFINE w == Without(m, gone)
<1> HIDE DEF gone
<1>2. /\ w \in Models /\ Coherent(w) /\ Present(w) = Present(m) \ gone
      /\ \A i \in Ids \ gone : w.node[i] = m.node[i] /\ w.tier[i] = m.tier[i]
    BY <1>1, WithoutKeeps DEF IsSound
<1> HIDE DEF w
<1>3. OneText(w)
    BY <1>2 DEF IsSound, OneText, RankOf, Present
<1>4. IsSound(w)
    BY <1>2, <1>3 DEF IsSound
<1> QED BY <1>4 DEF RemoveFile, w, gone

LEMMA UpdateKeeps ==
    ASSUME NEW m, IsSound(m), NEW f \in Files, NEW x,
           NEW nodes \in SUBSET {n \in Nodes : FileOf[n.id] = f /\ n.text = x},
           NEW edges \in SUBSET Edges, NEW tier \in 1 .. 3
    PROVE  IsSound(UpdateFile(m, f, nodes, edges, tier))
<1> DEFINE old == {i \in InFile(m, f) : RankOf(m, i) <= tier}
           rest == Without(m, old)
           taken == {n \in nodes : rest.tier[n.id] <= tier}
           new == IdsOf(taken)
           clean == [rest EXCEPT !.byType = @ \ TypeEntries(rest, new)]
           put == Put(clean, taken, tier)
           w == AddEdges(put, edges)
<1>1. m \in Models /\ Coherent(m) /\ OneText(m)
    BY DEF IsSound
<1>2. /\ old \in SUBSET Ids
      /\ \A i \in Ids : i \in old <=> i \in Present(m) /\ FileOf[i] = f /\ RankOf(m, i) <= tier
    BY <1>1 DEF InFile, Models, Coherent
<1>3. /\ taken \in SUBSET Nodes /\ new \in SUBSET Ids /\ \A i \in new : FileOf[i] = f
      /\ \A n \in taken : n.text = x
    BY DEF IdsOf, Nodes
<1>4. w = UpdateFile(m, f, nodes, edges, tier)
    BY DEF UpdateFile
<1> HIDE DEF old
<1>5. /\ rest \in Models /\ Coherent(rest) /\ Present(rest) = Present(m) \ old
      /\ \A i \in Ids \ old : rest.node[i] = m.node[i] /\ rest.tier[i] = m.tier[i]
    BY <1>1, <1>2, WithoutKeeps
<1> HIDE DEF rest, taken, new
<1>6. /\ clean \in Models /\ clean.node = rest.node /\ clean.tier = rest.tier
      /\ clean.byType = rest.byType \ TypeEntries(rest, new)
      /\ clean.byFile = rest.byFile /\ clean.byName = rest.byName
      /\ clean.edges = rest.edges /\ clean.outgoing = rest.outgoing
      /\ clean.incoming = rest.incoming
    BY <1>5 DEF Models
<1> HIDE DEF clean
<1>7. IsPut(put, clean, taken, tier)
    BY <1>3, <1>6, PutFields
<1> HIDE DEF put
<1>8. /\ put \in Models
      /\ \A i \in Ids :
            /\ i \in new => put.node[i] \in taken /\ put.node[i].id = i /\ put.tier[i] = tier
            /\ i \notin new => put.node[i] = rest.node[i] /\ put.tier[i] = rest.tier[i]
      /\ put.byType = clean.byType \cup {<<put.node[i].type, i>> : i \in new}
      /\ put.byFile = rest.byFile \cup new
      /\ put.byName = rest.byName \cup (new \cap Named)
      /\ put.edges = rest.edges /\ put.outgoing = rest.outgoing
      /\ put.incoming = rest.incoming
    BY <1>6, <1>7 DEF IsPut, new
<1>9. Present(put) = Present(rest) \cup new
    BY <1>3, <1>8, NodesAreThere DEF Present
<1>10. put.byType = TypeEntries(put, Ids)
    <2>1. rest.byType = TypeEntries(rest, Ids)
        BY <1>5 DEF Coherent
    <2>2. put.byType = (TypeEntries(rest, Ids) \ TypeEntries(rest, new))
                       \cup {<<put.node[i].type, i>> : i \in new}
        BY <1>6, <1>8, <2>1
    <2>3. \A i \in Present(rest) \ new : put.node[i].type = rest.node[i].type
        BY <1>8 DEF Present
    <2>4. TypeEntries(rest, Ids) \ TypeEntries(rest, new)
             = {<<rest.node[i].type, i>> : i \in Present(rest) \ new}
        BY <1>3 DEF TypeEntries, Present
    <2>5. TypeEntries(put, Ids) = {<<put.node[i].type, i>> : i \in Present(rest) \cup new}
        BY <1>3, <1>9 DEF TypeEntries, Present
    <2> QED BY <2>2, <2>3, <2>4, <2>5
<1>11. Coherent(put)
    <2>1. \A i \in Present(put) : put.node[i].id = i
        BY <1>5, <1>8, <1>9 DEF Coherent, Present
    <2>2. put.byFile = Present(put) /\ put.byName = Present(put) \cap Named
        BY <1>5, <1>8, <1>9 DEF Coherent
    <2>3. \A i \in Ids : put.tier[i] # 0 => i \in Present(put)
        BY <1>5, <1>8, <1>9 DEF Coherent
    <2> QED BY <1>5, <1>8, <1>10, <2>1, <2>2, <2>3 DEF Coherent
<1>12. OneText(put)
    <2>1. ASSUME NEW i \in new
          PROVE  /\ put.node[i].text = x /\ RankOf(put, i) = tier /\ FileOf[i] = f
        BY <1>3, <1>8 DEF RankOf
    <2>2. ASSUME NEW i \in Present(put) \ new
          PROVE  /\ i \in Present(m) /\ put.node[i] = m.node[i] /\ RankOf(put, i) = RankOf(m, i)
                 /\ FileOf[i] = f => RankOf(put, i) > tier
        <3>1. i \in Present(m) /\ i \notin old /\ i \in Ids
            BY <1>5, <1>9, <2>2 DEF Present
        <3>2. put.node[i] = m.node[i] /\ put.tier[i] = m.tier[i]
            BY <1>5, <1>8, <2>2, <3>1
        <3>3. RankOf(m, i) \in Nat
            BY <1>1, <3>1 DEF RankOf, Models
        <3> QED BY <1>2, <3>1, <3>2, <3>3 DEF RankOf
    <2>3. ASSUME NEW i \in Present(put), NEW j \in Present(put),
                 FileOf[i] = FileOf[j], RankOf(put, i) = RankOf(put, j)
          PROVE  put.node[i].text = put.node[j].text
        <3>1. CASE i \in new /\ j \in new
            BY <2>1, <3>1
        <3>2. CASE i \notin new /\ j \notin new
            BY <1>1, <2>2, <2>3, <3>2 DEF OneText
        <3>3. CASE i \in new /\ j \notin new
            BY <2>1, <2>2, <2>3, <3>3
        <3>4. CASE i \notin new /\ j \in new
            BY <2>1, <2>2, <2>3, <3>4
        <3> QED BY <3>1, <3>2, <3>3, <3>4
    <2> QED BY <2>3 DEF OneText
<1>13. w \in Models /\ Coherent(w) /\ w.node = put.node /\ w.tier = put.tier
    BY <1>8, <1>11, AddEdgesKeeps
<1> HIDE DEF w
<1>14. OneText(w)
    BY <1>12, <1>13 DEF OneText, Present, RankOf
<1> QED BY <1>4, <1>13, <1>14 DEF IsSound

-----------------------------------------------------------------------------
(* What the threads carry.                                                  *)

CallPoints == {"idle", "tier1", "tier1Track", "tier2", "tier2Track", "target", "note",
               "flag", "submit", "compiling", "check", "fetch", "enrich", "record",
               "lower", "done"}
CallRecords == [at : CallPoints, file : Files \cup {""}, text : 0 .. MaxText, gen : Nat,
                ok : BOOLEAN]
TaskPoints == {"none", "tier1", "tier1Track", "ready", "failed", "collected", "lost"}
TaskRecords == [at : TaskPoints, text : 0 .. MaxText]

TypeOK ==
    /\ text \in [Files -> TextNos] /\ gen \in [Files -> Nat]
    /\ cached \in [Files -> 0 .. MaxText]
    /\ call \in [Calls -> CallRecords] /\ task \in [Files -> TaskRecords]
    /\ pending \in Nat

\* A call has a file and, while it runs tiers, the text it read; what it gives
\* tier 3 is the cached text, if that is there.
CallsKnowTheirText ==
    \A c \in Calls :
        /\ call[c].at # "idle" => call[c].file \in Files
        /\ call[c].at \in {"tier1", "tier1Track", "tier2", "tier2Track"} =>
              call[c].text \in TextNos

IsBulk(b) ==
    b = [at |-> b.at, t2 |-> b.t2, list |-> b.list, next |-> b.next, t1Done |-> b.t1Done,
         t2Done |-> b.t2Done, errors |-> b.errors, cancelled |-> b.cancelled,
         running |-> b.running, completed |-> b.completed]

\* The bulk run has read the file whose tiers it runs.
BulkKnowsItsText ==
    /\ IsBulk(bulk)
    /\ \A f \in Files : task[f].at \in {"tier1", "tier1Track", "ready"} =>
           task[f].text \in TextNos
    /\ bulk.at \in {"tier1", "tier2", "tier2Track"} =>
           BulkFile \in Files /\ BulkText \in TextNos

IInv == TypeOK /\ CallsKnowTheirText /\ BulkKnowsItsText /\ IsSound(model) /\ PendingIsExact
-----------------------------------------------------------------------------
(* The tiers.                                                               *)

LEMMA TextsOf ==
    ASSUME NEW f \in Files, NEW x \in TextNos
    PROVE  LET Own == {n \in Nodes : FileOf[n.id] = f /\ n.text = x}
           IN  /\ Annotations(f, x) \subseteq Own
               /\ Tier2Nodes(f, x) \subseteq Own /\ Tier2Edges(f, x) \subseteq Edges
               /\ NodesOf(Compiled[<<f, x>>], x) \subseteq Own
               /\ EdgesIn["tier3"][<<f, x>>] \subseteq Edges
<1> DEFINE Own == {n \in Nodes : FileOf[n.id] = f /\ n.text = x}
<1>1. ASSUME NEW pairs \in SUBSET (IdsIn(f) \X Types)
      PROVE  NodesOf(pairs, x) \subseteq Own
    BY PipelineAssumption DEF NodesOf, IdsIn, Nodes
<1>2. /\ Annotated[<<f, x>>] \subseteq IdsIn(f) /\ "annotation" \in Types
      /\ Declared[<<f, x>>] \subseteq IdsIn(f) \X Types
      /\ Compiled[<<f, x>>] \subseteq IdsIn(f) \X Types
      /\ EdgesIn["tier2"][<<f, x>>] \subseteq Edges
      /\ EdgesIn["tier3"][<<f, x>>] \subseteq Edges
    BY PipelineAssumption
<1>3. Annotations(f, x) \subseteq Own
    <2>1. Annotated[<<f, x>>] \X {"annotation"} \in SUBSET (IdsIn(f) \X Types)
        BY <1>2
    <2> QED BY <1>1, <2>1 DEF Annotations
<1>4. Tier2Nodes(f, x) \subseteq Own /\ Tier2Edges(f, x) \subseteq Edges
    BY <1>1, <1>2, <1>3 DEF Tier2Nodes, Tier2Edges
<1> QED BY <1>1, <1>2, <1>3, <1>4

\* Every tier leaves a sound model.
LEMMA TierKeeps ==
    ASSUME IsSound(model), NEW f \in Files,
           \/ \E x \in TextNos : Tier1Model(f, x) \/ Tier2Model(f, x)
           \/ \E x \in TextNos :
                 model' = UpdateFile(model, f, NodesOf(Compiled[<<f, x>>], x),
                                     EdgesIn["tier3"][<<f, x>>], 3)
           \/ model' = UpdateFile(model, f, {}, {}, 3)
    PROVE  IsSound(model')
<1> DEFINE Own(x) == {n \in Nodes : FileOf[n.id] = f /\ n.text = x}
<1>0. 1 \in 1 .. 3 /\ 2 \in 1 .. 3 /\ 3 \in 1 .. 3
    OBVIOUS
<1>1. ASSUME NEW x \in TextNos, Tier1Model(f, x)
      PROVE  IsSound(model')
    <2>1. Annotations(f, x) \in SUBSET Own(x) /\ {} \in SUBSET Edges
        BY TextsOf
    <2>2. IsSound(UpdateFile(model, f, Annotations(f, x), {}, 1))
        BY <1>0, <2>1, UpdateKeeps
    <2> QED BY <1>1, <2>2 DEF Tier1Model
<1>2. ASSUME NEW x \in TextNos, Tier2Model(f, x)
      PROVE  IsSound(model')
    <2>1. Tier2Nodes(f, x) \in SUBSET Own(x) /\ Tier2Edges(f, x) \in SUBSET Edges
        BY TextsOf
    <2>2. IsSound(UpdateFile(model, f, Tier2Nodes(f, x), Tier2Edges(f, x), 2))
        BY <1>0, <2>1, UpdateKeeps
    <2> QED BY <1>2, <2>2 DEF Tier2Model
<1>3. ASSUME NEW x \in TextNos
      PROVE  IsSound(UpdateFile(model, f, NodesOf(Compiled[<<f, x>>], x),
                                EdgesIn["tier3"][<<f, x>>], 3))
    <2>1. NodesOf(Compiled[<<f, x>>], x) \in SUBSET Own(x)
          /\ EdgesIn["tier3"][<<f, x>>] \in SUBSET Edges
        BY TextsOf
    <2> QED BY <1>0, <2>1, UpdateKeeps
<1>4. IsSound(UpdateFile(model, f, {}, {}, 3))
    <2>1. {} \in SUBSET Own(0) /\ {} \in SUBSET Edges
        OBVIOUS
    <2> QED BY <1>0, <2>1, UpdateKeeps
<1> QED BY <1>1, <1>2, <1>3, <1>4

-----------------------------------------------------------------------------
(* One file.                                                                *)

Counted == {"submit", "compiling", "check", "fetch", "enrich", "record", "lower"}
IsCounted(c, r) == ~Tracked(c) /\ r.at \in Counted

\* A call that goes from one record to another, and the count of the pending ones.
LEMMA CallMoves ==
    ASSUME IInv, NEW c \in Calls, NEW r \in CallRecords, call' = [call EXCEPT ![c] = r],
           r.at # "idle" => r.file \in Files,
           r.at \in {"tier1", "tier1Track", "tier2", "tier2Track"} => r.text \in TextNos,
           pending' = IF IsCounted(c, r) /\ ~IsCounted(c, call[c]) THEN pending + 1
                      ELSE IF ~IsCounted(c, r) /\ IsCounted(c, call[c]) THEN pending - 1
                      ELSE pending
    PROVE  /\ call' \in [Calls -> CallRecords] /\ CallsKnowTheirText'
           /\ PendingIsExact' /\ pending' \in Nat
<1> DEFINE Now == {d \in Calls : ~Tracked(d) /\ call[d].at \in Counted}
           Then == {d \in Calls : ~Tracked(d) /\ call'[d].at \in Counted}
<1>1. call \in [Calls -> CallRecords] /\ pending \in Nat
    BY DEF IInv, TypeOK
<1>2. /\ call' \in [Calls -> CallRecords] /\ call'[c] = r
      /\ \A d \in Calls \ {c} : call'[d] = call[d]
    BY <1>1
<1>3. CallsKnowTheirText'
    BY <1>2 DEF IInv, CallsKnowTheirText
<1>4. pending = Cardinality(Now)
    BY DEF IInv, PendingIsExact, Counted
<1>5. IsFiniteSet(Now)
    BY PipelineAssumption, FS_Subset
<1>6. /\ c \in Now <=> IsCounted(c, call[c])
      /\ c \in Then <=> IsCounted(c, r)
      /\ Now \ {c} = Then \ {c}
    BY <1>2 DEF IsCounted
<1> HIDE DEF Now, Then
<1>7. pending' = Cardinality(Then) /\ pending' \in Nat
    <2>1. CASE c \in Then /\ c \notin Now
        <3>1. Then = Now \cup {c}
            BY <1>6, <2>1
        <3>2. Cardinality(Now \cup {c}) = Cardinality(Now) + 1
            BY <1>5, <2>1, FS_AddElement
        <3> QED BY <1>1, <1>4, <1>6, <2>1, <3>1, <3>2
    <2>2. CASE c \notin Then /\ c \in Now
        <3>1. Then = Now \ {c}
            BY <1>6, <2>2
        <3>2. Cardinality(Now \ {c}) = Cardinality(Now) - 1 /\ IsFiniteSet(Now \ {c})
            BY <1>5, <2>2, FS_RemoveElement
        <3>3. Cardinality(Now \ {c}) \in Nat
            BY <3>2, FS_CardinalityType
        <3> QED BY <1>1, <1>4, <1>6, <2>2, <3>1, <3>2, <3>3
    <2>3. CASE c \in Then <=> c \in Now
        <3>1. Then = Now
            BY <1>6, <2>3
        <3> QED BY <1>1, <1>4, <1>6, <2>3, <3>1
    <2> QED BY <2>1, <2>2, <2>3
<1>8. PendingIsExact'
    BY <1>7 DEF PendingIsExact, Counted, Then, Tracked
<1> QED BY <1>1, <1>2, <1>3, <1>7, <1>8

\* A call that goes on, leaving the bulk run and the files' texts alone.
LEMMA CallGoes ==
    ASSUME IInv, NEW c \in Calls, NEW r \in CallRecords, call' = [call EXCEPT ![c] = r],
           r.at # "idle" => r.file \in Files,
           r.at \in {"tier1", "tier1Track", "tier2", "tier2Track"} => r.text \in TextNos,
           pending' = IF IsCounted(c, r) /\ ~IsCounted(c, call[c]) THEN pending + 1
                      ELSE IF ~IsCounted(c, r) /\ IsCounted(c, call[c]) THEN pending - 1
                      ELSE pending,
           UNCHANGED <<text, bulkVars>>, gen' \in [Files -> Nat],
           cached' \in [Files -> 0 .. MaxText], IsSound(model')
    PROVE  IInv'
<1>1. /\ call' \in [Calls -> CallRecords] /\ CallsKnowTheirText'
      /\ PendingIsExact' /\ pending' \in Nat
    BY CallMoves
<1>2. TypeOK'
    BY <1>1 DEF IInv, TypeOK, bulkVars, TextNos
<1>3. BulkKnowsItsText'
    BY DEF IInv, BulkKnowsItsText, IsBulk, bulkVars, BulkFile, BulkText, TextNos
<1>4. IsSound(model)'
    OBVIOUS
<1> QED BY <1>1, <1>2, <1>3, <1>4 DEF IInv

\* A call whose place alone changes, and the count with it.
LEMMA CallAt ==
    ASSUME IInv, NEW c \in Calls, NEW p \in CallPoints, At(c, p), call[c].at # "idle",
           p \in {"tier1", "tier1Track", "tier2", "tier2Track"} => call[c].text \in TextNos,
           LET Was == ~Tracked(c) /\ call[c].at \in Counted
               Is == ~Tracked(c) /\ p \in Counted
           IN  pending' = IF Is /\ ~Was THEN pending + 1
                          ELSE IF ~Is /\ Was THEN pending - 1 ELSE pending,
           UNCHANGED <<text, bulkVars>>, gen' \in [Files -> Nat],
           cached' \in [Files -> 0 .. MaxText], IsSound(model')
    PROVE  IInv'
<1> DEFINE r == [call[c] EXCEPT !.at = p]
<1>1. call[c] \in CallRecords /\ call[c].file \in Files
    BY DEF IInv, TypeOK, CallsKnowTheirText
<1>2. /\ r \in CallRecords /\ r.at = p /\ r.file = call[c].file /\ r.text = call[c].text
      /\ call' = [call EXCEPT ![c] = r]
    BY <1>1 DEF CallRecords, At
<1> HIDE DEF r
<1>3. /\ IsCounted(c, r) <=> ~Tracked(c) /\ p \in Counted
      /\ IsCounted(c, call[c]) <=> ~Tracked(c) /\ call[c].at \in Counted
    BY <1>2 DEF IsCounted
<1> QED BY <1>1, <1>2, <1>3, CallGoes

\* A call that is counted is one of at least one.
LEMMA SomePending ==
    ASSUME IInv, NEW c \in Calls, ~Tracked(c), call[c].at \in Counted
    PROVE  pending # 0
<1> DEFINE Now == {d \in Calls : ~Tracked(d) /\ call[d].at \in Counted}
<1>1. IsFiniteSet(Now) /\ c \in Now
    BY PipelineAssumption, FS_Subset
<1>2. pending = Cardinality(Now)
    BY DEF IInv, PendingIsExact, Counted
<1> QED BY <1>1, <1>2, FS_EmptySet

LEMMA CallKeeps ==
    ASSUME IInv, NEW c \in Calls, CallStep(c)
    PROVE  IInv'
<1> DEFINE f == call[c].file
           x == call[c].text
<1>1. /\ text \in [Files -> TextNos] /\ gen \in [Files -> Nat] /\ pending \in Nat
      /\ cached \in [Files -> 0 .. MaxText] /\ call \in [Calls -> CallRecords]
      /\ call[c] \in CallRecords /\ IsSound(model)
      /\ MaxText \in Nat /\ TextNos = 1 .. MaxText
    BY PipelineAssumption DEF IInv, TypeOK, TextNos
<1>2. /\ call[c].at # "idle" => f \in Files
      /\ call[c].at \in {"tier1", "tier1Track", "tier2", "tier2Track"} => x \in TextNos
    BY DEF IInv, CallsKnowTheirText
<1>3. /\ Counted = {"submit", "compiling", "check", "fetch", "enrich", "record", "lower"}
      /\ CallPoints = {"idle", "tier1", "tier1Track", "tier2", "tier2Track", "target",
                       "note", "flag", "submit", "compiling", "check", "fetch", "enrich",
                       "record", "lower", "done"}
    BY DEF Counted, CallPoints
<1>4. CASE Begin(c)
    <2> DEFINE r == [Idle EXCEPT
                       !.at = IF TriggerOf[c] = "command" THEN "target" ELSE "tier1",
                       !.file = FileOfCall[c], !.text = text[FileOfCall[c]]]
    <2>1. /\ FileOfCall[c] \in Files /\ text[FileOfCall[c]] \in TextNos
          /\ text[FileOfCall[c]] \in 0 .. MaxText
        BY <1>1, PipelineAssumption
    <2>2. /\ r \in CallRecords /\ r.at \in {"target", "tier1"} /\ r.file = FileOfCall[c]
          /\ r.text = text[FileOfCall[c]]
        BY <1>1, <1>3, <2>1 DEF Idle, CallRecords
    <2>3. call' = [call EXCEPT ![c] = r] /\ call[c].at = "idle"
        BY <1>4 DEF Begin
    <2> HIDE DEF r
    <2>4. ~IsCounted(c, r) /\ ~IsCounted(c, call[c])
        BY <1>3, <2>2, <2>3 DEF IsCounted
    <2>5. /\ pending' = pending /\ UNCHANGED <<text, bulkVars>> /\ gen' = gen
          /\ cached' = cached /\ model' = model
        BY <1>4 DEF Begin, tierVars, tier3Vars
    <2> QED BY <1>1, <2>1, <2>2, <2>3, <2>4, <2>5, CallGoes
<1>5. CASE CallTier1Model(c)
    <2>1. call[c].at = "tier1" /\ At(c, "tier1Track") /\ Tier1Model(f, x)
        BY <1>5 DEF CallTier1Model, Go
    <2>2. IsSound(model')
        BY <1>1, <1>2, <2>1, TierKeeps
    <2>3. /\ pending' = pending /\ UNCHANGED <<text, bulkVars>> /\ gen' = gen
          /\ cached' = cached
        BY <1>5 DEF CallTier1Model, tierVars, tier3Vars
    <2> QED BY <1>1, <1>2, <1>3, <2>1, <2>2, <2>3, CallAt
<1>6. CASE CallTier1Track(c)
    <2>1. /\ call[c].at = "tier1Track" /\ At(c, "tier2") /\ pending' = pending
          /\ UNCHANGED <<text, bulkVars>> /\ cached' = cached /\ model' = model
        BY <1>6 DEF CallTier1Track, Go, tier3Vars
    <2>2. gen' = [gen EXCEPT ![f] = @ + 1]
        BY <1>6 DEF CallTier1Track, Tier1Track
    <2>3. gen' \in [Files -> Nat]
        BY <1>1, <1>2, <2>1, <2>2
    <2> QED BY <1>1, <1>2, <1>3, <2>1, <2>3, CallAt
<1>7. CASE CallTier2Model(c)
    <2>1. /\ call[c].at = "tier2" /\ pending' = pending /\ UNCHANGED <<text, bulkVars>>
          /\ gen' = gen /\ cached' = cached
          /\ \/ At(c, "done") /\ model' = model
             \/ At(c, "tier2Track") /\ Tier2Model(f, x)
        BY <1>7 DEF CallTier2Model, Go, tierVars, tier3Vars
    <2>2. CASE At(c, "done") /\ model' = model
        BY <1>1, <1>2, <1>3, <2>1, <2>2, CallAt
    <2>3. CASE At(c, "tier2Track") /\ Tier2Model(f, x)
        <3>1. IsSound(model')
            BY <1>1, <1>2, <2>1, <2>3, TierKeeps
        <3> QED BY <1>1, <1>2, <1>3, <2>1, <2>3, <3>1, CallAt
    <2> QED BY <2>1, <2>2, <2>3
<1>8. CASE CallTier2Track(c)
    <2>1. /\ call[c].at = "tier2Track" /\ pending' = pending /\ UNCHANGED <<text, bulkVars>>
          /\ gen' = gen /\ cached' = cached /\ model' = model
          /\ At(c, "done") \/ At(c, "target") \/ At(c, "note")
        BY <1>8 DEF CallTier2Track, Tier2Track, tier3Vars
    <2> QED BY <1>1, <1>2, <1>3, <2>1, CallAt
<1>9. CASE Redirect(c)
    <2>1. /\ call[c].at = "target" /\ pending' = pending /\ UNCHANGED <<text, bulkVars>>
          /\ gen' = gen /\ cached' = cached /\ model' = model
        BY <1>9 DEF Redirect, tierVars, tier3Vars
    <2>2. ASSUME call' = [call EXCEPT ![c] = [@ EXCEPT !.at = "note", !.file = TestOf[f],
                                                     !.text = text[TestOf[f]]]]
          PROVE  IInv'
        <3> DEFINE r == [call[c] EXCEPT !.at = "note", !.file = TestOf[f],
                                        !.text = text[TestOf[f]]]
        <3>1. /\ TestOf[f] \in Files /\ text[TestOf[f]] \in TextNos
              /\ text[TestOf[f]] \in 0 .. MaxText
            BY <1>1, <1>2, <2>1, PipelineAssumption
        <3>2. /\ r \in CallRecords /\ r.at = "note" /\ r.file = TestOf[f]
              /\ call' = [call EXCEPT ![c] = r]
            BY <1>1, <1>3, <2>2, <3>1 DEF CallRecords
        <3> HIDE DEF r
        <3>3. ~IsCounted(c, r) /\ ~IsCounted(c, call[c])
            BY <1>3, <2>1, <3>2 DEF IsCounted
        <3> QED BY <1>1, <2>1, <3>1, <3>2, <3>3, CallGoes
    <2>3. CASE At(c, "note") \/ At(c, "done")
        BY <1>1, <1>2, <1>3, <2>1, <2>3, CallAt
    <2> QED BY <1>9, <2>2, <2>3 DEF Redirect
<1>10. CASE NoteGeneration(c)
    <2> DEFINE r == [call[c] EXCEPT !.at = "flag", !.gen = gen[f]]
    <2>1. /\ call[c].at = "note" /\ pending' = pending /\ UNCHANGED <<text, bulkVars>>
          /\ gen' = gen /\ cached' = cached /\ model' = model
          /\ call' = [call EXCEPT ![c] = r]
        BY <1>1, <1>10 DEF NoteGeneration, tierVars, tier3Vars
    <2>2. r \in CallRecords /\ r.at = "flag" /\ r.file = f
        BY <1>1, <1>2, <1>3, <2>1 DEF CallRecords
    <2> HIDE DEF r
    <2>3. ~IsCounted(c, r) /\ ~IsCounted(c, call[c])
        BY <1>3, <2>1, <2>2 DEF IsCounted
    <2> QED BY <1>1, <1>2, <2>1, <2>2, <2>3, CallGoes
<1>11. CASE RaiseFlag(c)
    <2>1. /\ call[c].at = "flag" /\ At(c, "submit") /\ UNCHANGED <<text, bulkVars>>
          /\ gen' = gen /\ cached' = cached /\ model' = model
          /\ pending' = IF Tracked(c) THEN pending ELSE pending + 1
        BY <1>11 DEF RaiseFlag, Go, tierVars
    <2> QED BY <1>1, <1>2, <1>3, <2>1, CallAt
<1>12. CASE Submit(c)
    <2>1. /\ call[c].at = "submit" /\ At(c, "compiling") /\ UNCHANGED <<text, bulkVars>>
          /\ gen' = gen /\ cached' = cached /\ model' = model /\ pending' = pending
        BY <1>12 DEF Submit, Go, tierVars, tier3Vars
    <2> QED BY <1>1, <1>2, <1>3, <2>1, CallAt
<1>13. CASE SubmitRaises(c) \/ EndResult(c)
    <2>1. /\ call[c].at \in {"submit", "lower"} /\ At(c, "done") /\ gen' = gen
          /\ UNCHANGED <<text, bulkVars>> /\ cached' = cached /\ model' = model
          /\ LowerFlag(c)
        BY <1>13 DEF SubmitRaises, EndResult, Go, tierVars
    <2>2. pending' = IF Tracked(c) THEN pending ELSE pending - 1
        BY <1>3, <2>1, SomePending DEF LowerFlag
    <2> QED BY <1>1, <1>2, <1>3, <2>1, <2>2, CallAt
<1>14. CASE Answer(c)
    <2>1. PICK ok \in BOOLEAN :
             /\ call' = [call EXCEPT ![c] = [@ EXCEPT !.at = "check", !.ok = ok]]
             /\ cached' = IF ok THEN [cached EXCEPT ![f] = x] ELSE cached
        BY <1>14 DEF Answer
    <2> DEFINE r == [call[c] EXCEPT !.at = "check", !.ok = ok]
    <2>2. /\ call[c].at = "compiling" /\ pending' = pending /\ UNCHANGED <<text, bulkVars>>
          /\ gen' = gen /\ model' = model /\ call' = [call EXCEPT ![c] = r]
        BY <1>1, <1>14, <2>1 DEF Answer, tierVars
    <2>3. r \in CallRecords /\ r.at = "check" /\ r.file = f
        BY <1>1, <1>3, <2>1 DEF CallRecords
    <2>4. cached' \in [Files -> 0 .. MaxText]
        <3>1. x \in 0 .. MaxText
            BY <1>1 DEF CallRecords
        <3> QED BY <1>1, <2>1, <3>1
    <2> HIDE DEF r
    <2>5. IsCounted(c, r) <=> IsCounted(c, call[c])
        BY <1>3, <2>2, <2>3 DEF IsCounted
    <2> QED BY <1>1, <1>2, <2>2, <2>3, <2>4, <2>5, CallGoes
<1>15. CASE CheckGeneration(c)
    <2>1. /\ call[c].at = "check" /\ pending' = pending /\ UNCHANGED <<text, bulkVars>>
          /\ gen' = gen /\ cached' = cached /\ model' = model
          /\ At(c, "lower") \/ At(c, "fetch") \/ At(c, "record")
        BY <1>15 DEF CheckGeneration, tierVars, tier3Vars
    <2> QED BY <1>1, <1>2, <1>3, <2>1, CallAt
<1>16. CASE FetchCached(c)
    <2> DEFINE r == [call[c] EXCEPT !.at = "enrich", !.text = cached[f]]
    <2>1. /\ call[c].at = "fetch" /\ pending' = pending /\ UNCHANGED <<text, bulkVars>>
          /\ gen' = gen /\ cached' = cached /\ model' = model
          /\ call' = [call EXCEPT ![c] = r]
        BY <1>1, <1>16 DEF FetchCached, tierVars, tier3Vars
    <2>2. r \in CallRecords /\ r.at = "enrich" /\ r.file = f
        BY <1>1, <1>2, <1>3, <2>1 DEF CallRecords
    <2> HIDE DEF r
    <2>3. IsCounted(c, r) <=> IsCounted(c, call[c])
        BY <1>3, <2>1, <2>2 DEF IsCounted
    <2> QED BY <1>1, <1>2, <2>1, <2>2, <2>3, CallGoes
<1>17. CASE Enrich(c)
    <2>1. /\ call[c].at = "enrich" /\ At(c, "record") /\ pending' = pending
          /\ UNCHANGED <<text, bulkVars>> /\ gen' = gen /\ cached' = cached
          /\ model' = IF x = 0 THEN UpdateFile(model, f, {}, {}, 3)
                      ELSE UpdateFile(model, f, NodesOf(Compiled[<<f, x>>], x),
                                      EdgesIn["tier3"][<<f, x>>], 3)
        BY <1>17 DEF Enrich, Go, tierVars, tier3Vars
    <2>2. x = 0 \/ x \in TextNos
        <3>1. x \in 0 .. MaxText
            BY <1>1 DEF CallRecords
        <3> QED BY <1>1, <3>1
    <2>3. IsSound(model')
        <3>1. CASE x = 0
            BY <1>1, <1>2, <2>1, <3>1, TierKeeps
        <3>2. CASE x # 0
            BY <1>1, <1>2, <2>1, <2>2, <3>2, TierKeeps
        <3> QED BY <3>1, <3>2
    <2> QED BY <1>1, <1>2, <1>3, <2>1, <2>3, CallAt
<1>18. CASE Record(c)
    <2>1. /\ call[c].at = "record" /\ At(c, "lower") /\ UNCHANGED <<text, bulkVars>>
          /\ gen' = gen /\ cached' = cached /\ model' = model /\ pending' = pending
        BY <1>18 DEF Record, Go, tierVars
    <2> QED BY <1>1, <1>2, <1>3, <2>1, CallAt
<1> QED BY <1>4, <1>5, <1>6, <1>7, <1>8, <1>9, <1>10, <1>11, <1>12, <1>13, <1>14,
           <1>15, <1>16, <1>17, <1>18 DEF CallStep

-----------------------------------------------------------------------------
(* The bulk run.                                                            *)

\* b is what the run goes on with where a was: at p, over the same list.
IsMoved(b, a, p, following) == IsBulk(b) /\ b.at = p /\ b.list = a.list /\ b.next = following

\* The steps of the bulk run's record.
LEMMA MovedAt ==
    ASSUME NEW b, IsBulk(b), NEW p
    PROVE  IsMoved([b EXCEPT !.at = p], b, p, b.next)
BY DEF IsBulk, IsMoved

LEMMA MovedNext ==
    ASSUME NEW b, IsBulk(b), NEW n
    PROVE  IsMoved([b EXCEPT !.next = n], b, b.at, n)
BY DEF IsBulk, IsMoved

LEMMA MovedDone ==
    ASSUME NEW b, IsBulk(b), NEW n
    PROVE  /\ IsMoved([b EXCEPT !.t1Done = n], b, b.at, b.next)
           /\ IsMoved([b EXCEPT !.t2Done = n], b, b.at, b.next)
           /\ IsMoved([b EXCEPT !.completed = n], b, b.at, b.next)
BY DEF IsBulk, IsMoved

LEMMA MovedFlag ==
    ASSUME NEW b, IsBulk(b), NEW v
    PROVE  /\ IsMoved([b EXCEPT !.cancelled = v], b, b.at, b.next)
           /\ IsMoved([b EXCEPT !.running = v], b, b.at, b.next)
BY DEF IsBulk, IsMoved

LEMMA MovedError ==
    ASSUME NEW b, IsBulk(b), NEW f
    PROVE  IsMoved(ErrorFor(b, f), b, b.at, b.next)
BY DEF IsBulk, IsMoved, ErrorFor

LEMMA MovedTick ==
    ASSUME NEW b, IsBulk(b)
    PROVE  IsMoved(Tick(b), b, "turn", b.next + 1)
<1> DEFINE done == [b EXCEPT !.completed = b.next]
           following == [done EXCEPT !.next = done.next + 1]
<1>1. Tick(b) = [following EXCEPT !.at = "turn"]
    BY DEF Tick, IsBulk
<1>2. IsMoved(done, b, b.at, b.next)
    BY MovedDone
<1> HIDE DEF done
<1>3. IsMoved(following, done, done.at, done.next + 1)
    BY <1>2, MovedNext DEF IsMoved
<1> HIDE DEF following
<1>4. IsMoved([following EXCEPT !.at = "turn"], following, "turn", following.next)
    BY <1>3, MovedAt DEF IsMoved
<1> QED BY <1>1, <1>2, <1>3, <1>4 DEF IsMoved

\* What a step that is not a call's has to show.
LEMMA NoCallGoes ==
    ASSUME IInv, UNCHANGED <<call, pending>>, text' \in [Files -> TextNos],
           gen' \in [Files -> Nat], cached' \in [Files -> 0 .. MaxText],
           task' \in [Files -> TaskRecords], BulkKnowsItsText', IsSound(model')
    PROVE  IInv'
<1>1. CallsKnowTheirText' /\ PendingIsExact'
    BY DEF IInv, CallsKnowTheirText, PendingIsExact, Tracked, TextNos
<1>2. TypeOK'
    BY DEF IInv, TypeOK, TextNos
<1>3. IsSound(model)'
    OBVIOUS
<1> QED BY <1>1, <1>2, <1>3 DEF IInv

\* A file's task goes on, and with it the bulk run when it waits for this task.
LEMMA TaskGoes ==
    ASSUME IInv, NEW f \in Files, NEW r \in TaskRecords, task' = [task EXCEPT ![f] = r],
           r.at \in {"tier1", "tier1Track", "ready"} => r.text \in TextNos,
           NEW p, NEW n, IsMoved(bulk', bulk, p, n),
           p \in {"tier1", "tier2", "tier2Track"} =>
               /\ n = bulk.next /\ BulkFile = f /\ r.text \in TextNos,
           UNCHANGED <<call, pending, text, cached>>, gen' \in [Files -> Nat],
           IsSound(model')
    PROVE  IInv'
<1>1. task \in [Files -> TaskRecords] /\ text \in [Files -> TextNos]
      /\ cached \in [Files -> 0 .. MaxText]
    BY DEF IInv, TypeOK
<1>2. /\ task' \in [Files -> TaskRecords] /\ task'[f] = r
      /\ \A g \in Files \ {f} : task'[g] = task[g]
    BY <1>1
<1>3. IsBulk(bulk)' /\ bulk'.at = p /\ bulk'.list = bulk.list /\ bulk'.next = n
    BY DEF IsMoved, IsBulk
<1>4. \A g \in Files : task'[g].at \in {"tier1", "tier1Track", "ready"} =>
                           task'[g].text \in TextNos
    BY <1>2 DEF IInv, BulkKnowsItsText
<1>5. bulk'.at \in {"tier1", "tier2", "tier2Track"} =>
          BulkFile' = f /\ BulkText' \in TextNos
    BY <1>2, <1>3 DEF BulkFile, BulkText
<1>6. BulkKnowsItsText'
    BY <1>3, <1>4, <1>5 DEF BulkKnowsItsText, TextNos
<1> QED BY <1>1, <1>2, <1>6, NoCallGoes

\* A task whose place alone changes.
LEMMA TaskAtGoes ==
    ASSUME IInv, NEW f \in Files, NEW q \in TaskPoints, TaskAt(f, q),
           q \in {"tier1", "tier1Track", "ready"} => task[f].text \in TextNos,
           NEW p, NEW n, IsMoved(bulk', bulk, p, n),
           p \in {"tier1", "tier2", "tier2Track"} =>
               /\ n = bulk.next /\ BulkFile = f /\ task[f].text \in TextNos,
           UNCHANGED <<call, pending, text, cached>>, gen' \in [Files -> Nat],
           IsSound(model')
    PROVE  IInv'
<1> DEFINE r == [task[f] EXCEPT !.at = q]
<1>1. task[f] \in TaskRecords
    BY DEF IInv, TypeOK
<1>2. /\ r \in TaskRecords /\ r.at = q /\ r.text = task[f].text
      /\ task' = [task EXCEPT ![f] = r]
    BY <1>1 DEF TaskRecords, TaskAt
<1> HIDE DEF r
<1> QED BY <1>2, TaskGoes

\* The bulk run goes on and leaves the tasks as they are.
LEMMA BulkGoes ==
    ASSUME IInv, task' = task, NEW p, NEW n, IsMoved(bulk', bulk, p, n),
           p \in {"tier1", "tier2", "tier2Track"} =>
               n = bulk.next /\ BulkFile \in Files /\ BulkText \in TextNos,
           UNCHANGED <<call, pending, text, cached>>, gen' \in [Files -> Nat],
           IsSound(model')
    PROVE  IInv'
<1>1. task \in [Files -> TaskRecords] /\ text \in [Files -> TextNos]
      /\ cached \in [Files -> 0 .. MaxText]
    BY DEF IInv, TypeOK
<1>2. IsBulk(bulk)' /\ bulk'.at = p /\ bulk'.list = bulk.list /\ bulk'.next = n
    BY DEF IsMoved, IsBulk
<1>3. bulk'.at \in {"tier1", "tier2", "tier2Track"} =>
          BulkFile' \in Files /\ BulkText' \in TextNos
    BY <1>2 DEF BulkFile, BulkText
<1>4. BulkKnowsItsText'
    BY <1>2, <1>3 DEF IInv, BulkKnowsItsText, TextNos
<1> QED BY <1>1, <1>4, NoCallGoes

LEMMA TaskKeeps ==
    ASSUME IInv, NEW f \in Files, TaskStep(f)
    PROVE  IInv'
<1>1. /\ text \in [Files -> TextNos] /\ gen \in [Files -> Nat] /\ IsSound(model)
      /\ IsBulk(bulk) /\ task \in [Files -> TaskRecords] /\ task[f] \in TaskRecords
      /\ MaxText \in Nat /\ TextNos = 1 .. MaxText
      /\ task[f].at \in {"tier1", "tier1Track", "ready"} => task[f].text \in TextNos
    BY PipelineAssumption DEF IInv, TypeOK, TextNos, BulkKnowsItsText
<1>2. /\ TaskPoints = {"none", "tier1", "tier1Track", "ready", "failed", "collected",
                       "lost"}
      /\ task[f].at \in TaskPoints /\ task[f].text \in 0 .. MaxText
    BY <1>1 DEF TaskPoints, TaskRecords
<1>4. /\ [at |-> "tier1", text |-> text[f]] \in TaskRecords
      /\ text[f] \in TextNos
    BY <1>1, <1>2 DEF TaskRecords
<1>5. IsMoved(bulk, bulk, bulk.at, bulk.next)
    BY <1>1 DEF IsMoved
<1>6. CASE ReadInTurn(f)
    <2>1. /\ UNCHANGED <<call, pending, text, cached>> /\ gen' = gen /\ model' = model
          /\ BulkFile = f
        BY <1>6 DEF ReadInTurn, tierVars, tier3Vars
    <2>2. CASE /\ task' = [task EXCEPT ![f] = [at |-> "tier1", text |-> text[f]]]
               /\ bulk' = [bulk EXCEPT !.at = "tier1"]
        <3>1. IsMoved(bulk', bulk, "tier1", bulk.next)
            BY <1>1, <2>2, MovedAt
        <3> QED BY <1>1, <1>4, <2>1, <2>2, <3>1, TaskGoes
    <2>3. CASE bulk' = Tick(ErrorFor(bulk, f)) /\ task' = task
        <3>1. IsMoved(ErrorFor(bulk, f), bulk, bulk.at, bulk.next)
            BY <1>1, MovedError
        <3>2. IsMoved(bulk', bulk, "turn", bulk.next + 1)
            <4> DEFINE b == ErrorFor(bulk, f)
            <4>1. IsBulk(b) /\ b.list = bulk.list /\ b.next = bulk.next
                BY <3>1 DEF IsMoved
            <4> HIDE DEF b
            <4>2. IsMoved(Tick(b), b, "turn", b.next + 1)
                BY <4>1, MovedTick
            <4>3. IsMoved(Tick(b), bulk, "turn", bulk.next + 1)
                BY <4>1, <4>2 DEF IsMoved
            <4> QED BY <2>3, <4>3 DEF b
        <3> QED BY <1>1, <2>1, <2>3, <3>2, BulkGoes
    <2> QED BY <1>6, <2>2, <2>3 DEF ReadInTurn
<1>7. CASE PoolReads(f)
    <2>1. /\ UNCHANGED <<call, pending, text, cached>> /\ gen' = gen /\ model' = model
          /\ bulk' = bulk /\ bulk.at \in {"pool", "drain"}
          /\ \/ task' = [task EXCEPT ![f] = [at |-> "tier1", text |-> text[f]]]
             \/ TaskAt(f, "failed")
        BY <1>7 DEF PoolReads, tierVars, tier3Vars
    <2>2. CASE task' = [task EXCEPT ![f] = [at |-> "tier1", text |-> text[f]]]
        BY <1>1, <1>4, <1>5, <2>1, <2>2, TaskGoes
    <2>3. CASE TaskAt(f, "failed")
        BY <1>1, <1>2, <1>5, <2>1, <2>3, TaskAtGoes
    <2> QED BY <2>1, <2>2, <2>3
<1>8. CASE BulkTier1Model(f)
    <2>1. /\ UNCHANGED <<call, pending, text, cached>> /\ gen' = gen /\ bulk' = bulk
          /\ task[f].at = "tier1" /\ Tier1Model(f, task[f].text)
          /\ TaskAt(f, "tier1Track")
          /\ bulk.at \in {"tier1", "tier2", "tier2Track"} => BulkFile = f
        BY <1>8 DEF BulkTier1Model, MayRunTier1, tierVars, tier3Vars
    <2>2. IsSound(model')
        BY <1>1, <2>1, TierKeeps
    <2> QED BY <1>1, <1>2, <1>5, <2>1, <2>2, TaskAtGoes
<1>9. CASE BulkTier1Track(f)
    <2>1. /\ UNCHANGED <<call, pending, text, cached>> /\ model' = model
          /\ task[f].at = "tier1Track" /\ Tier1Track(f) /\ TaskAt(f, "ready")
          /\ bulk.at \in {"tier1", "pool", "drain"}
          /\ bulk.at = "tier1" => BulkFile = f
        BY <1>9 DEF BulkTier1Track, MayRunTier1, tier3Vars
    <2>2. gen' = [gen EXCEPT ![f] = @ + 1]
        BY <2>1 DEF Tier1Track
    <2>3. gen' \in [Files -> Nat]
        BY <1>1, <2>2
    <2>4. CASE bulk.at # "tier1"
        <3>1. bulk' = bulk
            BY <1>9, <2>4 DEF BulkTier1Track
        <3> QED BY <1>1, <1>2, <1>5, <2>1, <2>3, <2>4, <3>1, TaskAtGoes
    <2>5. CASE bulk.at = "tier1" /\ bulk.t2
        <3> DEFINE b == [bulk EXCEPT !.t1Done = bulk.t1Done + 1]
        <3>1. bulk' = [b EXCEPT !.at = "tier2"]
            BY <1>9, <2>5 DEF BulkTier1Track
        <3>2. IsMoved(b, bulk, bulk.at, bulk.next)
            BY <1>1, MovedDone
        <3> HIDE DEF b
        <3>3. IsMoved(bulk', b, "tier2", b.next)
            BY <3>1, <3>2, MovedAt DEF IsMoved
        <3>4. IsMoved(bulk', bulk, "tier2", bulk.next)
            BY <3>2, <3>3 DEF IsMoved
        <3> QED BY <1>1, <1>2, <2>1, <2>3, <2>5, <3>4, TaskAtGoes
    <2>6. CASE bulk.at = "tier1" /\ ~bulk.t2
        <3> DEFINE b == [bulk EXCEPT !.t1Done = bulk.t1Done + 1]
        <3>1. bulk' = Tick(b)
            BY <1>9, <2>6 DEF BulkTier1Track
        <3>2. IsMoved(b, bulk, bulk.at, bulk.next)
            BY <1>1, MovedDone
        <3> HIDE DEF b
        <3>3. IsMoved(bulk', b, "turn", b.next + 1)
            BY <3>1, <3>2, MovedTick DEF IsMoved
        <3>4. IsMoved(bulk', bulk, "turn", bulk.next + 1)
            BY <3>2, <3>3 DEF IsMoved
        <3> QED BY <1>1, <1>2, <2>1, <2>3, <3>4, TaskAtGoes
    <2> QED BY <2>4, <2>5, <2>6
<1>10. CASE BulkTier1Raises(f)
    <2>1. /\ UNCHANGED <<call, pending, text, cached>> /\ gen' = gen /\ model' = model
          /\ TaskAt(f, "failed") /\ bulk.at \in {"tier1", "pool", "drain"}
          /\ bulk' = IF bulk.at = "tier1" THEN Tick(ErrorFor(bulk, f)) ELSE bulk
        BY <1>10 DEF BulkTier1Raises, MayRunTier1, tierVars, tier3Vars
    <2>2. IsMoved(Tick(ErrorFor(bulk, f)), bulk, "turn", bulk.next + 1)
        <3> DEFINE b == ErrorFor(bulk, f)
        <3>1. IsMoved(b, bulk, bulk.at, bulk.next)
            BY <1>1, MovedError
        <3> HIDE DEF b
        <3>2. IsMoved(Tick(b), b, "turn", b.next + 1)
            BY <3>1, MovedTick DEF IsMoved
        <3>3. IsMoved(Tick(b), bulk, "turn", bulk.next + 1)
            BY <3>1, <3>2 DEF IsMoved
        <3> QED BY <3>3 DEF b
    <2>3. CASE bulk.at = "tier1"
        <3>1. IsMoved(bulk', bulk, "turn", bulk.next + 1)
            BY <2>1, <2>2, <2>3
        <3> QED BY <1>1, <1>2, <2>1, <3>1, TaskAtGoes
    <2>4. CASE bulk.at # "tier1"
        <3>1. IsMoved(bulk', bulk, bulk.at, bulk.next)
            BY <1>5, <2>1, <2>4
        <3> QED BY <1>1, <1>2, <2>1, <2>4, <3>1, TaskAtGoes
    <2> QED BY <2>3, <2>4
<1>11. CASE Collect(f)
    <2> DEFINE done == task[f].at = "ready"
               full == [bulk EXCEPT !.completed = bulk.completed + 1]
               t1Done == IF done THEN full.t1Done + 1 ELSE full.t1Done
               counted == [full EXCEPT !.t1Done = t1Done]
               after == IF done THEN counted ELSE ErrorFor(counted, f)
               p == IF after.completed < Len(bulk.list) THEN "pool"
                    ELSE IF bulk.t2 THEN "t2turn" ELSE "end"
    <2>1. /\ UNCHANGED <<call, pending, text, cached>> /\ gen' = gen /\ model' = model
          /\ bulk.at = "pool"
          /\ TaskAt(f, "collected") \/ TaskAt(f, "lost")
        BY <1>11 DEF Collect, tierVars, tier3Vars
    <2>2. counted = [bulk EXCEPT !.completed = @ + 1, !.t1Done = IF done THEN @ + 1 ELSE @]
        BY <1>1 DEF IsBulk
    <2>3. bulk' = [after EXCEPT !.at = p]
        BY <1>11, <2>2 DEF Collect
    <2>4. p \in {"pool", "t2turn", "end"}
        OBVIOUS
    <2>5. IsMoved(full, bulk, bulk.at, bulk.next)
        BY <1>1, MovedDone
    <2> HIDE DEF full, t1Done, p
    <2>6. IsMoved(counted, full, full.at, full.next)
        BY <2>5, MovedDone DEF IsMoved
    <2> HIDE DEF counted
    <2>7. IsMoved(ErrorFor(counted, f), counted, counted.at, counted.next)
        BY <2>6, MovedError DEF IsMoved
    <2>8. IsMoved(after, bulk, bulk.at, bulk.next)
        BY <2>5, <2>6, <2>7 DEF IsMoved
    <2> HIDE DEF after
    <2>9. IsMoved(bulk', after, p, after.next)
        BY <2>3, <2>8, MovedAt DEF IsMoved
    <2>10. IsMoved(bulk', bulk, p, bulk.next)
        BY <2>8, <2>9 DEF IsMoved
    <2> QED BY <1>1, <1>2, <2>1, <2>4, <2>10, TaskAtGoes
<1>12. CASE Tier2Turn(f)
    <2>1. /\ UNCHANGED <<call, pending, text, cached>> /\ gen' = gen /\ model' = model
          /\ task' = task /\ BulkFile = f /\ BulkText = task[f].text /\ bulk.at = "t2turn"
          /\ bulk' = IF task[f].text = 0 THEN [bulk EXCEPT !.next = bulk.next + 1]
                     ELSE [bulk EXCEPT !.at = "tier2"]
        BY <1>12 DEF Tier2Turn, tierVars, tier3Vars, BulkText
    <2>2. CASE task[f].text = 0
        <3>1. IsMoved(bulk', bulk, "t2turn", bulk.next + 1)
            BY <1>1, <2>1, <2>2, MovedNext
        <3> QED BY <1>1, <2>1, <3>1, BulkGoes
    <2>3. CASE task[f].text # 0
        <3>1. IsMoved(bulk', bulk, "tier2", bulk.next)
            BY <1>1, <2>1, <2>3, MovedAt
        <3>2. task[f].text \in TextNos
            BY <1>1, <1>2, <2>3
        <3> QED BY <1>1, <2>1, <3>1, <3>2, BulkGoes
    <2> QED BY <2>2, <2>3
<1> QED BY <1>6, <1>7, <1>8, <1>9, <1>10, <1>11, <1>12 DEF TaskStep

LEMMA BulkKeeps ==
    ASSUME IInv, BulkStep \/ StartBulk \/ CancelBulk
    PROVE  IInv'
<1>1. /\ text \in [Files -> TextNos] /\ gen \in [Files -> Nat] /\ IsSound(model)
      /\ IsBulk(bulk)
      /\ bulk.at \in {"tier1", "tier2", "tier2Track"} =>
             BulkFile \in Files /\ BulkText \in TextNos
    BY DEF IInv, TypeOK, BulkKnowsItsText
<1>2. ASSUME NEW b, IsMoved(b, bulk, bulk.at, bulk.next), bulk' = AfterTier2(b),
             task' = task, UNCHANGED <<call, pending, text, cached>>, gen' = gen,
             model' = model
      PROVE  IInv'
    <2>1. CASE bulk' = Tick(b)
        <3>1. IsMoved(Tick(b), b, "turn", b.next + 1)
            BY <1>2, MovedTick DEF IsMoved
        <3>2. IsMoved(bulk', bulk, "turn", bulk.next + 1)
            BY <1>2, <2>1, <3>1 DEF IsMoved
        <3> QED BY <1>1, <1>2, <3>2, BulkGoes
    <2>2. CASE bulk' = [b EXCEPT !.next = b.next + 1, !.at = "t2turn"]
        <3> DEFINE following == [b EXCEPT !.next = b.next + 1]
        <3>1. bulk' = [following EXCEPT !.at = "t2turn"]
            BY <2>2
        <3>2. IsMoved(following, b, b.at, b.next + 1)
            BY <1>2, MovedNext DEF IsMoved
        <3> HIDE DEF following
        <3>3. IsMoved(bulk', following, "t2turn", following.next)
            BY <3>1, <3>2, MovedAt DEF IsMoved
        <3>4. IsMoved(bulk', bulk, "t2turn", bulk.next + 1)
            BY <1>2, <3>2, <3>3 DEF IsMoved
        <3> QED BY <1>1, <1>2, <3>4, BulkGoes
    <2> QED BY <1>2, <2>1, <2>2 DEF AfterTier2
<1>3. CASE Drained
    <2>1. /\ UNCHANGED <<call, pending, text, cached, task>> /\ gen' = gen /\ model' = model
          /\ bulk' = [bulk EXCEPT !.at = "end"]
        BY <1>3 DEF Drained, tierVars, tier3Vars
    <2>2. IsMoved(bulk', bulk, "end", bulk.next)
        BY <1>1, <2>1, MovedAt
    <2> QED BY <1>1, <2>1, <2>2, BulkGoes
<1>4. CASE BulkTier2Model
    <2>1. /\ UNCHANGED <<call, pending, text, cached, task>> /\ gen' = gen
          /\ bulk.at = "tier2" /\ Tier2Model(BulkFile, BulkText)
          /\ \/ bulk' = [bulk EXCEPT !.at = "tier2Track"]
             \/ bulk' = [ErrorFor(bulk, BulkFile) EXCEPT !.at = "tier2Track"]
        BY <1>4 DEF BulkTier2Model, tierVars, tier3Vars
    <2>2. IsSound(model')
        BY <1>1, <2>1, TierKeeps
    <2>3. IsMoved(bulk', bulk, "tier2Track", bulk.next)
        <3>1. CASE bulk' = [bulk EXCEPT !.at = "tier2Track"]
            BY <1>1, <3>1, MovedAt
        <3>2. CASE bulk' = [ErrorFor(bulk, BulkFile) EXCEPT !.at = "tier2Track"]
            <4> DEFINE b == ErrorFor(bulk, BulkFile)
            <4>1. IsMoved(b, bulk, bulk.at, bulk.next)
                BY <1>1, MovedError
            <4> HIDE DEF b
            <4>2. IsMoved([b EXCEPT !.at = "tier2Track"], b, "tier2Track", b.next)
                BY <4>1, MovedAt DEF IsMoved
            <4>3. IsMoved([b EXCEPT !.at = "tier2Track"], bulk, "tier2Track", bulk.next)
                BY <4>1, <4>2 DEF IsMoved
            <4> QED BY <3>2, <4>3 DEF b
        <3> QED BY <2>1, <3>1, <3>2
    <2> QED BY <1>1, <2>1, <2>2, <2>3, BulkGoes
<1>5. CASE BulkTier2Track
    <2> DEFINE b == [bulk EXCEPT !.t2Done = bulk.t2Done + 1]
    <2>1. /\ UNCHANGED <<call, pending, text, cached, task>> /\ gen' = gen /\ model' = model
          /\ bulk' = AfterTier2(b)
        BY <1>5 DEF BulkTier2Track, Tier2Track, tier3Vars
    <2>2. IsMoved(b, bulk, bulk.at, bulk.next)
        BY <1>1, MovedDone
    <2> HIDE DEF b
    <2> QED BY <1>2, <2>1, <2>2
<1>6. CASE BulkTier2Raises
    <2> DEFINE b == ErrorFor(bulk, BulkFile)
    <2>1. /\ UNCHANGED <<call, pending, text, cached, task>> /\ gen' = gen /\ model' = model
          /\ bulk' = AfterTier2(b)
        BY <1>6 DEF BulkTier2Raises, tierVars, tier3Vars
    <2>2. IsMoved(b, bulk, bulk.at, bulk.next)
        BY <1>1, MovedError
    <2> HIDE DEF b
    <2> QED BY <1>2, <2>1, <2>2
<1>7. CASE EndBulk
    <2> DEFINE b == [bulk EXCEPT !.at = "ended"]
               no == FALSE
    <2>1. /\ UNCHANGED <<call, pending, text, cached, task>> /\ gen' = gen /\ model' = model
          /\ bulk' = [b EXCEPT !.running = no]
        BY <1>7 DEF EndBulk, tierVars, tier3Vars
    <2>2. IsMoved(b, bulk, "ended", bulk.next)
        BY <1>1, MovedAt
    <2> HIDE DEF b, no
    <2>3. IsMoved([b EXCEPT !.running = no], b, b.at, b.next)
        BY <2>2, MovedFlag DEF IsMoved
    <2>4. IsMoved(bulk', bulk, "ended", bulk.next)
        BY <2>1, <2>2, <2>3 DEF IsMoved
    <2> QED BY <1>1, <2>1, <2>4, BulkGoes
<1>8. CASE StartBulk
    <2>1. PICK t2 \in BOOLEAN : \E list \in Listings(Remaining(t2)) :
             LET parallel == Workers > 1 /\ Len(list) > ParallelAbove
             IN  bulk' = [NoBulk EXCEPT !.t2 = t2, !.list = list, !.running = TRUE,
                                        !.at = IF parallel THEN "pool" ELSE "turn"]
        BY <1>8 DEF StartBulk
    <2>2. IsBulk(bulk)' /\ bulk'.at \in {"pool", "turn"}
        BY <2>1 DEF IsBulk, NoBulk
    <2>3. /\ UNCHANGED <<call, pending, text, cached, task>> /\ gen' = gen /\ model' = model
        BY <1>8 DEF StartBulk, tierVars, tier3Vars
    <2>4. BulkKnowsItsText'
        BY <2>1, <2>2, <2>3 DEF IInv, BulkKnowsItsText, TextNos
    <2> QED BY <1>1, <2>3, <2>4, NoCallGoes DEF IInv, TypeOK
<1>9. CASE CancelBulk
    <2> DEFINE yes == TRUE
               b == [bulk EXCEPT !.cancelled = yes]
               p == IF bulk.at = "pool" THEN "drain" ELSE "end"
    <2>1. /\ UNCHANGED <<call, pending, text, cached, task>> /\ gen' = gen /\ model' = model
        BY <1>9 DEF CancelBulk, tierVars, tier3Vars
    <2>2. bulk' = [b EXCEPT !.at = p]
        BY <1>1, <1>9 DEF CancelBulk, IsBulk
    <2> HIDE DEF yes
    <2>3. IsMoved(b, bulk, bulk.at, bulk.next)
        BY <1>1, MovedFlag
    <2>4. p \in {"drain", "end"}
        OBVIOUS
    <2> HIDE DEF b, p
    <2>5. IsMoved(bulk', b, p, b.next)
        BY <2>2, <2>3, MovedAt DEF IsMoved
    <2>6. IsMoved(bulk', bulk, p, bulk.next)
        BY <2>3, <2>5 DEF IsMoved
    <2> QED BY <1>1, <2>1, <2>4, <2>6, BulkGoes
<1> QED BY <1>3, <1>4, <1>5, <1>6, <1>7, <1>8, <1>9 DEF BulkStep

-----------------------------------------------------------------------------
(* The theorems.                                                            *)

LEMMA InitEstablishes == Init => IInv
<1> SUFFICES ASSUME Init PROVE IInv
    OBVIOUS
<1>1. /\ MaxText \in Nat \ {0} /\ TextNos = 1 .. MaxText
      /\ model \in Models /\ Coherent(model) /\ OneText(model)
    BY PipelineAssumption DEF Init, TextNos
<1>2. TypeOK
    <2>1. Idle \in CallRecords
        BY <1>1 DEF Idle, CallRecords, CallPoints
    <2>2. NoTask \in TaskRecords
        BY <1>1 DEF NoTask, TaskRecords, TaskPoints
    <2>3. 1 \in TextNos /\ 0 \in 0 .. MaxText
        BY <1>1
    <2> QED BY <2>1, <2>2, <2>3 DEF Init, TypeOK
<1>3. CallsKnowTheirText
    BY DEF Init, CallsKnowTheirText, Idle
<1>4. BulkKnowsItsText
    BY DEF Init, BulkKnowsItsText, IsBulk, NoBulk, NoTask
<1>5. PendingIsExact
    <2> DEFINE Now == {c \in Calls : /\ ~Tracked(c)
                         /\ call[c].at \in {"submit", "compiling", "check", "fetch",
                                            "enrich", "record", "lower"}}
    <2>1. Now = {}
        BY DEF Init, Idle
    <2> HIDE DEF Now
    <2>2. pending = Cardinality(Now)
        BY <2>1, FS_EmptySet DEF Init
    <2> QED BY <2>2 DEF PendingIsExact, Now
<1> QED BY <1>1, <1>2, <1>3, <1>4, <1>5 DEF IInv, IsSound

\* Every step keeps the invariant.
LEMMA StepKeeps == IInv /\ [Next]_vars => IInv'
<1> SUFFICES ASSUME IInv, [Next]_vars PROVE IInv'
    OBVIOUS
<1>1. /\ text \in [Files -> TextNos] /\ gen \in [Files -> Nat] /\ IsSound(model)
      /\ cached \in [Files -> 0 .. MaxText] /\ task \in [Files -> TaskRecords]
      /\ MaxText \in Nat /\ TextNos = 1 .. MaxText
    BY PipelineAssumption DEF IInv, TypeOK, TextNos
<1>2. ASSUME UNCHANGED bulkVars
      PROVE  BulkKnowsItsText'
    BY <1>2 DEF IInv, BulkKnowsItsText, IsBulk, bulkVars, BulkFile, BulkText, TextNos
<1>3. ASSUME NEW f \in Files, Edit(f)
      PROVE  IInv'
    <2>1. /\ text[f] < MaxText /\ text' = [text EXCEPT ![f] = @ + 1]
          /\ UNCHANGED <<call, pending, cached, bulkVars>> /\ gen' = gen /\ model' = model
        BY <1>3 DEF Edit, tierVars, tier3Vars
    <2>2. text[f] + 1 \in TextNos
        BY <1>1, <2>1
    <2>3. text' \in [Files -> TextNos]
        BY <1>1, <2>1, <2>2
    <2> QED BY <1>1, <1>2, <2>1, <2>3, NoCallGoes DEF bulkVars
<1>4. ASSUME NEW f \in Files, Forget(f)
      PROVE  IInv'
    <2>1. /\ model' = RemoveFile(model, f) /\ UNCHANGED <<call, pending, cached, bulkVars>>
          /\ gen' = gen /\ text' = text
        BY <1>4 DEF Forget, tier3Vars
    <2>2. IsSound(model')
        BY <1>1, <2>1, RemoveKeeps
    <2> QED BY <1>1, <1>2, <2>1, <2>2, NoCallGoes DEF bulkVars
<1>5. ASSUME NEW f \in Files, CacheDrops(f)
      PROVE  IInv'
    <2>1. /\ cached' = [cached EXCEPT ![f] = 0] /\ gen' = gen /\ model' = model
          /\ UNCHANGED <<call, pending, text, bulkVars>>
        BY <1>5 DEF CacheDrops, tierVars
    <2>2. cached' \in [Files -> 0 .. MaxText]
        BY <1>1, <2>1
    <2> QED BY <1>1, <1>2, <2>1, <2>2, NoCallGoes DEF bulkVars
<1>6. CASE UNCHANGED vars
    <2>1. /\ UNCHANGED <<call, pending, text, cached, bulkVars>> /\ gen' = gen
          /\ model' = model
        BY <1>6 DEF vars, tierVars, tier3Vars
    <2> QED BY <1>1, <1>2, <2>1, NoCallGoes DEF bulkVars
<1>7. CASE ResetTracking
    <2>1. /\ UNCHANGED <<call, pending, text, cached, bulkVars>> /\ gen' = gen
          /\ model' = model
        BY <1>7 DEF ResetTracking, tier3Vars
    <2> QED BY <1>1, <1>2, <2>1, NoCallGoes DEF bulkVars
<1> QED BY <1>3, <1>4, <1>5, <1>6, <1>7, CallKeeps, TaskKeeps, BulkKeeps DEF Next

\* Every call and every task knows the text it works on, the model is sound and the
\* count of the pending compilations exact, however the threads are interleaved.
THEOREM Inductive == Spec => []IInv
BY InitEstablishes, StepKeeps, PTL DEF Spec

\* The model is never half updated (SemanticModel, analysis_pipeline.py): whatever
\* tiers, bulk runs, removals and late compilations do, its indexes and adjacency
\* lists say what its nodes and edges say.
THEOREM ModelCoherent == Spec => []ModelIsCoherent
<1>1. IInv => ModelIsCoherent
    BY DEF IInv, IsSound, ModelIsCoherent
<1> QED BY <1>1, Inductive, PTL

\* The nodes a file has at one tier come from one text of it (update_file): a tier
\* that runs late, for an older text, replaces that tier as a whole.
THEOREM TierOfOneText == Spec => []TierIsOfOneText
<1>1. IInv => TierIsOfOneText
    BY DEF IInv, IsSound, TierIsOfOneText
<1> QED BY <1>1, Inductive, PTL

\* tier3Pending is the number of the deep indexer's compilations that have neither
\* ended nor failed to start (_tier3.pending): it never leaks and is never negative.
THEOREM PendingExact == Spec => []PendingIsExact
<1>1. IInv => PendingIsExact
    BY DEF IInv
<1> QED BY <1>1, Inductive, PTL

-----------------------------------------------------------------------------
(* The books of the bulk run.  Sequentially, the files before the next one *)
(* are accounted for; in parallel, a file is when the collecting loop has  *)
(* taken its task and, with tier 2, when the second loop has passed it.    *)

Analysed == IF bulk.t2 THEN tier2Files ELSE tier1Files
Books == bulk.errors \cup Analysed
AccountedTo(n) == \A k \in DOMAIN bulk.list : k <= n => bulk.list[k] \in Books
Parallel == Workers > 1 /\ Len(bulk.list) > ParallelAbove
OfRun == {bulk.list[k] : k \in DOMAIN bulk.list}
Taken == {f \in OfRun : task[f].at \in {"collected", "lost"}}

BulkPoints == {"idle", "turn", "tier1", "pool", "drain", "t2turn", "tier2", "tier2Track",
               "end", "ended"}
Turns == {"turn", "t2turn", "tier1", "tier2", "tier2Track"}

BulkTyped ==
    /\ bulk.at \in BulkPoints /\ bulk.list \in Seq(Files) /\ bulk.next \in Nat \ {0}
    /\ bulk.t2 \in BOOLEAN
    /\ IsFiniteSet(OfRun) /\ Cardinality(OfRun) = Len(bulk.list)

\* What a task has done is in the tracking sets, and its failure in the errors.
TasksAreTracked ==
    \A f \in Files :
        /\ bulk.at = "idle" => task[f].at = "none"
        /\ task[f].at \in {"tier1", "tier1Track", "ready", "collected"} => task[f].text # 0
        /\ task[f].at \in {"ready", "collected"} => f \in tier1Files
        /\ task[f].at = "lost" => f \in bulk.errors

InOrder ==
    /\ bulk.at \in {"turn", "tier1"} => ~Parallel
    /\ bulk.at \in {"pool", "drain", "t2turn"} => Parallel
    /\ bulk.at \in {"t2turn", "tier2", "tier2Track"} => bulk.t2
    /\ bulk.at \in Turns =>
          /\ bulk.next <= Len(bulk.list) + 1 /\ AccountedTo(bulk.next - 1)
          /\ bulk.completed = IF Parallel THEN Len(bulk.list) ELSE bulk.next - 1
    /\ bulk.at \in {"tier1", "tier2", "tier2Track"} => bulk.next <= Len(bulk.list)
    /\ (bulk.at \in {"tier2", "tier2Track"} /\ ~Parallel) => task[BulkFile].at = "ready"
    /\ (bulk.at \in {"t2turn", "tier2", "tier2Track"} /\ Parallel) => Taken = OfRun
    /\ bulk.at = "pool" => bulk.next = 1 /\ bulk.completed = Cardinality(Taken)
    /\ bulk.at = "drain" => bulk.cancelled
    /\ (bulk.at \in {"end", "ended"} /\ ~bulk.cancelled) =>
          bulk.completed = Len(bulk.list) /\ AccountedTo(Len(bulk.list))

BulkInv == BulkTyped /\ TasksAreTracked /\ InOrder

\* w is b at another place: the list and what was asked for stay.
Goes(w, b, p, n, done, errs) ==
    /\ IsBulk(w) /\ w.t2 = b.t2 /\ w.list = b.list /\ w.cancelled = b.cancelled
    /\ w.at = p /\ w.next = n /\ w.completed = done /\ w.errors = errs

\* One field at a time.
LEMMA FieldGoes ==
    ASSUME NEW b, IsBulk(b), NEW v
    PROVE  /\ Goes([b EXCEPT !.at = v], b, v, b.next, b.completed, b.errors)
           /\ Goes([b EXCEPT !.next = v], b, b.at, v, b.completed, b.errors)
           /\ Goes([b EXCEPT !.completed = v], b, b.at, b.next, v, b.errors)
           /\ Goes([b EXCEPT !.t1Done = v], b, b.at, b.next, b.completed, b.errors)
           /\ Goes([b EXCEPT !.t2Done = v], b, b.at, b.next, b.completed, b.errors)
           /\ Goes([b EXCEPT !.running = v], b, b.at, b.next, b.completed, b.errors)
           /\ Goes(ErrorFor(b, v), b, b.at, b.next, b.completed, b.errors \cup {v})
BY DEF IsBulk, Goes, ErrorFor

\* After a file the run is at its next turn, and its progress at the file's place.
LEMMA TickGoes ==
    ASSUME NEW b, IsBulk(b)
    PROVE  Goes(Tick(b), b, "turn", b.next + 1, b.next, b.errors)
<1> DEFINE done == [b EXCEPT !.completed = b.next]
           following == [done EXCEPT !.next = done.next + 1]
<1>1. Tick(b) = [following EXCEPT !.at = "turn"]
    BY DEF Tick, IsBulk
<1>2. Goes(done, b, b.at, b.next, b.next, b.errors)
    BY FieldGoes
<1> HIDE DEF done
<1>3. IsBulk(done)
    BY <1>2 DEF Goes
<1>4. Goes(following, done, done.at, done.next + 1, done.completed, done.errors)
    BY <1>3, FieldGoes
<1> HIDE DEF following
<1>5. IsBulk(following)
    BY <1>4 DEF Goes
<1>6. Goes([following EXCEPT !.at = "turn"], following, "turn", following.next,
           following.completed, following.errors)
    BY <1>5, FieldGoes
<1> QED BY <1>1, <1>2, <1>4, <1>6 DEF Goes

\* The analysed files only become more while the run and the tasks stay as they are.
LEMMA BooksStay ==
    ASSUME BulkInv, UNCHANGED bulkVars,
           tier1Files \subseteq tier1Files', tier2Files \subseteq tier2Files'
    PROVE  BulkInv'
<1>1. bulk' = bulk /\ task' = task
    BY DEF bulkVars
<1>2. Analysed \subseteq Analysed' /\ Parallel' = Parallel /\ OfRun' = OfRun /\ Taken' = Taken
      /\ BulkFile' = BulkFile
    BY <1>1 DEF Analysed, Parallel, OfRun, Taken, BulkFile
<1>3. Books \subseteq Books'
    BY <1>1, <1>2 DEF Books
<1>4. BulkTyped'
    BY <1>1, <1>2 DEF BulkInv, BulkTyped
<1>5. TasksAreTracked'
    BY <1>1 DEF BulkInv, TasksAreTracked
<1>7. InOrder'
    BY <1>1, <1>2, <1>3 DEF BulkInv, InOrder, AccountedTo, Turns
<1> QED BY <1>4, <1>5, <1>7 DEF BulkInv

\* The files the run has come past stay accounted for.
LEMMA PastStays ==
    ASSUME bulk'.list = bulk.list, bulk'.t2 = bulk.t2, bulk.errors \subseteq bulk'.errors,
           tier1Files \subseteq tier1Files', tier2Files \subseteq tier2Files'
    PROVE  /\ Parallel' = Parallel /\ OfRun' = OfRun
           /\ Books \subseteq Books'
<1>1. Analysed \subseteq Analysed'
    BY DEF Analysed
<1> QED BY <1>1 DEF Parallel, OfRun, Books

\* A file's turn is over: it is accounted for, and the next one is next.
LEMMA NextFile ==
    ASSUME BulkInv, bulk.at \in Turns, bulk.next <= Len(bulk.list), NEW errs,
           Goes(bulk', bulk, IF Parallel THEN "t2turn" ELSE "turn", bulk.next + 1,
                IF Parallel THEN bulk.completed ELSE bulk.next, errs),
           bulk.errors \subseteq errs, tier1Files \subseteq tier1Files',
           tier2Files \subseteq tier2Files', TasksAreTracked', bulk.list[bulk.next] \in Books',
           Parallel => Taken' = Taken
    PROVE  BulkInv'
<1>1. /\ bulk'.list = bulk.list /\ bulk'.t2 = bulk.t2 /\ bulk.errors \subseteq bulk'.errors
      /\ bulk'.next = bulk.next + 1
      /\ bulk'.at = IF Parallel THEN "t2turn" ELSE "turn"
      /\ bulk'.completed = IF Parallel THEN bulk.completed ELSE bulk.next
    BY DEF Goes
<1>2. /\ Parallel' = Parallel /\ OfRun' = OfRun
      /\ Books \subseteq Books'
    BY <1>1, PastStays
<1>3. bulk.next \in Nat \ {0} /\ Len(bulk.list) \in Nat /\ bulk.list \in Seq(Files)
    BY DEF BulkInv, BulkTyped
<1>4. BulkTyped'
    BY <1>1, <1>2, <1>3 DEF BulkInv, BulkTyped, BulkPoints
<1>5. \A k \in DOMAIN bulk'.list : k <= bulk'.next - 1 => bulk'.list[k] \in Books'
    <2> SUFFICES ASSUME NEW k \in DOMAIN bulk.list, k <= bulk.next
                 PROVE  bulk.list[k] \in Books'
        BY <1>1, <1>3
    <2>1. k \in Nat /\ (k = bulk.next \/ k <= bulk.next - 1)
        BY <1>3
    <2>2. CASE k = bulk.next
        BY <2>2
    <2>3. CASE k <= bulk.next - 1
        <3>1. bulk.list[k] \in Books
            BY <2>3 DEF BulkInv, InOrder, AccountedTo
        <3> QED BY <1>2, <3>1
    <2> QED BY <2>1, <2>2, <2>3
<1>6. InOrder'
    BY <1>1, <1>2, <1>3, <1>5 DEF BulkInv, InOrder, AccountedTo, Turns
<1> QED BY <1>4, <1>6 DEF BulkInv

\* The same file goes on.
LEMMA SameFile ==
    ASSUME BulkInv, bulk.at \in Turns, bulk.next <= Len(bulk.list), NEW errs, NEW p,
           p \in {"tier1", "tier2", "tier2Track"},
           Goes(bulk', bulk, p, bulk.next, bulk.completed, errs), bulk.errors \subseteq errs,
           tier1Files \subseteq tier1Files', tier2Files \subseteq tier2Files',
           TasksAreTracked', Parallel => Taken' = Taken,
           p = "tier1" => ~Parallel,
           p # "tier1" => bulk.t2 /\ (~Parallel => task'[BulkFile].at = "ready")
    PROVE  BulkInv'
<1>1. /\ bulk'.list = bulk.list /\ bulk'.t2 = bulk.t2 /\ bulk.errors \subseteq bulk'.errors
      /\ bulk'.next = bulk.next /\ bulk'.at = p /\ bulk'.completed = bulk.completed
    BY DEF Goes
<1>2. /\ Parallel' = Parallel /\ OfRun' = OfRun /\ BulkFile' = BulkFile
      /\ Books \subseteq Books'
    BY <1>1, PastStays DEF BulkFile
<1>4. BulkTyped'
    BY <1>1, <1>2 DEF BulkInv, BulkTyped, BulkPoints
<1>5. \A k \in DOMAIN bulk'.list : k <= bulk'.next - 1 => bulk'.list[k] \in Books'
    BY <1>1, <1>2 DEF BulkInv, InOrder, AccountedTo
<1>6. (p # "tier1" /\ Parallel) => Taken = OfRun
    BY DEF BulkInv, InOrder, Turns
<1>7. InOrder'
    BY <1>1, <1>2, <1>5, <1>6 DEF BulkInv, InOrder, AccountedTo, Turns
<1> QED BY <1>4, <1>7 DEF BulkInv

\* The run is at its end, or waits for the pool to be.
LEMMA AtEnd ==
    ASSUME BulkInv, bulk'.at \in {"drain", "end", "ended"}, bulk'.next = bulk.next,
           bulk'.list = bulk.list, bulk'.t2 = bulk.t2, bulk.errors \subseteq bulk'.errors,
           tier1Files' = tier1Files, tier2Files' = tier2Files, TasksAreTracked',
           bulk'.at = "drain" => Parallel /\ bulk'.cancelled,
           ~bulk'.cancelled => /\ bulk'.completed = Len(bulk.list)
                               /\ \A k \in DOMAIN bulk.list : bulk.list[k] \in Books'
    PROVE  BulkInv'
<1>1. Parallel' = Parallel /\ OfRun' = OfRun
    BY DEF Parallel, OfRun
<1>2. BulkTyped'
    BY <1>1 DEF BulkInv, BulkTyped, BulkPoints
<1>3. InOrder'
    BY <1>1 DEF BulkInv, InOrder, AccountedTo, Turns
<1> QED BY <1>2, <1>3 DEF BulkInv

\* A task that is not taken yet goes on without the run.
LEMMA TaskAlone ==
    ASSUME BulkInv, bulk' = bulk, bulk.at \in {"tier1", "pool", "drain"}, NEW f \in Files,
           task \in [Files -> TaskRecords], \A g \in Files \ {f} : task'[g] = task[g],
           {task[f].at, task'[f].at} \cap {"collected", "lost"} = {},
           tier1Files \subseteq tier1Files', tier2Files \subseteq tier2Files', TasksAreTracked'
    PROVE  BulkInv'
<1>1. /\ Parallel' = Parallel /\ OfRun' = OfRun /\ bulk.errors \subseteq bulk'.errors
      /\ Books \subseteq Books'
    BY PastStays
<1>2. BulkTyped'
    BY <1>1 DEF BulkInv, BulkTyped
<1>3. OfRun \subseteq Files
    BY DEF BulkInv, BulkTyped, OfRun
<1>4. Taken' = Taken
    BY <1>1, <1>3 DEF Taken
<1>5. InOrder'
    BY <1>1, <1>4 DEF BulkInv, InOrder, AccountedTo, Turns
<1> QED BY <1>2, <1>5 DEF BulkInv

\* A task goes on: the others know what they knew.
LEMMA TracksStay ==
    ASSUME TasksAreTracked, NEW f \in Files, \A g \in Files \ {f} : task'[g] = task[g],
           tier1Files \subseteq tier1Files', bulk.errors \subseteq bulk'.errors,
           bulk.at # "idle", bulk'.at # "idle",
           task'[f].at \in {"tier1", "tier1Track", "ready", "collected"} => task'[f].text # 0,
           task'[f].at \in {"ready", "collected"} => f \in tier1Files',
           task'[f].at = "lost" => f \in bulk'.errors
    PROVE  TasksAreTracked'
BY DEF TasksAreTracked

\* So they do when the run alone goes on.
LEMMA TracksStand ==
    ASSUME TasksAreTracked, task' = task,
           tier1Files \subseteq tier1Files', bulk.errors \subseteq bulk'.errors,
           bulk.at # "idle", bulk'.at # "idle"
    PROVE  TasksAreTracked'
BY DEF TasksAreTracked

\* The collecting loop counts the tasks it has taken; when it has taken as many as the
\* list has files, these are all of them.
LEMMA CollectKeeps ==
    ASSUME IInv, BulkInv, NEW f \in Files, Collect(f)
    PROVE  BulkInv'
<1>1. /\ task \in [Files -> TaskRecords] /\ task[f] \in TaskRecords /\ IsBulk(bulk)
      /\ TasksAreTracked /\ bulk.list \in Seq(Files)
    BY DEF IInv, TypeOK, BulkKnowsItsText, BulkInv, BulkTyped
<1> DEFINE done == task[f].at = "ready"
           full == [bulk EXCEPT !.completed = bulk.completed + 1]
           t1Done == IF done THEN full.t1Done + 1 ELSE full.t1Done
           counted == [full EXCEPT !.t1Done = t1Done]
           after == IF done THEN counted ELSE ErrorFor(counted, f)
           errs == IF done THEN bulk.errors ELSE bulk.errors \cup {f}
           p == IF after.completed < Len(bulk.list) THEN "pool"
                ELSE IF bulk.t2 THEN "t2turn" ELSE "end"
           q == IF done THEN "collected" ELSE "lost"
<1>2. /\ bulk.at = "pool" /\ Pooled(f) /\ task[f].at \in {"ready", "failed"}
      /\ TaskAt(f, q) /\ tier1Files' = tier1Files /\ tier2Files' = tier2Files
    BY DEF Collect, tierVars
<1>3. counted = [bulk EXCEPT !.completed = @ + 1, !.t1Done = IF done THEN @ + 1 ELSE @]
    BY <1>1 DEF IsBulk
<1>4. bulk' = [after EXCEPT !.at = p]
    BY <1>3 DEF Collect
<1>5. /\ task'[f].at = q /\ task'[f].text = task[f].text
      /\ \A g \in Files \ {f} : task'[g] = task[g]
    BY <1>1, <1>2 DEF TaskAt, TaskRecords
<1>6. Goes(full, bulk, bulk.at, bulk.next, bulk.completed + 1, bulk.errors)
    BY <1>1, FieldGoes
<1> HIDE DEF full, t1Done, p
<1>7. IsBulk(full)
    BY <1>6 DEF Goes
<1>8. Goes(counted, full, full.at, full.next, full.completed, full.errors)
    BY <1>7, FieldGoes
<1> HIDE DEF counted
<1>9. IsBulk(counted)
    BY <1>8 DEF Goes
<1>10. Goes(ErrorFor(counted, f), counted, counted.at, counted.next, counted.completed,
            counted.errors \cup {f})
    BY <1>9, FieldGoes
<1>11. Goes(after, bulk, bulk.at, bulk.next, bulk.completed + 1, errs)
    BY <1>6, <1>8, <1>10 DEF Goes
<1> HIDE DEF after
<1>12. IsBulk(after)
    BY <1>11 DEF Goes
<1>13. Goes(bulk', after, p, after.next, after.completed, after.errors)
    BY <1>4, <1>12, FieldGoes
<1>14. /\ bulk'.list = bulk.list /\ bulk'.t2 = bulk.t2 /\ bulk'.cancelled = bulk.cancelled
       /\ bulk'.at = p /\ bulk'.next = bulk.next /\ bulk'.completed = bulk.completed + 1
       /\ bulk'.errors = errs
       /\ p = IF bulk.completed + 1 < Len(bulk.list) THEN "pool"
              ELSE IF bulk.t2 THEN "t2turn" ELSE "end"
    BY <1>11, <1>13 DEF Goes, p
<1>15. /\ Parallel' = Parallel /\ OfRun' = OfRun /\ Parallel
       /\ bulk.completed = Cardinality(Taken) /\ bulk.next = 1
    BY <1>2, <1>14 DEF Parallel, OfRun, BulkInv, InOrder
<1>16. /\ f \in OfRun /\ OfRun \subseteq Files /\ IsFiniteSet(OfRun) /\ Len(bulk.list) \in Nat
       /\ Cardinality(OfRun) = Len(bulk.list) /\ bulk.t2 \in BOOLEAN /\ bulk.next \in Nat \ {0}
    BY <1>2 DEF Pooled, OfRun, BulkInv, BulkTyped
<1>17. Taken' = Taken \cup {f} /\ f \notin Taken
    BY <1>2, <1>5, <1>15, <1>16 DEF Taken
<1>18. /\ Taken \in SUBSET OfRun /\ Taken \cup {f} \in SUBSET OfRun
    BY <1>16 DEF Taken
<1>19. /\ IsFiniteSet(Taken) /\ Cardinality(Taken) \in Nat
       /\ Cardinality(Taken \cup {f}) = Cardinality(Taken) + 1
       /\ Cardinality(Taken \cup {f}) <= Cardinality(OfRun)
       /\ Cardinality(OfRun) = Cardinality(Taken \cup {f}) => OfRun = Taken \cup {f}
    <2>1. IsFiniteSet(Taken)
        BY <1>16, <1>18, FS_Subset
    <2> QED BY <1>16, <1>17, <1>18, <2>1, FS_Subset, FS_AddElement, FS_CardinalityType
<1>20. TasksAreTracked'
    <2>1. task[f].at = "ready" => task[f].text # 0 /\ f \in tier1Files
        BY <1>1 DEF TasksAreTracked
    <2>2. p # "idle" /\ bulk.errors \subseteq errs
        BY <1>14
    <2> QED BY <1>1, <1>2, <1>5, <1>14, <2>1, <2>2, TracksStay
<1>21. \/ bulk'.completed < Len(bulk.list)
       \/ Taken' = OfRun /\ bulk'.completed = Len(bulk.list)
    BY <1>14, <1>15, <1>16, <1>17, <1>19
<1>22. BulkTyped'
    BY <1>14, <1>15, <1>16, <1>1 DEF BulkTyped, BulkPoints
<1>23. p = "end" => \A k \in DOMAIN bulk.list : bulk.list[k] \in Books'
    <2> SUFFICES ASSUME p = "end", NEW k \in DOMAIN bulk.list PROVE bulk.list[k] \in Books'
        OBVIOUS
    <2>1. bulk.list[k] \in Taken'
        BY <1>14, <1>15, <1>21 DEF OfRun
    <2>2. bulk.list[k] \in Files /\ task'[bulk.list[k]].at \in {"collected", "lost"}
        BY <1>14, <1>16, <2>1 DEF Taken, OfRun
    <2>3. bulk.list[k] \in tier1Files' \/ bulk.list[k] \in bulk'.errors
        BY <1>20, <2>2 DEF TasksAreTracked
    <2>4. ~bulk'.t2
        BY <1>14, <1>16
    <2> QED BY <2>3, <2>4 DEF Books, Analysed
<1>24. InOrder'
    <2>1. CASE p = "pool"
        <3>1. /\ bulk'.at = "pool" /\ bulk'.completed = Cardinality(Taken') /\ Parallel'
              /\ bulk'.next = 1
            BY <1>14, <1>15, <1>17, <1>19, <2>1
        <3> QED BY <3>1 DEF InOrder, Turns
    <2>2. CASE p = "t2turn"
        <3>1. /\ bulk'.at = "t2turn" /\ bulk'.next = 1 /\ Taken' = OfRun' /\ Parallel'
              /\ bulk'.t2 /\ bulk'.completed = Len(bulk'.list) /\ 1 <= Len(bulk'.list) + 1
            BY <1>14, <1>15, <1>16, <1>21, <2>2
        <3>2. \A k \in DOMAIN bulk'.list : ~(k <= bulk'.next - 1)
            BY <1>1, <1>14, <3>1
        <3> QED BY <3>1, <3>2 DEF InOrder, Turns, AccountedTo
    <2>3. CASE p = "end"
        BY <1>14, <1>15, <1>16, <1>21, <1>23, <2>3 DEF InOrder, Turns, AccountedTo
    <2> QED BY <1>14, <2>1, <2>2, <2>3
<1> QED BY <1>20, <1>22, <1>24 DEF BulkInv

\* Every step of a task, and of the run with it.
LEMMA BulkTaskKeeps ==
    ASSUME IInv, BulkInv, NEW f \in Files, TaskStep(f)
    PROVE  BulkInv'
<1>1. /\ task \in [Files -> TaskRecords] /\ task[f] \in TaskRecords /\ IsBulk(bulk)
      /\ text[f] \in TextNos /\ text[f] # 0
    BY PipelineAssumption DEF IInv, TypeOK, BulkKnowsItsText, TextNos
<1>2. /\ TasksAreTracked /\ bulk.at \in BulkPoints /\ bulk.list \in Seq(Files)
      /\ bulk.next \in Nat \ {0}
    BY DEF BulkInv, BulkTyped
<1>3. ASSUME NEW q, TaskAt(f, q)
      PROVE  /\ task'[f].at = q /\ task'[f].text = task[f].text
             /\ \A g \in Files \ {f} : task'[g] = task[g]
    BY <1>1, <1>3 DEF TaskAt, TaskRecords
<1>4. ASSUME task' = [task EXCEPT ![f] = [at |-> "tier1", text |-> text[f]]]
      PROVE  /\ task'[f].at = "tier1" /\ task'[f].text = text[f]
             /\ \A g \in Files \ {f} : task'[g] = task[g]
    BY <1>1, <1>4
<1>5. CASE ReadInTurn(f)
    <2>1. /\ bulk.at = "turn" /\ bulk.next <= Len(bulk.list) /\ f = bulk.list[bulk.next]
          /\ tier1Files' = tier1Files /\ tier2Files' = tier2Files
        BY <1>5 DEF ReadInTurn, tierVars, BulkFile
    <2>2. ~Parallel
        BY <2>1 DEF BulkInv, InOrder
    <2>3. CASE /\ task' = [task EXCEPT ![f] = [at |-> "tier1", text |-> text[f]]]
               /\ bulk' = [bulk EXCEPT !.at = "tier1"]
        <3>1. Goes(bulk', bulk, "tier1", bulk.next, bulk.completed, bulk.errors)
            BY <1>1, <2>3, FieldGoes
        <3>2. bulk'.errors = bulk.errors /\ bulk'.at = "tier1"
            BY <3>1 DEF Goes
        <3>3. TasksAreTracked'
            BY <1>1, <1>2, <1>4, <2>1, <2>3, <3>2, TracksStay
        <3> QED BY <2>1, <2>2, <3>1, <3>3, SameFile DEF Turns
    <2>4. CASE bulk' = Tick(ErrorFor(bulk, f)) /\ task' = task
        <3> DEFINE b == ErrorFor(bulk, f)
        <3>1. Goes(b, bulk, bulk.at, bulk.next, bulk.completed, bulk.errors \cup {f})
            BY <1>1, FieldGoes
        <3>2. bulk' = Tick(b)
            BY <2>4
        <3> HIDE DEF b
        <3>3. IsBulk(b)
            BY <3>1 DEF Goes
        <3>4. Goes(bulk', b, "turn", b.next + 1, b.next, b.errors)
            BY <3>2, <3>3, TickGoes
        <3>5. Goes(bulk', bulk, "turn", bulk.next + 1, bulk.next, bulk.errors \cup {f})
            BY <3>1, <3>4 DEF Goes
        <3>6. bulk'.errors = bulk.errors \cup {f} /\ bulk'.at = "turn"
            BY <3>5 DEF Goes
        <3>7. TasksAreTracked'
            BY <1>2, <2>1, <2>4, <3>6, TracksStand
        <3>8. bulk.list[bulk.next] \in Books'
            BY <2>1, <3>6 DEF Books
        <3> QED BY <2>1, <2>2, <3>5, <3>7, <3>8, NextFile DEF Turns
    <2> QED BY <1>5, <2>3, <2>4 DEF ReadInTurn
<1>6. CASE PoolReads(f)
    <2>1. /\ bulk' = bulk /\ bulk.at \in {"pool", "drain"} /\ task[f].at = "none"
          /\ tier1Files' = tier1Files /\ tier2Files' = tier2Files
          /\ \/ task' = [task EXCEPT ![f] = [at |-> "tier1", text |-> text[f]]]
             \/ TaskAt(f, "failed")
        BY <1>6 DEF PoolReads, tierVars
    <2>2. /\ task'[f].at \in {"tier1", "failed"}
          /\ task'[f].at = "tier1" => task'[f].text = text[f]
          /\ \A g \in Files \ {f} : task'[g] = task[g]
        BY <1>3, <1>4, <2>1
    <2>3. TasksAreTracked'
        BY <1>1, <1>2, <2>1, <2>2, TracksStay
    <2> QED BY <1>1, <2>1, <2>2, <2>3, TaskAlone
<1>7. CASE BulkTier1Model(f)
    <2>1. /\ bulk' = bulk /\ bulk.at \in {"tier1", "pool", "drain"} /\ task[f].at = "tier1"
          /\ tier1Files' = tier1Files /\ tier2Files' = tier2Files /\ TaskAt(f, "tier1Track")
        BY <1>7 DEF BulkTier1Model, MayRunTier1, tierVars
    <2>2. /\ task'[f].at = "tier1Track" /\ task'[f].text = task[f].text
          /\ \A g \in Files \ {f} : task'[g] = task[g]
        BY <1>3, <2>1
    <2>3. task[f].text # 0
        BY <1>2, <2>1 DEF TasksAreTracked
    <2>4. TasksAreTracked'
        BY <1>2, <2>1, <2>2, <2>3, TracksStay
    <2> QED BY <1>1, <2>1, <2>2, <2>4, TaskAlone
<1>8. CASE BulkTier1Track(f)
    <2>1. /\ bulk.at \in {"tier1", "pool", "drain"} /\ task[f].at = "tier1Track"
          /\ tier1Files' = tier1Files \cup {f} /\ tier2Files' = tier2Files
          /\ TaskAt(f, "ready") /\ (bulk.at = "tier1" => f = bulk.list[bulk.next])
          /\ IF bulk.at # "tier1" THEN bulk' = bulk
             ELSE bulk' = IF bulk.t2 THEN [bulk EXCEPT !.t1Done = @ + 1, !.at = "tier2"]
                          ELSE Tick([bulk EXCEPT !.t1Done = @ + 1])
        BY <1>8 DEF BulkTier1Track, MayRunTier1, Tier1Track, BulkFile
    <2>2. /\ task'[f].at = "ready" /\ task'[f].text = task[f].text
          /\ \A g \in Files \ {f} : task'[g] = task[g]
        BY <1>3, <2>1
    <2>3. task[f].text # 0
        BY <1>2, <2>1 DEF TasksAreTracked
    <2>4. ASSUME bulk.errors \subseteq bulk'.errors, bulk'.at # "idle"
          PROVE  TasksAreTracked'
        BY <1>2, <2>1, <2>2, <2>3, <2>4, TracksStay
    <2>5. CASE bulk.at # "tier1"
        <3>1. bulk' = bulk
            BY <2>1, <2>5
        <3>2. TasksAreTracked'
            BY <2>1, <2>4, <3>1
        <3> QED BY <1>1, <2>1, <2>2, <3>1, <3>2, TaskAlone
    <2>6. CASE bulk.at = "tier1"
        <3> DEFINE n == bulk.t1Done + 1
                   b == [bulk EXCEPT !.t1Done = n]
        <3>0. ~Parallel /\ bulk.next <= Len(bulk.list) /\ bulk.at \in Turns
            BY <2>6 DEF BulkInv, InOrder, Turns
        <3>1. bulk' = IF bulk.t2 THEN [b EXCEPT !.at = "tier2"] ELSE Tick(b)
            BY <2>1, <2>6
        <3> HIDE DEF n
        <3>2. Goes(b, bulk, bulk.at, bulk.next, bulk.completed, bulk.errors)
            BY <1>1, FieldGoes
        <3> HIDE DEF b
        <3>3. IsBulk(b)
            BY <3>2 DEF Goes
        <3>4. CASE bulk.t2
            <4>1. Goes(bulk', b, "tier2", b.next, b.completed, b.errors)
                BY <3>1, <3>3, <3>4, FieldGoes
            <4>2. Goes(bulk', bulk, "tier2", bulk.next, bulk.completed, bulk.errors)
                BY <3>2, <4>1 DEF Goes
            <4>3. bulk'.errors = bulk.errors /\ bulk'.at = "tier2"
                BY <4>2 DEF Goes
            <4>4. TasksAreTracked'
                BY <2>4, <4>3
            <4>5. task'[BulkFile].at = "ready"
                BY <2>1, <2>2, <2>6 DEF BulkFile
            <4> QED BY <2>1, <3>0, <3>4, <4>2, <4>4, <4>5, SameFile
        <3>5. CASE ~bulk.t2
            <4>1. Goes(bulk', b, "turn", b.next + 1, b.next, b.errors)
                BY <3>1, <3>3, <3>5, TickGoes
            <4>2. Goes(bulk', bulk, "turn", bulk.next + 1, bulk.next, bulk.errors)
                BY <3>2, <4>1 DEF Goes
            <4>3. bulk'.errors = bulk.errors /\ bulk'.at = "turn" /\ bulk'.t2 = bulk.t2
                BY <4>2 DEF Goes
            <4>4. TasksAreTracked'
                BY <2>4, <4>3
            <4>5. bulk.list[bulk.next] \in Books'
                BY <2>1, <2>6, <3>5, <4>3 DEF Books, Analysed
            <4> QED BY <2>1, <3>0, <4>2, <4>4, <4>5, NextFile
        <3> QED BY <3>4, <3>5
    <2> QED BY <2>5, <2>6
<1>9. CASE BulkTier1Raises(f)
    <2>1. /\ bulk.at \in {"tier1", "pool", "drain"} /\ task[f].at = "tier1"
          /\ tier1Files' = tier1Files /\ tier2Files' = tier2Files
          /\ TaskAt(f, "failed") /\ (bulk.at = "tier1" => f = bulk.list[bulk.next])
          /\ bulk' = IF bulk.at = "tier1" THEN Tick(ErrorFor(bulk, f)) ELSE bulk
        BY <1>9 DEF BulkTier1Raises, MayRunTier1, tierVars, BulkFile
    <2>2. /\ task'[f].at = "failed" /\ \A g \in Files \ {f} : task'[g] = task[g]
        BY <1>3, <2>1
    <2>3. ASSUME bulk.errors \subseteq bulk'.errors, bulk'.at # "idle"
          PROVE  TasksAreTracked'
        BY <1>2, <2>1, <2>2, <2>3, TracksStay
    <2>4. CASE bulk.at # "tier1"
        <3>1. bulk' = bulk
            BY <2>1, <2>4
        <3>2. TasksAreTracked'
            BY <2>1, <2>3, <3>1
        <3> QED BY <1>1, <2>1, <2>2, <3>1, <3>2, TaskAlone
    <2>5. CASE bulk.at = "tier1"
        <3> DEFINE b == ErrorFor(bulk, f)
        <3>0. ~Parallel /\ bulk.next <= Len(bulk.list) /\ bulk.at \in Turns
            BY <2>5 DEF BulkInv, InOrder, Turns
        <3>1. Goes(b, bulk, bulk.at, bulk.next, bulk.completed, bulk.errors \cup {f})
            BY <1>1, FieldGoes
        <3>2. bulk' = Tick(b)
            BY <2>1, <2>5
        <3> HIDE DEF b
        <3>3. IsBulk(b)
            BY <3>1 DEF Goes
        <3>4. Goes(bulk', b, "turn", b.next + 1, b.next, b.errors)
            BY <3>2, <3>3, TickGoes
        <3>5. Goes(bulk', bulk, "turn", bulk.next + 1, bulk.next, bulk.errors \cup {f})
            BY <3>1, <3>4 DEF Goes
        <3>6. bulk'.errors = bulk.errors \cup {f} /\ bulk'.at = "turn"
            BY <3>5 DEF Goes
        <3>7. TasksAreTracked'
            BY <2>3, <3>6
        <3>8. bulk.list[bulk.next] \in Books'
            BY <2>1, <2>5, <3>6 DEF Books
        <3> QED BY <2>1, <3>0, <3>5, <3>7, <3>8, NextFile
    <2> QED BY <2>4, <2>5
<1>10. CASE Collect(f)
    BY <1>10, CollectKeeps
<1>11. CASE Tier2Turn(f)
    <2>1. /\ bulk.at = "t2turn" /\ bulk.next <= Len(bulk.list) /\ f = bulk.list[bulk.next]
          /\ tier1Files' = tier1Files /\ tier2Files' = tier2Files /\ task' = task
          /\ bulk' = IF task[f].text = 0 THEN [bulk EXCEPT !.next = bulk.next + 1]
                     ELSE [bulk EXCEPT !.at = "tier2"]
        BY <1>11 DEF Tier2Turn, tierVars, BulkFile
    <2>2. Parallel /\ bulk.t2 /\ Taken = OfRun /\ bulk.at \in Turns
        BY <2>1 DEF BulkInv, InOrder, Turns
    <2>3. CASE task[f].text = 0
        <3> DEFINE n == bulk.next + 1
        <3>1. bulk' = [bulk EXCEPT !.next = n]
            BY <2>1, <2>3
        <3> HIDE DEF n
        <3>2. Goes(bulk', bulk, bulk.at, n, bulk.completed, bulk.errors)
            BY <1>1, <3>1, FieldGoes
        <3>3. bulk'.errors = bulk.errors /\ bulk'.list = bulk.list /\ bulk'.at = "t2turn"
            BY <2>1, <3>2 DEF Goes
        <3>4. f \in OfRun
            BY <1>2, <2>1 DEF OfRun
        <3>5. f \in bulk.errors
            BY <1>2, <2>2, <2>3, <3>4 DEF Taken, TasksAreTracked
        <3>6. TasksAreTracked'
            BY <1>2, <2>1, <3>3, TracksStand
        <3>7. bulk.list[bulk.next] \in Books'
            BY <2>1, <3>3, <3>5 DEF Books
        <3>8. Taken' = Taken
            BY <2>1, <3>3 DEF Taken, OfRun
        <3>9. Goes(bulk', bulk, "t2turn", bulk.next + 1, bulk.completed, bulk.errors)
            BY <2>1, <3>2 DEF n
        <3> QED BY <2>1, <2>2, <3>9, <3>6, <3>7, <3>8, NextFile
    <2>4. CASE task[f].text # 0
        <3>1. Goes(bulk', bulk, "tier2", bulk.next, bulk.completed, bulk.errors)
            BY <1>1, <2>1, <2>4, FieldGoes
        <3>2. bulk'.errors = bulk.errors /\ bulk'.list = bulk.list /\ bulk'.at = "tier2"
            BY <3>1 DEF Goes
        <3>3. TasksAreTracked'
            BY <1>2, <2>1, <3>2, TracksStand
        <3>4. Taken' = Taken
            BY <2>1, <3>2 DEF Taken, OfRun
        <3> QED BY <2>1, <2>2, <3>1, <3>3, <3>4, SameFile
    <2> QED BY <2>3, <2>4
<1> QED BY <1>5, <1>6, <1>7, <1>8, <1>9, <1>10, <1>11 DEF TaskStep

\* A listing has every file once.
LEMMA ListingIsOnce ==
    ASSUME NEW S \in SUBSET Files, IsFiniteSet(S), NEW list \in Listings(S)
    PROVE  /\ list \in Seq(Files) /\ Len(list) \in Nat
           /\ IsFiniteSet({list[k] : k \in DOMAIN list})
           /\ Cardinality({list[k] : k \in DOMAIN list}) = Len(list)
<1> DEFINE n == Cardinality(S)
           T == {list[k] : k \in DOMAIN list}
<1>1. n \in Nat
    BY FS_CardinalityType
<1>2. /\ list \in [1 .. n -> S]
      /\ \A j, k \in DOMAIN list : list[j] = list[k] => j = k
    BY DEF Listings
<1> HIDE DEF n
<1>3. list \in Seq(S) /\ Len(list) = n /\ DOMAIN list = 1 .. n
    BY <1>1, <1>2
<1>4. list \in Seq(Files)
    BY <1>3
<1>5. list \in Bijection(1 .. n, T)
    BY <1>2, <1>3 DEF Bijection, Injection, Surjection, IsInjective
<1>6. IsFiniteSet(T) /\ Cardinality(T) = n
    BY <1>1, <1>5, FS_CountingElements, FS_NatBijection DEF ExistsBijection
<1> QED BY <1>1, <1>3, <1>4, <1>6

\* After tier 2 the sequential run ticks and the parallel one goes on in its list.
LEMMA AfterTier2Keeps ==
    ASSUME IInv, BulkInv, bulk.at \in {"tier2", "tier2Track"}, NEW b, NEW errs,
           Goes(b, bulk, bulk.at, bulk.next, bulk.completed, errs), bulk' = AfterTier2(b),
           bulk.errors \subseteq errs, task' = task, tier1Files' = tier1Files,
           tier2Files \subseteq tier2Files', BulkFile \in errs \/ BulkFile \in tier2Files'
    PROVE  BulkInv'
<1>1. /\ bulk.at \in Turns /\ bulk.next <= Len(bulk.list) /\ bulk.t2 /\ TasksAreTracked
      /\ bulk.next \in Nat \ {0} /\ bulk.list \in Seq(Files)
    BY DEF BulkInv, BulkTyped, InOrder, Turns
<1>2. BulkFile = bulk.list[bulk.next] /\ BulkFile \in OfRun
    BY <1>1 DEF BulkFile, OfRun
<1>3. task[BulkFile].at = "ready" <=> ~Parallel
    BY <1>2 DEF BulkInv, InOrder, Taken
<1>4. IsBulk(b)
    BY DEF Goes
<1>5. Goes(bulk', bulk, IF Parallel THEN "t2turn" ELSE "turn", bulk.next + 1,
           IF Parallel THEN bulk.completed ELSE bulk.next, errs)
    <2>1. CASE ~Parallel
        <3>1. bulk' = Tick(b)
            BY <1>3, <2>1 DEF AfterTier2
        <3>2. Goes(bulk', b, "turn", b.next + 1, b.next, b.errors)
            BY <1>4, <3>1, TickGoes
        <3> QED BY <2>1, <3>2 DEF Goes
    <2>2. CASE Parallel
        <3> DEFINE n == b.next + 1
                   following == [b EXCEPT !.next = n]
        <3>1. bulk' = [following EXCEPT !.at = "t2turn"]
            BY <1>3, <2>2 DEF AfterTier2
        <3> HIDE DEF n
        <3>2. Goes(following, b, b.at, n, b.completed, b.errors)
            BY <1>4, FieldGoes
        <3> HIDE DEF following
        <3>3. IsBulk(following)
            BY <3>2 DEF Goes
        <3>4. Goes(bulk', following, "t2turn", following.next, following.completed,
                   following.errors)
            BY <3>1, <3>3, FieldGoes
        <3> QED BY <2>2, <3>2, <3>4 DEF Goes, n
    <2> QED BY <2>1, <2>2
<1>6. /\ bulk'.errors = errs /\ bulk'.at \in {"turn", "t2turn"} /\ bulk'.t2 = bulk.t2
      /\ bulk'.list = bulk.list
    BY <1>5 DEF Goes
<1>7. TasksAreTracked'
    BY <1>1, <1>6, TracksStand DEF Turns
<1>8. bulk.list[bulk.next] \in Books'
    BY <1>1, <1>2, <1>6 DEF Books, Analysed
<1>9. Taken' = Taken
    BY <1>6 DEF Taken, OfRun
<1> QED BY <1>1, <1>5, <1>7, <1>8, <1>9, NextFile

\* Every step of the run alone.
LEMMA BulkRunKeeps ==
    ASSUME IInv, BulkInv, BulkStep \/ StartBulk \/ CancelBulk
    PROVE  BulkInv'
<1>1. /\ IsBulk(bulk) /\ TasksAreTracked /\ bulk.list \in Seq(Files)
      /\ bulk.next \in Nat \ {0}
    BY DEF IInv, BulkKnowsItsText, BulkInv, BulkTyped
<1>2. CASE Drained
    <2>1. /\ bulk' = [bulk EXCEPT !.at = "end"] /\ bulk.at = "drain" /\ task' = task
          /\ tier1Files' = tier1Files /\ tier2Files' = tier2Files
        BY <1>2 DEF Drained, tierVars
    <2>2. Goes(bulk', bulk, "end", bulk.next, bulk.completed, bulk.errors)
        BY <1>1, <2>1, FieldGoes
    <2>3. /\ bulk'.at = "end" /\ bulk'.next = bulk.next /\ bulk'.list = bulk.list
          /\ bulk'.t2 = bulk.t2 /\ bulk'.errors = bulk.errors
          /\ bulk'.cancelled = bulk.cancelled
        BY <2>2 DEF Goes
    <2>4. bulk'.cancelled
        BY <2>1, <2>3 DEF BulkInv, InOrder
    <2>5. TasksAreTracked'
        BY <1>1, <2>1, <2>3, TracksStand
    <2> QED BY <2>1, <2>3, <2>4, <2>5, AtEnd
<1>3. CASE BulkTier2Model
    <2>1. /\ task' = task /\ tier1Files' = tier1Files /\ tier2Files' = tier2Files
          /\ bulk.at = "tier2"
          /\ \/ bulk' = [bulk EXCEPT !.at = "tier2Track"]
             \/ bulk' = [ErrorFor(bulk, BulkFile) EXCEPT !.at = "tier2Track"]
        BY <1>3 DEF BulkTier2Model, tierVars
    <2>2. PICK errs : /\ bulk.errors \subseteq errs
                      /\ Goes(bulk', bulk, "tier2Track", bulk.next, bulk.completed, errs)
        <3>1. CASE bulk' = [bulk EXCEPT !.at = "tier2Track"]
            <4>1. Goes(bulk', bulk, "tier2Track", bulk.next, bulk.completed, bulk.errors)
                BY <1>1, <3>1, FieldGoes
            <4> QED BY <4>1
        <3>2. CASE bulk' = [ErrorFor(bulk, BulkFile) EXCEPT !.at = "tier2Track"]
            <4> DEFINE f == BulkFile
                       b == ErrorFor(bulk, f)
            <4>1. bulk' = [b EXCEPT !.at = "tier2Track"]
                BY <3>2
            <4> HIDE DEF f
            <4>2. Goes(b, bulk, bulk.at, bulk.next, bulk.completed, bulk.errors \cup {f})
                BY <1>1, FieldGoes
            <4> HIDE DEF b
            <4>3. IsBulk(b)
                BY <4>2 DEF Goes
            <4>4. Goes(bulk', b, "tier2Track", b.next, b.completed, b.errors)
                BY <4>1, <4>3, FieldGoes
            <4>5. Goes(bulk', bulk, "tier2Track", bulk.next, bulk.completed,
                       bulk.errors \cup {f})
                BY <4>2, <4>4 DEF Goes
            <4> QED BY <4>5
        <3> QED BY <2>1, <3>1, <3>2
    <2>3. /\ bulk'.errors = errs /\ bulk'.list = bulk.list /\ bulk'.at = "tier2Track"
        BY <2>2 DEF Goes
    <2>4. TasksAreTracked'
        BY <1>1, <2>1, <2>2, <2>3, TracksStand
    <2>5. Taken' = Taken
        BY <2>1, <2>3 DEF Taken, OfRun
    <2>6. /\ bulk.at \in Turns /\ bulk.next <= Len(bulk.list) /\ bulk.t2
          /\ ~Parallel => task'[BulkFile].at = "ready"
        BY <2>1 DEF BulkInv, InOrder, Turns
    <2> QED BY <2>1, <2>2, <2>4, <2>5, <2>6, SameFile
<1>4. CASE BulkTier2Track
    <2> DEFINE n == bulk.t2Done + 1
               b == [bulk EXCEPT !.t2Done = n]
    <2>1. /\ task' = task /\ tier1Files' = tier1Files
          /\ tier2Files' = tier2Files \cup {BulkFile}
          /\ bulk.at = "tier2Track" /\ bulk' = AfterTier2(b)
        BY <1>4 DEF BulkTier2Track, Tier2Track
    <2> HIDE DEF n
    <2>2. Goes(b, bulk, bulk.at, bulk.next, bulk.completed, bulk.errors)
        BY <1>1, FieldGoes
    <2> HIDE DEF b
    <2> QED BY <2>1, <2>2, AfterTier2Keeps
<1>5. CASE BulkTier2Raises
    <2> DEFINE f == BulkFile
               b == ErrorFor(bulk, f)
    <2>1. /\ task' = task /\ tier1Files' = tier1Files /\ tier2Files' = tier2Files
          /\ bulk.at = "tier2" /\ bulk' = AfterTier2(b)
        BY <1>5 DEF BulkTier2Raises, tierVars
    <2>2. f = BulkFile
        OBVIOUS
    <2> HIDE DEF f
    <2>3. Goes(b, bulk, bulk.at, bulk.next, bulk.completed, bulk.errors \cup {f})
        BY <1>1, FieldGoes
    <2> HIDE DEF b
    <2> QED BY <2>1, <2>2, <2>3, AfterTier2Keeps
<1>6. CASE EndBulk
    <2> DEFINE no == FALSE
               b == [bulk EXCEPT !.at = "ended"]
    <2>1. /\ bulk' = [b EXCEPT !.running = no] /\ task' = task
          /\ tier1Files' = tier1Files /\ tier2Files' = tier2Files
          /\ \/ bulk.at = "end"
             \/ bulk.at \in {"turn", "t2turn"} /\ bulk.next > Len(bulk.list)
        BY <1>6 DEF EndBulk, tierVars
    <2> HIDE DEF no
    <2>2. Goes(b, bulk, "ended", bulk.next, bulk.completed, bulk.errors)
        BY <1>1, FieldGoes
    <2> HIDE DEF b
    <2>3. IsBulk(b)
        BY <2>2 DEF Goes
    <2>4. Goes(bulk', b, b.at, b.next, b.completed, b.errors)
        BY <2>1, <2>3, FieldGoes
    <2>5. /\ bulk'.at = "ended" /\ bulk'.next = bulk.next /\ bulk'.list = bulk.list
          /\ bulk'.t2 = bulk.t2 /\ bulk'.errors = bulk.errors
          /\ bulk'.cancelled = bulk.cancelled /\ bulk'.completed = bulk.completed
        BY <2>2, <2>4 DEF Goes
    <2>6. TasksAreTracked'
        BY <1>1, <2>1, <2>5, TracksStand
    <2>7. Books' = Books
        BY <2>1, <2>5 DEF Books, Analysed
    <2>8. ~bulk.cancelled => /\ bulk.completed = Len(bulk.list)
                             /\ \A k \in DOMAIN bulk.list : bulk.list[k] \in Books
        <3>1. CASE bulk.at = "end"
            BY <1>1, <3>1 DEF BulkInv, InOrder, AccountedTo
        <3>2. CASE bulk.at \in {"turn", "t2turn"} /\ bulk.next > Len(bulk.list)
            <4>1. /\ bulk.next - 1 = Len(bulk.list) /\ AccountedTo(bulk.next - 1)
                  /\ bulk.completed = Len(bulk.list)
                BY <1>1, <3>2 DEF BulkInv, InOrder, Turns
            <4> QED BY <1>1, <4>1 DEF AccountedTo
        <3> QED BY <2>1, <3>1, <3>2
    <2> QED BY <2>1, <2>5, <2>6, <2>7, <2>8, AtEnd
<1>7. CASE StartBulk
    <2>1. PICK t2 \in BOOLEAN : \E list \in Listings(Remaining(t2)) :
             LET parallel == Workers > 1 /\ Len(list) > ParallelAbove
             IN  bulk' = [NoBulk EXCEPT !.t2 = t2, !.list = list, !.running = TRUE,
                                        !.at = IF parallel THEN "pool" ELSE "turn"]
        BY <1>7 DEF StartBulk
    <2>2. PICK list \in Listings(Remaining(t2)) :
             LET parallel == Workers > 1 /\ Len(list) > ParallelAbove
             IN  bulk' = [NoBulk EXCEPT !.t2 = t2, !.list = list, !.running = TRUE,
                                        !.at = IF parallel THEN "pool" ELSE "turn"]
        BY <2>1
    <2> DEFINE T == {list[k] : k \in DOMAIN list}
    <2>3. Remaining(t2) \in SUBSET Files /\ IsFiniteSet(Remaining(t2))
        <3>1. Remaining(t2) \in SUBSET BulkFiles
            BY DEF Remaining
        <3> QED BY <3>1, PipelineAssumption, FS_Subset
    <2>4. list \in Seq(Files) /\ Len(list) \in Nat /\ IsFiniteSet(T) /\ Cardinality(T) = Len(list)
        BY <2>2, <2>3, ListingIsOnce
    <2>5. /\ bulk'.t2 = t2 /\ bulk'.list = list /\ bulk'.next = 1 /\ bulk'.completed = 0
          /\ bulk'.at = IF Workers > 1 /\ Len(list) > ParallelAbove THEN "pool" ELSE "turn"
        BY <2>2 DEF NoBulk
    <2>6. /\ task' = task /\ tier1Files' = tier1Files /\ tier2Files' = tier2Files
          /\ bulk.at = "idle"
        BY <1>7 DEF StartBulk, tierVars
    <2>7. \A f \in Files : task[f].at = "none"
        BY <1>1, <2>6 DEF TasksAreTracked
    <2>8. OfRun' = T /\ (Parallel' <=> (Workers > 1 /\ Len(list) > ParallelAbove))
        BY <2>5 DEF OfRun, Parallel
    <2>9. T \subseteq Files
        BY <2>4
    <2>10. Taken' = {}
        <3>1. \A f \in T : task'[f].at = "none"
            BY <2>6, <2>7, <2>9
        <3> QED BY <2>8, <3>1 DEF Taken
    <2>11. BulkTyped'
        BY <2>4, <2>5, <2>8 DEF BulkTyped, BulkPoints
    <2>12. TasksAreTracked'
        BY <2>6, <2>7 DEF TasksAreTracked
    <2>13. \A k \in DOMAIN bulk'.list : ~(k <= bulk'.next - 1)
        BY <2>4, <2>5
    <2>14. Cardinality(Taken') = 0
        BY <2>10, FS_EmptySet
    <2>15. InOrder'
        <3>1. CASE Parallel'
            <4>1. bulk'.at = "pool" /\ bulk'.next = 1 /\ bulk'.completed = Cardinality(Taken')
                BY <2>5, <2>8, <2>14, <3>1
            <4> QED BY <3>1, <4>1 DEF InOrder, Turns
        <3>2. CASE ~Parallel'
            <4>1. bulk'.at = "turn" /\ bulk'.next = 1 /\ bulk'.completed = 0
                BY <2>5, <2>8, <3>2
            <4>2. 1 <= Len(bulk'.list) + 1
                BY <2>4, <2>5
            <4> QED BY <2>13, <3>2, <4>1, <4>2 DEF InOrder, Turns, AccountedTo
        <3> QED BY <3>1, <3>2
    <2> QED BY <2>11, <2>12, <2>15 DEF BulkInv
<1>8. CASE CancelBulk
    <2> DEFINE p == IF bulk.at = "pool" THEN "drain" ELSE "end"
    <2>1. /\ bulk' = [bulk EXCEPT !.cancelled = TRUE, !.at = IF @ = "pool" THEN "drain" ELSE "end"]
          /\ task' = task /\ tier1Files' = tier1Files /\ tier2Files' = tier2Files
          /\ bulk.at \in {"turn", "t2turn", "pool"}
        BY <1>8 DEF CancelBulk, tierVars
    <2>2. /\ bulk'.at = p /\ bulk'.next = bulk.next /\ bulk'.list = bulk.list
          /\ bulk'.t2 = bulk.t2 /\ bulk'.errors = bulk.errors /\ bulk'.cancelled
        BY <1>1, <2>1 DEF IsBulk
    <2>3. p \in {"drain", "end"} /\ (p = "drain" => Parallel)
        BY DEF BulkInv, InOrder
    <2> HIDE DEF p
    <2>4. TasksAreTracked'
        BY <1>1, <2>1, <2>2, <2>3, TracksStand
    <2> QED BY <2>1, <2>2, <2>3, <2>4, AtEnd
<1> QED BY <1>2, <1>3, <1>4, <1>5, <1>6, <1>7, <1>8 DEF BulkStep

\* The bulk run begins with no list and no task.
LEMMA BooksStart == Init => BulkInv
<1> SUFFICES ASSUME Init PROVE BulkInv
    OBVIOUS
<1>1. /\ bulk.at = "idle" /\ bulk.list = <<>> /\ bulk.next = 1 /\ bulk.t2 = FALSE
      /\ \A f \in Files : task[f].at = "none"
    BY DEF Init, NoBulk, NoTask
<1>2. OfRun = {}
    BY <1>1 DEF OfRun
<1>3. bulk.list \in Seq(Files) /\ Len(bulk.list) = 0
    BY <1>1
<1>4. IsFiniteSet(OfRun) /\ Cardinality(OfRun) = 0
    BY <1>2, FS_EmptySet
<1>5. BulkTyped
    <2>1. bulk.at \in BulkPoints
        BY <1>1 DEF BulkPoints
    <2>4. bulk.next \in Nat \ {0}
        BY <1>1
    <2>5. bulk.t2 \in BOOLEAN
        BY <1>1, Zenon
    <2>2. Cardinality(OfRun) = Len(bulk.list)
        BY <1>3, <1>4
    <2> QED BY <1>3, <1>4, <2>1, <2>2, <2>4, <2>5 DEF BulkTyped
<1> QED BY <1>1, <1>5 DEF BulkInv, TasksAreTracked, InOrder, Turns

\* The other threads leave the run and its tasks alone; only they and the run's own
\* tasks add to the tracking sets, and nothing is forgotten once it has begun.
LEMMA BooksKeep == IInv /\ BulkInv /\ [Next]_vars => BulkInv'
<1> SUFFICES ASSUME IInv, BulkInv, [Next]_vars PROVE BulkInv'
    OBVIOUS
<1>1. ASSUME NEW c \in Calls, CallStep(c)
      PROVE  /\ UNCHANGED bulkVars
             /\ tier1Files \subseteq tier1Files' /\ tier2Files \subseteq tier2Files'
    BY <1>1 DEF CallStep, Begin, CallTier1Model, CallTier1Track, CallTier2Model, CallTier2Track,
                Redirect, NoteGeneration, RaiseFlag, Submit, SubmitRaises, Answer,
                CheckGeneration, FetchCached, Enrich, Record, EndResult, Tier1Track, Tier2Track,
                tierVars
<1>2. ASSUME NEW f \in Files, Edit(f) \/ CacheDrops(f)
      PROVE  BulkInv'
    BY <1>2, BooksStay DEF Edit, CacheDrops, tierVars, tier3Vars
<1>3. ASSUME (\E f \in Files : Forget(f)) \/ ResetTracking
      PROVE  BulkInv'
    <2>1. bulk' = bulk /\ task' = task /\ bulk.at = "idle"
        BY <1>3 DEF Forget, ResetTracking, bulkVars
    <2>2. TasksAreTracked'
        BY <2>1 DEF BulkInv, TasksAreTracked
    <2>3. BulkTyped'
        BY <2>1 DEF BulkInv, BulkTyped, OfRun
    <2>4. InOrder'
        BY <2>1 DEF InOrder, Turns
    <2> QED BY <2>2, <2>3, <2>4 DEF BulkInv
<1>4. CASE UNCHANGED vars
    BY <1>4, BooksStay DEF vars, tierVars
<1> QED BY <1>1, <1>2, <1>3, <1>4, BooksStay, BulkTaskKeeps, BulkRunKeeps DEF Next

\* What the bulk run has come past is accounted for, whatever fails, is cancelled or
\* is edited, and whatever else analyses or forgets files meanwhile.
THEOREM BooksInductive == Spec => [](IInv /\ BulkInv)
<1>1. Init => IInv /\ BulkInv
    BY InitEstablishes, BooksStart
<1>2. IInv /\ BulkInv /\ [Next]_vars => (IInv /\ BulkInv)'
    BY StepKeeps, BooksKeep
<1> QED BY <1>1, <1>2, PTL DEF Spec

\* A bulk run that was not cancelled (run_bulk_t1_t2) ends with every file of its list
\* analysed or in error and the progress at the total, sequentially and in the pool;
\* the count of pending compilations is exact (PendingExact).
THEOREM WorkAccounted == Spec => []WorkIsAccountedFor
<1>1. IInv /\ BulkInv => WorkIsAccountedFor
    <2> SUFFICES ASSUME IInv, BulkInv, bulk.at = "ended", ~bulk.cancelled
                 PROVE  /\ bulk.completed = Len(bulk.list)
                        /\ \A k \in DOMAIN bulk.list :
                              \/ bulk.list[k] \in bulk.errors
                              \/ bulk.list[k] \in (IF bulk.t2 THEN tier2Files
                                                   ELSE tier1Files)
        BY DEF WorkIsAccountedFor, BulkAccountsForAll, IInv
    <2>1. bulk.completed = Len(bulk.list) /\ AccountedTo(Len(bulk.list))
        BY DEF BulkInv, InOrder
    <2>2. \A k \in DOMAIN bulk.list : k <= Len(bulk.list)
        BY DEF BulkInv, BulkTyped
    <2>3. \A k \in DOMAIN bulk.list : bulk.list[k] \in Books
        BY <2>1, <2>2 DEF AccountedTo
    <2> QED BY <2>1, <2>3 DEF Books, Analysed
<1> QED BY <1>1, BooksInductive, PTL

-----------------------------------------------------------------------------
(* Parsing.  The lock says which thread is in a session, and what the       *)
(* globals, the filter of errors and the directory are follows from where   *)
(* that thread is.                                                          *)

Pcs == {"idle", "parser", "enter", "begin", "run", "exit", "after", "lexer", "regex", "done"}
InSession == {"begin", "run", "exit"}
States == [filename : SourceFiles \cup {None}, stack : (SUBSET SourceFiles) \cup {None}]
Results == {None} \cup BOOLEAN \cup [tier : 0 .. 3, found : BOOLEAN]
Records == [pc : Pcs, file : SourceFiles \cup {None}, kind : {"parse", "compile", None},
            force : 0 .. 3, nest : Seq(SourceFiles), saved : States,
            errors : SUBSET ((1 .. 2) \X {"RuntimeError", "TimeoutError"}),
            result : Results]

ParserTypeOK ==
    /\ thread \in [Threads -> Records] /\ globals \in States
    /\ lock \in Threads \cup {None}

\* The lock is that of the thread in a session, which has what the others left.
OneSession ==
    /\ \A t \in Threads : lock = t <=> thread[t].pc \in InSession
    /\ lock = None => globals = Parser!Outside /\ report = None /\ cwd = "root"
    /\ \A t \in Threads : thread[t].pc \in InSession => thread[t].saved = Parser!Outside
    /\ \A t \in Threads : thread[t].pc \in {"begin", "exit"} => report = None /\ cwd = "root"

\* The names a running parse sees are of its file and of what that includes.
OwnNames ==
    \A t \in Threads :
        /\ thread[t].pc # "idle" => thread[t].file \in SourceFiles
        /\ thread[t].pc # "run" => thread[t].nest = <<>>
        /\ thread[t].pc = "begin" => globals.stack \in SUBSET SourceFiles
        /\ thread[t].pc = "run" =>
              /\ report = IF thread[t].kind = "parse" THEN t ELSE None
              /\ globals.filename \in SourceFiles /\ globals.stack \in SUBSET SourceFiles
              /\ thread[t].nest = <<>> => globals.filename = thread[t].file
              /\ thread[t].nest # <<>> => thread[t].nest[1] = thread[t].file

\* What the tiers that were tried leave for the following one.
TiersSoFar ==
    \A t \in Threads : thread[t].kind = "parse" =>
        /\ thread[t].pc \notin {"idle", "parser", "done"} =>
              Content[thread[t].file] # "blank"
        /\ thread[t].pc = "done" /\ env # "noivy" =>
              (thread[t].result.found <=> Parser!HasSymbols(thread[t].file))

ParserInv == ParserTypeOK /\ OneSession /\ OwnNames /\ TiersSoFar
-----------------------------------------------------------------------------
(* The tiers, outside a session.                                            *)

\* What a record has to be, apart from the session.
RecordOK(r) ==
    /\ r \in Records /\ r.nest = <<>>
    /\ r.pc # "idle" => r.file \in SourceFiles
    /\ r.kind = "parse" =>
          /\ r.pc \notin {"idle", "parser", "done"} => Content[r.file] # "blank"
          /\ r.pc = "done" /\ env # "noivy" => (r.result.found <=> Parser!HasSymbols(r.file))

\* A thread goes on that is in no session before or after.
LEMMA QuietMove ==
    ASSUME ParserInv, NEW t \in Threads, thread[t].pc \notin InSession,
           NEW r, RecordOK(r), r.pc \notin InSession, thread' = [thread EXCEPT ![t] = r],
           UNCHANGED <<Parser!session, Parser!other>>
    PROVE  ParserInv'
<1>1. /\ thread \in [Threads -> Records] /\ thread' \in [Threads -> Records]
      /\ thread'[t] = r /\ \A u \in Threads \ {t} : thread'[u] = thread[u]
      /\ env' = env /\ lock' = lock /\ globals' = globals /\ report' = report /\ cwd' = cwd
    BY DEF ParserInv, ParserTypeOK, RecordOK, Parser!session, Parser!other
<1>2. ParserTypeOK'
    BY <1>1 DEF ParserInv, ParserTypeOK, States
<1>3. OneSession'
    BY <1>1 DEF ParserInv, OneSession, Parser!Outside, InSession
<1>4. OwnNames'
    BY <1>1 DEF ParserInv, OwnNames, RecordOK, InSession
<1>5. TiersSoFar'
    BY <1>1 DEF ParserInv, TiersSoFar, RecordOK, Parser!HasSymbols
<1> QED BY <1>2, <1>3, <1>4, <1>5 DEF ParserInv

LEMMA RecordOf ==
    ASSUME ParserInv, NEW t \in Threads
    PROVE  /\ thread[t] \in Records /\ thread \in [Threads -> Records]
           /\ thread[t].pc # "run" => RecordOK(thread[t])
BY DEF ParserInv, ParserTypeOK, OwnNames, TiersSoFar, RecordOK

LEMMA IdleIsOK == RecordOK(Parser!Idle) /\ Parser!Idle.pc = "idle"
BY DEF RecordOK, Parser!Idle, Records, Pcs, States, Parser!Outside, Results

\* A thread's record with another place in the program.
LEMMA ToIsOK ==
    ASSUME NEW r, RecordOK(r), NEW pc \in Pcs, r.pc # "idle",
           pc # "done" \/ r.kind # "parse",
           pc \in {"parser", "done"} \/ r.pc # "parser" \/ r.kind # "parse"
               \/ Content[r.file] # "blank",
           r.pc # "done"
    PROVE  RecordOK([r EXCEPT !.pc = pc]) /\ [r EXCEPT !.pc = pc].pc = pc
<1> DEFINE q == [r EXCEPT !.pc = pc]
<1>1. /\ q \in Records /\ q.pc = pc /\ q.file = r.file /\ q.kind = r.kind
      /\ q.nest = r.nest /\ q.result = r.result
    BY DEF RecordOK, Records
<1> HIDE DEF q
<1>2. RecordOK(q)
    BY <1>1 DEF RecordOK
<1> QED BY <1>1, <1>2 DEF q

\* A tier has found the symbols.
LEMMA DoneIsOK ==
    ASSUME NEW r, RecordOK(r), r.pc # "idle", NEW tier \in 0 .. 3, NEW found \in BOOLEAN,
           r.kind = "parse" /\ env # "noivy" => (found <=> Parser!HasSymbols(r.file))
    PROVE  RecordOK([r EXCEPT !.pc = "done", !.result = [tier |-> tier, found |-> found]])
<1> DEFINE q == [r EXCEPT !.pc = "done", !.result = [tier |-> tier, found |-> found]]
<1>1. /\ q \in Records /\ q.pc = "done" /\ q.file = r.file /\ q.nest = r.nest
      /\ q.result.found = found /\ q.kind = r.kind
    BY DEF RecordOK, Records, Pcs, Results
<1> HIDE DEF q
<1>2. RecordOK(q)
    BY <1>1 DEF RecordOK
<1> QED BY <1>1, <1>2 DEF q

\* A tier has failed, and the following one is tried.
LEMMA FailedIsOK ==
    ASSUME NEW r, RecordOK(r), r.pc \notin {"idle", "done"}, NEW tier \in 1 .. 2,
           NEW error \in {"RuntimeError", "TimeoutError"}, NEW following \in {"lexer", "regex"},
           r.kind = "parse" => Content[r.file] # "blank"
    PROVE  RecordOK([r EXCEPT !.pc = following, !.errors = @ \cup {<<tier, error>>}])
<1> DEFINE errors == r.errors \cup {<<tier, error>>}
           q == [r EXCEPT !.pc = following, !.errors = errors]
<1>0. errors \in SUBSET ((1 .. 2) \X {"RuntimeError", "TimeoutError"})
    BY DEF RecordOK, Records
<1> HIDE DEF errors
<1>1. /\ q \in Records /\ q.pc = following /\ q.file = r.file /\ q.nest = r.nest
      /\ q.kind = r.kind
    BY <1>0 DEF RecordOK, Records, Pcs
<1> HIDE DEF q
<1>2. RecordOK(q)
    BY <1>1 DEF RecordOK
<1> QED BY <1>1, <1>2 DEF q, errors

LEMMA TiersKeep ==
    ASSUME ParserInv, NEW t \in Threads,
           \/ \E f \in SourceFiles, kind \in {"parse", "compile"}, force \in 0 .. 3 :
                 (kind = "compile" => force = 0) /\ Parser!Start(t, f, kind, force)
           \/ Parser!TryParser(t) \/ Parser!GiveUp(t) \/ Parser!AfterParse(t)
           \/ Parser!TryLexer(t) \/ Parser!TryRegex(t)
           \/ Parser!Take(t)
    PROVE  ParserInv'
<1> DEFINE r == thread[t]
<1>1. r \in Records /\ thread \in [Threads -> Records] /\ (r.pc # "run" => RecordOK(r))
    BY RecordOf
<1>2. ASSUME NEW q, RecordOK(q), q.pc \notin InSession, r.pc \notin InSession,
             thread' = [thread EXCEPT ![t] = q], UNCHANGED <<Parser!session, Parser!other>>
      PROVE  ParserInv'
    BY <1>2, QuietMove
<1>3. ASSUME NEW pc \in Pcs \ InSession, Parser!To(t, pc),
             r.pc \notin InSession \cup {"idle", "done"},
             pc # "done" \/ r.kind # "parse",
             r.pc # "parser" \/ r.kind # "parse" \/ Content[r.file] # "blank",
             UNCHANGED <<Parser!session, Parser!other>>
      PROVE  ParserInv'
    <2> DEFINE q == [r EXCEPT !.pc = pc]
    <2>1. RecordOK(q) /\ q.pc = pc
        BY <1>1, <1>3, ToIsOK DEF InSession
    <2>2. thread' = [thread EXCEPT ![t] = q]
        BY <1>3 DEF Parser!To
    <2> HIDE DEF q
    <2> QED BY <1>2, <1>3, <2>1, <2>2
<1>4. ASSUME NEW tier \in 0 .. 3, NEW found \in BOOLEAN, Parser!Done(t, tier, found),
             r.pc \notin InSession \cup {"idle"},
             r.kind = "parse" /\ env # "noivy" => (found <=> Parser!HasSymbols(r.file)),
             UNCHANGED <<Parser!session, Parser!other>>
      PROVE  ParserInv'
    <2> DEFINE q == [r EXCEPT !.pc = "done", !.result = [tier |-> tier, found |-> found]]
    <2>1. RecordOK(q)
        BY <1>1, <1>4, DoneIsOK DEF InSession
    <2>2. q.pc = "done"
        BY <1>1 DEF Records
    <2>3. thread' = [thread EXCEPT ![t] = q]
        BY <1>4 DEF Parser!Done
    <2> HIDE DEF q
    <2> QED BY <1>2, <1>4, <2>1, <2>2, <2>3 DEF InSession
<1>5. ASSUME NEW tier \in 1 .. 2, NEW error \in {"RuntimeError", "TimeoutError"},
             NEW following \in {"lexer", "regex"}, Parser!Failed(t, tier, error, following),
             r.pc \notin InSession \cup {"idle", "done"},
             r.kind = "parse" => Content[r.file] # "blank",
             UNCHANGED <<Parser!session, Parser!other>>
      PROVE  ParserInv'
    <2> DEFINE q == [r EXCEPT !.pc = following, !.errors = @ \cup {<<tier, error>>}]
    <2>1. RecordOK(q)
        BY <1>1, <1>5, FailedIsOK DEF InSession
    <2>2. q.pc = following
        BY <1>1 DEF Records
    <2>3. thread' = [thread EXCEPT ![t] = q]
        BY <1>5 DEF Parser!Failed
    <2> HIDE DEF q
    <2> QED BY <1>2, <1>5, <2>1, <2>2, <2>3 DEF InSession
<1>6. /\ r.pc \notin {"idle", "parser", "done", "run"} /\ r.kind = "parse" =>
             Content[r.file] # "blank"
      /\ r.pc \notin {"idle", "run"} => r.file \in SourceFiles
    BY <1>1 DEF RecordOK
<1>7. ASSUME NEW f \in SourceFiles, NEW kind \in {"parse", "compile"}, NEW force \in 0 .. 3,
             Parser!Start(t, f, kind, force)
      PROVE  ParserInv'
    <2> DEFINE pc == IF kind = "compile" THEN "enter" ELSE "parser"
               q == [Parser!Idle EXCEPT !.pc = pc, !.file = f, !.kind = kind, !.force = force]
    <2>1. /\ q \in Records /\ q.pc = pc /\ q.file = f /\ q.kind = kind /\ q.nest = <<>>
        BY IdleIsOK DEF RecordOK, Records, Pcs, Parser!Idle
    <2>2. thread' = [thread EXCEPT ![t] = q] /\ r.pc = "idle"
          /\ UNCHANGED <<Parser!session, Parser!other>>
        BY <1>7 DEF Parser!Start, Parser!session, Parser!other, Parser!At
    <2> HIDE DEF q
    <2>3. RecordOK(q) /\ q.pc \notin InSession
        BY <2>1 DEF RecordOK, InSession
    <2> QED BY <1>2, <2>2, <2>3 DEF InSession
<1>8. CASE Parser!TryParser(t)
    <2>1. r.pc = "parser" /\ UNCHANGED <<Parser!session, Parser!other>>
        BY <1>8 DEF Parser!TryParser, Parser!At
    <2>2. CASE Content[r.file] = "blank"
        <3>1. Parser!Done(t, 0, FALSE) /\ ~Parser!HasSymbols(r.file)
            BY <1>8, <2>2 DEF Parser!TryParser, Parser!HasSymbols
        <3>2. 0 \in 0 .. 3 /\ FALSE \in BOOLEAN /\ (FALSE <=> Parser!HasSymbols(r.file))
            BY <3>1
        <3>3. r.pc \notin InSession \cup {"idle"}
            BY <2>1 DEF InSession
        <3> QED BY <1>4, <2>1, <3>1, <3>2, <3>3
    <2>3. CASE Content[r.file] # "blank"
        <3>1. \/ Parser!To(t, "lexer") \/ Parser!To(t, "enter")
              \/ Parser!Failed(t, 1, "RuntimeError", "lexer")
            BY <1>8, <2>3 DEF Parser!TryParser
        <3> QED BY <1>3, <1>5, <2>1, <2>3, <3>1 DEF InSession, Pcs
    <2> QED BY <2>2, <2>3
<1>9. CASE Parser!GiveUp(t)
    <2>1. r.pc = "enter" /\ UNCHANGED <<Parser!session, Parser!other>>
        BY <1>9 DEF Parser!GiveUp, Parser!At
    <2>2. CASE r.kind = "parse" /\ Parser!Failed(t, 1, "TimeoutError", "lexer")
        BY <1>5, <1>6, <2>1, <2>2 DEF InSession
    <2>3. CASE r.kind # "parse" /\ Parser!To(t, "done")
        BY <1>3, <2>1, <2>3 DEF InSession, Pcs
    <2> QED BY <1>9, <2>2, <2>3 DEF Parser!GiveUp
<1>10. CASE Parser!AfterParse(t)
    <2>1. r.pc = "after" /\ UNCHANGED <<Parser!session, Parser!other>>
        BY <1>10 DEF Parser!AfterParse, Parser!At
    <2>2. CASE Parser!To(t, "done") /\ r.kind = "compile"
        BY <1>3, <2>1, <2>2 DEF InSession, Pcs
    <2>3. CASE Parser!Done(t, 1, Parser!HasSymbols(r.file))
        <3>1. Parser!HasSymbols(r.file) \in BOOLEAN
            BY DEF Parser!HasSymbols
        <3> QED BY <1>4, <2>1, <2>3, <3>1 DEF InSession
    <2>4. CASE Parser!Failed(t, 1, "RuntimeError", "lexer")
        BY <1>5, <1>6, <2>1, <2>4 DEF InSession
    <2> QED BY <1>10, <2>2, <2>3, <2>4 DEF Parser!AfterParse
<1>11. CASE Parser!TryLexer(t)
    <2> DEFINE s == Parser!Scanned(r.file)
    <2>1. r.pc = "lexer" /\ UNCHANGED <<Parser!session, Parser!other>>
        BY <1>11 DEF Parser!TryLexer, Parser!At
    <2>2. s.found \in BOOLEAN /\ s.error \in BOOLEAN
          /\ (env # "noivy" => (s.found <=> Content[r.file] \notin {"illegal", "empty"})
                               /\ (s.error <=> Content[r.file] = "illegal"))
        BY DEF Parser!Scanned
    <2>3. \/ Parser!To(t, "regex") \/ Parser!Failed(t, 2, "RuntimeError", "regex")
          \/ Parser!Done(t, 2, s.found) /\ (s.found \/ ~s.error)
        BY <1>11 DEF Parser!TryLexer
    <2> HIDE DEF s
    <2>4. CASE Parser!To(t, "regex")
        BY <1>3, <2>1, <2>4 DEF InSession, Pcs
    <2>5. CASE Parser!Failed(t, 2, "RuntimeError", "regex")
        BY <1>5, <1>6, <2>1, <2>5 DEF InSession
    <2>6. CASE Parser!Done(t, 2, s.found) /\ (s.found \/ ~s.error)
        <3>1. r.kind = "parse" /\ env # "noivy" => (s.found <=> Parser!HasSymbols(r.file))
            BY <1>6, <2>1, <2>2, <2>6 DEF Parser!HasSymbols
        <3> QED BY <1>4, <2>1, <2>2, <2>6, <3>1 DEF InSession
    <2> QED BY <2>3, <2>4, <2>5, <2>6
<1>12. CASE Parser!TryRegex(t)
    <2>1. Parser!HasSymbols(r.file) \in BOOLEAN
        BY DEF Parser!HasSymbols
    <2> QED BY <1>4, <1>12, <2>1 DEF Parser!TryRegex, Parser!At, InSession
<1>13. CASE Parser!Take(t)
    BY <1>2, <1>13, IdleIsOK DEF Parser!Take, Parser!At, InSession
<1> QED BY <1>7, <1>8, <1>9, <1>10, <1>11, <1>12, <1>13

-----------------------------------------------------------------------------
(* The sessions.                                                            *)

\* The thread in the session goes from one record to another.
LEMMA SessionMove ==
    ASSUME ParserInv, NEW t \in Threads, NEW r \in Records, thread' = [thread EXCEPT ![t] = r],
           lock \in {None, t}, None \notin Threads, UNCHANGED Parser!other, globals' \in States,
           \/ /\ r.pc \in InSession /\ lock' = t /\ r.saved = Parser!Outside
           \/ /\ r.pc \notin InSession /\ lock' = None
              /\ globals' = Parser!Outside /\ report' = None /\ cwd' = "root",
           r.pc \in {"begin", "exit"} => report' = None /\ cwd' = "root",
           r.file \in SourceFiles, r.pc # "run" => r.nest = <<>>,
           r.pc \notin {"idle", "parser", "done"},
           r.pc \in {"begin", "run"} => globals'.stack \in SUBSET SourceFiles,
           r.pc = "run" =>
              /\ report' = IF r.kind = "parse" THEN t ELSE None
              /\ globals'.filename \in SourceFiles
              /\ r.nest = <<>> => globals'.filename = r.file
              /\ r.nest # <<>> => r.nest[1] = r.file,
           r.kind = "parse" => Content[r.file] # "blank"
    PROVE  ParserInv'
<1>1. /\ thread \in [Threads -> Records] /\ thread' \in [Threads -> Records]
      /\ thread'[t] = r /\ \A u \in Threads \ {t} : thread'[u] = thread[u]
      /\ env' = env
    BY DEF ParserInv, ParserTypeOK, Parser!other
<1>2. \A u \in Threads \ {t} : thread[u].pc \notin InSession
    BY DEF ParserInv, OneSession
<1>3. ParserTypeOK'
    BY <1>1 DEF ParserInv, ParserTypeOK
<1>4. OneSession'
    BY <1>1, <1>2 DEF OneSession, InSession
<1>5. OwnNames'
    BY <1>1, <1>2 DEF ParserInv, OwnNames, InSession
<1>6. TiersSoFar'
    BY <1>1 DEF ParserInv, TiersSoFar, Parser!HasSymbols
<1> QED BY <1>3, <1>4, <1>5, <1>6 DEF ParserInv

\* A nest without its last file.
LEMMA FrontOf ==
    ASSUME NEW S, NEW s \in Seq(S), s # <<>>
    PROVE  /\ Parser!Front(s) \in Seq(S) /\ Parser!Last(s) \in S
           /\ Len(s) \in Nat \ {0} /\ Len(Parser!Front(s)) = Len(s) - 1
           /\ \A i \in 1 .. Len(s) - 1 : Parser!Front(s)[i] = s[i]
           /\ Parser!Front(s) = <<>> => Parser!Last(s) = s[1]
<1> DEFINE front == SubSeq(s, 1, Len(s) - 1)
<1>1. Len(s) \in Nat \ {0} /\ \A i \in 1 .. Len(s) : s[i] \in S
    BY EmptySeq, LenProperties
<1>2. front \in Seq(S) /\ \A i \in 1 .. Len(s) - 1 : front[i] = s[i]
    OBVIOUS
<1>3. Len(front) = Len(s) - 1
    <2>1. \A m \in Nat : (\A i \in 1 .. m : s[i] \in S) => Len(SubSeq(s, 1, m)) = m
        BY SubSeqProperties, 1 \in Int, Nat \subseteq Int
    <2>2. Len(s) - 1 \in Nat /\ \A i \in 1 .. Len(s) - 1 : s[i] \in S
        BY <1>1
    <2> QED BY <2>1, <2>2
<1>4. Parser!Front(s) = front /\ Parser!Last(s) = s[Len(s)]
    BY DEF Parser!Front, Parser!Last
<1> HIDE DEF front
<1>5. front = <<>> => Len(s) = 1
    BY <1>1, <1>3, EmptySeq
<1> QED BY <1>1, <1>2, <1>3, <1>4, <1>5

LEMMA SessionKeeps ==
    ASSUME ParserInv, NEW t \in Threads, None \notin Threads,
           \/ Parser!Enter(t) \/ Parser!Begin(t) \/ (\E f \in SourceFiles : Parser!Import(t, f))
           \/ Parser!Return(t)
           \/ Parser!Finish(t) \/ Parser!Exit(t)
    PROVE  ParserInv'
<1> DEFINE p == thread[t]
<1>1. p \in Records /\ thread \in [Threads -> Records] /\ globals \in States
    BY DEF ParserInv, ParserTypeOK
<1>2. /\ lock = t <=> p.pc \in InSession
      /\ lock = None => globals = Parser!Outside /\ report = None /\ cwd = "root"
      /\ p.pc \in InSession => p.saved = Parser!Outside
      /\ p.pc \in {"begin", "exit"} => report = None /\ cwd = "root"
    BY DEF ParserInv, OneSession
<1>3. /\ p.pc # "idle" => p.file \in SourceFiles
      /\ p.pc # "run" => p.nest = <<>>
      /\ p.pc = "begin" => globals.stack \in SUBSET SourceFiles
      /\ p.pc = "run" =>
              /\ report = IF p.kind = "parse" THEN t ELSE None
              /\ globals.filename \in SourceFiles /\ globals.stack \in SUBSET SourceFiles
              /\ p.nest = <<>> => globals.filename = p.file
              /\ p.nest # <<>> => p.nest[1] = p.file
    BY DEF ParserInv, OwnNames
<1>4. p.kind = "parse" /\ p.pc \in {"enter", "begin", "run", "exit"} => Content[p.file] # "blank"
    BY DEF ParserInv, TiersSoFar
<1>5. CASE Parser!Enter(t)
    <2> DEFINE r == [p EXCEPT !.pc = "begin", !.saved = globals]
    <2>1. /\ r \in Records /\ r.pc = "begin" /\ r.saved = globals /\ r.file = p.file
          /\ r.kind = p.kind /\ r.nest = p.nest
        BY <1>1 DEF Records, Pcs
    <2>2. /\ thread' = [thread EXCEPT ![t] = r] /\ p.pc = "enter" /\ lock = None /\ lock' = t
          /\ globals' = Parser!Reset /\ UNCHANGED <<report, cwd, Parser!other>>
        BY <1>5 DEF Parser!Enter, Parser!At
    <2>3. Parser!Reset \in States /\ Parser!Reset.stack \in SUBSET SourceFiles
        BY DEF Parser!Reset, States
    <2> HIDE DEF r
    <2> QED BY <1>2, <1>3, <1>4, <2>1, <2>2, <2>3, SessionMove DEF InSession
<1>6. CASE Parser!Begin(t)
    <2> DEFINE r == [p EXCEPT !.pc = "run"]
               g == [globals EXCEPT !.filename = p.file]
    <2>1. /\ r \in Records /\ r.pc = "run" /\ r.saved = p.saved /\ r.file = p.file
          /\ r.kind = p.kind /\ r.nest = p.nest
        BY <1>1 DEF Records, Pcs
    <2>2. /\ thread' = [thread EXCEPT ![t] = r] /\ p.pc = "begin" /\ globals' = g
          /\ report' = (IF p.kind = "parse" THEN t ELSE report)
          /\ UNCHANGED <<lock, Parser!other>>
        BY <1>6 DEF Parser!Begin, Parser!At, Parser!To
    <2>3. g \in States /\ g.filename = p.file /\ g.stack = globals.stack
        BY <1>1, <1>3, <2>2 DEF States
    <2> HIDE DEF r, g
    <2> QED BY <1>2, <1>3, <1>4, <2>1, <2>2, <2>3, SessionMove DEF InSession
<1>7. ASSUME NEW f \in SourceFiles, Parser!Import(t, f)
      PROVE  ParserInv'
    <2> DEFINE nest == Append(p.nest, globals.filename)
               r == [p EXCEPT !.nest = nest]
               g == [filename |-> f, stack |-> globals.stack \cup {globals.filename}]
    <2>1. p.pc = "run" /\ globals.filename \in SourceFiles /\ p.nest \in Seq(SourceFiles)
        BY <1>1, <1>3, <1>7 DEF Parser!Import, Parser!At, Records
    <2>2. /\ nest \in Seq(SourceFiles) /\ nest # <<>>
          /\ nest[1] = IF p.nest = <<>> THEN globals.filename ELSE p.nest[1]
        <3> DEFINE n == p.nest
                   x == globals.filename
        <3>1. n \in Seq(SourceFiles) /\ x \in SourceFiles
            BY <2>1
        <3> HIDE DEF n, x
        <3>2. Append(n, x) \in Seq(SourceFiles) /\ Append(n, x) # <<>>
            BY <3>1, AppendProperties
        <3>3. Append(n, x)[1] = IF n = <<>> THEN x ELSE n[1]
            BY <3>1
        <3> QED BY <3>2, <3>3 DEF n, x
    <2>3. /\ thread' = [thread EXCEPT ![t] = r] /\ globals' = g
          /\ UNCHANGED <<lock, report, cwd, Parser!other>>
        BY <1>7 DEF Parser!Import
    <2> HIDE DEF nest
    <2>4. /\ r \in Records /\ r.pc = "run" /\ r.saved = p.saved /\ r.file = p.file
          /\ r.kind = p.kind /\ r.nest = nest
        BY <1>1, <2>1, <2>2 DEF Records, Pcs
    <2>5. g \in States /\ g.filename = f /\ g.stack \in SUBSET SourceFiles
        BY <1>3, <2>1 DEF States
    <2> HIDE DEF r, g
    <2> QED BY <1>2, <1>3, <1>4, <2>1, <2>2, <2>3, <2>4, <2>5, SessionMove DEF InSession
<1>8. CASE Parser!Return(t)
    <2> DEFINE nest == Parser!Front(p.nest)
               r == [p EXCEPT !.nest = nest]
               g == [globals EXCEPT !.filename = Parser!Last(p.nest)]
    <2>1. p.pc = "run" /\ p.nest \in Seq(SourceFiles) /\ p.nest # <<>> /\ p.nest[1] = p.file
        BY <1>1, <1>3, <1>8 DEF Parser!Return, Parser!At, Records
    <2>2. /\ nest \in Seq(SourceFiles) /\ Parser!Last(p.nest) \in SourceFiles
          /\ nest = <<>> => Parser!Last(p.nest) = p.file
          /\ nest # <<>> => nest[1] = p.file
        <3>1. Parser!Front(p.nest) # <<>> => Len(p.nest) - 1 \in Nat \ {0}
            BY <2>1, FrontOf, EmptySeq
        <3> QED BY <2>1, <3>1, FrontOf, EmptySeq
    <2>3. /\ thread' = [thread EXCEPT ![t] = r] /\ globals' = g
          /\ UNCHANGED <<lock, report, cwd, Parser!other>>
        BY <1>8 DEF Parser!Return
    <2>4. g \in States /\ g.filename = Parser!Last(p.nest) /\ g.stack = globals.stack
        BY <1>1, <2>2 DEF States
    <2> HIDE DEF nest, g
    <2>5. /\ r \in Records /\ r.pc = "run" /\ r.saved = p.saved /\ r.file = p.file
          /\ r.kind = p.kind /\ r.nest = nest
        BY <1>1, <2>1, <2>2 DEF Records, Pcs
    <2> HIDE DEF r
    <2> QED BY <1>2, <1>3, <1>4, <2>1, <2>2, <2>3, <2>4, <2>5, SessionMove DEF InSession
<1>9. CASE Parser!Finish(t)
    <2> DEFINE result == Parser!Parses(globals.filename)
               r == [p EXCEPT !.pc = "exit", !.nest = <<>>, !.result = result]
    <2>1. /\ thread' = [thread EXCEPT ![t] = r] /\ p.pc = "run"
          /\ report' = (IF p.kind = "parse" THEN None ELSE report) /\ cwd' = "root"
          /\ UNCHANGED <<globals, lock, Parser!other>>
        BY <1>9 DEF Parser!Finish, Parser!At
    <2>2. result \in BOOLEAN
        BY DEF Parser!Parses
    <2> HIDE DEF result
    <2>3. /\ r \in Records /\ r.pc = "exit" /\ r.saved = p.saved /\ r.file = p.file
          /\ r.kind = p.kind /\ r.nest = <<>>
        <3>1. result \in Results /\ <<>> \in Seq(SourceFiles) /\ "exit" \in Pcs
            BY <2>2 DEF Results, Pcs
        <3> QED BY <1>1, <3>1 DEF Records
    <2> HIDE DEF r
    <2> QED BY <1>1, <1>2, <1>3, <1>4, <2>1, <2>3, SessionMove DEF InSession
<1>10. CASE Parser!Exit(t)
    <2> DEFINE r == [p EXCEPT !.pc = "after"]
    <2>1. /\ r \in Records /\ r.pc = "after" /\ r.saved = p.saved /\ r.file = p.file
          /\ r.kind = p.kind /\ r.nest = p.nest
        BY <1>1 DEF Records, Pcs
    <2>2. /\ thread' = [thread EXCEPT ![t] = r] /\ p.pc = "exit" /\ lock' = None
          /\ globals' = p.saved /\ UNCHANGED <<report, cwd, Parser!other>>
        BY <1>10 DEF Parser!Exit, Parser!At, Parser!To
    <2>3. Parser!Outside \in States
        BY DEF Parser!Outside, States
    <2> HIDE DEF r
    <2> QED BY <1>2, <1>3, <1>4, <2>1, <2>2, <2>3, SessionMove DEF InSession
<1> QED BY <1>5, <1>6, <1>7, <1>8, <1>9, <1>10

-----------------------------------------------------------------------------
(* The theorems.                                                            *)

\* IInv holds in every reachable state: one thread at most is in a session, and
\* what it and the others find and leave behind is as its place in it says.
THEOREM ParserInductive ==
    ASSUME None \notin Threads
    PROVE  Parser!Spec => []ParserInv
<1>1. Parser!Init => ParserInv
    <2> SUFFICES ASSUME Parser!Init PROVE ParserInv
        OBVIOUS
    <2>1. \A t \in Threads : thread[t] = Parser!Idle /\ RecordOK(thread[t])
                               /\ thread[t].pc = "idle"
        BY IdleIsOK DEF Parser!Init
    <2>2. ParserTypeOK
        BY <2>1 DEF Parser!Init, ParserTypeOK, RecordOK, Parser!Outside, States
    <2>3. OneSession /\ OwnNames
        BY <2>1 DEF Parser!Init, OneSession, OwnNames, RecordOK, InSession
    <2>4. TiersSoFar
        BY <2>1 DEF TiersSoFar, RecordOK
    <2> QED BY <2>2, <2>3, <2>4 DEF ParserInv
<1>2. ParserInv /\ [Parser!Next]_(Parser!vars) => ParserInv'
    <2> SUFFICES ASSUME ParserInv, [Parser!Next]_(Parser!vars) PROVE ParserInv'
        OBVIOUS
    <2>1. CASE UNCHANGED Parser!parseVars
        BY <2>1 DEF Parser!parseVars, ParserInv, ParserTypeOK, OneSession, OwnNames, TiersSoFar,
                    Parser!HasSymbols
    <2>2. CASE Parser!Sessions
        BY <2>2, TiersKeep, SessionKeeps DEF Parser!Sessions
    <2> QED BY <2>1, <2>2 DEF Parser!Next, Parser!Read, Parser!Declare, Parser!vars
<1> QED BY <1>1, <1>2, PTL DEF Parser!Spec

\* A parse or a compilation never meets what another one has set: whenever the
\* lock is free everything is as it was, and a running one sees its own names.
THEOREM SessionsIsolated ==
    ASSUME None \notin Threads
    PROVE  Parser!Spec => []SessionsAreIsolated
<1>1. ParserInv => SessionsAreIsolated
    <2> SUFFICES ASSUME ParserInv PROVE SessionsAreIsolated
        OBVIOUS
    <2> QED BY DEF ParserInv, OneSession, OwnNames, SessionsAreIsolated,
                   Parser!SessionsAreIsolated, InSession, Parser!At
<1> QED BY <1>1, ParserInductive, PTL

\* Where there is a lexer, an extraction that is over has found symbols exactly
\* when its file has some, whatever failed or was late on the way.
THEOREM SymbolsFound ==
    ASSUME None \notin Threads
    PROVE  Parser!Spec => []Parser!SymbolsAreFound
<1>1. ParserInv => Parser!SymbolsAreFound
    BY DEF ParserInv, TiersSoFar, Parser!SymbolsAreFound, Parser!At
<1> QED BY <1>1, ParserInductive, PTL
-----------------------------------------------------------------------------
(* ModelBuilder: whatever is put into a model, merged into it or wired in   *)
(* it, its edges lead to nodes of it, and so do the indexes that the wiring *)
(* looks the ends up in.                                                    *)

\* The types of the edges that may be wired.
Kinds == {"covers", "includes", "contains"}
         \cup (UNION {{u[1] : u \in SortsOf[i]} : i \in Ids})
         \cup (UNION {{r[1] : r \in References[f]} : f \in Files})

\* A model as the builder makes it: nothing is ever removed, and nodes may be put
\* over others of their id.
Drafts == [node : [Ids -> Nodes \cup {NoNode}], tier : [Ids -> 0 .. 3],
           byType : SUBSET (Types \X Ids), byFile : SUBSET Ids,
           byName : SUBSET Ids, edges : SUBSET (Ids \X Kinds \X Ids),
           outgoing : Lists, incoming : Lists]

Joined(m) ==
    /\ m \in Drafts
    /\ \A i \in Present(m) : m.node[i].id = i
    /\ \A b \in m.byType : b[2] \in Present(m)
    /\ m.byName \subseteq Present(m)
    /\ \A e \in m.edges : e[1] \in Present(m) /\ e[3] \in Present(m)

\* A set of natural numbers has a least one.
LEMMA NatMin ==
    ASSUME NEW T \in SUBSET Nat, T # {}
    PROVE  \E x \in T : \A y \in T : x <= y
<1> DEFINE R == OpToRel(<, Nat)
<1>1. IsWellFoundedOn(R, Nat)
    BY NatLessThanWellFounded
<1>2. \A x, y \in Nat : y < x => <<y, x>> \in R
    BY DEF OpToRel
<1> HIDE DEF R
<1>3. \E x \in T : \A y \in T : ~(<<y, x>> \in R)
    BY <1>1, WFMin
<1>4. PICK x \in T : \A y \in T : ~(<<y, x>> \in R)
    BY <1>3
<1>5. \A y \in T : ~(y < x)
    BY <1>2, <1>4
<1>6. \A y \in T : x <= y
    BY ONLY <1>5, T \subseteq Nat, x \in T
<1> QED BY <1>6

\* A set that has 0 and with each number the next one has them all.
LEMMA Induct ==
    ASSUME NEW S, 0 \in S, \A n \in Nat : n \in S => n + 1 \in S
    PROVE  Nat \subseteq S
<1> SUFFICES ASSUME NEW n \in Nat, n \notin S PROVE FALSE
    OBVIOUS
<1> DEFINE T == {k \in Nat : k \notin S}
<1>1. PICK x \in T : \A y \in T : x <= y
    BY NatMin
<1>2. x # 0 /\ x - 1 \in Nat /\ x - 1 \notin T
    BY <1>1
<1>3. x - 1 \in S /\ x - 1 + 1 \in S
    BY <1>2
<1> QED BY <1>1, <1>2, <1>3

\* A finite set of them has a greatest one, too: the numbers that are above all of it
\* have a least one.
LEMMA FiniteIsBounded ==
    ASSUME NEW T \in SUBSET Nat, IsFiniteSet(T)
    PROVE  \E n \in Nat : \A x \in T : x <= n
<1> DEFINE Bounded(Q) == \E n \in Nat : \A x \in Q : x <= n
           S == {k \in Nat : \A Q \in SUBSET T : Cardinality(Q) = k => Bounded(Q)}
<1>1. \A Q \in SUBSET T : IsFiniteSet(Q) /\ Cardinality(Q) \in Nat
    BY FS_Subset, FS_CardinalityType
<1>2. 0 \in S
    <2>1. \A Q \in SUBSET T : Cardinality(Q) = 0 => Q = {}
        BY <1>1, FS_EmptySet
    <2> QED BY <2>1
<1>3. ASSUME NEW k \in Nat, k \in S PROVE k + 1 \in S
    <2>1. ASSUME NEW Q \in SUBSET T, Cardinality(Q) = k + 1 PROVE Bounded(Q)
        <3>1. Q # {}
            BY <1>1, <2>1, FS_EmptySet
        <3>2. PICK q \in Q : TRUE
            BY <3>1
        <3>3. Cardinality(Q \ {q}) = k
            <4>1. Cardinality(Q \ {q}) = Cardinality(Q) - 1
                BY <1>1, <3>2, FS_RemoveElement
            <4> QED BY <2>1, <4>1
        <3>4. Bounded(Q \ {q})
            BY <1>3, <3>3
        <3>5. PICK n \in Nat : \A x \in Q \ {q} : x <= n
            BY <3>4
        <3>6. q \in Nat /\ n + q \in Nat
            BY <3>2
        <3>7. \A x \in Q : x <= n + q
            BY <3>5, <3>6
        <3> QED BY <3>6, <3>7
    <2> HIDE DEF Bounded
    <2> QED BY <2>1
<1> HIDE DEF S
<1>4. Cardinality(T) \in S
    BY <1>1, <1>2, <1>3, Induct
<1> QED BY <1>4 DEF S

\* The first and the last of some ids are ids of them.
LEMMA MinIsIn ==
    ASSUME NEW T \in SUBSET Ids, T # {}
    PROVE  Builder!Min(T) \in T
<1>1. \E x \in T : \A y \in T : x <= y
    BY NatMin, BuilderAssumption
<1> QED BY <1>1 DEF Builder!Min

LEMMA MaxIsIn ==
    ASSUME NEW T \in SUBSET Ids, T # {}
    PROVE  Builder!Max(T) \in T
<1>1. IsFiniteSet(T) /\ T \subseteq Nat
    BY FS_Subset, BuilderAssumption
<1> DEFINE above == {n \in Nat : \A x \in T : x <= n}
<1>2. above # {}
    BY <1>1, FiniteIsBounded
<1>3. PICK n \in above : \A k \in above : n <= k
    BY <1>2, NatMin
<1>4. n \in T
    <2> SUFFICES ASSUME n \notin T PROVE FALSE
        OBVIOUS
    <2>1. \A x \in T : x < n
        BY <1>1, <1>3
    <2>2. PICK x \in T : TRUE
        OBVIOUS
    <2>3. n - 1 \in Nat
        BY <1>1, <1>3, <2>1, <2>2
    <2>4. n - 1 \in above
        BY <1>1, <1>3, <2>1, <2>3
    <2> QED BY <1>3, <2>4
<1>5. \E x \in T : \A y \in T : x >= y
    BY <1>1, <1>3, <1>4
<1> QED BY <1>5 DEF Builder!Max

\* What is put into a model is joined: its edges stay, its nodes become more.
LEMMA PutJoins ==
    ASSUME NEW m, Joined(m), NEW nodes \in SUBSET Nodes
    PROVE  LET w == Put(m, nodes, 0)
           IN  /\ Joined(w) /\ Present(w) = Present(m) \cup IdsOf(nodes)
               /\ w.edges = m.edges /\ w.outgoing = m.outgoing /\ w.incoming = m.incoming
<1> DEFINE new == IdsOf(nodes)
           Of(i) == CHOOSE n \in nodes : n.id = i
           node == [i \in Ids |-> IF i \in new THEN Of(i) ELSE m.node[i]]
           tiers == [i \in Ids |-> IF i \in new /\ 0 # 0 THEN 0 ELSE m.tier[i]]
           byType == m.byType \cup {<<Of(i).type, i>> : i \in new}
           byFile == m.byFile \cup new
           byName == m.byName \cup (new \cap Named)
           w == Put(m, nodes, 0)
<1>0. m \in Drafts
    BY DEF Joined
<1>1. new \subseteq Ids /\ \A i \in new : Of(i) \in nodes /\ Of(i).id = i
    BY DEF IdsOf, Nodes
<1>2. w = [m EXCEPT !.node = node, !.tier = tiers, !.byType = byType, !.byFile = byFile,
                    !.byName = byName]
    BY DEF Put
<1> HIDE DEF new, Of
<1>3. \A i \in new : Of(i) \in Nodes /\ Of(i).type \in Types
    BY <1>1 DEF Nodes
<1>4. /\ node \in [Ids -> Nodes \cup {NoNode}] /\ tiers \in [Ids -> 0 .. 3]
      /\ byType \in SUBSET (Types \X Ids) /\ byFile \in SUBSET Ids /\ byName \in SUBSET Ids
    BY <1>0, <1>1, <1>3 DEF Drafts
<1>5. \A i \in Ids : /\ i \in new => node[i] = Of(i)
                     /\ i \notin new => node[i] = m.node[i]
    OBVIOUS
<1>6. \A b \in byType : b \in m.byType \/ b[2] \in new
    OBVIOUS
<1>7. byName \subseteq m.byName \cup new
    OBVIOUS
<1> HIDE DEF node, tiers, byType, byFile, byName
<1>8. /\ w \in Drafts /\ w.node = node /\ w.byType = byType /\ w.byName = byName
      /\ w.edges = m.edges /\ w.outgoing = m.outgoing /\ w.incoming = m.incoming
    BY <1>0, <1>2, <1>4 DEF Drafts
<1> HIDE DEF w
<1>9. Present(w) = Present(m) \cup new
    BY <1>1, <1>3, <1>5, <1>8, NodesAreThere DEF Present
<1>10. \A i \in Present(w) : w.node[i].id = i
    BY <1>1, <1>5, <1>8, <1>9 DEF Joined, Present
<1>11. Joined(w)
    BY <1>6, <1>7, <1>8, <1>9, <1>10 DEF Joined
<1> QED BY <1>8, <1>9, <1>11 DEF w, new

\* Between nodes that are there any edges may be wired.
LEMMA WireJoins ==
    ASSUME NEW m, Joined(m), NEW edges \in SUBSET (Present(m) \X Kinds \X Present(m))
    PROVE  Joined(AddEdges(m, edges))
<1> DEFINE new == edges \ m.edges
           Longer(list) == [e \in Edges |-> IF e \in new THEN list[e] + 1 ELSE list[e]]
           all == m.edges \cup new
           out == Longer(m.outgoing)
           into == Longer(m.incoming)
           w == AddEdges(m, edges)
<1>0. m \in Drafts /\ Present(m) \subseteq Ids
    BY DEF Joined, Present
<1>1. w = [m EXCEPT !.edges = all, !.outgoing = out, !.incoming = into]
    BY DEF AddEdges
<1>2. out \in Lists /\ into \in Lists
    BY <1>0 DEF Drafts, Lists
<1>3. all \in SUBSET (Ids \X Kinds \X Ids)
    BY <1>0 DEF Drafts
<1>4. \A e \in all : e[1] \in Present(m) /\ e[3] \in Present(m)
    BY DEF Joined
<1> HIDE DEF all, out, into
<1>5. /\ w \in Drafts /\ w.node = m.node /\ w.byType = m.byType /\ w.byName = m.byName
      /\ w.edges = all
    BY <1>0, <1>1, <1>2, <1>3 DEF Drafts
<1> HIDE DEF w
<1>6. Present(w) = Present(m)
    BY <1>5 DEF Present
<1>7. Joined(w)
    BY <1>4, <1>5, <1>6 DEF Joined
<1> QED BY <1>7 DEF w

\* The nodes that are merged bring their ids, so that the edges find their ends.
LEMMA MergeJoins ==
    ASSUME NEW m, Joined(m), NEW other, Joined(other)
    PROVE  Joined(MergeFrom(m, other))
<1> DEFINE new == {other.node[i] : i \in Present(other)}
           merged == Put(m, new, 0)
           tiers == [i \in Ids |-> IF other.tier[i] # 0 THEN other.tier[i] ELSE merged.tier[i]]
           mid == [merged EXCEPT !.tier = tiers]
<1>1. MergeFrom(m, other) = AddEdges(mid, other.edges)
    BY DEF MergeFrom
<1>2. new \in SUBSET Nodes /\ IdsOf(new) = Present(other)
    BY DEF Joined, Drafts, Present, IdsOf
<1> HIDE DEF new
<1>3. Joined(merged) /\ Present(merged) = Present(m) \cup Present(other)
    BY <1>2, PutJoins
<1> HIDE DEF merged
<1>4. tiers \in [Ids -> 0 .. 3]
    BY <1>3 DEF Joined, Drafts
<1> HIDE DEF tiers
<1>5. /\ mid \in Drafts /\ mid.node = merged.node /\ mid.byType = merged.byType
      /\ mid.byName = merged.byName /\ mid.edges = merged.edges
    BY <1>3, <1>4 DEF Joined, Drafts
<1> HIDE DEF mid
<1>6. Present(mid) = Present(merged)
    BY <1>5 DEF Present
<1>7. Joined(mid)
    BY <1>3, <1>5, <1>6 DEF Joined
<1>8. other.edges \in SUBSET (Present(mid) \X Kinds \X Present(mid))
    <2>1. other.edges \subseteq Ids \X Kinds \X Ids
        BY DEF Joined, Drafts
    <2>2. \A e \in other.edges : e[1] \in Present(mid) /\ e[3] \in Present(mid)
        BY <1>3, <1>6 DEF Joined
    <2> QED BY <2>1, <2>2
<1> QED BY <1>1, <1>7, <1>8, WireJoins

\* A model that is empty is joined.
LEMMA EmptyJoins == Joined(EmptyModel) /\ Present(EmptyModel) = {}
<1>1. Present(EmptyModel) = {}
    BY DEF Present, EmptyModel
<1>2. EmptyModel \in Drafts
    BY DEF EmptyModel, Drafts, Lists
<1> QED BY <1>1, <1>2 DEF Joined, EmptyModel

\* What the wiring finds are nodes of the model.
LEMMA Found ==
    ASSUME NEW m, Joined(m)
    PROVE  /\ Present(m) \subseteq Ids
           /\ \A type : OfType(m, type) \subseteq Present(m)
           /\ \A ids \in SUBSET Present(m) : Builder!First(ids) \subseteq Present(m)
           /\ \A sort : Builder!TypeNamed(m, sort) \subseteq Present(m)
           /\ \A name : Builder!Resolved(m, name) \subseteq Present(m)
           /\ \A name : Builder!NodeCalled(m, name) \subseteq Present(m)
<1>1. Present(m) \subseteq Ids
    BY DEF Present
<1>2. \A type : OfType(m, type) \subseteq Present(m)
    BY DEF OfType, Joined
<1>3. \A ids \in SUBSET Present(m) : Builder!First(ids) \subseteq Present(m)
    BY <1>1, MinIsIn DEF Builder!First
<1>4. \A sort : Builder!TypeNamed(m, sort) \subseteq Present(m)
    BY <1>2, <1>3 DEF Builder!TypeNamed, Builder!OfType, OfType
<1>5. \A name : Builder!Resolved(m, name) \subseteq Present(m)
    <2> SUFFICES ASSUME NEW name PROVE Builder!Resolved(m, name) \subseteq Present(m)
        OBVIOUS
    <2> DEFINE short == {i \in m.byName :
                            Builder!LastName(Qualified[i]) = Builder!LastName(name)}
               exact == {i \in short : Qualified[i] = name}
    <2>1. short \in SUBSET Present(m) /\ exact \in SUBSET Present(m)
        BY DEF Joined
    <2>2. Builder!Resolved(m, name) = IF exact # {} THEN Builder!First(exact)
                                      ELSE Builder!First(short)
        BY DEF Builder!Resolved
    <2> HIDE DEF exact, short
    <2> QED BY <1>3, <2>1, <2>2
<1>6. \A name : Builder!NodeCalled(m, name) \subseteq Present(m)
    <2> SUFFICES ASSUME NEW name PROVE Builder!NodeCalled(m, name) \subseteq Present(m)
        OBVIOUS
    <2> DEFINE of(type) == {i \in OfType(m, type) : Qualified[i] = name}
    <2>1. \A type : of(type) \in SUBSET Present(m)
        BY <1>2
    <2>2. Builder!NodeCalled(m, name) =
             IF of("type") # {} THEN {Builder!Max(of("type"))}
             ELSE IF of("symbol") # {} THEN {Builder!Max(of("symbol"))} ELSE {}
        BY DEF Builder!NodeCalled, Builder!OfType, OfType
    <2> HIDE DEF of
    <2>3. \A type : of(type) # {} => Builder!Max(of(type)) \in Present(m)
        BY <1>1, <2>1, MaxIsIn
    <2> QED BY <2>2, <2>3
<1> QED BY <1>1, <1>2, <1>3, <1>4, <1>5, <1>6

\* The builder's operations are those of SemanticModel.
LEMMA SameOperations ==
    /\ \A m, nodes, tier : Builder!Put(m, nodes, tier) = Put(m, nodes, tier)
    /\ \A m, edges : Builder!AddEdges(m, edges) = AddEdges(m, edges)
    /\ \A m, other : Builder!MergeFrom(m, other) = MergeFrom(m, other)
    /\ \A m : Builder!Present(m) = Present(m)
    /\ \A m, type : Builder!OfType(m, type) = OfType(m, type)
    /\ \A m, file : Builder!NodesInFile(m, file) = NodesInFile(m, file)
    /\ Builder!EmptyModel = EmptyModel
<1>1. \A m, nodes, tier : Builder!Put(m, nodes, tier) = Put(m, nodes, tier)
    BY DEF Builder!Put, Put, Builder!IdsOf, IdsOf
<1>2. \A m, edges : Builder!AddEdges(m, edges) = AddEdges(m, edges)
    BY DEF Builder!AddEdges, AddEdges
<1>3. \A m : Builder!Present(m) = Present(m)
    BY DEF Builder!Present, Present, Builder!NoNode, NoNode
<1>4. \A m, other : Builder!MergeFrom(m, other) = MergeFrom(m, other)
    BY <1>1, <1>2, <1>3 DEF Builder!MergeFrom, MergeFrom
<1>5. \A m, type : Builder!OfType(m, type) = OfType(m, type)
    BY DEF Builder!OfType, OfType
<1>6. \A m, file : Builder!NodesInFile(m, file) = NodesInFile(m, file)
    BY <1>3 DEF Builder!NodesInFile, NodesInFile, Builder!InFile, InFile
<1>7. Builder!EmptyModel = EmptyModel
    BY DEF Builder!EmptyModel, EmptyModel, Builder!NoNode, NoNode
<1> QED BY <1>1, <1>2, <1>3, <1>4, <1>5, <1>6, <1>7

\* Where a server is, and what an index holds.
Stages == {"down", "merge", "scan", "manifest", "pickle", "up"}
Stored == [manifest : BOOLEAN, status : Builder!Statuses, pickle : Drafts, hasPickle : BOOLEAN]

\* The inductive invariant of the builder: every model there is is joined.
BuilderInv ==
    /\ Joined(built) /\ index \in [Protocols -> Stored]
    /\ \A p \in Protocols : Joined(index[p].pickle)
    /\ targets \subseteq Protocols /\ at \in Stages
    /\ at \in {"manifest", "pickle"} => targets # {}
    /\ next \in Nat \ {0} /\ starts \in 0 .. MaxStarts
    /\ at # "down" => starts # 0

\* All that the wiring makes of a model's nodes leads from one of them to another.
LEMMA WiredEdges ==
    ASSUME NEW m, Joined(m), NEW files \in SUBSET Files, NEW standsFor \in [Files -> Ids],
           \A f \in Files : NodesInFile(m, f) # {} => standsFor[f] \in NodesInFile(m, f)
    PROVE  (Builder!CoverEdges(m) \cup Builder!SortEdges(m)
            \cup Builder!IncludeEdges(m, files, standsFor)
            \cup Builder!ReferenceEdges(m, files) \cup Builder!ContainEdges(m))
               \in SUBSET (Present(m) \X Kinds \X Present(m))
<1> DEFINE P == Present(m)
           E == P \X Kinds \X P
<1>1. /\ P \subseteq Ids
      /\ \A type : OfType(m, type) \subseteq P
      /\ \A sort : Builder!TypeNamed(m, sort) \subseteq P
      /\ \A name : Builder!Resolved(m, name) \subseteq P
      /\ \A name : Builder!NodeCalled(m, name) \subseteq P
    BY Found
<1>2. \A f \in Files : NodesInFile(m, f) \subseteq P
    BY DEF NodesInFile
<1>0. {"covers", "includes", "contains"} \subseteq Kinds
    BY DEF Kinds
<1> HIDE DEF P
<1>3. Builder!CoverEdges(m) \subseteq E
    <2> SUFFICES ASSUME NEW e \in Builder!CoverEdges(m) PROVE e \in E
        OBVIOUS
    <2>1. PICK a \in OfType(m, "annotation") :
              e \in {a} \X {"covers"} \X (TagsOf[a] \cap OfType(m, "requirement"))
        BY SameOperations DEF Builder!CoverEdges
    <2> QED BY <1>0, <1>1, <2>1
<1>4. Builder!SortEdges(m) \subseteq E
    <2> SUFFICES ASSUME NEW e \in Builder!SortEdges(m) PROVE e \in E
        OBVIOUS
    <2>1. PICK i \in OfType(m, "symbol") :
              e \in UNION {{i} \X {u[1]} \X Builder!TypeNamed(m, u[2]) : u \in SortsOf[i]}
        BY SameOperations DEF Builder!SortEdges
    <2>2. PICK u \in SortsOf[i] : e \in {i} \X {u[1]} \X Builder!TypeNamed(m, u[2])
        BY <2>1
    <2>3. i \in P /\ Builder!TypeNamed(m, u[2]) \subseteq P
        BY <1>1
    <2>4. u[1] \in Kinds
        BY <1>1 DEF Kinds
    <2> QED BY <2>2, <2>3, <2>4
<1>5. Builder!IncludeEdges(m, files, standsFor) \subseteq E
    <2> SUFFICES ASSUME NEW e \in Builder!IncludeEdges(m, files, standsFor) PROVE e \in E
        OBVIOUS
    <2>1. PICK q \in files \X Files :
              /\ NodesInFile(m, q[1]) # {} /\ NodesInFile(m, q[2]) # {}
              /\ e = <<standsFor[q[1]], "includes", standsFor[q[2]]>>
        BY SameOperations DEF Builder!IncludeEdges
    <2>2. q[1] \in Files /\ q[2] \in Files
        OBVIOUS
    <2> QED BY <1>0, <1>2, <2>1, <2>2
<1>6. Builder!ReferenceEdges(m, files) \subseteq E
    <2> SUFFICES ASSUME NEW e \in Builder!ReferenceEdges(m, files) PROVE e \in E
        OBVIOUS
    <2>1. PICK f \in files :
              e \in UNION {Builder!Resolved(m, r[2]) \X {r[1]} \X Builder!Resolved(m, r[3]) :
                             r \in References[f]}
        BY DEF Builder!ReferenceEdges
    <2>2. PICK r \in References[f] :
              e \in Builder!Resolved(m, r[2]) \X {r[1]} \X Builder!Resolved(m, r[3])
        BY <2>1
    <2>3. r[1] \in Kinds
        BY DEF Kinds
    <2> QED BY <1>1, <2>2, <2>3
<1>7. Builder!ContainEdges(m) \subseteq E
    <2> SUFFICES ASSUME NEW e \in Builder!ContainEdges(m) PROVE e \in E
        OBVIOUS
    <2>1. PICK n : e \in Builder!NodeCalled(m, Builder!Front(n)) \X {"contains"}
                                                   \X Builder!NodeCalled(m, n)
        BY DEF Builder!ContainEdges
    <2> QED BY <1>0, <1>1, <2>1
<1> QED BY <1>3, <1>4, <1>5, <1>6, <1>7 DEF P

\* What the scan puts is nodes.
LEMMA FileNodesAreNodes ==
    ASSUME NEW f \in Files, starts \in 1 .. MaxStarts
    PROVE  Builder!FileNodes(f) \in SUBSET Nodes
<1>1. starts \in Texts /\ "annotation" \in Types /\ Comments[f] \subseteq Ids
      /\ Symbols[<<f, starts>>] \subseteq Ids \X Types
    BY BuilderAssumption
<1> QED BY <1>1 DEF Builder!FileNodes, Nodes

\* The server begins with no model and no index.
LEMMA BuilderStart == Builder!Init => BuilderInv
<1> SUFFICES ASSUME Builder!Init PROVE BuilderInv
    OBVIOUS
<1>1. /\ built = EmptyModel /\ at = "down" /\ targets = {} /\ next = 1 /\ starts = 0
      /\ index = [p \in Protocols |-> Builder!NoIndex]
    BY SameOperations DEF Builder!Init
<1>2. Builder!NoIndex \in Stored /\ Builder!NoIndex.pickle = EmptyModel
    BY SameOperations, EmptyJoins DEF Builder!NoIndex, Stored, Builder!Statuses, Joined
<1> QED BY <1>1, <1>2, EmptyJoins, BuilderAssumption DEF BuilderInv, Stages

\* The protocol whose turn it is is one of the workspace.
LEMMA TurnIsIn ==
    ASSUME BuilderInv, targets # {}
    PROVE  Builder!Turn \in targets /\ Builder!Turn \in Protocols
BY DEF Builder!Turn, BuilderInv

\* Every step of a server that starts keeps this: only MergeIndex, UseIndexOrScan,
\* ScanFile and Wire change the model, and only WritePickle stores it.
LEMMA BuilderStep ==
    ASSUME BuilderInv, [Builder!Next]_(Builder!vars)
    PROVE  BuilderInv'
<1>1. CASE Builder!Start
    BY <1>1, BuilderAssumption DEF Builder!Start, Builder!Indexed, BuilderInv, Stages
<1>2. CASE Builder!MergeIndex
    <2>1. Builder!Turn \in Protocols
        BY <1>2, TurnIsIn DEF Builder!MergeIndex
    <2>2. Joined(MergeFrom(built, index[Builder!Turn].pickle))
        BY <2>1, MergeJoins DEF BuilderInv
    <2>3. Joined(built')
        BY <1>2, <2>2, SameOperations DEF Builder!MergeIndex, BuilderInv
    <2> QED BY <1>2, <2>3 DEF Builder!MergeIndex, BuilderInv
<1>3. CASE Builder!UseIndexOrScan
    <2> DEFINE put == Put(EmptyModel, Builder!Manifests, 0)
               first == [put EXCEPT !.byFile = {}]
    <2>1. Builder!Manifests \in SUBSET Nodes
        <3>1. 0 \in Texts /\ "requirement" \in Types /\ Requirements \subseteq Ids
            BY BuilderAssumption
        <3> QED BY <3>1 DEF Builder!Manifests, Nodes
    <2>2. Joined(put)
        BY <2>1, PutJoins, EmptyJoins
    <2> HIDE DEF put
    <2>3. /\ first \in Drafts /\ first.node = put.node /\ first.byType = put.byType
          /\ first.byName = put.byName /\ first.edges = put.edges
        BY <2>2 DEF Joined, Drafts
    <2>4. Joined(first)
        BY <2>2, <2>3 DEF Joined, Present
    <2>5. Joined(built')
        BY <1>3, <2>4, SameOperations DEF Builder!UseIndexOrScan, BuilderInv, put
    <2>6. targets' \subseteq Protocols /\ at' \in {"up", "scan"}
        BY <1>3 DEF Builder!UseIndexOrScan, Builder!Indexed, BuilderInv
    <2> QED BY <1>3, <2>5, <2>6 DEF Builder!UseIndexOrScan, BuilderInv, Stages
<1>4. CASE Builder!ScanFile
    <2>1. FileSeq[next] \in Files /\ starts \in 1 .. MaxStarts
        BY <1>4, BuilderAssumption DEF Builder!ScanFile, BuilderInv
    <2>2. Joined(Put(built, Builder!FileNodes(FileSeq[next]), 0))
        BY <2>1, FileNodesAreNodes, PutJoins DEF BuilderInv
    <2>3. Joined(built')
        BY <1>4, <2>2, SameOperations DEF Builder!ScanFile, BuilderInv
    <2> QED BY <1>4, <2>3 DEF Builder!ScanFile, BuilderInv
<1>5. CASE Builder!Wire
    <2>1. PICK standsFor \in [Files -> Ids] :
              /\ \A f \in Files : NodesInFile(built, f) # {}
                                       => standsFor[f] \in NodesInFile(built, f)
              /\ built' = AddEdges(built,
                      Builder!CoverEdges(built) \cup Builder!SortEdges(built)
                      \cup Builder!IncludeEdges(built, Builder!Scanned, standsFor)
                      \cup Builder!ReferenceEdges(built, Builder!Scanned)
                      \cup Builder!ContainEdges(built))
        BY <1>5, SameOperations DEF Builder!Wire
    <2>2. Builder!Scanned \in SUBSET Files
        BY DEF Builder!Scanned
    <2>3. Joined(built')
        BY <2>1, <2>2, WiredEdges, WireJoins DEF BuilderInv
    <2>4. at' \in {"manifest", "up"} /\ (at' = "manifest" => targets # {})
        BY <1>5 DEF Builder!Wire, Builder!WriteNext
    <2> QED BY <1>5, <2>3, <2>4 DEF Builder!Wire, BuilderInv, Stages
<1>6. CASE Builder!WriteManifest
    <2>1. Builder!Turn \in Protocols
        BY <1>6, TurnIsIn DEF Builder!WriteManifest, BuilderInv
    <2>2. index' \in [Protocols -> Stored]
          /\ \A p \in Protocols : index'[p].pickle = index[p].pickle
        <3>1. CASE index' = index
            BY <3>1 DEF BuilderInv
        <3>2. CASE index' # index
            <4> DEFINE r == [index[Builder!Turn] EXCEPT !.manifest = TRUE, !.status = "fresh"]
            <4>1. index' = [index EXCEPT ![Builder!Turn] = r]
                BY <1>6, <3>2 DEF Builder!WriteManifest
            <4>2. r \in Stored /\ r.pickle = index[Builder!Turn].pickle
                BY <2>1 DEF BuilderInv, Stored, Builder!Statuses
            <4> HIDE DEF r
            <4> QED BY <2>1, <4>1, <4>2 DEF BuilderInv
        <3> QED BY <3>1, <3>2
    <2>3. /\ targets' \subseteq Protocols /\ at' \in {"manifest", "pickle", "up"}
          /\ at' \in {"manifest", "pickle"} => targets' # {}
        BY <1>6 DEF Builder!WriteManifest, Builder!NextProtocol, Builder!WriteNext, BuilderInv
    <2> QED BY <1>6, <2>2, <2>3 DEF Builder!WriteManifest, BuilderInv, Stages
<1>7. CASE Builder!WritePickle
    <2>1. Builder!Turn \in Protocols
        BY <1>7, TurnIsIn DEF Builder!WritePickle, BuilderInv
    <2>2. index' \in [Protocols -> Stored]
          /\ \A p \in Protocols : index'[p].pickle \in {index[p].pickle, built}
        <3>1. CASE index' = index
            BY <3>1 DEF BuilderInv
        <3>2. CASE index' # index
            <4> DEFINE r == [index[Builder!Turn] EXCEPT !.hasPickle = TRUE, !.pickle = built]
            <4>1. index' = [index EXCEPT ![Builder!Turn] = r]
                BY <1>7, <3>2 DEF Builder!WritePickle
            <4>0. built \in Drafts /\ index[Builder!Turn] \in Stored
                BY <2>1 DEF BuilderInv, Joined
            <4>2. r \in Stored /\ r.pickle = built
                BY <4>0 DEF Stored
            <4> HIDE DEF r
            <4> QED BY <2>1, <4>1, <4>2 DEF BuilderInv
        <3> QED BY <3>1, <3>2
    <2>3. /\ targets' \subseteq Protocols /\ at' \in {"manifest", "up"}
          /\ at' = "manifest" => targets' # {}
        BY <1>7 DEF Builder!WritePickle, Builder!NextProtocol, Builder!WriteNext, BuilderInv
    <2>4. \A p \in Protocols : Joined(index'[p].pickle)
        BY <2>2 DEF BuilderInv
    <2> QED BY <1>7, <2>2, <2>3, <2>4 DEF Builder!WritePickle, BuilderInv, Stages
<1>8. CASE Builder!Stop
    BY <1>8, SameOperations, EmptyJoins DEF Builder!Stop, BuilderInv, Stages
<1>9. CASE \E p \in Protocols : Builder!Age(p)
    <2>1. PICK p \in Protocols : Builder!Age(p)
        BY <1>9
    <2>2. index' \in [Protocols -> Stored]
          /\ \A q \in Protocols : index'[q].pickle = index[q].pickle
        BY <2>1 DEF Builder!Age, BuilderInv, Stored
    <2> QED BY <2>1, <2>2 DEF Builder!Age, BuilderInv
<1>10. CASE UNCHANGED Builder!vars
    BY <1>10 DEF Builder!vars, BuilderInv
<1> QED BY <1>1, <1>2, <1>3, <1>4, <1>5, <1>6, <1>7, <1>8, <1>9, <1>10 DEF Builder!Next

\* Every model that is built, stored, merged or served has edges between nodes of its
\* own, however builds, failing writes, kills and aged indexes come.
THEOREM BuilderInductive == Builder!Spec => []BuilderInv
<1>1. BuilderInv /\ [Builder!Next]_(Builder!vars) => BuilderInv'
    BY BuilderStep
<1> QED BY <1>1, BuilderStart, PTL DEF Builder!Spec

\* The whole of the run's property, when pipeline and builder run.
THEOREM ModelsCoherent == Spec /\ Builder!Spec => []ModelsAreCoherent
<1>1. BuilderInv => Builder!EdgesConnectNodes
    BY SameOperations DEF BuilderInv, Joined, Builder!EdgesConnectNodes
<1> QED BY <1>1, BuilderInductive, ModelCoherent, PTL DEF ModelsAreCoherent
=============================================================================
