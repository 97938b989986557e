----------------------------- MODULE ModelBuilder -----------------------------
(***************************************************************************)
(* How a server gets its semantic model when it starts (mcp/model_builder  *)
(* and core/semantic/model_builder): the models of the offline index are   *)
(* merged when every protocol's is usable, otherwise the model is built    *)
(* from the files, its edges are wired and it is written to the index of   *)
(* every protocol, a manifest and a pickle each.  The server may die at    *)
(* any point and start again, and files change while it runs.              *)
(***************************************************************************)
EXTENDS SemanticModel, FiniteSets, FiniteSetsExt, SequencesExt

CONSTANTS Protocols,
          FileSeq,       \* find_files_fn: the workspace's files, in order
          Qualified,     \* qualified name of a symbol's id, a sequence
          Requirements,  \* ids of the requirements in the manifests
          Symbols,       \* of a <<file, start>>: <<id, type>> of what is extracted
          Comments,      \* of a file: ids of its RFC annotations
          TagsOf,        \* of an annotation: the requirements its tags match
          SortsOf,       \* of a symbol: <<"has_param" or "returns_type", sort>>
          Includes,      \* of a file: the files its includes name
          References,    \* of a file: <<kind, name, name>>
          UnreadableFiles,   \* files that may not be readable
          MaxStarts      \* bound on starts of the server

VARIABLES built,     \* the model under construction, or served
          at,        \* where the server is
          targets,   \* protocols that are still to be merged, or written to
          next,      \* position in FileSeq
          skipped,   \* files that could not be read in this build
          index,     \* of each protocol: its manifest and its pickle
          served,    \* how the served model was got: "index", "build", "none"
          starts

vars == <<built, at, targets, next, skipped, index, served, starts>>

NoIndex == [manifest |-> FALSE, status |-> "fresh", pickle |-> EmptyModel,
            hasPickle |-> FALSE]
Statuses == {"fresh", "stale_minor", "stale_major", "other_version"}

Init == /\ built = EmptyModel /\ at = "down" /\ targets = {} /\ next = 1
        /\ skipped = {}
        /\ index = [p \in Protocols |-> NoIndex]
        /\ served = "none" /\ starts = 0

(***************************************************************************)
(* Wiring: the edges of a finished scan                                    *)
(***************************************************************************)
First(ids) == IF ids = {} THEN {} ELSE {Min(ids)}   \* ids in order of adding
LastName(name) == name[Len(name)]

\* Mutant: a sort that no type of the workspace has is its own end.
TypeNamedOrSort(m, sort) ==
    LET found == {i \in OfType(m, "type") :
                     LastName(Qualified[i]) = LastName(sort)}
    IN  IF found = {} THEN {0} ELSE First(found)

\* A sort is looked up by its last component among the types.
TypeNamed(m, sort) ==
    First({i \in OfType(m, "type") : LastName(Qualified[i]) = LastName(sort)})

\* _resolve_name: the qualified name, or else the first of the short name.
Resolved(m, name) ==
    LET short == {i \in m.byName : LastName(Qualified[i]) = LastName(name)}
        exact == {i \in short : Qualified[i] = name}
    IN  IF exact # {} THEN First(exact) ELSE First(short)

CoverEdges(m) == UNION {{a} \X {"covers"} \X (TagsOf[a] \cap
                             OfType(m, "requirement")) : a \in OfType(m, "annotation")}
SortEdges(m) == UNION {UNION {{s} \X {u[1]} \X TypeNamed(m, u[2]) :
                              u \in SortsOf[s]} : s \in OfType(m, "symbol")}

\* One node stands for its file: the first of a set of strings, whichever.
IncludeEdges(m, files, standsFor) ==
    {<<standsFor[p[1]], "includes", standsFor[p[2]]>> :
        p \in {q \in files \X Files : /\ q[2] \in Includes[q[1]] /\ q[1] # q[2]
                                      /\ NodesInFile(m, q[1]) # {}
                                      /\ NodesInFile(m, q[2]) # {}}}

ReferenceEdges(m, files) ==
    {e \in UNION {UNION {Resolved(m, r[2]) \X {r[1]} \X Resolved(m, r[3]) :
                         r \in References[f]} : f \in files} : e[1] # e[3]}

\* Qualified names to ids; a later node, and a type, wins.
NodeCalled(m, name) ==
    LET of(type) == {i \in OfType(m, type) : Qualified[i] = name}
    IN  IF of("type") # {} THEN {Max(of("type"))}
        ELSE IF of("symbol") # {} THEN {Max(of("symbol"))} ELSE {}
ContainEdges(m) ==
    LET names == {Qualified[i] : i \in OfType(m, "type") \cup OfType(m, "symbol")}
    IN  UNION {NodeCalled(m, Front(n)) \X {"contains"} \X NodeCalled(m, n) :
                   n \in {q \in names : Len(q) > 1}}

Scanned == Files \ skipped
FileNodes(f) == {[id |-> i, type |-> "annotation", text |-> starts] : i \in Comments[f]}
        \cup {[id |-> s[1], type |-> s[2], text |-> starts] : s \in Symbols[<<f, starts>>]}

(***************************************************************************)
(* The server                                                              *)
(***************************************************************************)
Indexed == {p \in Protocols : index[p].manifest}
Usable(p) == /\ index[p].hasPickle
             /\ index[p].status \in {"fresh", "stale_minor"}

\* They take their turns in the order of a directory's listing.
Turn == CHOOSE p \in targets : TRUE

Start ==
    /\ at = "down" /\ starts < MaxStarts
    /\ starts' = starts + 1 /\ at' = "merge" /\ targets' = Indexed
    /\ UNCHANGED <<built, next, skipped, index, served>>

\* Strategy 1: the models that are usable are merged, ...
MergeIndex ==
    /\ at = "merge" /\ targets # {} /\ targets' = targets \ {Turn}
    /\ built' = IF Usable(Turn) THEN MergeFrom(built, index[Turn].pickle) ELSE built
    /\ UNCHANGED <<at, next, skipped, index, served, starts>>

Manifests == [id : Requirements, type : {"requirement"}, text : {0}]

\* ... and serve if that was every protocol of the index.
UseIndexOrScan ==
    /\ at = "merge" /\ targets = {}
    /\ IF (\A p \in Indexed : Usable(p)) /\ Present(built) # {}
       THEN at' = "up" /\ served' = "index" /\ UNCHANGED <<built, targets>>
       ELSE /\ built' = [Put(EmptyModel, Manifests, 0) EXCEPT !.byFile = {}]
            /\ at' = "scan" /\ targets' = IF Indexed = {} THEN Protocols ELSE Indexed
            /\ UNCHANGED served
    /\ UNCHANGED <<next, skipped, index, starts>>

ScanFile ==
    /\ at = "scan" /\ next <= Len(FileSeq)
    /\ \/ /\ built' = Put(built, FileNodes(FileSeq[next]), 0)
          /\ UNCHANGED skipped
       \/ /\ FileSeq[next] \in UnreadableFiles
          /\ skipped' = skipped \cup {FileSeq[next]}
          /\ UNCHANGED built
    /\ next' = next + 1
    /\ UNCHANGED <<at, targets, index, served, starts>>

\* The model is served when it has been written to all these.
WriteNext(left) ==
    IF left # {} THEN at' = "manifest" /\ UNCHANGED served
                 ELSE at' = "up" /\ served' = "build"

\* _wire_semantic_edges, and the model is complete.
Wire ==
    /\ at = "scan" /\ next > Len(FileSeq)
    /\ \E standsFor \in [Files -> Ids] :
        /\ \A f \in Files : NodesInFile(built, f) # {}
                                => standsFor[f] \in NodesInFile(built, f)
        /\ \A f \in Files : NodesInFile(built, f) = {} => standsFor[f] = Min(Ids)
        /\ built' = AddEdges(built,
                CoverEdges(built) \cup SortEdges(built)
                \cup IncludeEdges(built, Scanned, standsFor)
                \cup ReferenceEdges(built, Scanned) \cup ContainEdges(built))
    /\ WriteNext(targets)
    /\ UNCHANGED <<targets, next, skipped, index, starts>>

\* write_model_to_index, protocol by protocol.  A manifest that cannot be
\* written ends the protocol's turn; a pickle that cannot leaves the manifest.
NextProtocol == targets' = targets \ {Turn} /\ WriteNext(targets \ {Turn})

WriteManifest ==
    /\ at = "manifest"
    /\ \/ /\ index' = [index EXCEPT ![Turn].manifest = TRUE,
                                    ![Turn].status = "fresh"]
          /\ at' = "pickle" /\ UNCHANGED <<targets, served>>
       \/ NextProtocol /\ UNCHANGED index
    /\ UNCHANGED <<built, next, skipped, starts>>

WritePickle ==
    /\ at = "pickle"
    /\ \/ index' = [index EXCEPT ![Turn].hasPickle = TRUE, ![Turn].pickle = built]
       \/ UNCHANGED index
    /\ NextProtocol
    /\ UNCHANGED <<built, next, skipped, starts>>

Stop == /\ at # "down"
        /\ at' = "down" /\ served' = "none" /\ built' = EmptyModel
        /\ targets' = {} /\ next' = 1 /\ skipped' = {}
        /\ UNCHANGED <<index, starts>>

\* Files of a protocol change, or another version of the program is installed.
Age(p) == /\ index[p].manifest /\ at = "down"
          /\ \E s \in Statuses : index' = [index EXCEPT ![p].status = s]
          /\ UNCHANGED <<built, at, targets, next, skipped, served, starts>>

Next == \/ Start \/ MergeIndex \/ UseIndexOrScan \/ ScanFile \/ Wire
        \/ WriteManifest \/ WritePickle \/ Stop
        \/ \E p \in Protocols : Age(p)

Spec == Init /\ [][Next]_vars

(***************************************************************************)
(* Properties                                                              *)
(***************************************************************************)
\* Every edge of a model, while it is built and when it was merged from the
\* pickles of several builds, joins two nodes the model has.
EdgesConnectNodes ==
    \A e \in built.edges : e[1] \in Present(built) /\ e[3] \in Present(built)
=============================================================================
