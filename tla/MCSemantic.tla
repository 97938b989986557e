------------------------------ MODULE MCSemantic ------------------------------
(***************************************************************************)
(* Instances of SemanticAnalysis for TLC.  The pipeline, the builder and   *)
(* the parser share no state, so that a behaviour is of one of them, or of *)
(* a part of one.                                                          *)
(***************************************************************************)
EXTENDS SemanticAnalysis

\* A test t and a module x that it includes.  Ids: 1 an annotation of t, 2 a
\* symbol of t, 3 a compiled symbol of t, 4 a type of x, 5 a symbol inside it,
\* 6 a requirement of a manifest; the end 0 is the name of a sort.
MCFileOf == <<"t", "t", "t", "x", "x", "t">>
MCEdges == {<<2, "has_param", 0>>, <<3, "has_param", 0>>, <<1, "covers", 6>>,
            <<2, "has_param", 4>>, <<2, "calls", 5>>, <<4, "contains", 5>>}
           \cup ({1, 2} \X {"includes"} \X {4, 5})

MCTriggers == [edit |-> "change", save |-> "save", deep |-> "index"]
MCFilesOfCalls == [edit |-> "t", save |-> "x", deep |-> "t"]
MCTestOf == [t |-> "t", x |-> "t"]
Versions == Files \X TextNos
MCAnnotated == [v \in Versions |-> IF v = <<"t", 1>> THEN {1} ELSE {}]
MCDeclared == [v \in Versions |->
                 CASE v = <<"t", 1>> -> {<<2, "symbol">>}
                   [] v = <<"t", 2>> -> {<<2, "type">>}
                   [] OTHER -> {<<4, "type">>}]
MCCompiled == [v \in Versions |-> IF v[1] = "t"
                 THEN {<<3, IF v[2] = 1 THEN "symbol" ELSE "type">>} ELSE {}]
MCUnparsable == {<<"x", 2>>}
MCEdgesIn ==
    [tier2 |-> [v \in Versions |-> IF v = <<"t", 1>> THEN {<<2, "has_param", 0>>}
                                   ELSE {}],
     tier3 |-> [v \in Versions |-> {<<3, "has_param", 0>>}]]
Restored == UpdateFile(EmptyModel, "t",
                {[id |-> 2, type |-> "symbol", text |-> 0]}, {}, 3)
MCStarts == {EmptyModel, Restored}

MCFileSeq == <<"t", "x">>
MCQualified == <<<<"ann">>, <<"send">>, <<"send">>, <<"cid">>, <<"cid", "make">>,
               <<"req">>>>
MCSymbols == [v \in Files \X {1, 2} |->
              IF v[1] = "t" THEN {<<2, IF v[2] = 1 THEN "symbol" ELSE "type">>}
              ELSE {<<4, "type">>, <<5, "symbol">>}]
MCComments == [t |-> {1}, x |-> {}]
MCTagsOf == [i \in Ids |-> IF i = 1 THEN {6} ELSE {}]
MCSortsOf == [i \in Ids |-> IF i = 2 THEN {<<"has_param", <<"cid">>>>} ELSE {}]
MCIncludes == [t |-> {"x"}, x |-> {}]
MCReferences == [t |-> {<<"calls", <<"send">>, <<"cid", "make">>>>,
                      <<"calls", <<"send">>, <<"nowhere">>>>}, x |-> {}]

(***************************************************************************)
(* Parsing: a includes b, which cannot be parsed and includes a.           *)
(***************************************************************************)
PContent == [a |-> "good", b |-> "broken", c |-> "illegal", d |-> "empty", e |-> "blank"]
PImports == [a |-> {"b", "d"}, b |-> {"a"}, c |-> {}, d |-> {}, e |-> {}]
PNames == {<<"a">>, <<"a", "b">>, <<"a", "b", "c">>, <<"d">>}

VARIABLE part

\* "tiers": a save and the deep indexer.  "bulk": the bulk run and an edit.
MCInit == /\ part \in {"tiers", "bulk", "builder", "sessions", "scan", "tree"}
          /\ Init /\ Builder!Init
          /\ Parser!Init /\ (part = "sessions" \/ env = "full")
          /\ part # "tiers" => model = EmptyModel
          /\ part # "bulk" => tier1Files = {}
Started(c) == call[c].at # "idle"
PNext == \/ part = "sessions" /\ Parser!Sessions /\ UNCHANGED <<tokens, decls>>
         \/ part = "scan" /\ \E tok \in Tokens : Parser!Read(tok)
         \/ part = "tree" /\ \E d \in Parser!Decls : Parser!Declare(d)
MCNext == \/ /\ part = "tiers" /\ Next
             /\ ~Started("edit")' /\ bulk'.at = "idle"
             /\ UNCHANGED <<part, builderVars, parserVars>>
          \/ /\ part = "bulk" /\ Next
             /\ ~Started("save")' /\ ~Started("deep")'
             /\ UNCHANGED <<part, builderVars, parserVars>>
          \/ part = "builder" /\ Builder!Next /\ UNCHANGED <<part, vars, parserVars>>
          \/ PNext /\ UNCHANGED <<part, vars, builderVars>>
MCSpec == MCInit /\ [][MCNext]_<<part, vars, builderVars, parserVars>>
=============================================================================
