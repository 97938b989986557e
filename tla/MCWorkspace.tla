------------------------------ MODULE MCWorkspace ------------------------------
(***************************************************************************)
(* Instances of the modules of Workspace, which share no state: a          *)
(* behaviour is of one of them, or of a part of one, and leaves the others *)
(* alone.                                                                  *)
(*                                                                         *)
(* WorkspaceIndex: a test t, a module x that it includes and that declares *)
(* the action that t's requirement constrains, and a file o of no test's   *)
(* scope.  Text 2 of x has another requirement and includes o; text 2 of t *)
(* exports more.                                                           *)
(***************************************************************************)
EXTENDS Workspace, TLC

CONSTANTS Parts, c1, c2
VARIABLE part

Text(d) == [p \in Texts |-> IF p \in DOMAIN d THEN d[p] ELSE {}]
At(f, v, S) == <<f, v>> :> S

MCFileOf == [r1 |-> "t", r2 |-> "x", r3 |-> "x"]
MCActionOf == [r1 |-> "send", r2 |-> "send", r3 |-> "recv"]
MCVarsOf == [r1 |-> {"seen"}, r2 |-> {}, r3 |-> {"seen"}]
MCTagsOf == [r1 |-> {"rfc"}, r2 |-> {}, r3 |-> {}]
MCWritesOf == Text(At("x", 1, {"seen"}))
MCIncludes == Text(At("t", 1, {"x"}) @@ At("t", 2, {"x"}) @@ At("x", 2, {"o"}))
MCDeclares == Text(At("x", 1, {"send"}) @@ At("x", 2, {"send"}) @@ At("o", 1, {"recv"}))
MCVariables == Text(At("x", 1, {"seen"}) @@ At("x", 2, {"seen"}))
MCRequires == Text(At("t", 1, {"r1"}) @@ At("t", 2, {"r1"}) @@ At("x", 1, {"r2"})
                   @@ At("x", 2, {"r3"}))
MCExports == Text(At("t", 1, {"send"}) @@ At("t", 2, {"send", "recv"}))
MCUnparsable == {<<"t", 2>>}
MCSaves == [s1 |-> "x", s2 |-> "t"]
MCOrphanSaves == [s1 |-> "o", s2 |-> "t"]
MCDemands == [q |-> "x"]

MCOrder == <<"o", "t", "x">>

(***************************************************************************)
(* IncludeResolution: three layers, of which A has two directories, C two  *)
(* files with names of the standard library and of A and B.                *)
(***************************************************************************)
MCPaths == <<"a1/types", "a2/test", "a2/types", "b/frame", "b/types", "c/net", "c/packet", "main">>
Named(S) == {MCPaths[i] : i \in S}
MCDir == [f \in Named(1 .. 8) |->
    CASE f = "a1/types" -> "a1" [] f \in {"a2/test", "a2/types"} -> "a2"
      [] f \in {"b/frame", "b/types"} -> "b" [] f \in {"c/net", "c/packet"} -> "c"
      [] OTHER -> "root"]
MCBase == [f \in Named(1 .. 8) |->
    CASE f \in {"a1/types", "a2/types", "b/types"} -> "types" [] f = "a2/test" -> "test"
      [] f = "b/frame" -> "frame" [] f = "c/net" -> "net" [] f = "c/packet" -> "packet"
      [] OTHER -> "main"]
MCLayers == <<"A", "B", "C">>
MCLayerDirs == [A |-> {"a1", "a2"}, B |-> {"b"}, C |-> {"c"}]
MCDependsOn == [A |-> <<"B">>, B |-> <<"C">>, C |-> <<>>]
MCGroups == [g |-> {"A", "B"}, h |-> {"A"}]
MCGroupSeq == <<"g", "h">>
MCTests == <<"a2/test", "main">>
MCClosure == "a2/test" :> {"a2/test", "a2/types"} @@ "main" :> {"main", "b/types", "b/frame"}

ResolutionNext ==
    \/ /\ part = "stage"
       /\ \/ \E ok \in BOOLEAN : Resolution!Stage(ok)
          \/ Resolution!BuildLayered \/ Resolution!BuildPartitioned \/ Resolution!Cleanup
          \/ Resolution!StaleRemoved \/ Resolution!FromConfig
          \/ \E f \in Resolution!AllFiles : Resolution!Change(f)
          \/ Resolution!HandleSet([group |-> "h", layers |-> MCGroups["h"], by |-> "explicit"])
    \/ /\ part = "tools"
       /\ \/ Resolution!Tools \/ Resolution!Stage(TRUE) \/ Resolution!BuildLayered
          \/ Resolution!Restart

(***************************************************************************)
(* CompileWorker: two files of the same basename, modules of two actions.  *)
(***************************************************************************)
MCStaged == <<"a/types", "b/main", "b/types">>
MCStagedBase == "a/types" :> "types" @@ "b/types" :> "types" @@ "b/main" :> "main"
MCStdFile == "order" :> "std/order"
MCSourceIncludes == "t1" :> {"types", "order"} @@ "t2" :> {} @@ "" :> {}
Bodies == UNION {[1 .. n -> {"require", "other", "bad"}] : n \in 0 .. 2}
Actions == {x \in [{"a", "m"} -> [body : Bodies, bad : BOOLEAN]] :
               ~x["m"].bad /\ (x["a"].body = <<>> \/ Len(x["m"].body) < 2)}
Mixins == [mixer : {"m", None}, kind : {"before", "after"}, bad : BOOLEAN]
MCModules == [actions : Actions, exports : {{}, {"a"}},
              mixins : UNION {[1 .. n -> Mixins] : n \in 0 .. 2}]

CompilingNext == \/ part = "worker" /\ Compiling!Work /\ UNCHANGED <<mod, ir>>
                 \/ part = "module" /\ Compiling!Extraction

(***************************************************************************)
(* CallHierarchy: two names in two files.                                  *)
(***************************************************************************)
MCFileSeq == <<"f", "g">>
MCLines == {[k |-> "inline", n |-> "b", c |-> "a"], [k |-> "monitor", n |-> "a", c |-> ""]}
           \cup {[k |-> k, n |-> n, c |-> ""] : k \in {"action", "call"}, n \in {"a", "b"}}

(***************************************************************************)
(* WorkspaceIndex                                                          *)
(*                                                                         *)
(* "scan": a scan and its deep index while x changes, then a restart from  *)
(* the database.  "again": the reindex command, which may find the deep    *)
(* index of before at work, and stops.  Then, with one scan: "one", a deep *)
(* index, and then a reindexing with an edit and queries; "deep", a        *)
(* reindexing and a parse on demand beside the deep index; "two", two      *)
(* reindexings with queries.                                               *)
(***************************************************************************)
IndexParts == {"scan", "again", "one", "deep", "two"}
Quiet(J) == \A j \in J : job'[j].at = "idle"
NoQuery == graph'.active = EmptyGraph.active /\ graph'.lists = EmptyGraph.lists
Scanning == job[Scan].at # "done"
Deepening == \E d \in Deeps : Working(d)
Alone == disk' = disk /\ Quiet(Saves \cup Demands) /\ NoQuery /\ inScope' = inScope
IndexNext ==
    /\ part \in IndexParts /\ Next
    /\ part \in {"scan", "again"} => Quiet(Saves \cup Demands) /\ NoQuery
    /\ part \in {"scan", "again", "deep", "two"} => inScope' = inScope
    /\ part = "scan" => ~stop' /\ (starts' > starts => starts = 0 \/ Restart)
    /\ part \in {"one", "deep", "two"} => starts' < 2 /\ ~stop' /\ (Scanning => Alone)
    /\ part \in {"again", "deep", "two"} => disk' = disk
    /\ part = "one" => Quiet({"s2"} \cup Demands) /\ (Deepening => Alone)
    /\ part = "deep" => Quiet({"s2"}) /\ graph'.active = EmptyGraph.active

-------------------------------------------------------------------------------
MCInit ==
    /\ part \in Parts /\ ast = (part \in IndexParts \ {"two"})
    /\ parallel \in BOOLEAN /\ (part = "scan" \/ ~parallel)
    /\ Init /\ (part = "scan" \/ ~cache.persistent)
    /\ layered \in BOOLEAN /\ there \in {Resolution!AllFiles, Resolution!AllFiles \ {"a1/types"}}
    /\ part \in {"stage", "tools"} \/ (layered /\ there = Resolution!AllFiles)
    /\ Resolution!Init
    /\ IF part = "module" THEN mod \in Modules ELSE mod = None
    /\ Compiling!Init /\ Calling!Init
MCNext ==
    /\ UNCHANGED part
    /\ \/ IndexNext /\ UNCHANGED <<resolutionVars, compilingVars, callingVars>>
       \/ ResolutionNext /\ UNCHANGED <<vars, compilingVars, callingVars>>
       \/ CompilingNext /\ UNCHANGED <<vars, resolutionVars, callingVars>>
       \/ part = "calls" /\ Calling!Next
          /\ UNCHANGED <<vars, resolutionVars, compilingVars>>
MCSpec == MCInit /\ [][MCNext]_<<part, vars, resolutionVars, compilingVars, callingVars>>
=============================================================================
