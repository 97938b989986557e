-------------------------- MODULE IncludeResolution --------------------------
(***************************************************************************)
(* Include resolution over staging directories and the active workspace    *)
(* (core/indexer/include_resolver.py, core/staging/flat.py,                *)
(* core/workspace/active_workspace.py, mcp/tools/workspace.py): a resolver *)
(* maps the name of an include to a file, through directories of symbolic  *)
(* links that it makes of the files there are and that other processes     *)
(* read, and remove, as well; a tool narrows it to some layers of the      *)
(* workspace and keeps what was chosen in a file.                          *)
(*                                                                         *)
(* A directory of links is a function from basenames to what is linked.    *)
(* The resolver is a record, so that the one that a worker process makes   *)
(* of the configuration it is sent resolves by the same operators.         *)
(***************************************************************************)
EXTENDS Naturals, SequencesExt

CONSTANTS Paths,        \* the files of the workspace, sorted by path
          Dir, Base,    \* of a file
          Root,         \* the directory of the workspace
          StdNames,     \* basenames in the standard library
          LayerSeq,     \* the layers that .ivyworkspace may declare
          LayerDirs,    \* of a layer: its include_paths
          DependsOn,    \* of a layer: depends_on
          GroupSeq, Groups,   \* the groups of layers
          Tests, ClosureOf,     \* tests, sorted, and their include closures
          Marker,       \* protocol_id of the workspace marker
          None, Std,    \* no file, the file of the standard library
          MaxChanges

AllFiles == Range(Paths)
Bases == {Base[f] : f \in AllFiles} \cup StdNames
Layers == Range(LayerSeq)

VARIABLES layered,      \* whether the workspace declares its layers
          disk,         \* the files there are
          links,        \* the staging directory that exists last
          r,            \* the resolver of the server
          worker,       \* that of a worker process
          ws, lspWs,    \* the active workspace of the tools, and of the server
          stateFile,    \* .ivy-workspace-state.json
          cache, cleared,  \* files in the basename cache; a clear since it was made
          changes

vars == <<layered, disk, links, r, worker, ws, lspWs, stateFile, cache,
          cleared, changes>>

Ids == IF layered THEN Layers ELSE 1 .. Len(Tests)
NoFile == [b \in Bases |-> None]
Nowhere == [f \in AllFiles |-> None]

\* The first file of a set in the order of the paths.
First(S) == LET i == CHOOSE i \in DOMAIN Paths : /\ Paths[i] \in S
                              /\ \A j \in 1 .. i - 1 : Paths[j] \notin S
            IN  IF S = {} THEN None ELSE Paths[i]

Resolver == [gen |-> 0, parts |-> {}, partGen |-> 0, layerOf |-> Nowhere,
             partOf |-> Nowhere, byId |-> FALSE, active |-> {},
             staged |-> NoFile, clash |-> {}]
Gone == [gen |-> 0, flat |-> NoFile, part |-> [id \in Ids |-> NoFile]]

Cleared == [group |-> None, layers |-> {}, by |-> "cleared"]
Corrupt == [Cleared EXCEPT !.by = "corrupt"]
IsSet(w) == w.layers # {}

Init == /\ layered \in BOOLEAN
        /\ \E f \in AllFiles : disk \in {AllFiles, AllFiles \ {f}}
        /\ links = Gone /\ r = Resolver /\ worker = Resolver
        /\ ws = None /\ lspWs = Cleared /\ stateFile = None
        /\ cache = None /\ cleared = FALSE /\ changes = 0

toolVars == <<ws, lspWs, stateFile, cache, cleared>>

(***************************************************************************)
(* resolve                                                                 *)
(***************************************************************************)
\* isfile of a link or a path.
Alive(e) == e = Std \/ e \in disk

Named(S, b) == {f \in S : Base[f] = b}
At(d, b) == First({f \in Named(disk, b) : Dir[f] = d})
InStd(b) == IF b \in StdNames THEN Std ELSE None

\* What the directory of a partition or layer has, if it is still there.
InPart(rr, id, b) ==
    IF id \in rr.parts /\ rr.partGen = links.gen THEN links.part[id][b] ELSE None
InFlat(rr, b) == IF rr.gen = links.gen /\ rr.gen # 0 THEN links.flat[b] ELSE None

HasLayers(rr) == \E f \in AllFiles : rr.layerOf[f] # None
Routed(rr, f) == rr.partOf[f] # None /\ rr.partOf[f] \in rr.parts

\* _resolve_via_layers: the file's own directory of links, then those of the layers
\* it depends on, less the ones that are not active.
ViaLayers(rr, b, f) ==
    IF ~Routed(rr, f) THEN <<>>
    ELSE LET id == rr.partOf[f]
             deps == IF rr.byId /\ layered THEN DependsOn[id] ELSE <<>>
             Visible(d) == rr.active = {} \/ d \in rr.active
         IN  <<InPart(rr, id, b)>>
             \o [i \in DOMAIN deps |-> IF Visible(deps[i]) THEN InPart(rr, deps[i], b)
                                       ELSE None]

\* Mutant: the flat directory is asked whatever the layers.
ViaFlatAlways(rr, b) == <<InFlat(rr, b), At(Root, b)>>

\* _resolve_via_flat_staging: nothing while there are layers.
ViaFlat(rr, b) == IF HasLayers(rr) THEN <<>> ELSE <<InFlat(rr, b), At(Root, b)>>

FirstAlive(s) == LET S == {i \in DOMAIN s : Alive(s[i])}
                 IN  IF S = {} THEN None ELSE s[CHOOSE i \in S : \A j \in S : i <= j]

Resolve(rr, b, f) ==
    FirstAlive(<<At(Dir[f], b)>> \o ViaLayers(rr, b, f) \o ViaFlat(rr, b)
               \o <<InStd(b)>>)

(***************************************************************************)
(* Staging                                                                 *)
(***************************************************************************)
\* _find_source_files; with layers also what it notes of each file: the last layer
\* that has it.
LayersOf(f) == {i \in DOMAIN LayerSeq : Dir[f] \in LayerDirs[LayerSeq[i]]}
Stageable == IF layered THEN {f \in disk : LayersOf(f) # {}} ELSE disk
FilesOf(l) == {f \in disk : Dir[f] \in LayerDirs[l]}
Noted(layerOf) ==
    IF ~layered THEN layerOf
    ELSE [f \in AllFiles |-> IF f \in Stageable
                             THEN LayerSeq[CHOOSE i \in LayersOf(f) :
                                               \A j \in LayersOf(f) : j <= i]
                             ELSE layerOf[f]]

\* create_staging_directory: a new directory with the first file of every name, and
\* the standard library where no file has the name.  Without a directory the
\* layers have been noted all the same.
CreateStaging(rr, ok) ==
    LET own == [b \in Bases |-> First(Named(Stageable, b))]
        noted == [rr EXCEPT !.layerOf = Noted(@)]
    IN  IF ok
        THEN /\ links' = [Gone EXCEPT !.gen = links.gen + 1,
                  !.flat = [b \in Bases |-> IF own[b] = None THEN InStd(b) ELSE own[b]]]
             /\ r' = [noted EXCEPT !.gen = links.gen + 1, !.staged = own,
                        !.clash = {b \in Bases : \E f, g \in Named(Stageable, b) : f # g}]
        ELSE UNCHANGED links /\ r' = noted

\* _validate_layer_deps looks for a cycle.
Reaches(l) ==
    LET next(S) == S \cup UNION {Range(DependsOn[k]) : k \in S}
        f[n \in Nat] == IF n = 0 THEN Range(DependsOn[l]) ELSE next(f[n - 1])
    IN  f[Len(LayerSeq)]
Acyclic == \A l \in Layers : l \notin Reaches(l)

\* The links of a layer: its own files, those of the layers it depends on in their
\* order, the standard library; the first of a name stays.
LayerLinks(l) ==
    [b \in Bases |->
        LET of == <<l>> \o (IF Acyclic THEN DependsOn[l] ELSE <<>>)
        IN  FirstAlive([i \in DOMAIN of |-> First(Named(FilesOf(of[i]), b))]
                       \o <<InStd(b)>>)]

\* build_layered_staging, which follows at once where there are layers.
BuildLayered ==
    /\ layered /\ r.gen # 0 /\ r.gen = links.gen
    /\ links' = [links EXCEPT !.part = [l \in Layers |-> LayerLinks(l)]]
    /\ LET noted == Noted(r.layerOf)
       IN  r' = [r EXCEPT !.layerOf = noted, !.parts = Layers, !.partGen = r.gen,
                   !.byId = TRUE,
                   !.partOf = [f \in AllFiles |-> IF noted[f] # None THEN noted[f] ELSE @[f]]]
    /\ UNCHANGED <<layered, disk, worker, toolVars, changes>>

\* build_partitioned_staging: tests that need different files of one name get
\* different partitions, by greedy colouring in the order of the tests.
Conflict(t, u) ==
    \E b \in r.clash : \E f \in Named(ClosureOf[t], b), g \in Named(ClosureOf[u], b) : f # g
Color ==
    LET c[i \in 1 .. Len(Tests)] ==
            LET taken == {c[j] : j \in {j \in 1 .. i - 1 : Conflict(Tests[i], Tests[j])}}
            IN  CHOOSE n \in 1 .. i : n \notin taken /\ \A m \in 1 .. n - 1 : m \in taken
    IN  c

BuildPartitioned ==
    /\ ~layered /\ r.gen # 0 /\ r.clash # {}
    /\ LET used == Range(Color)
           of(p) == UNION {ClosureOf[Tests[i]] : i \in {i \in DOMAIN Tests : Color[i] = p}}
           first(f) == CHOOSE i \in DOMAIN Tests : f \in ClosureOf[Tests[i]]
                           /\ \A j \in 1 .. i - 1 : f \notin ClosureOf[Tests[j]]
       IN  /\ r' = [r EXCEPT !.parts = used, !.partGen = r.gen,
                      !.partOf = [f \in AllFiles |->
                          IF \E t \in Range(Tests) : f \in ClosureOf[t]
                          THEN Color[first(f)] ELSE None]]
           /\ links' = IF links.gen # r.gen THEN links
                       ELSE [links EXCEPT !.part = [p \in Ids |->
                               [b \in Bases |-> IF p \in used THEN First(Named(of(p), b))
                                                ELSE None]]]
    /\ UNCHANGED <<layered, disk, worker, toolVars, changes>>

\* cleanup_staging leaves what it knows of the partitions; ivy_index makes new
\* directories afterwards.
Cleanup ==
    /\ r.gen # 0
    /\ links' = [Gone EXCEPT !.gen = links.gen]
    /\ r' = [r EXCEPT !.gen = 0, !.staged = NoFile]
    /\ UNCHANGED <<layered, disk, worker, toolVars, changes>>

Stage(ok) == /\ r.gen = 0 /\ links.gen < 2
             /\ CreateStaging(r, ok)
             /\ UNCHANGED <<layered, disk, worker, toolVars, changes>>

\* Another server that starts removes staging directories older than an hour.
StaleRemoved ==
    /\ links.gen # 0 /\ changes < MaxChanges /\ changes' = changes + 1
    /\ links' = [Gone EXCEPT !.gen = links.gen]
    /\ UNCHANGED <<layered, disk, r, worker, toolVars>>

Change(f) ==
    /\ changes < MaxChanges /\ changes' = changes + 1
    /\ disk' = IF f \in disk THEN disk \ {f} ELSE disk \cup {f}
    /\ UNCHANGED <<layered, links, r, worker, toolVars>>

\* Mutant: a link from any layer counts, one to a dependency as well.
FromConfigOfAnyLink ==
    LET there == links.gen = r.gen /\ links.part # Gone.part
        linked(f) == {i \in DOMAIN LayerSeq : links.part[LayerSeq[i]][Base[f]] = f}
        of == [f \in AllFiles |->
                 IF layered /\ there /\ f \in disk /\ linked(f) # {}
                 THEN LayerSeq[CHOOSE i \in linked(f) : \A j \in linked(f) : i <= j]
                 ELSE None]
    IN  /\ r.gen # 0
        /\ worker' = [Resolver EXCEPT !.gen = r.gen, !.partGen = r.gen,
                        !.parts = IF layered /\ there THEN Layers ELSE {},
                        !.byId = layered, !.layerOf = of, !.partOf = of]
        /\ UNCHANGED <<layered, disk, links, r, toolVars, changes>>

\* from_config in a worker process: the directories that are there, and the files
\* they link to from within their own layer.
FromConfig ==
    LET there == links.gen = r.gen /\ links.part # Gone.part
        linked(f) == {i \in LayersOf(f) : links.part[LayerSeq[i]][Base[f]] = f}
        of == [f \in AllFiles |->
                 IF layered /\ there /\ f \in disk /\ linked(f) # {}
                 THEN LayerSeq[CHOOSE i \in linked(f) : \A j \in linked(f) : j <= i]
                 ELSE None]
    IN  /\ r.gen # 0
        /\ worker' = [Resolver EXCEPT !.gen = r.gen, !.partGen = r.gen,
                        !.parts = IF layered /\ there THEN Layers ELSE {},
                        !.byId = layered, !.layerOf = of, !.partOf = of]
        /\ UNCHANGED <<layered, disk, links, r, toolVars, changes>>

(***************************************************************************)
(* The active workspace                                                    *)
(***************************************************************************)
\* from_test_file: the first group with the test's layer, else the layer alone, as
\* the tool does not say what it depends on.
OfTest(f) ==
    LET l == r.layerOf[f]
        in == {i \in DOMAIN GroupSeq : l \in Groups[GroupSeq[i]]}
    IN  IF l = None THEN Cleared
        ELSE IF in = {} THEN [group |-> None, layers |-> {l}, by |-> "auto"]
        ELSE LET g == GroupSeq[CHOOSE i \in in : \A j \in in : i <= j]
             IN  [group |-> g, layers |-> Groups[g], by |-> "auto"]

Activate(w) == /\ ws' = w
               /\ r' = [r EXCEPT !.active = w.layers]
               /\ cache' = None /\ cleared' = FALSE

\* Mutant: the cache of basenames is kept when the workspace changes.
HandleSetKeepsCache(w) ==
    /\ stateFile' = w /\ ws' = w /\ r' = [r EXCEPT !.active = w.layers]
    /\ UNCHANGED <<layered, disk, links, worker, lspWs, cache, cleared, changes>>

\* _handle_set: the state file first.
HandleSet(w) ==
    /\ stateFile' = w /\ Activate(w)
    /\ UNCHANGED <<layered, disk, links, worker, lspWs, changes>>

\* The write fails after the file was opened, and nothing else happens.
HandleSetFails ==
    /\ changes < MaxChanges /\ changes' = changes + 1
    /\ stateFile' = Corrupt
    /\ UNCHANGED <<layered, disk, links, r, worker, ws, lspWs, cache, cleared>>

Loaded == IF stateFile \in {None, Corrupt} THEN Cleared ELSE stateFile

\* _handle_get and _restore_workspace_at_boot.
Restore ==
    /\ ws = None /\ IsSet(Loaded) /\ Activate(Loaded)
    /\ UNCHANGED <<layered, disk, links, worker, lspWs, stateFile, changes>>

\* _handle_clear leaves the cache of basenames as it was.
HandleClear ==
    /\ stateFile' = Cleared /\ ws' = Cleared
    /\ r' = [r EXCEPT !.active = {}]
    /\ cleared' = (cache # None)
    /\ UNCHANGED <<layered, disk, links, worker, lspWs, cache, changes>>

\* load_active_workspace: a marker of another protocol clears what a marker set.
LspStart ==
    /\ lspWs' = IF Loaded.by = "marker" /\ IsSet(Loaded) /\ Marker # None
                   /\ Loaded.group # Marker THEN Cleared ELSE Loaded
    /\ UNCHANGED <<layered, disk, links, r, worker, ws, stateFile, cache, cleared,
                   changes>>

\* The server is started again, with new objects.
Restart ==
    /\ r # Resolver /\ changes < MaxChanges /\ changes' = changes + 1
    /\ links' = [Gone EXCEPT !.gen = links.gen]
    /\ r' = Resolver /\ worker' = Resolver /\ ws' = None /\ cache' = None
    /\ cleared' = FALSE
    /\ UNCHANGED <<layered, disk, lspWs, stateFile>>

\* find_all_ivy_files(filter_active), which the cache of basenames is made of.
FindAll ==
    IF HasLayers(r)
    THEN {f \in AllFiles : r.layerOf[f] # None
                        /\ (r.active = {} \/ r.layerOf[f] \in r.active)}
    ELSE IF r.gen # 0 THEN Range(r.staged) \ {None} ELSE Stageable

FillCache ==
    /\ cache = None
    /\ cache' = [active |-> r.active, files |-> FindAll] /\ cleared' = FALSE
    /\ UNCHANGED <<layered, disk, links, r, worker, ws, lspWs, stateFile, changes>>

Tools ==
    \/ \E g \in Range(GroupSeq) :
          HandleSet([group |-> g, layers |-> Groups[g], by |-> "explicit"])
    \/ \E t \in Range(Tests) : HandleSet(OfTest(t))
    \/ HandleSetFails \/ Restore \/ HandleClear \/ LspStart \/ FillCache

Next ==
    \/ \E ok \in BOOLEAN : Stage(ok)
    \/ BuildLayered \/ BuildPartitioned \/ Cleanup \/ StaleRemoved \/ FromConfig
    \/ \E f \in AllFiles : Change(f)
    \/ Tools \/ Restart

Spec == Init /\ [][Next]_vars

(***************************************************************************)
(* Properties                                                              *)
(***************************************************************************)
\* Once the layers of the files are noted, an include is resolved to a file beside
\* the including one, of its layer, of a layer that is at most two steps of
\* depends_on away, or of the standard library, whatever staging directory has
\* gone or been made again (_resolve_via_layers, _resolve_via_flat_staging): two
\* steps, because a directory of links that is asked for a dependency has links of
\* its own dependencies.
ResolvesInLayers ==
    layered /\ HasLayers(r) =>
        \A f \in disk, b \in Bases :
            LET g == Resolve(r, b, f)
                near == {l \in Layers : Dir[f] \in LayerDirs[l]}
                Step(S) == S \cup UNION {Range(DependsOn[l]) : l \in S}
            IN  g \notin {None, Std} /\ Dir[g] # Dir[f] =>
                    \E l \in Step(Step(near)) : Dir[g] \in LayerDirs[l]

\* A worker that was sent the present configuration resolves as the server does
\* (from_config), unless the including file has lost its name to another one and
\* is not linked, or files or the active layers have changed since.
WorkerResolvesAlike ==
    layered /\ worker.parts # {} /\ worker.gen = r.gen /\ r.partGen = r.gen
    /\ r.active = {} /\ changes = 0 =>
        \A f \in disk, b \in Bases :
            r.partOf[f] # None /\ links.part[r.partOf[f]][Base[f]] = f =>
                Resolve(worker, b, f) = Resolve(r, b, f)

\* The resolver is narrowed to the layers of the active workspace, and the cache of
\* basenames was made for them (_handle_set, _handle_get), unless the workspace has
\* been cleared since.
ScopeIsWorkspace ==
    /\ ws # None => r.active = ws.layers
    /\ cache # None /\ ~cleared => cache.active = r.active
=============================================================================
