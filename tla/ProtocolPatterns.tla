--------------------------- MODULE ProtocolPatterns ---------------------------
(***************************************************************************)
(* The patterns of a protocol (core/analysis/pattern_library.py) and what  *)
(* is told of a change to a type from them (mcp/tools/propagation.py).     *)
(*                                                                         *)
(* A file is a sequence of declarations [k, a, b, c]:                      *)
(*   "object"    object a, a struct with a field of type b.arr unless b is *)
(*               None                                                      *)
(*   "variant"   variant this of a, in the object declared last before it  *)
(*   "ser", "deser"    the C++ class a in an impl block                    *)
(*   "serdes"    instance serdes(a, .., b, c)                              *)
(*   "include"   include a                                                 *)
(*   "export", "monitor"    of the action a                                *)
(*   "module", "instance"   the module a, an instance of it                *)
(*   "recv"      implement a.recv                                          *)
(***************************************************************************)
EXTENDS Naturals, SequencesExt

CONSTANTS FileSeq,    \* the files in the order of the walk
          Stem,       \* of a file: its name without directory and extension
          Decls, Bases, None, MaxDecls

Files == Range(FileSeq)

VARIABLES specs,    \* the declarations of a file
          edits
vars == <<specs, edits>>

Of(ds, k) == SelectSeq(ds, LAMBDA d : d.k = k)

(***************************************************************************)
(* The detectors                                                           *)
(***************************************************************************)
Pattern(kind, type, f, name, x, y) ==
    [kind |-> kind, type |-> type, file |-> f, name |-> name, x |-> x, y |-> y, list |-> <<>>]

FirstOf(seq) == IF seq = <<>> THEN None ELSE seq[1]

\* The pattern M(d) of every declaration d.
Each(ds, M(_)) == [i \in DOMAIN ds |-> M(ds[i])]

\* Classes come before instances, whatever their order in the text.
Serdes(f, ds) ==
    Each(SelectSeq(ds, LAMBDA d : d.k \in {"ser", "deser"}),
         LAMBDA d : Pattern("serdes", d.k, f, d.a, None, None))
    \o Each(Of(ds, "serdes"),
            LAMBDA d : Pattern("serdes", "instance", f, d.a, d.b, d.c))

\* An object takes the struct of the one that follows it closely.
Field(ds, i) ==
    IF ds[i].b # None THEN ds[i].b
    ELSE IF i < Len(ds) /\ ds[i + 1].k = "object" THEN ds[i + 1].b ELSE None
Variants(f, ds) ==
    LET objects == SelectSeq([i \in DOMAIN ds |-> i],
                             LAMBDA i : ds[i].k = "object" /\ Field(ds, i) # None)
    IN  Each(objects, LAMBDA i : Pattern("variants", "struct", f, ds[i].a, Field(ds, i), None))
        \o Each(Of(ds, "variant"), LAMBDA d : Pattern("variants", "variant", f, d.a, None, None))

Monitors(f, ds) ==
    Each(SelectSeq(ds, LAMBDA d : d.k \in {"monitor", "recv"}),
         LAMBDA d : Pattern("monitors", d.k, f, d.a, None, None))
    \o Each(Of(ds, "export"), LAMBDA d : Pattern("monitors", "export", f, d.a, None, None))

Shims(f, ds) == Each(Of(ds, "recv"), LAMBDA d : Pattern("shim", "recv", f, d.a, None, None))

\* A serdes is an instance of a module as well.
Modules(f, ds) ==
    Each(Of(ds, "module"), LAMBDA d : Pattern("module", "definition", f, d.a, None, None))
    \o Each(SelectSeq(ds, LAMBDA d : d.k \in {"instance", "serdes"}),
            LAMBDA d : Pattern("module", "instance", f,
                               IF d.k = "serdes" THEN "serdes" ELSE d.a, None, None))

\* An object is an entity when a variant of it follows; its roles are the modules
\* that follow.
Entities(f, ds) ==
    LET After(i, k) == SelectSeq(SubSeq(ds, i + 1, Len(ds)), LAMBDA d : d.k = k)
        entity == SelectSeq([i \in DOMAIN ds |-> i],
                      LAMBDA i : ds[i].k = "object"
                                 /\ \E d \in Range(After(i, "variant")) : d.a = ds[i].a)
    IN  Each(entity, LAMBDA i : Pattern("entity", "entity", f, ds[i].a,
                                        FirstOf(Each(After(i, "module"), LAMBDA d : d.a)), None))

\* A file without an include has no chain.
Chain(f, ds) ==
    LET names == Each(Of(ds, "include"), LAMBDA d : d.a)
    IN  IF names = <<>> THEN <<>>
        ELSE <<[Pattern("include", "chain", f, "includes", None, None)
                   EXCEPT !.list = names]>>

\* analyze_protocol
Detected ==
    FlattenSeq([i \in DOMAIN FileSeq |->
        LET f == FileSeq[i]
        IN  Serdes(f, specs[f]) \o Variants(f, specs[f]) \o Monitors(f, specs[f])
            \o Shims(f, specs[f]) \o Modules(f, specs[f]) \o Entities(f, specs[f])
            \o Chain(f, specs[f])])

Patterns(ps, kind, type) == SelectSeq(ps, LAMBDA p : p.kind = kind /\ p.type = type)

(***************************************************************************)
(* PatternCrossReferencer: what a reference does not find                  *)
(***************************************************************************)
Names(ps, kind, type) == {p.name : p \in Range(Patterns(ps, kind, type))}

Unresolved(ps, role, referred) ==
    {<<role, n>> : n \in referred \ (Names(ps, "serdes", role) \cup {None})}
Issues(ps) ==
    LET serdes == Range(Patterns(ps, "serdes", "instance"))
    IN  Unresolved(ps, "ser", {p.x : p \in serdes})
        \cup Unresolved(ps, "deser", {p.y : p \in serdes})
        \cup {<<"monitor", n>> : n \in Names(ps, "monitors", "export")
                                       \ Names(ps, "monitors", "monitor")}
        \cup {<<"shim", p.name>> : p \in {q \in Range(Patterns(ps, "entity", "entity")) :
                                             q.x # None /\ Patterns(ps, "shim", "recv") = <<>>}}
        \cup {<<"module", n>> : n \in Names(ps, "module", "definition")
                                      \ Names(ps, "module", "instance")}

(***************************************************************************)
(* ivy_propagation                                                         *)
(***************************************************************************)
\* find_variants_impl: the first struct of the name, or the first file with a
\* variant of it, if an object other than the type itself comes before one there.
Members(t, f) ==
    {i \in DOMAIN specs[f] :
        LET before == {j \in 1 .. i - 1 : specs[f][j].k = "object"}
        IN  /\ specs[f][i].k = "variant" /\ specs[f][i].a = t
            /\ before # {}
            /\ specs[f][CHOOSE j \in before : \A h \in before : h <= j].a # t}
Definition(ps, t) ==
    LET struct == FirstOf(SelectSeq(Patterns(ps, "variants", "struct"), LAMBDA p : p.name = t))
        variant == FirstOf(SelectSeq(Patterns(ps, "variants", "variant"), LAMBDA p : p.name = t))
    IN  IF struct # None THEN [kind |-> "struct", file |-> struct.file]
        ELSE IF variant # None /\ Members(t, variant.file) # {}
        THEN [kind |-> "variant", file |-> variant.file]
        ELSE None

\* Mutant: the classes of serializers only.
ClassesOfSerializers(ps, n) ==
    LET S == SelectSeq(ps, LAMBDA p : p.kind = "serdes" /\ p.type = "ser" /\ p.name = n)
    IN  IF S = <<>> THEN None ELSE S[Len(S)]

\* _build_serdes_class_index: the last class of a name, of either kind.
Class(ps, n) ==
    LET S == SelectSeq(ps, LAMBDA p : p.kind = "serdes" /\ p.type \in {"ser", "deser"}
                                            /\ p.name = n)
    IN  IF S = <<>> THEN None ELSE S[Len(S)]

FilesOf(ps, p) == {Class(ps, n).file : n \in {m \in {p.x, p.y} : Class(ps, m) # None}}

Containing(ps, t) == {p.name : p \in {q \in Range(Patterns(ps, "variants", "struct")) : q.x = t}}

\* A variant type is serialized by the struct that contains it: by the first
\* instance of a serdes of one, if its serializer is a class.
OfVariant(ps, t) ==
    LET p == FirstOf(SelectSeq(Patterns(ps, "serdes", "instance"),
                               LAMBDA q : q.name \in Containing(ps, t)))
    IN  IF p # None /\ p.x \in Names(ps, "serdes", "ser") THEN FilesOf(ps, p) ELSE {}

\* serdes_correlation_impl
Correlated(ps, t) == SelectSeq(Patterns(ps, "serdes", "instance"), LAMBDA p : p.name = t)

\* change_impact_impl: the files to edit.
Auto(ps, t) ==
    {Definition(ps, t).file}
    \cup (IF Correlated(ps, t) # <<>> THEN UNION {FilesOf(ps, p) : p \in Range(Correlated(ps, t))}
          ELSE IF Definition(ps, t).kind = "variant" THEN OfVariant(ps, t) ELSE {})

\* The includes of a stem are those of the last file of that name.
Chains(ps) == Patterns(ps, "include", "chain")
IncludesOf(ps, stem) ==
    LET S == SelectSeq(Chains(ps), LAMBDA p : Stem[p.file] = stem)
    IN  IF S = <<>> THEN {} ELSE Range(S[Len(S)].list)

\* Mutant: only direct includes count.
DependsDirectly(ps, stem, targets) == IncludesOf(ps, stem) \cap targets # {}

\* _depends_on_auto: a search that stops at what it has seen.
DependsOn(ps, stem, targets) ==
    LET Seen[S \in SUBSET Range(Stem)] ==
            LET next == UNION {IncludesOf(ps, s) : s \in S} \cap Range(Stem)
            IN  IF next \subseteq S THEN S ELSE Seen[S \cup next]
    IN  \E s \in Seen[{stem}] : IncludesOf(ps, s) \cap targets # {}

\* Only files with a chain are looked at.
Rest(ps, t) == {p.file : p \in Range(Chains(ps))} \ Auto(ps, t)
Manual(ps, t) == {f \in Rest(ps, t) : DependsOn(ps, Stem[f], {Stem[g] : g \in Auto(ps, t)})}
Unaffected(ps, t) == Rest(ps, t) \ Manual(ps, t)

(***************************************************************************)
(* The protocol                                                            *)
(***************************************************************************)
Edit(f, d) ==
    /\ edits < MaxDecls /\ edits' = edits + 1
    /\ specs' = [specs EXCEPT ![f] = Append(@, d)]

Init == specs \in Bases /\ edits = 0
Next == \E f \in Files, d \in Decls : Edit(f, d)
Spec == Init /\ [][Next]_vars

(***************************************************************************)
(* Properties                                                              *)
(***************************************************************************)
Types(ps) == Names(ps, "variants", "struct") \cup Names(ps, "variants", "variant")

\* No two files with includes have the same name in different directories.
StemsAreUnique(ps) ==
    \A p, q \in Range(Chains(ps)) : Stem[p.file] = Stem[q.file] => p.file = q.file

\* A file is left unaffected by a change of a type (change_impact_impl) only if it is
\* not edited, and nothing it includes is edited or affected: the search of one
\* file misses nothing that those of the others find.
UnaffectedIsClosed ==
    LET ps == Detected
    IN  StemsAreUnique(ps) => \A t \in {u \in Types(ps) : Definition(ps, u) # None} :
        /\ Definition(ps, t).file \in Auto(ps, t)
        /\ \A f \in Unaffected(ps, t), g \in Auto(ps, t) \cup Manual(ps, t) :
              ~\E d \in Range(specs[f]) : d.k = "include" /\ d.a = Stem[g]

\* A serializer or deserializer that an instance of a serdes of a type names is among
\* the files to edit, or validation reports that it is not found: the two lookups
\* (_build_serdes_class_index, validate_serdes_coverage) lose nothing between them.
NothingIsMissed ==
    LET ps == Detected
    IN  \A t \in {u \in Types(ps) : Definition(ps, u) # None} :
        \A p \in Range(Correlated(ps, t)), role \in {"ser", "deser"} :
            LET n == IF role = "ser" THEN p.x ELSE p.y
            IN  \/ n = None \/ <<role, n>> \in Issues(ps)
                \/ \E q \in Range(ps) : /\ q.kind = "serdes" /\ q.type \in {"ser", "deser"}
                                         /\ q.name = n /\ q.file \in Auto(ps, t)
=============================================================================
