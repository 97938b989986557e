----------------------------- MODULE MCAlgorithms -----------------------------
(***************************************************************************)
(* Instances for TLC of two modules that share no state: a behaviour is of *)
(* one of them, or of a part of one, and leaves the other alone.           *)
(***************************************************************************)
EXTENDS Naturals, SequencesExt, TLC

CONSTANT None

VARIABLES part, text, graphed, specs, edits

texts == <<text, graphed>>
patterns == <<specs, edits>>

(***************************************************************************)
(* SourceText: three alphabets for three questions.                        *)
(***************************************************************************)
L(t, n) == [t |-> t, n |-> n]
TLines == {L("action", "a"), L("action", "b"), L("monitor", "a"), L("monitor", "init"),
           L("object", "o"), L("if", ""), L("close", ""), L("require", "x"), L("set", "x"),
           L("set", "y"), L("relation", "x"), L("relation", "y"), L("#require", "x"),
           L("#monitor", "b"), L("export", "a"), L("export action", "a"), L("include", "i"),
           L("bad", ""), L("lang", ""), L("foreign", "c")}
Alphabet ==
    CASE part = "braces" -> {l \in TLines : l.t \in {"action", "monitor", "close", "set"}
                                           /\ l.n \notin {"init", "y"}}
      [] part = "blocks" -> {L("action", "a"), L("monitor", "b"), L("object", "o"), L("if", ""),
                             L("close", ""), L("require", "x"), L("set", "x"), L("#monitor", "b")}
      [] OTHER -> {L("action", "a"), L("action", "b"), L("monitor", "c"), L("close", ""),
                   L("relation", "x"), L("set", "x"), L("set", "y"), L("require", "x"),
                   L("bad", "")}

T == INSTANCE SourceText WITH Lines <- TLines, MaxLines <- 6, Resolvable <- {"i"}

TNext == part \in {"braces", "blocks", "hints"}
         /\ ((\E l \in Alphabet : T!Type(l)) \/ (part = "hints" /\ T!Parses(text) /\ T!Save))

(***************************************************************************)
(* ProtocolPatterns: a small protocol, that without a codec, and none.     *)
(***************************************************************************)
D(k, a, b, c) == [k |-> k, a |-> a, b |-> b, c |-> c]
QFiles == <<"shim", "frame", "packet", "codec", "test", "old">>
MiniP == [shim |-> <<D("include", "codec", None, None), D("serdes", "packet", "ser", "deser")>>,
          frame |-> <<D("object", "frame", None, None), D("object", "ping", None, None),
                      D("variant", "frame", None, None)>>,
          packet |-> <<D("include", "frame", None, None), D("object", "packet", "frame", None)>>,
          codec |-> <<D("include", "packet", None, None), D("ser", "ser", None, None),
                      D("deser", "deser", None, None)>>,
          test |-> <<D("include", "shim", None, None), D("export", "send", None, None)>>,
          old |-> <<>>]
QDecls == {D("object", "packet", "frame", None), D("variant", "frame", None, None),
           D("serdes", "packet", "ser", "deser"), D("serdes", "packet", "ser", None)}
          \cup {D("object", a, None, None) : a \in {"frame", "ping"}}
          \cup {D("include", a, None, None) : a \in {"packet", "codec", "test", "shim"}}
          \cup {D("deser", a, None, None) : a \in {"ser", "deser"}}
          \cup {D(k, "send", None, None) : k \in {"export", "monitor", "recv"}}
          \cup {D(k, "role", None, None) : k \in {"module", "instance"}}
          \cup {D("ser", "ser", None, None)}

Q == INSTANCE ProtocolPatterns WITH
        FileSeq <- QFiles, Stem <- [f \in Range(QFiles) |-> IF f = "old" THEN "codec" ELSE f],
        Decls <- QDecls, MaxDecls <- 2,
        Bases <- {MiniP, [MiniP EXCEPT !.codec = <<>>], [f \in Range(QFiles) |-> <<>>]}

-------------------------------------------------------------------------------
Parts == {"braces", "blocks", "hints", "patterns"}

MCInit == part \in Parts /\ T!Init /\ Q!Init /\ (part = "patterns" \/ specs = MiniP)
MCNext == /\ UNCHANGED part
          /\ \/ TNext /\ UNCHANGED patterns
             \/ part = "patterns" /\ Q!Next /\ UNCHANGED texts
MCSpec == MCInit /\ [][MCNext]_<<part, texts, patterns>>

-------------------------------------------------------------------------------
\* SourceText: the extractors of requirements agree.
ExtractorsAgree == part = "blocks" => T!ExtractorsAgree

\* SourceText: braces are matched as written, writes without a guard reported once.
DiagnosticsAreRight ==
    CASE part = "braces" -> T!BracesAreMatched
      [] part = "hints" -> T!WritesAreReported
      [] OTHER -> TRUE

\* ProtocolPatterns: the impact of a change is closed under includes, and no
\* serializer is missed.
ImpactIsWhole == part = "patterns" => Q!UnaffectedIsClosed /\ Q!NothingIsMissed
=============================================================================
