------------------------- MODULE MCCompilerManager -------------------------
(***************************************************************************)
(* Instances of CompilerManager for TLC.  j1 and j3 compile the same text  *)
(* of file fa, j2 an edited one: a hit by hash, a supersession and a result*)
(* for an older text can all happen.  With two files, j3 competes for the  *)
(* permit with another file.                                               *)
(***************************************************************************)
EXTENDS CompilerManager, TLC

CONSTANTS j1, j2, j3, fa, fb, s1, s2

OneFile == [j \in Jobs |-> fa]
TwoFiles == [j \in Jobs |-> IF j = j3 THEN fb ELSE fa]
EditAndUndo == [j \in Jobs |-> IF j = j2 THEN s2 ELSE s1]

\* The calls before and after the edit are alike.
SameText == Permutations({j1, j3})
=============================================================================
