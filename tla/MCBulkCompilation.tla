-------------------------- MODULE MCBulkCompilation --------------------------
(***************************************************************************)
(* Instances of BulkCompilation for TLC: two runs (the one that follows    *)
(* the T1/T2 analysis and an ivy/recompileAll) over a list of two files.   *)
(***************************************************************************)
EXTENDS BulkCompilation

CONSTANTS r1, r2, fa, fb

TwoFiles == <<fa, fb>>
=============================================================================
