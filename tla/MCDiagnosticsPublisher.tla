----------------------- MODULE MCDiagnosticsPublisher -----------------------
(***************************************************************************)
(* Instances of DiagnosticsPublisher for TLC.  The second change undoes    *)
(* the first, so that an entry may match a text again.                     *)
(***************************************************************************)
EXTENDS DiagnosticsPublisher

CONSTANTS o1, c1, c2, s1, s2, p1, d0

EditAndUndo == [v \in Versions |-> IF v = c1 THEN "edited" ELSE "original"]
=============================================================================
