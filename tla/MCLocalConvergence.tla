------------------------- MODULE MCLocalConvergence -------------------------
(***************************************************************************)
(* A small instance of LocalConvergence: one file, two edits of it and two  *)
(* compiler outputs, with the limits of the source.                         *)
(***************************************************************************)
EXTENDS LocalConvergence, TLC

CONSTANTS main_c, edit1, edit2, errorA, errorB

OnePath == {main_c}
TwoContents == {edit1, edit2}
TwoErrors == {errorA, errorB}

\* Edits and outputs are only ever compared with each other.
Alike == Permutations(TwoContents) \cup Permutations(TwoErrors)
=============================================================================
