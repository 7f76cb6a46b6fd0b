--------------------------- MODULE MCTurnkeyLoop ---------------------------
(***************************************************************************)
(* A small instance of TurnkeyLoop: one image that passes every check, and  *)
(* one that boots with the expected text but a wrong symbol.                *)
(***************************************************************************)
EXTENDS TurnkeyLoop

CONSTANTS good, half

TwoImages == {good, half}
OnlyGood == {good}
=============================================================================
