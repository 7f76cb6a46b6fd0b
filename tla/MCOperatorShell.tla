---------------------------- MODULE MCOperatorShell ----------------------------
(* Small sets for OperatorShell.                                             *)
EXTENDS OperatorShell, TLC

CONSTANTS board, typo, api, cli, model, tree, make, blink

OneBoard == {board}
OneTypo == {typo}
TwoProviders == {api, cli}
OnlyApi == {api}
OneModel == {model}
OneWorkspace == {tree}
OneCommand == {make}
OneCase == {blink}
TwoOfThem == {<<blink, blink>>}
Nothing == {}

\* Runs of the command line programs, with limits and timeouts of their own.
Foreign == [task |-> "run", board |-> board, provider |-> cli, model |-> None,
            artifact |-> Reference, workspace |-> None, build |-> None,
            limits |-> "own", timeouts |-> "own"]
ForeignRequests ==
  {Foreign, [Foreign EXCEPT !.task = blink, !.board = None, !.model = model]}
=============================================================================
