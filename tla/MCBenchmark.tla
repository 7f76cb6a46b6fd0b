------------------------------ MODULE MCBenchmark -----------------------------
(* Command lines that Benchmark is checked on: single cases of each kind,  *)
(* pilot suites on one and on two boards, and other suites.                *)
EXTENDS Benchmark

CONSTANTS nucleo, nordic

TwoBoards == {nucleo, nordic}
FewSlips == <<4, 2, 1>>

Numbered(id, board, kind) ==
  [id |-> id, board |-> board, kind |-> kind,
   halted |-> kind = "observability_fault"]

Known == Numbered(1, nucleo, "known_good")
Bug(i) == Numbered(1 + i, nucleo, "injected_bug")
NordicBug == Numbered(5, nordic, "injected_bug")
Fault == Numbered(9, nucleo, "observability_fault")

Single(runner, case) ==
  [runner |-> runner, suite |-> <<case>>, pilot |-> FALSE, single |-> TRUE]
Several(runner, suite, pilot) ==
  [runner |-> runner, suite |-> suite, pilot |-> pilot, single |-> FALSE]

ManyCampaigns ==
  {Single(r, c) : r \in {"R11", "R12"}, c \in {Known, Bug(1), Fault}}
  \cup {Several("R11", <<Known, Bug(1), Fault>>, TRUE),
        Several("R11", <<Bug(1), NordicBug>>, TRUE),
        Several("R11", <<Fault, Bug(1)>>, FALSE),
        Several("R12", <<Bug(1), Bug(2)>>, FALSE),
        Several("R12", <<Known, Fault, Bug(1)>>, FALSE)}
=============================================================================
