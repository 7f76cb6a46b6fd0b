--------------------------- MODULE MCDebugServer ---------------------------
(***************************************************************************)
(* Small instances of DebugServer for TLC.                                  *)
(***************************************************************************)
EXTENDS WatcherRefinement, ServerRefinement

CONSTANTS nrf, stm

TwoBoards == {nrf, stm}
OneBoard == {nrf}
Modes == [b \in Boards |-> IF b = nrf THEN "nrf_pyocd_unlock" ELSE "none"]

\* Bounds on the events of the sessions.
OneLong == <<4>>
LongThenShort == <<4, 2>>
Two == <<2>>

\* What decides about later calls and files.  No guard reads flash or reply, and
\* neither does a property of the run that uses this view: states that differ
\* in them only have the same successors up to them.
SessionView == <<handle, probeOpen, session, record, runs, globalLines>>
============================================================================
