-------------------------- MODULE ServerRefinement --------------------------
(***************************************************************************)
(* ServerContract read off the server: the live session record, the session *)
(* directories that have been started, and the texts of its answers.        *)
(***************************************************************************)
EXTENDS DebugServer

\* There is some firmware to flash.
ASSUME SomeImage == Images # {}

\* start_session is the only one to make a session's directory.
Issued == Cardinality({k \in SessionIds : runs[k].started})

Contract == INSTANCE ServerContract WITH server <- session, issued <- Issued

ToolOf(tool) ==
  CASE tool = FLASH_TOOL -> "flash"
    [] tool = UART_TOOL -> "serial"
    [] tool = RECOVER_TOOL -> "recover"
    [] OTHER -> tool

\* The answer is a notice: an already connected or not connected server, or
\* board facts that nobody has loaded.
Notice ==
  IF reply'.tool \in {"connect", "disconnect"} THEN session' = session ELSE session = 0

\* What the client reads in the answer of the call just made.
Told ==
  CASE reply'.outcome = "raised" -> "error"
    [] reply'.outcome \in {"refused", "blocked"} -> "declined"
    [] reply'.outcome = "returned" -> IF Notice THEN "idle" ELSE "done"

\* The call just made did what its answer says.
Honest ==
  \E image \in Images, halted \in BOOLEAN :
    Contract!Serve(ToolOf(reply'.tool), image, halted, Told)

\* Every call does what its own answer promises: the guardrails refuse before
\* anything has happened, a call that raises has at most begun its own work, and
\* the session numbers told are those of the directories (server.py).
ServesAsTold == [][Honest]_vars

\* The server, with its guardrails, watcher and journals, implements what the
\* brain relies on, call by call.
ImplementsContract == Contract!Spec /\ ServesAsTold
============================================================================
