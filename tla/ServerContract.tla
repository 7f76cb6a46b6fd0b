--------------------------- MODULE ServerContract ---------------------------
(***************************************************************************)
(* What the debug server promises a client that calls its tools: sessions   *)
(* are numbered as they are started and one is live at most; each answer    *)
(* says truly what became of the session and of the target's flash.         *)
(* Guardrails, watcher, journals and the probe are how it does that         *)
(* (DebugServer, ServerRefinement); the brain relies on no more than this   *)
(* (TurnkeyLoop).                                                           *)
(***************************************************************************)
EXTENDS Naturals

CONSTANTS
  Images,       \* contents a whole artifact can have
  Torn, Erased  \* a partial write, a mass erase

VARIABLES
  server,  \* session the server holds, 0 when disconnected
  issued,  \* sessions the server has started
  flash    \* content of the target's flash

target == <<server, issued, flash>>

\* "plain" stands for the tools that leave session and flash alone.
Tools == {"connect", "disconnect", "flash", "serial", "recover", "plain"}

\* Texts a client tells apart, and the error it sees as an exception.
Replies == {"done", "idle", "declined", "error"}

\* What a programming attempt may leave, and what one leaves that answers: a
\* dropped transfer is only tolerated if the target is to run on.
Attempted(image) == {flash, Torn, image}
Programmed(image, halted) == IF halted THEN {image} ELSE Attempted(image)

\* "idle" is a notice that changes nothing: there is a session already, or none.
ServeConnect(reply) ==
  /\ \/ reply = "done" /\ server = 0 /\ issued' = issued + 1 /\ server' = issued + 1
     \/ reply = "idle" /\ server # 0 /\ UNCHANGED <<server, issued>>
     \/ reply = "error" /\ server = 0 /\ UNCHANGED <<server, issued>>
  /\ UNCHANGED flash

ServeDisconnect(reply) ==
  /\ \/ reply = "done" /\ server # 0 /\ server' = 0
     \/ reply = "idle" /\ server = 0 /\ UNCHANGED server
     \/ reply = "error" /\ server # 0 /\ UNCHANGED server
  /\ UNCHANGED <<issued, flash>>

\* A refused or blocked call acts on nothing.
ServeFlash(image, halted, reply) ==
  /\ \/ reply = "done" /\ server # 0 /\ flash' \in Programmed(image, halted)
     \/ reply = "error" /\ server # 0 /\ flash' \in Attempted(image)
     \/ reply = "declined" /\ UNCHANGED flash
  /\ UNCHANGED <<server, issued>>

ServeRecover(reply) ==
  /\ \/ reply = "done" /\ server # 0 /\ flash' = Erased
     \/ reply = "error" /\ server # 0 /\ flash' \in Attempted(Erased)
     \/ reply = "declined" /\ UNCHANGED flash
  /\ UNCHANGED <<server, issued>>

ServePlain(reply) ==
  /\ reply \in {"done", "declined", "error"}
  /\ reply = "done" => server # 0
  /\ UNCHANGED target

\* get_board_info has nothing to tell without a session.
ServeNotice(reply) == reply = "idle" /\ server = 0 /\ UNCHANGED target

Serve(tool, image, halted, reply) ==
  \/ tool = "connect" /\ ServeConnect(reply)
  \/ tool = "disconnect" /\ ServeDisconnect(reply)
  \/ tool = "flash" /\ ServeFlash(image, halted, reply)
  \/ tool = "recover" /\ ServeRecover(reply)
  \/ tool \in {"serial", "plain"} /\ ServePlain(reply)
  \/ tool = "plain" /\ ServeNotice(reply)

Init ==
  /\ server = 0 /\ issued = 0
  /\ flash \in Images \cup {Torn, Erased}

Next ==
  \E tool \in Tools, image \in Images \cup {Torn}, halted \in BOOLEAN, reply \in Replies :
    Serve(tool, image, halted, reply)

Spec == Init /\ [][Next]_target
============================================================================
