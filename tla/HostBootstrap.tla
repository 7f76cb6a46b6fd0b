----------------------------- MODULE HostBootstrap ----------------------------
(***************************************************************************)
(* host_bootstrap.py: is this machine, and with --board-id the attached    *)
(* board, ready for stage0_check.py?  `world` is what the host sees while  *)
(* the two scripts run: the selected boards, the probes in the order they  *)
(* enumerate, the serial ports, the vendor tools, the arguments.           *)
(***************************************************************************)
EXTENDS BoardDiscovery

CONSTANTS
  Pinned,     \* the targets that the pinned packs provide
  NoVerdict   \* the script has not run

VARIABLES
  world,
  installed,  \* Python packages: pyocd, pyserial
  targets,    \* what `pyocd list --targets` names
  hostReady   \* NoVerdict | TRUE | FALSE

Packages == {"pyocd", "pyserial"}
BoardNumbers == DOMAIN world.boards

(* What list_connected_probes returns to either script.                    *)
Probes == ListConnectedProbes(world.api, world.table, ToSet(world.probes))

(* assess_board_attachment_statuses, for one board: a probe, and a port    *)
(* that needs neither the single-port guess nor a prompt.                  *)
AttachmentReady(board, packages) ==
  LET probe == PickProbe(board, Probes, TRUE)
  IN  /\ probe # NoProbe
      /\ "pyserial" \in packages
      /\ world.ports # {}
      /\ ResolveSerialPort(board, world.ports, probe.uid, NoPort, FALSE,
                           world.tools, FALSE) # {NoPort}

(* main: the exit code is 0 exactly when this holds.                       *)
OverallReady(packages, names) ==
  /\ packages = Packages
  /\ world.boards # <<>>
  /\ \A i \in BoardNumbers : world.boards[i].target \in names
  /\ Probes # {} /\ world.ports # {}
  /\ world.byId => \A i \in BoardNumbers :
                      AttachmentReady(world.boards[i], packages)

(* dependency_summary: `uv sync` brings in everything, or fails.           *)
Reconciled == IF world.installMissing THEN {installed, Packages} ELSE {installed}

(* target_pack_summary: pinned packs are provisioned first; a failure is   *)
(* reported, and leaves those that came before it.                         *)
Provisioned(packages) ==
  IF world.installPacks /\ "pyocd" \in packages /\ world.boards # <<>>
    THEN {targets \cup got : got \in SUBSET Pinned} ELSE {targets}

RunHostBootstrap ==
  /\ hostReady = NoVerdict
  /\ \E packages \in Reconciled : \E names \in Provisioned(packages) :
       /\ installed' = packages
       /\ targets' = names
       /\ hostReady' = OverallReady(packages, names)
  /\ UNCHANGED world
=============================================================================
