------------------------------ MODULE Stage0Check -----------------------------
(***************************************************************************)
(* stage0_check.py after host_bootstrap.py: for every selected board find  *)
(* its probe, target and port, connect, check the silicon identity, flash  *)
(* the reference firmware, watch its UART output, try a recover, and sum   *)
(* up.  Each board access opens a pyOCD session of its own; only the one   *)
(* of a successful flash stays open, across the UART check.                *)
(***************************************************************************)
EXTENDS HostBootstrap, UartCapture

CONSTANTS
  NoDevice, Erased, Torn,
  Worlds      \* what the host, the bench and the command line can be

VARIABLES
  step,        \* where main is
  n,           \* the board it is at
  probeOf, targetOk, portOf,            \* per board
  connOk, identityOk, flashOk, uartOk,  \* of board n; NoVerdict if not done
  recovered,   \* none | failed | completed
  handle,      \* device of the session kept from the flash
  device,      \* uid of a probe -> [image, locked] of the chip behind it
  failed,      \* some summary item failed
  exitCode     \* NoVerdict while it runs

discovery == <<probeOf, targetOk, portOf>>
checks == <<connOk, identityOk, flashOk, uartOk, recovered>>
hostVars == <<world, installed, targets, hostReady>>
vars == <<hostVars, captureVars, step, n, discovery, checks, handle, device,
          failed, exitCode>>

Board == world.boards[n]
Request == world.requests[n]
Images == {"old", "reference", "sibling", Erased, Torn}
Chip == [image : Images, locked : BOOLEAN]
Verdict == BOOLEAN \cup {NoVerdict}

(* Some boards are selected (main refuses to run without), and there is a   *)
(* chip behind every probe.                                                 *)
ASSUME WorldTypes ==
  \A w \in Worlds :
    /\ Len(w.boards) \in Nat \ {0} /\ DOMAIN w.boards = 1 .. Len(w.boards)
    /\ Len(w.probes) \in Nat /\ DOMAIN w.probes = 1 .. Len(w.probes)
    /\ w.api \cup w.table \subseteq ToSet(w.probes)
    /\ w.packages \subseteq Packages
    /\ w.device \in [DOMAIN w.device -> Chip]
    /\ \A p \in ToSet(w.probes) : p.uid \in DOMAIN w.device

(* The marks for "not done" and for damaged contents are nothing else.      *)
ASSUME Marks ==
  /\ NoVerdict \notin BOOLEAN /\ NoVerdict \notin {0, 1}
  /\ {Erased, Torn} \cap {"old", "reference", "sibling"} = {}

(* What an image prints after a reset.                                     *)
Output(image) ==
  CASE image \in {"reference", "sibling"} -> Expected
    [] image = "old" -> SubSeq(Expected, 1, 1)
    [] OTHER -> <<>>

TypeOK ==
  /\ CaptureTypeOK
  /\ installed \subseteq Packages
  /\ hostReady \in Verdict
  /\ n \in 1 .. Len(world.boards) + 1
  /\ probeOf \in [BoardNumbers -> Probes \cup {NoProbe}]
  /\ portOf \in [BoardNumbers -> world.ports \cup {NoPort}]
  /\ targetOk \in [BoardNumbers -> BOOLEAN]
  /\ {connOk, identityOk, flashOk, uartOk} \subseteq Verdict
  /\ recovered \in {"none", "failed", "completed"}
  /\ handle \in DOMAIN device \cup {NoDevice}
  /\ device \in [DOMAIN world.device -> Chip]
  /\ exitCode \in {NoVerdict, 0, 1}

Init0(w) ==
  /\ world = w
  /\ installed = w.packages /\ targets = w.targets /\ hostReady = NoVerdict
  /\ CaptureInit
  /\ step = "host" /\ n = 1
  /\ probeOf = [i \in BoardNumbers |-> NoProbe]
  /\ targetOk = [i \in BoardNumbers |-> FALSE]
  /\ portOf = [i \in BoardNumbers |-> NoPort]
  /\ connOk = NoVerdict /\ identityOk = NoVerdict
  /\ flashOk = NoVerdict /\ uartOk = NoVerdict /\ recovered = "none"
  /\ handle = NoDevice /\ device = w.device
  /\ failed = FALSE /\ exitCode = NoVerdict

-----------------------------------------------------------------------------
(* PyOCDSWDInterface.open with a unique id: its device; or, when a J-Link  *)
(* refuses to be opened by its serial number and just one probe of the     *)
(* family is visible, whatever pyOCD finds first; or a failure.            *)
SingleMatchingProbeVisible(board) ==
  Cardinality({p \in Probes :
                 ScoreTerms(p.text, FamilyHints[board.family]) > 0}) = 1

OpenSession(board, uid) ==
  {uid, NoDevice}
    \cup (IF /\ uid \in world.flaky /\ board.family = "jlink"
             /\ SingleMatchingProbeVisible(board)
            THEN {Head(world.probes).uid} ELSE {})

(* The device of a read through a session of its own, by read_memory_value *)
(* (which tries a busy J-Link again), NoDevice if there is none.           *)
ReadFrom(i) ==
  IF probeOf[i] = NoProbe \/ ~targetOk[i]
    THEN {NoDevice}
    ELSE {d \in OpenSession(world.boards[i], probeOf[i].uid) :
            d = NoDevice \/ ~device[d].locked} \cup {NoDevice}

-----------------------------------------------------------------------------
HostStep ==
  /\ step = "host"
  /\ RunHostBootstrap
  /\ step' = "start"
  /\ UNCHANGED <<captureVars, n, discovery, checks, handle, device, failed,
                 exitCode>>

\* Mutant of AssumeOnly: only host_bootstrap.py assumes the only probe.
AssumeNone == FALSE

(* allow_single_fallback of check_probes.                                  *)
AssumeOnly == Cardinality(Probes) = 1 /\ Len(world.boards) = 1

(* check_pyocd_installed and check_probes.                                 *)
CheckProbes ==
  /\ step = "start" /\ "pyocd" \in installed
  /\ probeOf' = [i \in BoardNumbers |->
                   PickProbe(world.boards[i], Probes, AssumeOnly)]
  /\ step' = "packs"
  /\ UNCHANGED <<hostVars, captureVars, n, targetOk, portOf, checks, handle,
                 device, failed, exitCode>>

NoPyocd ==
  /\ step = "start" /\ "pyocd" \notin installed
  /\ step' = "exit" /\ exitCode' = 1
  /\ UNCHANGED <<hostVars, captureVars, n, discovery, checks, handle, device,
                 failed>>

(* check_target_packs: the targets are listed once, before the boards; with *)
(* --install-packs each board whose target was missing then has the pinned *)
(* packs provisioned, which may fail half way and leaves it missing.       *)
CheckTargetPacks ==
  /\ step = "packs"
  /\ LET missing == {i \in BoardNumbers : world.boards[i].target \notin targets}
         tried == IF world.installPacks THEN missing ELSE {}
     IN  \E provisioned \in SUBSET tried, got \in SUBSET Pinned :
           /\ targetOk' = [i \in BoardNumbers |->
                \/ i \notin missing
                \/ i \in provisioned /\ world.boards[i].target \in Pinned]
           /\ tried = {} => got = {}
           /\ provisioned # {} => got = Pinned
           /\ targets' = targets \cup got
  /\ step' = "ports"
  /\ UNCHANGED <<world, installed, hostReady, captureVars, n, probeOf, portOf,
                 checks, handle, device, failed, exitCode>>

(* check_virtual_com_ports.                                                *)
PortChoices(i) ==
  IF "pyserial" \notin installed \/ world.ports = {}
    THEN {NoPort}
    ELSE ResolveSerialPort(
           world.boards[i], world.ports,
           IF probeOf[i] = NoProbe THEN NoUid ELSE probeOf[i].uid,
           world.requests[i].override,
           Cardinality(world.ports) = 1 /\ Len(world.boards) = 1,
           world.tools, world.interactive)

CheckPorts ==
  /\ step = "ports"
  /\ portOf' \in [BoardNumbers -> world.ports \cup {NoPort}]
  /\ \A i \in BoardNumbers : portOf'[i] \in PortChoices(i)
  /\ step' = "connect"
  /\ UNCHANGED <<hostVars, captureVars, n, probeOf, targetOk, checks, handle,
                 device, failed, exitCode>>

(* check_connection, first and again after a recover.                      *)
CheckConnection ==
  /\ step \in {"connect", "reconnect"}
  /\ \E d \in ReadFrom(n) : connOk' = (d # NoDevice)
  /\ step' = IF step = "connect" THEN "identity" ELSE "reidentify"
  /\ UNCHANGED <<hostVars, captureVars, n, discovery, identityOk, flashOk,
                 uartOk, recovered, handle, device, failed, exitCode>>

(* check_silicon_identity; no verdict for a board without identity facts.  *)
CheckIdentity ==
  /\ step \in {"identity", "reidentify"}
  /\ IF Board.identity = NoVerdict
       THEN UNCHANGED identityOk
       ELSE \E d \in ReadFrom(n) :
              identityOk' = (d # NoDevice /\ world.silicon[d] = Board.identity)
  /\ step' = IF step = "identity" THEN "flash" ELSE "summary"
  /\ UNCHANGED <<hostVars, captureVars, n, discovery, connOk, flashOk, uartOk,
                 recovered, handle, device, failed, exitCode>>

-----------------------------------------------------------------------------
(* flash_reference_firmware up to the session: nothing to flash, or not    *)
(* allowed to.                                                             *)
FlashSkipped ==
  \/ Request.firmware = "missing" \/ probeOf[n] = NoProbe \/ ~targetOk[n]
  \/ Board.identity # NoVerdict /\ identityOk = FALSE

SkipFlash ==
  /\ step = "flash"
  /\ \/ Request.firmware = "none" /\ UNCHANGED flashOk
     \/ Request.firmware # "none" /\ FlashSkipped /\ flashOk' = FALSE
  /\ step' = "uart"
  /\ UNCHANGED <<hostVars, captureVars, n, discovery, connOk, identityOk,
                 uartOk, recovered, handle, device, failed, exitCode>>

(* The session of the flash: a refused artifact, a programmed image (the   *)
(* session stays open), or a failure that leaves the session for the       *)
(* fallback to close.                                                      *)
Flash ==
  /\ step = "flash" /\ Request.firmware # "none" /\ ~FlashSkipped
  /\ \E d \in OpenSession(Board, probeOf[n].uid) :
       \/ /\ d # NoDevice /\ Request.firmware = "unsupported"
          /\ flashOk' = FALSE /\ step' = "uart"
          /\ UNCHANGED <<handle, device>>
       \/ /\ d # NoDevice /\ Request.firmware # "unsupported"
          /\ ~device[d].locked
          /\ device' = [device EXCEPT ![d].image = "reference"]
          /\ handle' = d /\ flashOk' = TRUE /\ step' = "uart"
       \/ /\ d # NoDevice => Request.firmware # "unsupported"
          /\ handle' = d /\ step' = "fallback"
          /\ IF d = NoDevice \/ device[d].locked
               THEN UNCHANGED device
               ELSE \E i \in {device[d].image, Torn} :
                      device' = [device EXCEPT ![d].image = i]
          /\ UNCHANGED flashOk
  /\ UNCHANGED <<hostVars, captureVars, n, discovery, connOk, identityOk,
                 uartOk, recovered, failed, exitCode>>

(* try_nrfjprog_fallback: program a .hex on some J-Link (no serial number  *)
(* is passed), then reset; the failed session is closed after it.          *)
FallbackPossible ==
  /\ Board.nordic /\ Board.family = "jlink" /\ world.nrfjprog
  /\ Request.firmware = "hex" \/ world.siblingHex

FallbackImage == IF Request.firmware = "hex" THEN "reference" ELSE "sibling"

Fallback ==
  /\ step = "fallback"
  /\ \/ /\ FallbackPossible
        /\ \E d \in world.jlinks :
             /\ ~device[d].locked
             /\ device' = [device EXCEPT ![d].image = FallbackImage]
        /\ flashOk' \in BOOLEAN   \* FALSE if the reset fails
     \/ /\ flashOk' = FALSE
        /\ \/ UNCHANGED device
           \/ /\ FallbackPossible
              /\ \E d \in world.jlinks :
                   device' = [device EXCEPT ![d].image = Torn]
  /\ handle' = NoDevice /\ step' = "uart"
  /\ UNCHANGED <<hostVars, captureVars, n, discovery, connOk, identityOk,
                 uartOk, recovered, failed, exitCode>>

-----------------------------------------------------------------------------
(* read_uart_output, and the close of the flash session that follows it.   *)
SkipUart ==
  /\ step = "uart"
  /\ \/ flashOk # TRUE /\ UNCHANGED uartOk
     \/ /\ flashOk = TRUE
        /\ portOf[n] = NoPort \/ "pyserial" \notin installed
        /\ uartOk' = FALSE
  /\ handle' = NoDevice /\ step' = "recover"
  /\ UNCHANGED <<hostVars, captureVars, n, discovery, connOk, identityOk,
                 flashOk, recovered, device, failed, exitCode>>

(* The chip that prints on the port, and what it would print from reset.   *)
Printer == IF portOf[n] = NoPort THEN NoDevice ELSE portOf[n].owner
Boot == IF Printer = NoDevice THEN <<>> ELSE Output(device[Printer].image)

(* A chip held halted by the flash session prints nothing before the reset *)
(* of the first open; any other one may be anywhere in its output.         *)
StartUart ==
  /\ step = "uart" /\ flashOk = TRUE
  /\ portOf[n] # NoPort /\ "pyserial" \in installed
  /\ \E k \in 0 .. Len(Boot) :
       /\ handle # NoDevice /\ handle = Printer => k = 0
       /\ StartCapture(SubSeq(Boot, Len(Boot) - k + 1, Len(Boot)))
  /\ step' = "capture"
  /\ UNCHANGED <<hostVars, n, discovery, checks, handle, device, failed,
                 exitCode>>

UartStep ==
  /\ step = "capture"
  /\ CaptureStep(handle # NoDevice /\ handle = Printer, Boot, ~Request.expect)
  /\ UNCHANGED <<hostVars, step, n, discovery, checks, handle, device, failed,
                 exitCode>>

EndUart ==
  /\ step = "capture"
  /\ uartOk' = (capture = "matched")
  /\ EndCapture
  /\ handle' = NoDevice /\ step' = "recover"
  /\ UNCHANGED <<hostVars, n, discovery, connOk, identityOk, flashOk,
                 recovered, device, failed, exitCode>>

-----------------------------------------------------------------------------
(* run_recover_test: mass erase, where the board's recover mode allows it; *)
(* a failed one may have erased the chip all the same.                     *)
SkipRecover ==
  /\ step = "recover"
  /\ ~Board.recoverNeeded \/ ~Request.recover
  /\ step' = "summary"
  /\ UNCHANGED <<hostVars, captureVars, n, discovery, checks, handle, device,
                 failed, exitCode>>

Recover ==
  /\ step = "recover" /\ Board.recoverNeeded /\ Request.recover
  /\ \/ /\ probeOf[n] # NoProbe /\ targetOk[n]
        /\ Board.recoverMode = "nrf_pyocd_unlock"
        /\ \E d \in OpenSession(Board, probeOf[n].uid) \ {NoDevice} :
             device' = [device EXCEPT ![d] = [image |-> Erased, locked |-> FALSE]]
        /\ \/ recovered' = "completed" /\ step' = "reconnect"
           \/ recovered' = "failed" /\ step' = "summary"
     \/ /\ recovered' = "failed" /\ step' = "summary"
        /\ UNCHANGED device
  /\ UNCHANGED <<hostVars, captureVars, n, discovery, connOk, identityOk,
                 flashOk, uartOk, handle, failed, exitCode>>

\* Mutant of ItemsPass: what the UART check saw is shown, not counted.
ItemsPassWithoutUart ==
  /\ probeOf[n] # NoProbe /\ targetOk[n] /\ connOk = TRUE
  /\ Board.identity # NoVerdict => identityOk = TRUE
  /\ portOf[n] # NoPort
  /\ Request.firmware # "none" => flashOk = TRUE
  /\ Board.recoverNeeded => recovered # "failed"

(* The summary items of board n, and the next board or the exit code.      *)
ItemsPass ==
  /\ probeOf[n] # NoProbe /\ targetOk[n] /\ connOk = TRUE
  /\ Board.identity # NoVerdict => identityOk = TRUE
  /\ portOf[n] # NoPort
  /\ Request.firmware # "none" => flashOk = TRUE /\ uartOk = TRUE
  /\ Board.recoverNeeded => recovered # "failed"

Summarise ==
  /\ step = "summary"
  /\ failed' = (failed \/ ~ItemsPass)
  /\ n' = n + 1
  /\ IF n = Len(world.boards)
       THEN step' = "exit" /\ exitCode' = IF failed' THEN 1 ELSE 0
       ELSE step' = "connect" /\ UNCHANGED exitCode
  /\ connOk' = NoVerdict /\ identityOk' = NoVerdict /\ flashOk' = NoVerdict
  /\ uartOk' = NoVerdict /\ recovered' = "none"
  /\ UNCHANGED <<hostVars, captureVars, discovery, handle, device>>

Next ==
  \/ HostStep \/ CheckProbes \/ NoPyocd \/ CheckTargetPacks \/ CheckPorts
  \/ CheckConnection \/ CheckIdentity
  \/ SkipFlash \/ Flash \/ Fallback
  \/ SkipUart \/ StartUart \/ UartStep \/ EndUart
  \/ SkipRecover \/ Recover \/ Summarise

-----------------------------------------------------------------------------
(* Host readiness is about Stage 0: for a single selected board without a  *)
(* port override, a host_bootstrap.py --board-id that exits 0 means that   *)
(* stage0_check.py finds the probe, the target and the port.  (The two     *)
(* scripts decide separately, with other fallback rules, about what may be *)
(* ambiguous.)                                                             *)
HostReadyFindsBoard ==
  /\ step \notin {"host", "start", "packs", "ports", "exit"}
  /\ hostReady = TRUE /\ world.byId
  /\ Len(world.boards) = 1 /\ world.requests[1].override = NoPort
  => probeOf[1] # NoProbe /\ targetOk[1] /\ portOf[1] # NoPort

(* Exit code 0 is about the bench as it is then, whatever was flashed,     *)
(* erased and retried on the way: the chip behind each board's probe has   *)
(* the configured identity and is unlocked; and where a reference image    *)
(* with an expected text was asked for, and every board on that chip that  *)
(* is flashed reads the chip's own port and nobody asked to erase it, the  *)
(* chip still runs an image that prints the text.  A J-Link that refuses   *)
(* its serial number next to another probe can be replaced by that probe,  *)
(* so those worlds are left out.                                           *)
SerialNumbersWork == world.flaky = {} \/ Len(world.probes) = 1

OnSameChip(i, j) == probeOf[i].uid = probeOf[j].uid
ReferenceAsked(i) ==
  /\ world.requests[i].firmware # "none" /\ world.requests[i].expect
  /\ \A j \in BoardNumbers : OnSameChip(i, j) =>
       /\ ~world.requests[j].recover
       /\ world.requests[j].firmware # "none" => portOf[j].owner = probeOf[i].uid

ExitZeroMeansProven ==
  exitCode = 0 /\ SerialNumbersWork =>
    \A i \in BoardNumbers :
      LET chip == probeOf[i].uid IN
        /\ ~device[chip].locked
        /\ world.boards[i].identity \in {NoVerdict, world.silicon[chip]}
        /\ ReferenceAsked(i) => Output(device[chip].image) = Expected

(* A capture ends within one blocking read of its deadline, whatever       *)
(* arrives when and however often the port is reopened, and hands back a   *)
(* closed port.                                                            *)
CaptureInTime ==
  CaptureDone => /\ now < ReadSeconds + MaxTimeout
                 /\ attempt <= ReopenAttempts + 1 /\ buffer = <<>>

Init == \E w \in Worlds : Init0(w)
Fairness == WF_vars(Next)
Spec == Init /\ [][Next]_vars /\ Fairness

(* The check ends: no board, prompt or silent port keeps it going.         *)
Exits == <>(exitCode # NoVerdict)
=============================================================================
