--------------------------- MODULE Stage0CheckProofs ---------------------------
(***************************************************************************)
(* Theorems about Stage0Check, for every bench and command line and for    *)
(* windows, delays and timeouts of any length.                             *)
(***************************************************************************)
EXTENDS Stage0Check, FiniteSetTheorems, TLAPS

\* What the code calls min and max.
LEMMA MinimumFacts ==
  ASSUME NEW a \in Int, NEW b \in Int
  PROVE  Minimum(a, b) = IF a <= b THEN a ELSE b
<1>1. \E x \in {a, b} : \A y \in {a, b} : x <= y
  OBVIOUS
<1>2. /\ Minimum(a, b) \in {a, b}
      /\ \A y \in {a, b} : Minimum(a, b) <= y
  BY <1>1 DEF Minimum, Min
<1> QED
  BY <1>2

LEMMA MaximumFacts ==
  ASSUME NEW a \in Int, NEW b \in Int
  PROVE  Maximum(a, b) = IF a >= b THEN a ELSE b
<1>1. \E x \in {a, b} : \A y \in {a, b} : x >= y
  OBVIOUS
<1>2. /\ Maximum(a, b) \in {a, b}
      /\ \A y \in {a, b} : Maximum(a, b) >= y
  BY <1>1 DEF Maximum, Max
<1> QED
  BY <1>2

----------------------------------------------------------------------------
(* The clock of a capture.  CaptureInTime holds of the end of a capture;   *)
(* what makes it hold is that a window ends by the deadline and that a     *)
(* blocking read, begun before that, takes MaxTimeout at most.             *)

\* The state of a capture between any two of its steps.
ClockInv ==
  /\ now \in Nat /\ attempt \in Nat /\ openUntil \in Nat /\ timeout \in Nat
  /\ now < ReadSeconds + MaxTimeout
  /\ attempt <= ReopenAttempts + 1
  /\ openUntil <= ReadSeconds /\ timeout <= MaxTimeout
  /\ capture # "open" => buffer = <<>>

\* The constants are numbers.
LEMMA CaptureNumbers ==
  /\ ReadSeconds \in Nat /\ ReadSeconds > 0
  /\ MaxTimeout \in Nat /\ MaxTimeout > 0
  /\ MinTimeout \in Nat /\ Window \in Nat
  /\ ReopenDelay \in Nat /\ ReopenAttempts \in Nat
  BY CaptureAssumption DEF CaptureAssumption

LEMMA CaptureInitClock == CaptureInit => ClockInv
  BY CaptureNumbers DEF CaptureInit, ClockInv

\* A window that is opened in time is over in time.
LEMMA OpenPortClock ==
  ASSUME ClockInv, NEW resets, NEW boot, OpenPort(resets, boot)
  PROVE  ClockInv'
<1> DEFINE least == Minimum(Window, Remaining)
<1>1. Remaining \in Nat /\ Remaining > 0 /\ now + Remaining = ReadSeconds
  BY CaptureNumbers DEF OpenPort, ClockInv, Remaining
<1>2. least \in Nat /\ least <= Remaining
  BY <1>1, CaptureNumbers, MinimumFacts
<1>3. OpenDeadline \in Nat /\ OpenDeadline <= ReadSeconds
  BY <1>1, <1>2, CaptureNumbers, MinimumFacts DEF ClockInv, OpenDeadline
<1>4. Maximum(MinTimeout, least) \in Nat
  BY <1>2, CaptureNumbers, MaximumFacts
<1>5. timeout' \in Nat /\ timeout' <= MaxTimeout
  <2>1. timeout' = Minimum(MaxTimeout, Maximum(MinTimeout, least))
    BY DEF OpenPort
  <2> HIDE DEF least
  <2> QED
    BY <2>1, <1>4, CaptureNumbers, MinimumFacts
<1> QED
  BY <1>3, <1>5, CaptureNumbers DEF OpenPort, ClockInv

LEMMA CloseWindowClock ==
  ASSUME ClockInv, CloseWindow
  PROVE  ClockInv'
<1> DEFINE left == Maximum(0, Remaining)
           sleep == Minimum(ReopenDelay, left)
<1>1. /\ Remaining \in Int /\ Remaining = ReadSeconds - now
  BY CaptureNumbers DEF ClockInv, Remaining
<1>2. left \in Nat /\ left = IF Remaining > 0 THEN Remaining ELSE 0
  BY <1>1, MaximumFacts
<1>3. sleep \in Nat /\ sleep <= left
  <2> HIDE DEF left
  <2> QED
    BY <1>2, CaptureNumbers, MinimumFacts
<1>4. now + sleep \in Nat /\ now + sleep < ReadSeconds + MaxTimeout
  <2> HIDE DEF left, sleep
  <2> QED
    BY <1>1, <1>2, <1>3, CaptureNumbers DEF ClockInv
<1>5. now' \in {now, now + sleep}
  BY DEF CloseWindow
<1> QED
  <2> HIDE DEF left, sleep
  <2> QED
    BY <1>4, <1>5 DEF CloseWindow, ClockInv

\* A blocking read that is begun within the window.
LEMMA ReadClock ==
  ASSUME ClockInv, NEW anything, Read(anything)
  PROVE  ClockInv'
<1>1. PICK d \in Nat : d <= timeout /\ now' = now + d
  BY DEF Read, ClockInv
<1>2. now' \in Nat /\ now' < ReadSeconds + MaxTimeout
  BY <1>1, CaptureNumbers DEF Read, ClockInv
<1> QED
  BY <1>2 DEF Read, ClockInv

LEMMA CaptureStepClock ==
  ASSUME ClockInv, NEW resets, NEW boot, NEW anything,
         CaptureStep(resets, boot, anything)
  PROVE  ClockInv'
<1>1. CASE GiveUp
  BY <1>1 DEF GiveUp, ClockInv
<1>2. CASE Emit
  BY <1>2 DEF Emit, ClockInv
<1>3. CASE PortFails
  BY <1>3 DEF PortFails, ClockInv
<1> QED
  BY <1>1, <1>2, <1>3, OpenPortClock, CloseWindowClock, ReadClock
     DEF CaptureStep

\* All other steps of the check leave the capture alone.
LEMMA ClockStep == ClockInv /\ [Next]_vars => ClockInv'
<1> SUFFICES ASSUME ClockInv, [Next]_vars PROVE ClockInv'
  OBVIOUS
<1>1. CASE UNCHANGED captureVars
  BY <1>1 DEF captureVars, ClockInv
<1>2. CASE StartUart
  <2>1. PICK k \in 0 .. Len(Boot) :
          StartCapture(SubSeq(Boot, Len(Boot) - k + 1, Len(Boot)))
    BY <1>2 DEF StartUart
  <2> QED
    BY <2>1, CaptureNumbers DEF StartCapture, ClockInv
<1>3. CASE UartStep
  BY <1>3, CaptureStepClock DEF UartStep
<1>4. CASE EndUart
  BY <1>4, CaptureNumbers DEF EndUart, EndCapture, ClockInv
<1>5. Next => UNCHANGED captureVars \/ StartUart \/ UartStep \/ EndUart
  BY DEF Next, HostStep, CheckProbes, NoPyocd, CheckTargetPacks, CheckPorts,
         CheckConnection, CheckIdentity, SkipFlash, Flash, Fallback, SkipUart,
         SkipRecover, Recover, Summarise
<1> QED
  BY <1>1, <1>2, <1>3, <1>4, <1>5 DEF vars, captureVars

\* A capture ends within one blocking read of its deadline, having opened the
\* port ReopenAttempts + 1 times at most (capture_uart_output).
THEOREM CapturesEndInTime == Spec => []CaptureInTime
<1>1. Init => ClockInv
  BY CaptureInitClock DEF Init, Init0
<1>2. ClockInv /\ [Next]_vars => ClockInv'
  BY ClockStep
<1>3. ClockInv => CaptureInTime
  BY DEF ClockInv, CaptureInTime, CaptureDone
<1> QED
  BY <1>1, <1>2, <1>3, PTL DEF Spec

-----------------------------------------------------------------------------
(* What host_bootstrap.py has found, stage0_check.py finds.                  *)

\* Where one script may assume the only probe, so may the other: both pick one.
LEMMA SameProbe ==
  ASSUME NEW board, NEW probes, NEW alone \in BOOLEAN,
         Cardinality(probes) = 1 => alone,
         PickProbe(board, probes, TRUE) # NoProbe
  PROVE  PickProbe(board, probes, alone) = PickProbe(board, probes, TRUE)
<1> DEFINE best == Best([p \in probes |-> ScoreTerms(p.text, board.probeHints)])
           only == CHOOSE p \in probes : TRUE
           match == IF Cardinality(best) = 1 THEN CHOOSE p \in best : TRUE ELSE NoProbe
           named == ScoreTerms(only.text, FamilyHints[board.family]) > 0
<1>1. \A single \in BOOLEAN :
        PickProbe(board, probes, single)
          = IF best # {} THEN match
            ELSE IF single /\ Cardinality(probes) = 1 /\ named THEN only ELSE NoProbe
  BY DEF PickProbe
<1> HIDE DEF best, only, match, named
<1> QED
  BY <1>1

\* A port that was found without a guess and without a prompt is found with them.
LEMMA SamePort ==
  ASSUME NEW board, NEW ports, NEW uid, NEW tools, NEW alone, NEW asked,
         ResolveSerialPort(board, ports, uid, NoPort, FALSE, tools, FALSE) # {NoPort}
  PROVE  NoPort \notin ResolveSerialPort(board, ports, uid, NoPort, alone, tools, asked)
<1> DEFINE candidates == GenericCandidates(board, ports, uid)
           only == CHOOSE p \in candidates : TRUE
           nordic == NordicPort(board, ports, uid, tools.nrfjprog)
           vendor == IF nordic # NoPort
                       THEN nordic ELSE StlinkPort(board, ports, uid, tools.stm32cli)
           prompt == IF candidates # {} THEN candidates ELSE ports
           linked == Cardinality(candidates) = 1 /\ (Linked(uid, only) \/ Mentioned(uid, only))
           Answer(guess, ask) ==
             IF linked THEN {only}
             ELSE IF vendor # NoPort THEN {vendor}
             ELSE IF Cardinality(candidates) = 1 THEN {only}
             ELSE IF guess /\ Cardinality(ports) = 1 THEN ports
             ELSE IF ask THEN prompt \cup {NoPort}
             ELSE {NoPort}
<1>1. \A guess, ask : ResolveSerialPort(board, ports, uid, NoPort, guess, tools, ask) = Answer(guess, ask)
  BY DEF ResolveSerialPort
<1>2. Answer(FALSE, FALSE) # {NoPort}
  BY <1>1
<1> HIDE DEF candidates, only, nordic, vendor, prompt, linked
<1>3. linked \/ vendor # NoPort \/ Cardinality(candidates) = 1
  BY <1>2
<1>4. NoPort \notin Answer(alone, asked)
  BY <1>2, <1>3
<1> QED
  BY <1>1, <1>4

\* The bootstrap has judged the one board that is to be found.
Judged ==
  /\ hostReady = TRUE /\ world.byId
  /\ Len(world.boards) = 1 /\ world.requests[1].override = NoPort

\* What it saw of that board.
BoardSeen ==
  /\ "pyserial" \in installed /\ world.boards[1].target \in targets
  /\ AttachmentReady(world.boards[1], installed)

\* The probe it picked for it.
Picked == PickProbe(world.boards[1], Probes, TRUE)

\* What it saw is there, and each part of it is found in its turn.
FoundInv ==
  /\ world \in Worlds /\ n \in Nat \ {0}
  /\ DOMAIN targetOk = BoardNumbers
  /\ step # "host" /\ Judged =>
       /\ BoardSeen
       /\ step \notin {"start", "exit"} =>
            probeOf[1] = Picked
       /\ step = "ports" => targetOk[1]
       /\ step \notin {"start", "packs", "ports", "exit"} => targetOk[1] /\ portOf[1] # NoPort

\* From the first connection on nothing about the host or the discovery changes.
LEMMA AfterDiscovery ==
  ASSUME [Next]_vars, n \in Nat, step \notin {"host", "start", "packs", "ports"}
  PROVE  /\ UNCHANGED <<hostVars, discovery>>
         /\ step' \notin {"host", "start", "packs", "ports"} /\ n' \in {n, n + 1}
         /\ step = "exit" => step' = "exit"
<1> USE DEF hostVars, discovery
<1>1. ASSUME HostStep \/ CheckProbes \/ NoPyocd \/ CheckTargetPacks \/ CheckPorts PROVE FALSE
  BY <1>1 DEF HostStep, CheckProbes, NoPyocd, CheckTargetPacks, CheckPorts
<1>2. CASE CheckConnection \/ CheckIdentity
  BY <1>2 DEF CheckConnection, CheckIdentity
<1>3. CASE SkipFlash \/ Fallback
  BY <1>3 DEF SkipFlash, Fallback
<1>4. CASE Flash
  BY <1>4 DEF Flash
<1>5. CASE SkipUart \/ StartUart \/ UartStep \/ EndUart
  BY <1>5 DEF SkipUart, StartUart, UartStep, EndUart
<1>6. CASE SkipRecover \/ Recover
  BY <1>6 DEF SkipRecover, Recover
<1>7. CASE Summarise
  BY <1>7 DEF Summarise
<1>8. CASE UNCHANGED vars
  BY <1>8 DEF vars
<1> QED
  BY <1>1, <1>2, <1>3, <1>4, <1>5, <1>6, <1>7, <1>8 DEF Next

\* What the bootstrap saw of the host stays, and more targets may join.
LEMMA BoardStaysSeen ==
  ASSUME UNCHANGED <<world, installed, hostReady>>, targets \subseteq targets'
  PROVE  /\ Judged' <=> Judged
         /\ Picked' = Picked /\ BoardNumbers' = BoardNumbers
         /\ BoardSeen => BoardSeen'
<1>1. Picked' = Picked /\ BoardNumbers' = BoardNumbers /\ (Judged' <=> Judged)
  BY DEF Picked, Judged, Probes, BoardNumbers
<1>2. BoardSeen => BoardSeen'
  BY DEF BoardSeen, AttachmentReady, Probes
<1> QED
  BY <1>1, <1>2

\* Every step keeps what was found.
LEMMA FoundStep == FoundInv /\ [Next]_vars => FoundInv'
<1> SUFFICES ASSUME FoundInv, [Next]_vars PROVE FoundInv'
  OBVIOUS
<1>1. world \in Worlds /\ n \in Nat /\ DOMAIN targetOk = BoardNumbers
      /\ (Judged => BoardNumbers = {1})
  BY WorldTypes DEF FoundInv, Judged, BoardNumbers
<1>2. CASE step \notin {"host", "start", "packs", "ports"}
  <2>1. UNCHANGED <<hostVars, discovery>> /\ n' \in Nat \ {0}
        /\ step' \notin {"host", "start", "packs", "ports"}
    BY <1>2, AfterDiscovery DEF FoundInv
  <2>2. UNCHANGED <<world, installed, targets, hostReady, probeOf, targetOk, portOf>>
    BY <2>1 DEF hostVars, discovery
  <2>3. step = "exit" => step' = "exit"
    BY <1>1, <1>2, AfterDiscovery
  <2> QED
    BY <1>2, <2>1, <2>2, <2>3, BoardStaysSeen DEF FoundInv
<1>3. CASE HostStep
  <2>1. /\ world' = world /\ step' = "start" /\ UNCHANGED <<n, discovery>>
        /\ hostReady' = OverallReady(installed', targets')
    BY <1>3 DEF HostStep, RunHostBootstrap
  <2>2. ASSUME Judged'
        PROVE  /\ "pyserial" \in installed' /\ world.boards[1].target \in targets'
               /\ AttachmentReady(world.boards[1], installed')
    <3>1. OverallReady(installed', targets') /\ world.byId /\ 1 \in BoardNumbers
      BY <1>1, <2>1, <2>2, WorldTypes DEF Judged, BoardNumbers
    <3> QED
      BY <3>1 DEF OverallReady, Packages
  <2>3. Judged' => BoardSeen'
    BY <2>1, <2>2 DEF BoardSeen, AttachmentReady, Probes, BoardNumbers
  <2>4. UNCHANGED <<n, targetOk>> /\ BoardNumbers' = BoardNumbers
    BY <1>3, <2>1 DEF FoundInv, HostStep, discovery, BoardNumbers
  <2> QED
    BY <1>1, <2>1, <2>3, <2>4 DEF FoundInv
<1>4. CASE CheckProbes
  <2>1. /\ step = "start" /\ step' = "packs"
        /\ probeOf' = [i \in BoardNumbers |-> PickProbe(world.boards[i], Probes, AssumeOnly)]
        /\ UNCHANGED <<world, installed, targets, hostReady, n, targetOk, portOf>>
    BY <1>4 DEF CheckProbes, hostVars
  <2>2. ASSUME Judged PROVE probeOf'[1] = Picked
    <3>1. 1 \in BoardNumbers /\ AttachmentReady(world.boards[1], installed)
      BY <1>1, <2>1, <2>2 DEF FoundInv, BoardSeen
    <3>2. PickProbe(world.boards[1], Probes, TRUE) # NoProbe
      BY <3>1 DEF AttachmentReady
    <3>3. AssumeOnly \in BOOLEAN /\ (Cardinality(Probes) = 1 => AssumeOnly)
      BY <2>2 DEF AssumeOnly, Judged
    <3> QED
      BY <2>1, <3>1, <3>2, <3>3, SameProbe DEF Picked
  <2>3. /\ Judged' <=> Judged
        /\ Picked' = Picked /\ BoardNumbers' = BoardNumbers
        /\ BoardSeen => BoardSeen'
    BY <2>1, BoardStaysSeen
  <2>4. UNCHANGED <<world, n, targetOk>> /\ step' = "packs" /\ step = "start"
    BY <2>1 DEF FoundInv
  <2> QED
    BY <1>1, <2>2, <2>3, <2>4 DEF FoundInv
<1>5. CASE NoPyocd
  BY <1>1, <1>5, BoardStaysSeen DEF NoPyocd, FoundInv, hostVars, discovery
<1>6. CASE CheckTargetPacks
  <2>1. /\ step = "packs" /\ step' = "ports" /\ targets \subseteq targets'
        /\ UNCHANGED <<world, installed, hostReady, n, probeOf, portOf>>
    BY <1>6 DEF CheckTargetPacks
  <2>2. DOMAIN targetOk' = BoardNumbers
    BY <1>6 DEF CheckTargetPacks
  <2>3. ASSUME Judged PROVE targetOk'[1]
    <3>1. 1 \in BoardNumbers /\ world.boards[1].target \in targets
      BY <1>1, <2>1, <2>3 DEF FoundInv, BoardSeen
    <3> QED
      BY <1>6, <3>1 DEF CheckTargetPacks
  <2> QED
    BY <1>1, <2>1, <2>2, <2>3, BoardStaysSeen DEF FoundInv
<1>7. CASE CheckPorts
  <2>1. /\ step = "ports" /\ step' = "connect"
        /\ \A i \in BoardNumbers : portOf'[i] \in PortChoices(i)
        /\ UNCHANGED <<world, installed, targets, hostReady, n, probeOf, targetOk>>
    BY <1>7 DEF CheckPorts, hostVars
  <2>2. ASSUME Judged PROVE targetOk[1] /\ portOf'[1] # NoPort
    <3>1. /\ targetOk[1] /\ 1 \in BoardNumbers
          /\ AttachmentReady(world.boards[1], installed)
          /\ probeOf[1] = Picked /\ world.requests[1].override = NoPort
      BY <1>1, <2>1, <2>2 DEF FoundInv, BoardSeen, Judged
    <3>2. /\ probeOf[1] # NoProbe /\ "pyserial" \in installed /\ world.ports # {}
          /\ ResolveSerialPort(world.boards[1], world.ports, probeOf[1].uid, NoPort, FALSE,
                               world.tools, FALSE) # {NoPort}
      BY <3>1 DEF AttachmentReady, Picked
    <3>3. NoPort \notin PortChoices(1)
      BY <3>1, <3>2, SamePort DEF PortChoices
    <3> QED
      BY <2>1, <3>1, <3>3
  <2> QED
    BY <1>1, <2>1, <2>2, BoardStaysSeen DEF FoundInv
<1>8. CASE UNCHANGED vars
  BY <1>8, BoardStaysSeen DEF vars, FoundInv, hostVars, discovery
<1>9. Next => \/ step \notin {"host", "start", "packs", "ports"}
              \/ HostStep \/ CheckProbes \/ NoPyocd \/ CheckTargetPacks \/ CheckPorts
  BY DEF Next, CheckConnection, CheckIdentity, SkipFlash, Flash, Fallback, SkipUart,
         StartUart, UartStep, EndUart, SkipRecover, Recover, Summarise
<1> QED
  BY <1>2, <1>3, <1>4, <1>5, <1>6, <1>7, <1>8, <1>9

\* For a single board without a port override, a bootstrap that found the host
\* ready is right about what the check will find (HostReadyFindsBoard), for
\* every host, whatever probes, ports and vendor tools it has.
THEOREM ReadyHostsFindBoards == Spec => []HostReadyFindsBoard
<1>1. Init => FoundInv
  BY DEF Init, Init0, FoundInv, BoardNumbers
<1>2. FoundInv => HostReadyFindsBoard
  BY DEF FoundInv, BoardSeen, HostReadyFindsBoard, Judged, AttachmentReady, Picked
<1> QED
  BY <1>1, <1>2, FoundStep, PTL DEF Spec

-----------------------------------------------------------------------------
(* Types.                                                                    *)

\* Every probe a script sees is one of the host's.
LEMMA ProbesAreReal ==
  ASSUME world \in Worlds
  PROVE  Probes \subseteq ToSet(world.probes)
  BY WorldTypes DEF Probes, ListConnectedProbes

LEMMA PickedType ==
  ASSUME NEW board, NEW probes, NEW alone \in BOOLEAN
  PROVE  PickProbe(board, probes, alone) \in probes \cup {NoProbe}
<1> DEFINE score == [p \in probes |-> ScoreTerms(p.text, board.probeHints)]
           best == Best(score)
           only == CHOOSE p \in probes : TRUE
<1>1. best \subseteq probes
  BY DEF Best
<1>2. Cardinality(probes) = 1 => only \in probes
  <2>1. Cardinality(probes) = 1 => probes # {}
    BY FS_EmptySet
  <2> QED
    BY <2>1
<1>3. best # {} => (CHOOSE p \in best : TRUE) \in best
  OBVIOUS
<1>4. PickProbe(board, probes, alone) \in {NoProbe}
        \cup (IF best # {} THEN {CHOOSE p \in best : TRUE} ELSE {})
        \cup (IF Cardinality(probes) = 1 THEN {only} ELSE {})
  BY DEF PickProbe
<1> HIDE DEF score, best, only
<1> QED
  BY <1>1, <1>2, <1>3, <1>4

\* A session is opened with some chip of the bench, or fails.
LEMMA OpenedType ==
  ASSUME world \in Worlds, NEW board, NEW uid \in DOMAIN world.device
  PROVE  OpenSession(board, uid) \subseteq DOMAIN world.device \cup {NoDevice}
<1>1. SingleMatchingProbeVisible(board) => Probes # {}
  <2> DEFINE matching == {p \in Probes : ScoreTerms(p.text, FamilyHints[board.family]) > 0}
  <2>1. Cardinality(matching) = 1 => matching # {}
    <3> HIDE DEF matching
    <3> QED
      BY FS_EmptySet
  <2> QED
    BY <2>1 DEF SingleMatchingProbeVisible
<1>2. Probes # {} => Head(world.probes) \in ToSet(world.probes)
  <2>1. Probes # {} => DOMAIN world.probes # {}
    BY ProbesAreReal DEF ToSet
  <2>2. Probes # {} => 1 \in DOMAIN world.probes
    BY <2>1, WorldTypes
  <2> QED
    BY <2>2 DEF ToSet
<1>3. SingleMatchingProbeVisible(board) => Head(world.probes).uid \in DOMAIN world.device
  BY <1>1, <1>2, WorldTypes
<1> QED
  BY <1>3 DEF OpenSession

\* The types, with what keeps them: which boards there are and where main is.
TypeInv ==
  /\ world \in Worlds
  /\ capture \in {"idle", "closed", "open", "matched", "silent", "error"}
  /\ installed \subseteq Packages /\ hostReady \in Verdict
  /\ n \in 1 .. Len(world.boards) + 1
  /\ step \in {"host", "start", "packs", "ports"} => n = 1
  /\ step # "exit" => n \in BoardNumbers
  /\ probeOf \in [BoardNumbers -> Probes \cup {NoProbe}]
  /\ portOf \in [BoardNumbers -> world.ports \cup {NoPort}]
  /\ targetOk \in [BoardNumbers -> BOOLEAN]
  /\ {connOk, identityOk, flashOk, uartOk} \subseteq Verdict
  /\ recovered \in {"none", "failed", "completed"}
  /\ handle \in DOMAIN world.device \cup {NoDevice}
  /\ device \in [DOMAIN world.device -> Chip]
  /\ exitCode \in {NoVerdict, 0, 1}

\* The types of what the steps on one board leave alone.
LEMMA BoardsKept ==
  ASSUME TypeInv, UNCHANGED <<hostVars, discovery>>
  PROVE  /\ world' \in Worlds /\ installed' \subseteq Packages /\ hostReady' \in Verdict
         /\ BoardNumbers' = BoardNumbers
         /\ probeOf' \in [BoardNumbers' -> Probes' \cup {NoProbe}]
         /\ portOf' \in [BoardNumbers' -> world'.ports \cup {NoPort}]
         /\ targetOk' \in [BoardNumbers' -> BOOLEAN]
         /\ Len(world'.boards) = Len(world.boards)
         /\ DOMAIN world'.device = DOMAIN world.device
  BY DEF TypeInv, hostVars, discovery, BoardNumbers, Probes

\* Reprogramming or erasing a chip, or one that is not there.
LEMMA ChipTypes ==
  ASSUME TypeInv, NEW d, NEW image \in Images
  PROVE  /\ [device EXCEPT ![d].image = image] \in [DOMAIN world.device -> Chip]
         /\ [device EXCEPT ![d] = [image |-> Erased, locked |-> FALSE]]
              \in [DOMAIN world.device -> Chip]
<1>1. [image |-> Erased, locked |-> FALSE] \in Chip
  BY DEF Chip, Images
<1>2. \A c \in Chip : [c EXCEPT !.image = image] \in Chip
  BY DEF Chip
<1> QED
  BY <1>1, <1>2 DEF TypeInv

LEMMA TypeStep == TypeInv /\ [Next]_vars => TypeInv'
<1> SUFFICES ASSUME TypeInv, [Next]_vars PROVE TypeInv'
  OBVIOUS
<1>1. /\ BoardNumbers = 1 .. Len(world.boards) /\ Len(world.boards) \in Nat \ {0}
      /\ installed \subseteq Packages
  BY WorldTypes DEF BoardNumbers, TypeInv
<1>2. CASE HostStep
  <2>1. installed' \subseteq Packages /\ hostReady' \in Verdict
    <3>1. installed' \in Reconciled /\ hostReady' = OverallReady(installed', targets')
      BY <1>2 DEF HostStep, RunHostBootstrap
    <3> QED
      BY <1>1, <3>1 DEF Reconciled, OverallReady, Verdict
  <2>2. /\ step' = "start" /\ step = "host"
        /\ UNCHANGED <<world, captureVars, n, discovery, checks, handle, device, exitCode>>
    BY <1>2 DEF HostStep, RunHostBootstrap
  <2>3. BoardNumbers' = BoardNumbers /\ Probes' = Probes
    BY <2>2 DEF BoardNumbers, Probes
  <2> QED
    BY <2>1, <2>2, <2>3 DEF TypeInv, captureVars, discovery, checks
<1>3. CASE CheckProbes
  <2>1. /\ step = "start" /\ step' = "packs"
        /\ UNCHANGED <<hostVars, captureVars, n, targetOk, portOf, checks, handle, device, exitCode>>
    BY <1>3 DEF CheckProbes
  <2>2. probeOf' \in [BoardNumbers -> Probes \cup {NoProbe}]
    BY <1>3, PickedType DEF CheckProbes, AssumeOnly
  <2>3. BoardNumbers' = BoardNumbers /\ Probes' = Probes /\ world' = world
    BY <2>1 DEF BoardNumbers, Probes, hostVars
  <2> QED
    BY <2>1, <2>2, <2>3 DEF TypeInv, hostVars, captureVars, checks
<1>4. CASE NoPyocd
  BY <1>4, BoardsKept DEF NoPyocd, TypeInv, captureVars, checks
<1>5. CASE CheckTargetPacks
  <2>1. /\ step = "packs" /\ step' = "ports"
        /\ UNCHANGED <<world, installed, hostReady, captureVars, n, probeOf,
                       portOf, checks, handle, device, exitCode>>
    BY <1>5 DEF CheckTargetPacks
  <2>2. targetOk' \in [BoardNumbers -> BOOLEAN]
    BY <1>5 DEF CheckTargetPacks
  <2>3. BoardNumbers' = BoardNumbers /\ Probes' = Probes
    BY <2>1 DEF BoardNumbers, Probes
  <2> QED
    BY <2>1, <2>2, <2>3 DEF TypeInv, captureVars, checks
<1>6. CASE CheckPorts
  <2>1. /\ step = "ports" /\ step' = "connect"
        /\ portOf' \in [BoardNumbers -> world.ports \cup {NoPort}]
        /\ UNCHANGED <<hostVars, captureVars, n, probeOf, targetOk, checks, handle, device, exitCode>>
    BY <1>6 DEF CheckPorts
  <2>2. BoardNumbers' = BoardNumbers /\ Probes' = Probes /\ world' = world
    BY <2>1 DEF BoardNumbers, Probes, hostVars
  <2> QED
    BY <2>1, <2>2 DEF TypeInv, hostVars, captureVars, checks
<1>7. CASE CheckConnection \/ CheckIdentity
  BY <1>7, BoardsKept DEF CheckConnection, CheckIdentity, TypeInv, Verdict, captureVars
<1>8. CASE SkipFlash
  BY <1>8, BoardsKept DEF SkipFlash, TypeInv, Verdict, captureVars
<1>9. CASE Flash
  <2>1. step = "flash" /\ n \in BoardNumbers /\ probeOf[n] \in Probes
    BY <1>9 DEF Flash, FlashSkipped, TypeInv
  <2>2. probeOf[n].uid \in DOMAIN world.device /\ world \in Worlds
    BY <2>1, ProbesAreReal, WorldTypes DEF TypeInv
  <2>3. OpenSession(Board, probeOf[n].uid) \subseteq DOMAIN world.device \cup {NoDevice}
    BY <2>2, OpenedType
  <2>4. /\ handle' \in DOMAIN world.device \cup {NoDevice}
        /\ flashOk' \in Verdict /\ step' \in {"uart", "fallback"}
        /\ device' \in [DOMAIN world.device -> Chip]
    <3>1. PICK d \in OpenSession(Board, probeOf[n].uid) :
            \/ /\ flashOk' = FALSE /\ step' = "uart"
               /\ UNCHANGED <<handle, device>>
            \/ /\ device' = [device EXCEPT ![d].image = "reference"]
               /\ handle' = d /\ flashOk' = TRUE /\ step' = "uart"
            \/ /\ handle' = d /\ step' = "fallback"
               /\ \/ UNCHANGED device
                  \/ /\ d # NoDevice
                     /\ \E i \in {device[d].image, Torn} :
                          device' = [device EXCEPT ![d].image = i]
               /\ UNCHANGED flashOk
      BY <1>9 DEF Flash
    <3>2. d \in DOMAIN world.device \cup {NoDevice}
      BY <2>3
    <3>3. "reference" \in Images /\ Torn \in Images
      BY DEF Images
    <3>4. d # NoDevice => device[d].image \in Images
      BY <3>2 DEF TypeInv, Chip
    <3>5. device \in [DOMAIN world.device -> Chip] /\ flashOk \in Verdict
      BY DEF TypeInv
    <3>6. \A i \in Images : [device EXCEPT ![d].image = i] \in [DOMAIN world.device -> Chip]
      BY <3>5, ChipTypes
    <3>7. TRUE \in Verdict /\ FALSE \in Verdict
      BY DEF Verdict
    <3>8. handle \in DOMAIN world.device \cup {NoDevice}
      BY DEF TypeInv
    <3>9. CASE flashOk' = FALSE /\ step' = "uart" /\ UNCHANGED <<handle, device>>
      BY <3>5, <3>7, <3>8, <3>9
    <3>10. CASE /\ device' = [device EXCEPT ![d].image = "reference"]
                /\ handle' = d /\ flashOk' = TRUE /\ step' = "uart"
      BY <3>2, <3>3, <3>6, <3>7, <3>10
    <3>11. CASE /\ handle' = d /\ step' = "fallback"
                /\ \/ UNCHANGED device
                   \/ /\ d # NoDevice
                      /\ \E i \in {device[d].image, Torn} :
                           device' = [device EXCEPT ![d].image = i]
                /\ UNCHANGED flashOk
      BY <3>2, <3>3, <3>4, <3>5, <3>6, <3>11
    <3> QED
      BY <3>1, <3>9, <3>10, <3>11
  <2>5. UNCHANGED <<hostVars, captureVars, n, discovery, connOk, identityOk,
                    uartOk, recovered, exitCode>>
    BY <1>9 DEF Flash
  <2> QED
    BY <2>1, <2>4, <2>5, BoardsKept DEF TypeInv, captureVars
<1>10. CASE Fallback
  <2>1. FallbackImage \in Images /\ Torn \in Images
    BY DEF FallbackImage, Images
  <2>2. device' \in [DOMAIN world.device -> Chip]
    BY <1>10, <2>1, ChipTypes DEF Fallback, TypeInv
  <2>3. /\ step = "fallback" /\ step' = "uart" /\ handle' = NoDevice /\ flashOk' \in BOOLEAN
        /\ UNCHANGED <<hostVars, captureVars, n, discovery, connOk, identityOk,
                       uartOk, recovered, exitCode>>
    BY <1>10 DEF Fallback
  <2> QED
    BY <2>2, <2>3, BoardsKept DEF TypeInv, Verdict, captureVars
<1>11. CASE SkipUart
  BY <1>11, BoardsKept DEF SkipUart, TypeInv, Verdict, captureVars
<1>12. CASE StartUart
  BY <1>12, BoardsKept DEF StartUart, StartCapture, TypeInv, checks
<1>13. CASE UartStep
  <2>1. capture' \in {"closed", "open", "matched", "silent", "error"}
    BY <1>13 DEF UartStep, CaptureStep, OpenPort, GiveUp, Emit, Read, CloseWindow, PortFails
  <2> QED
    BY <1>13, <2>1, BoardsKept DEF UartStep, TypeInv, checks
<1>14. CASE EndUart
  BY <1>14, BoardsKept DEF EndUart, EndCapture, TypeInv, Verdict
<1>15. CASE SkipRecover
  BY <1>15, BoardsKept DEF SkipRecover, TypeInv, captureVars, checks
<1>16. CASE Recover
  <2>1. device' \in [DOMAIN world.device -> Chip]
    BY <1>16, ChipTypes, ZenonT(40) DEF Recover, TypeInv, Images
  <2>2. /\ step = "recover" /\ step' \in {"reconnect", "summary"}
        /\ recovered' \in {"failed", "completed"}
        /\ UNCHANGED <<hostVars, captureVars, n, discovery, connOk, identityOk,
                       flashOk, uartOk, handle, exitCode>>
    BY <1>16 DEF Recover
  <2> QED
    BY <2>1, <2>2, BoardsKept DEF TypeInv, captureVars
<1>17. CASE Summarise
  <2>1. n \in BoardNumbers
    BY <1>17 DEF Summarise, TypeInv
  <2>2. n' \in 1 .. Len(world.boards) + 1 /\ (step' # "exit" => n' \in BoardNumbers)
    BY <1>1, <1>17, <2>1 DEF Summarise
  <2>3. /\ step' \in {"exit", "connect"} /\ exitCode' \in {exitCode, 0, 1}
        /\ connOk' = NoVerdict /\ identityOk' = NoVerdict /\ flashOk' = NoVerdict
        /\ uartOk' = NoVerdict /\ recovered' = "none"
        /\ UNCHANGED <<hostVars, captureVars, discovery, handle, device>>
    BY <1>17 DEF Summarise
  <2> QED
    BY <2>2, <2>3, BoardsKept DEF TypeInv, Verdict, captureVars
<1>18. CASE UNCHANGED vars
  BY <1>18, BoardsKept DEF vars, TypeInv, captureVars, checks
<1> QED
  BY <1>2, <1>3, <1>4, <1>5, <1>6, <1>7, <1>8, <1>9, <1>10, <1>11, <1>12, <1>13,
     <1>14, <1>15, <1>16, <1>17, <1>18 DEF Next

LEMMA BoardCount ==
  ASSUME TypeInv
  PROVE  /\ BoardNumbers = 1 .. Len(world.boards) /\ Len(world.boards) \in Nat \ {0}
         /\ n \in Nat
  BY WorldTypes DEF BoardNumbers, TypeInv

LEMMA InitTypes == Init => TypeInv
<1>1. ASSUME NEW w \in Worlds, Init0(w) PROVE TypeInv
  <2>1. world \in Worlds /\ BoardNumbers = 1 .. Len(world.boards)
        /\ Len(world.boards) \in Nat \ {0}
    BY <1>1, WorldTypes DEF Init0, BoardNumbers
  <2>2. /\ probeOf \in [BoardNumbers -> Probes \cup {NoProbe}]
        /\ portOf \in [BoardNumbers -> world.ports \cup {NoPort}]
        /\ targetOk \in [BoardNumbers -> BOOLEAN]
    BY <1>1 DEF Init0
  <2>3. installed \subseteq Packages /\ device \in [DOMAIN world.device -> Chip]
    BY <1>1, WorldTypes DEF Init0
  <2>4. n = 1 /\ n \in 1 .. Len(world.boards) + 1
    BY <1>1, <2>1 DEF Init0
  <2> QED
    BY <1>1, <2>1, <2>2, <2>3, <2>4 DEF Init0, CaptureInit, TypeInv, Verdict
<1> QED
  BY <1>1 DEF Init

\* Host, capture and bench keep their types on every bench.
THEOREM TypeCorrect == Spec => []TypeOK
<1>1. Init => ClockInv /\ TypeInv
  BY InitTypes, CaptureInitClock DEF Init, Init0
<1>2. ClockInv /\ TypeInv => TypeOK
  <2> SUFFICES ASSUME ClockInv, TypeInv PROVE TypeOK
    OBVIOUS
  <2>1. CaptureTypeOK
    BY CaptureNumbers DEF ClockInv, TypeInv, CaptureTypeOK
  <2>2. DOMAIN device = DOMAIN world.device
    BY DEF TypeInv
  <2> QED
    BY <2>1, <2>2 DEF TypeInv, TypeOK
<1> QED
  BY <1>1, <1>2, ClockStep, TypeStep, PTL DEF Spec

-----------------------------------------------------------------------------
(* What exit code 0 says of the bench.  ExitZeroMeansProven looks back from  *)
(* the end: every verdict was true when it was reached, so what has to be    *)
(* kept is that nothing done since then on any chip has made it false.       *)

\* What the capture and the target may have in hand is made of this.
Tokens == {Expected[i] : i \in DOMAIN Expected}

BoardSteps == {"connect", "identity", "flash", "fallback", "uart", "capture",
               "recover", "reconnect", "reidentify", "summary"}

\* The chip of board n, and what a chip prints.
Own == probeOf[n].uid
Prints(d) == Output(device[d].image)

\* Where main is, which verdicts there are by then, and what the session that
\* the flash has left open is for.
WhereInv ==
  /\ step \in {"host", "start", "packs", "ports", "exit"} \cup BoardSteps
  /\ step \in {"host", "start", "packs", "ports", "connect", "identity", "flash", "fallback"} =>
       flashOk = NoVerdict
  /\ step \notin {"recover", "reconnect", "reidentify", "summary", "exit"} =>
       uartOk = NoVerdict
  /\ step \in {"host", "start", "packs", "ports"} => connOk = NoVerdict /\ identityOk = NoVerdict
  /\ step = "fallback" => Request.firmware # "none"
  /\ step \in {"uart", "capture"} /\ flashOk = TRUE /\ handle # NoDevice =>
       device[handle].image = "reference"
  /\ step = "capture" => flashOk = TRUE /\ portOf[n] # NoPort
  /\ step # "exit" => exitCode = NoVerdict
  /\ exitCode = 0 => ~failed /\ n = Len(world.boards) + 1

\* A capture without resets has no more than one run of the image to read from.
TextInv ==
  /\ {captured, buffer, pending} \subseteq Seq(Tokens)
  /\ step = "capture" =>
       /\ \/ handle # NoDevice /\ handle = Printer
          \/ Len(captured) + Len(buffer) + Len(pending) <= Len(Boot)
       /\ capture = "matched" =>
            Len(captured) >= IF Request.expect THEN Len(Expected) ELSE 1

\* What the verdicts on board n say of the bench as it is.
VerdictInv ==
  step \in BoardSteps =>
    /\ connOk = TRUE => probeOf[n] # NoProbe /\ ~device[Own].locked
    /\ identityOk = TRUE => probeOf[n] # NoProbe /\ world.silicon[Own] = Board.identity
    /\ uartOk = TRUE /\ portOf[n].owner = Own /\ ~Request.recover =>
         Prints(Own) # <<>> /\ (Request.expect => Prints(Own) = Expected)

\* Board n has damaged the image of board i, and will not pass, or not unless
\* it reads something from the chip that both of them use.
Damaged(i) ==
  /\ Prints(probeOf[i].uid) = <<>>
  /\ Request.firmware # "none" /\ step \in BoardSteps \ {"connect", "identity", "flash"}
  /\ flashOk = FALSE \/ (OnSameChip(i, n) /\ uartOk # TRUE)

\* What is still true of a board that has passed.
StillProven(i) ==
  /\ probeOf[i] # NoProbe
  /\ ~device[probeOf[i].uid].locked
  /\ world.boards[i].identity \in {NoVerdict, world.silicon[probeOf[i].uid]}
  /\ ReferenceAsked(i) => Prints(probeOf[i].uid) = Expected \/ Damaged(i)

PassedInv ==
  step \in BoardSteps \cup {"exit"} /\ ~failed =>
    \A i \in BoardNumbers : i < n => StillProven(i)

ProvenInv == SerialNumbersWork => VerdictInv /\ PassedInv

-----------------------------------------------------------------------------
(* Texts.                                                                    *)

LEMMA ExpectedText ==
  /\ Expected \in Seq(Tokens) /\ Len(Expected) \in Nat \ {0}
  /\ SubSeq(Expected, 1, 1) \in Seq(Tokens) /\ Len(SubSeq(Expected, 1, 1)) = 1
  /\ Len(Expected) = 1 => SubSeq(Expected, 1, 1) = Expected
<1>1. Expected \in Seq(Tokens) /\ Expected # <<>>
  BY CaptureAssumption DEF CaptureAssumption, Tokens
<1>2. Len(Expected) \in Nat \ {0}
  BY <1>1
<1>3. SubSeq(Expected, 1, 1) \in Seq(Tokens) /\ Len(SubSeq(Expected, 1, 1)) = 1
  BY <1>1, <1>2
<1>4. ASSUME Len(Expected) = 1 PROVE SubSeq(Expected, 1, 1) = Expected
  BY <1>1, <1>3, <1>4
<1> QED
  BY <1>1, <1>2, <1>3, <1>4

\* An image prints the expected text, less, or nothing.
LEMMA OutputFacts ==
  ASSUME NEW image
  PROVE  /\ Output(image) \in Seq(Tokens)
         /\ Len(Output(image)) >= Len(Expected) => Output(image) = Expected
         /\ image \in {"reference", "sibling"} => Output(image) = Expected
         /\ image \in {Torn, Erased} => Output(image) = <<>>
<1>1. CASE image \in {"reference", "sibling"}
  BY <1>1, ExpectedText, Marks DEF Output
<1>2. CASE image = "old"
  <2>1. Output(image) = SubSeq(Expected, 1, 1)
    BY <1>2 DEF Output
  <2>2. image \notin {"reference", "sibling", Torn, Erased}
    BY <1>2, Marks
  <2> QED
    BY <2>1, <2>2, ExpectedText
<1>3. CASE image \notin {"reference", "sibling", "old"}
  BY <1>3, ExpectedText DEF Output
<1> QED
  BY <1>1, <1>2, <1>3

\* The expected text is not shorter than the text it was found in.
LEMMA MatchLength ==
  ASSUME NEW text \in Seq(Tokens), NEW anything \in BOOLEAN, Matches(text, anything)
  PROVE  Len(text) >= IF anything THEN 1 ELSE Len(Expected)
<1>1. CASE anything
  BY <1>1 DEF Matches
<1>2. CASE ~anything
  BY <1>2, ExpectedText DEF Matches
<1> QED
  BY <1>1, <1>2

\* The expected text is there, or some output where any will do.
LEMMA EnoughRead ==
  ASSUME NEW image, Len(Output(image)) >= IF Request.expect THEN Len(Expected) ELSE 1
  PROVE  /\ Output(image) # <<>>
         /\ Request.expect => Output(image) = Expected
<1>1. Len(Expected) > 0 /\ Len(<<>>) = 0
  BY ExpectedText
<1>2. Output(image) # <<>>
  BY <1>1
<1>3. Request.expect => Output(image) = Expected
  BY OutputFacts
<1> QED
  BY <1>2, <1>3

-----------------------------------------------------------------------------
(* Chips.                                                                    *)

\* A session asked for by serial number is with that probe, or fails, where
\* serial numbers work.
LEMMA OwnOnly ==
  ASSUME world \in Worlds, SerialNumbersWork, NEW p \in Probes, NEW board
  PROVE  OpenSession(board, p.uid) \subseteq {p.uid, NoDevice}
<1>1. CASE world.flaky = {}
  BY <1>1 DEF OpenSession
<1>2. CASE Len(world.probes) = 1
  <2>1. p \in ToSet(world.probes) /\ DOMAIN world.probes = {1}
    BY <1>2, ProbesAreReal, WorldTypes
  <2>2. p = Head(world.probes)
    BY <2>1 DEF ToSet
  <2> QED
    BY <2>2 DEF OpenSession
<1> QED
  BY <1>1, <1>2 DEF SerialNumbersWork

\* Programming a chip changes what it prints, and nothing else on the bench.
LEMMA Reprogrammed ==
  ASSUME TypeInv, NEW d, NEW image \in Images,
         device' = [device EXCEPT ![d].image = image]
  PROVE  \A c \in DOMAIN world.device :
           /\ device'[c].locked = device[c].locked
           /\ c # d => Prints(c)' = Prints(c)
           /\ c = d => Prints(c)' = Output(image)
<1>1. device \in [DOMAIN world.device -> Chip]
  BY DEF TypeInv
<1>2. \A c \in DOMAIN world.device :
        device[c] \in Chip /\ device'[c] = IF c = d THEN [device[c] EXCEPT !.image = image]
                                                   ELSE device[c]
  BY <1>1
<1>3. \A x \in Chip : [x EXCEPT !.image = image].locked = x.locked
                      /\ [x EXCEPT !.image = image].image = image
  BY DEF Chip
<1>4. \A c : Prints(c) = Output(device[c].image) /\ Prints(c)' = Output(device'[c].image)
  BY DEF Prints, Output
<1> QED
  BY <1>2, <1>3, <1>4, ZenonT(40)

\* The probe that a board has been given is on the bench.
LEMMA ProbeIsThere ==
  ASSUME TypeInv, NEW i \in BoardNumbers, probeOf[i] # NoProbe
  PROVE  probeOf[i] \in Probes /\ probeOf[i].uid \in DOMAIN world.device
<1>1. probeOf[i] \in Probes /\ world \in Worlds
  BY DEF TypeInv
<1> QED
  BY <1>1, ProbesAreReal, WorldTypes

-----------------------------------------------------------------------------
(* Each step keeps the parts of the invariant.                               *)

LEMMA WhereStep == TypeInv /\ WhereInv /\ [Next]_vars => WhereInv'
<1> SUFFICES ASSUME TypeInv, WhereInv, [Next]_vars PROVE WhereInv'
  OBVIOUS
<1> USE Marks DEF BoardSteps, WhereInv, Request
<1>1. CASE HostStep \/ CheckProbes \/ NoPyocd \/ CheckTargetPacks
  BY <1>1 DEF HostStep, RunHostBootstrap, CheckProbes, NoPyocd, CheckTargetPacks, checks
<1>2. CASE CheckPorts
  BY <1>2 DEF CheckPorts, hostVars, checks
<1>3. CASE CheckConnection \/ CheckIdentity
  BY <1>3 DEF CheckConnection, CheckIdentity, hostVars, discovery
<1>4. CASE SkipFlash
  BY <1>4 DEF SkipFlash, hostVars, discovery
<1>5. CASE Flash
  <2>1. step = "flash" /\ Request.firmware # "none" /\ step' \in {"uart", "fallback"}
        /\ UNCHANGED <<world, n, portOf, connOk, identityOk, uartOk, failed, exitCode>>
    BY <1>5 DEF Flash, hostVars, discovery
  <2>2. step' = "fallback" => flashOk' = flashOk
    BY <1>5 DEF Flash
  <2>3. ASSUME flashOk' = TRUE, step' = "uart" PROVE device'[handle'].image = "reference"
    <3>1. n \in BoardNumbers /\ probeOf[n] # NoProbe
      BY <1>5, <2>1 DEF Flash, FlashSkipped, TypeInv
    <3>2. PICK d \in OpenSession(Board, probeOf[n].uid) :
            d # NoDevice /\ device' = [device EXCEPT ![d].image = "reference"] /\ handle' = d
      BY <1>5, <2>3 DEF Flash
    <3>3. d \in DOMAIN world.device /\ device \in [DOMAIN world.device -> Chip]
      BY <3>1, <3>2, ProbeIsThere, OpenedType DEF TypeInv
    <3>4. device[d] \in Chip
      BY <3>3
    <3> QED
      BY <3>2, <3>3, <3>4 DEF Chip
  <2> QED
    BY <2>1, <2>2, <2>3
<1>6. CASE Fallback
  BY <1>6 DEF Fallback, hostVars, discovery
<1>7. CASE SkipUart
  BY <1>7 DEF SkipUart, hostVars, discovery
<1>8. CASE StartUart \/ UartStep
  BY <1>8 DEF StartUart, UartStep, hostVars, discovery, checks
<1>9. CASE EndUart
  BY <1>9 DEF EndUart, hostVars, discovery
<1>10. CASE SkipRecover \/ Recover
  BY <1>10 DEF SkipRecover, Recover, hostVars, discovery, checks
<1>11. CASE Summarise
  BY <1>11 DEF Summarise, hostVars
<1>12. CASE UNCHANGED vars
  BY <1>12 DEF vars, hostVars, discovery, checks
<1> QED
  BY <1>1, <1>2, <1>3, <1>4, <1>5, <1>6, <1>7, <1>8, <1>9, <1>10, <1>11, <1>12 DEF Next

\* A step of a capture only moves what is still to come closer to what was read.
LEMMA CaptureText ==
  ASSUME {captured, buffer, pending} \subseteq Seq(Tokens),
         NEW resets, NEW boot \in Seq(Tokens), NEW anything \in BOOLEAN,
         CaptureStep(resets, boot, anything)
  PROVE  /\ {captured', buffer', pending'} \subseteq Seq(Tokens)
         /\ \/ resets
            \/ Len(captured') + Len(buffer') + Len(pending')
                 <= Len(captured) + Len(buffer) + Len(pending)
         /\ capture' = "matched" =>
              \/ capture = "matched" /\ captured' = captured
              \/ Len(captured') >= IF anything THEN 1 ELSE Len(Expected)
<1>0. /\ captured \in Seq(Tokens) /\ buffer \in Seq(Tokens) /\ pending \in Seq(Tokens)
      /\ Len(captured) \in Nat /\ Len(buffer) \in Nat /\ Len(pending) \in Nat
      /\ <<>> \in Seq(Tokens) /\ Len(<<>>) = 0
  OBVIOUS
<1>1. CASE OpenPort(resets, boot)
  BY <1>0, <1>1 DEF OpenPort
<1>2. CASE GiveUp
  BY <1>0, <1>2 DEF GiveUp
<1>3. CASE Emit
  <2>1. /\ pending' = Tail(pending) /\ pending # <<>>
        /\ buffer' \in {buffer, Append(buffer, Head(pending))}
        /\ UNCHANGED captured /\ (capture' = "matched" => capture = "matched")
    BY <1>3 DEF Emit
  <2>2. Tail(pending) \in Seq(Tokens) /\ Len(Tail(pending)) = Len(pending) - 1
        /\ Head(pending) \in Tokens
    BY <1>0, <2>1
  <2>3. /\ Append(buffer, Head(pending)) \in Seq(Tokens)
        /\ Len(Append(buffer, Head(pending))) = Len(buffer) + 1
    BY <1>0, <2>2
  <2>4. captured' \in Seq(Tokens) /\ buffer' \in Seq(Tokens) /\ pending' \in Seq(Tokens)
    BY <1>0, <2>1, <2>2, <2>3
  <2>5. Len(captured') = Len(captured) /\ Len(pending') = Len(pending) - 1
        /\ Len(buffer') \in {Len(buffer), Len(buffer) + 1}
    BY <2>1, <2>2, <2>3
  <2>6. Len(captured') + Len(buffer') + Len(pending')
          <= Len(captured) + Len(buffer) + Len(pending)
    BY <1>0, <2>5
  <2> QED
    BY <2>1, <2>4, <2>6
<1>4. CASE Read(anything)
  <2>1. /\ captured' = captured \o buffer /\ buffer' = <<>> /\ UNCHANGED pending
        /\ capture' = "matched" => Matches(captured', anything)
    BY <1>4 DEF Read
  <2>2. captured' \in Seq(Tokens) /\ Len(captured') = Len(captured) + Len(buffer)
    BY <1>0, <2>1
  <2>3. capture' = "matched" => Len(captured') >= IF anything THEN 1 ELSE Len(Expected)
    BY <2>1, <2>2, MatchLength
  <2> QED
    BY <1>0, <2>1, <2>2, <2>3
<1>5. CASE CloseWindow \/ PortFails
  <2>1. buffer' = <<>> /\ UNCHANGED <<captured, pending>> /\ capture' # "matched"
    BY <1>5 DEF CloseWindow, PortFails
  <2>2. captured' \in Seq(Tokens) /\ buffer' \in Seq(Tokens) /\ pending' \in Seq(Tokens)
    BY <1>0, <2>1
  <2>3. Len(captured') + Len(buffer') + Len(pending')
          <= Len(captured) + Len(buffer) + Len(pending)
    BY <1>0, <2>1
  <2> QED
    BY <2>1, <2>2, <2>3
<1> QED
  BY <1>1, <1>2, <1>3, <1>4, <1>5 DEF CaptureStep

\* Nothing else is read than the runs of the chip's image.
LEMMA TextStep == TypeInv /\ TextInv /\ [Next]_vars => TextInv'
<1> SUFFICES ASSUME TypeInv, TextInv, [Next]_vars PROVE TextInv'
  OBVIOUS
<1>1. Boot \in Seq(Tokens) /\ Len(Boot) \in Nat
  BY OutputFacts DEF Boot
<1>2. CASE step' # "capture" /\ UNCHANGED captureVars
  BY <1>2 DEF TextInv, captureVars
<1>3. CASE StartUart
  <2>1. PICK k \in 0 .. Len(Boot) :
          StartCapture(SubSeq(Boot, Len(Boot) - k + 1, Len(Boot)))
    BY <1>3 DEF StartUart
  <2>2. /\ SubSeq(Boot, Len(Boot) - k + 1, Len(Boot)) \in Seq(Tokens)
        /\ Len(SubSeq(Boot, Len(Boot) - k + 1, Len(Boot))) = k
    BY <1>1
  <2>3. /\ captured' = <<>> /\ buffer' = <<>> /\ capture' = "closed"
        /\ pending' \in Seq(Tokens) /\ Len(pending') <= Len(Boot) /\ Len(pending') \in Nat
    BY <1>1, <2>1, <2>2 DEF StartCapture
  <2>4. Boot' = Boot
    BY <1>3 DEF StartUart, Boot, Printer, discovery, Output
  <2> QED
    BY <2>3, <2>4 DEF TextInv
<1>4. CASE UartStep
  <2>1. /\ step = "capture"
        /\ CaptureStep(handle # NoDevice /\ handle = Printer, Boot, ~Request.expect)
        /\ UNCHANGED <<hostVars, n, discovery, handle, device>>
    BY <1>4 DEF UartStep
  <2>2. Boot' = Boot /\ Printer' = Printer /\ handle' = handle /\ Request' = Request
    BY <2>1 DEF Boot, Printer, discovery, hostVars, Output, Request
  <2>3. (~Request.expect) \in BOOLEAN
    OBVIOUS
  <2>4. /\ {captured', buffer', pending'} \subseteq Seq(Tokens)
        /\ \/ handle # NoDevice /\ handle = Printer
           \/ Len(captured') + Len(buffer') + Len(pending')
                <= Len(captured) + Len(buffer) + Len(pending)
        /\ capture' = "matched" =>
             \/ capture = "matched" /\ captured' = captured
             \/ Len(captured') >= IF ~Request.expect THEN 1 ELSE Len(Expected)
    BY <1>1, <2>1, <2>3, CaptureText DEF TextInv
  <2>5. /\ Len(captured) \in Nat /\ Len(buffer) \in Nat /\ Len(pending) \in Nat
        /\ Len(captured') \in Nat /\ Len(buffer') \in Nat /\ Len(pending') \in Nat
    BY <2>4 DEF TextInv
  <2> QED
    BY <1>1, <2>1, <2>2, <2>4, <2>5 DEF TextInv
<1>5. CASE EndUart
  BY <1>5 DEF EndUart, EndCapture, TextInv
<1>6. Next => (step' # "capture" /\ UNCHANGED captureVars) \/ StartUart \/ UartStep \/ EndUart
  BY DEF Next, HostStep, CheckProbes, NoPyocd, CheckTargetPacks, CheckPorts,
         CheckConnection, CheckIdentity, SkipFlash, Flash, Fallback, SkipUart,
         SkipRecover, Recover, Summarise
<1>7. CASE UNCHANGED vars
  BY <1>7 DEF vars, captureVars, TextInv, Boot, Printer, discovery, hostVars, Output, Request
<1> QED
  BY <1>2, <1>3, <1>4, <1>5, <1>6, <1>7

-----------------------------------------------------------------------------
(* What exit code 0 says stays true.                                         *)

\* The board main is at, and what is asked of each, on a step that stays there.
LEMMA SameBoard ==
  ASSUME UNCHANGED <<hostVars, discovery, n>>
  PROVE  /\ UNCHANGED <<world, probeOf, targetOk, portOf, n, Own, Board, Request, BoardNumbers>>
         /\ SerialNumbersWork' <=> SerialNumbersWork
         /\ \A i : /\ ReferenceAsked(i)' <=> ReferenceAsked(i)
                   /\ OnSameChip(i, n)' <=> OnSameChip(i, n)
<1>1. UNCHANGED <<world, probeOf, targetOk, portOf, n>>
  BY DEF hostVars, discovery
<1>2. UNCHANGED <<Own, Board, Request, BoardNumbers>>
  BY <1>1 DEF Own, Board, Request, BoardNumbers
<1>3. SerialNumbersWork' <=> SerialNumbersWork
  BY <1>1 DEF SerialNumbersWork
<1>4. \A i : ReferenceAsked(i)' <=> ReferenceAsked(i)
  BY <1>1, <1>2 DEF ReferenceAsked, OnSameChip
<1>5. \A i : OnSameChip(i, n)' <=> OnSameChip(i, n)
  BY <1>1 DEF OnSameChip
<1> QED
  BY <1>1, <1>2, <1>3, <1>4, <1>5

\* A step that stays at a board and unlocks at most keeps what the boards
\* before it have shown, if it keeps what their chips print or damages it as a
\* board does that will not pass.
LEMMA PassedKept ==
  ASSUME PassedInv, UNCHANGED <<hostVars, discovery, n, failed>>,
         step \in BoardSteps,
         \A i \in BoardNumbers :
           i < n /\ probeOf[i] # NoProbe /\ ~device[probeOf[i].uid].locked =>
             /\ ~device'[probeOf[i].uid].locked
             /\ /\ ReferenceAsked(i)
                /\ Prints(probeOf[i].uid) = Expected \/ Damaged(i)
                => Prints(probeOf[i].uid)' = Expected \/ Damaged(i)'
  PROVE  PassedInv'
<1>1. UNCHANGED <<world, probeOf, n, failed, BoardNumbers>>
      /\ \A i : ReferenceAsked(i)' <=> ReferenceAsked(i)
  BY SameBoard
<1>2. SUFFICES ASSUME ~failed, NEW i \in BoardNumbers, i < n PROVE StillProven(i)'
  BY <1>1 DEF PassedInv
<1>3. StillProven(i)
  BY <1>2 DEF PassedInv
<1> QED
  BY <1>1, <1>2, <1>3 DEF StillProven

\* Steps that change no chip.
LEMMA DamageKept ==
  ASSUME UNCHANGED <<hostVars, discovery, n, device>>,
         step \in BoardSteps \ {"connect", "identity", "flash"} =>
           step' \in BoardSteps \ {"connect", "identity", "flash"},
         flashOk = FALSE => flashOk' = FALSE,
         NEW i, Damaged(i), uartOk' = TRUE => uartOk = TRUE
  PROVE  Damaged(i)'
  BY SameBoard DEF Damaged, Prints, Output

LEMMA PassedWatched ==
  ASSUME PassedInv, UNCHANGED <<hostVars, discovery, n, device, failed>>,
         step \in BoardSteps,
         step \in BoardSteps \ {"connect", "identity", "flash"} =>
           step' \in BoardSteps \ {"connect", "identity", "flash"},
         flashOk = FALSE => flashOk' = FALSE,
         uartOk' = TRUE => uartOk = TRUE
  PROVE  PassedInv'
<1>1. \A c : Prints(c)' = Prints(c)
  BY DEF Prints, Output
<1>2. \A i : Damaged(i) => Damaged(i)'
  BY DamageKept
<1>3. device' = device
  OBVIOUS
<1> QED
  BY <1>1, <1>2, <1>3, SameBoard, PassedKept

\* A verdict is only as good as the read it rests on: of the board's own chip,
\* where serial numbers work.
LEMMA ReadOwn ==
  ASSUME TypeInv, SerialNumbersWork, n \in BoardNumbers,
         NEW d \in ReadFrom(n), d # NoDevice
  PROVE  probeOf[n] # NoProbe /\ d = Own /\ ~device[Own].locked
<1>1. probeOf[n] # NoProbe /\ d \in OpenSession(Board, probeOf[n].uid) /\ ~device[d].locked
  BY DEF ReadFrom, Board
<1>2. d = probeOf[n].uid
  BY <1>1, ProbeIsThere, OwnOnly DEF TypeInv
<1> QED
  BY <1>1, <1>2 DEF Own

LEMMA ConnectionStep ==
  ASSUME TypeInv, SerialNumbersWork, VerdictInv, PassedInv, CheckConnection
  PROVE  VerdictInv' /\ PassedInv'
<1>1. /\ step \in {"connect", "reconnect"} /\ step' \in {"identity", "reidentify"}
      /\ UNCHANGED <<hostVars, n, discovery, identityOk, flashOk, uartOk, device, failed>>
      /\ step = "reconnect" => step' = "reidentify"
      /\ \E d \in ReadFrom(n) : connOk' = (d # NoDevice)
  BY DEF CheckConnection
<1>2. n \in BoardNumbers
  BY <1>1 DEF TypeInv
<1>3. connOk' = TRUE => probeOf[n] # NoProbe /\ ~device[Own].locked
  BY <1>1, <1>2, ReadOwn
<1>4. PassedInv'
  BY <1>1, PassedWatched DEF BoardSteps
<1>5. VerdictInv'
  BY <1>1, <1>3, SameBoard DEF VerdictInv, BoardSteps, Prints, Output
<1> QED
  BY <1>4, <1>5

LEMMA IdentityStep ==
  ASSUME TypeInv, SerialNumbersWork, VerdictInv, PassedInv, CheckIdentity
  PROVE  VerdictInv' /\ PassedInv'
<1>1. /\ step \in {"identity", "reidentify"} /\ step' \in {"flash", "summary"}
      /\ UNCHANGED <<hostVars, n, discovery, connOk, flashOk, uartOk, device, failed>>
      /\ step = "reidentify" => step' = "summary"
      /\ \/ UNCHANGED identityOk
         \/ \E d \in ReadFrom(n) :
              identityOk' = (d # NoDevice /\ world.silicon[d] = Board.identity)
  BY DEF CheckIdentity
<1>2. n \in BoardNumbers
  BY <1>1 DEF TypeInv
<1>3. identityOk' = TRUE =>
        \/ identityOk = TRUE
        \/ probeOf[n] # NoProbe /\ world.silicon[Own] = Board.identity
  BY <1>1, <1>2, ReadOwn
<1>4. PassedInv'
  BY <1>1, PassedWatched DEF BoardSteps
<1>5. VerdictInv'
  BY <1>1, <1>3, SameBoard DEF VerdictInv, BoardSteps, Prints, Output
<1> QED
  BY <1>4, <1>5

\* Nothing was flashed or read: SkipFlash, SkipUart, SkipRecover, and the
\* capture before it ends.
LEMMA SkipStep ==
  ASSUME WhereInv, VerdictInv, PassedInv,
         SkipFlash \/ SkipUart \/ StartUart \/ UartStep \/ SkipRecover
  PROVE  VerdictInv' /\ PassedInv'
<1>1. /\ step \in {"flash", "uart", "capture", "recover"}
      /\ step' \in {"uart", "capture", "recover", "summary"}
      /\ UNCHANGED <<hostVars, n, discovery, connOk, identityOk, device, failed>>
      /\ flashOk = FALSE => flashOk' = FALSE
      /\ uartOk' = TRUE => uartOk = TRUE
  BY Marks DEF SkipFlash, SkipUart, StartUart, UartStep, SkipRecover, checks, WhereInv
<1>2. PassedInv'
  BY <1>1, PassedWatched DEF BoardSteps
<1>3. VerdictInv'
  BY <1>1, SameBoard DEF VerdictInv, BoardSteps, Prints, Output
<1> QED
  BY <1>2, <1>3

\* A capture that matched has read the board's own chip, or another's port.
LEMMA UartProves ==
  ASSUME TypeInv, WhereInv, TextInv, step = "capture", capture = "matched",
         portOf[n].owner = Own
  PROVE  /\ Prints(Own) # <<>>
         /\ Request.expect => Prints(Own) = Expected
<1>1. /\ portOf[n] # NoPort /\ flashOk = TRUE
      /\ handle # NoDevice => device[handle].image = "reference"
  BY DEF WhereInv
<1>2. Printer = Own
  BY <1>1 DEF Printer
<1>3. Boot \in {<<>>, Prints(Own)} /\ Len(Boot) \in Nat /\ Len(Prints(Own)) \in Nat
  BY <1>2, OutputFacts DEF Boot, Prints
<1>4. Len(captured) >= IF Request.expect THEN Len(Expected) ELSE 1
  BY DEF TextInv
<1>5. CASE handle # NoDevice /\ handle = Printer
  <2>1. Prints(Own) = Expected /\ Expected # <<>>
    BY <1>1, <1>2, <1>5, OutputFacts, ExpectedText DEF Prints
  <2> QED
    BY <2>1
<1>6. CASE Len(captured) + Len(buffer) + Len(pending) <= Len(Boot)
  <2>1. Len(captured) \in Nat /\ Len(buffer) \in Nat /\ Len(pending) \in Nat
    BY DEF TextInv
  <2>2. Len(Boot) >= IF Request.expect THEN Len(Expected) ELSE 1
    BY <1>3, <1>4, <1>6, <2>1, ExpectedText
  <2>3. Boot = Prints(Own)
    <3>1. Len(Boot) > 0 /\ Len(<<>>) = 0
      BY <1>3, <2>2, ExpectedText
    <3> QED
      BY <1>3, <3>1
  <2> QED
    BY <2>2, <2>3, EnoughRead DEF Prints
<1> QED
  BY <1>5, <1>6 DEF TextInv

LEMMA EndUartStep ==
  ASSUME TypeInv, WhereInv, TextInv, VerdictInv, PassedInv, EndUart
  PROVE  VerdictInv' /\ PassedInv'
<1>1. /\ step = "capture" /\ step' = "recover" /\ n \in BoardNumbers
      /\ UNCHANGED <<hostVars, n, discovery, connOk, identityOk, flashOk, device, failed>>
      /\ uartOk' = (capture = "matched") /\ flashOk = TRUE
  BY DEF EndUart, WhereInv, TypeInv
<1>2. uartOk' = TRUE /\ portOf[n].owner = Own =>
        /\ Prints(Own) # <<>>
        /\ Request.expect => Prints(Own) = Expected
  BY <1>1, UartProves
<1>3. \A c : Prints(c)' = Prints(c)
  BY <1>1 DEF Prints, Output
<1>4. VerdictInv'
  BY <1>1, <1>2, <1>3, SameBoard DEF VerdictInv, BoardSteps
<1>5. ASSUME NEW i \in BoardNumbers, ReferenceAsked(i), Damaged(i)
      PROVE  Damaged(i)'
  <2>1. /\ OnSameChip(i, n) /\ Prints(Own) = <<>> /\ Request.firmware # "none"
        /\ Prints(probeOf[i].uid) = <<>> /\ probeOf[i].uid = Own
    BY <1>1, <1>5 DEF Damaged, OnSameChip, Own
  <2>2. portOf[n].owner = Own
    BY <1>1, <1>5, <2>1 DEF ReferenceAsked, Request
  <2>3. uartOk' # TRUE
    BY <1>2, <2>1, <2>2
  <2> QED
    BY <1>1, <1>3, <2>1, <2>3, SameBoard DEF Damaged, BoardSteps
<1>6. \A i \in BoardNumbers :
        /\ ReferenceAsked(i)
        /\ Prints(probeOf[i].uid) = Expected \/ Damaged(i)
        => Prints(probeOf[i].uid)' = Expected \/ Damaged(i)'
  BY <1>1, <1>3, <1>5, SameBoard
<1>7. device' = device /\ step \in BoardSteps /\ UNCHANGED <<hostVars, discovery, n, failed>>
  BY <1>1 DEF BoardSteps
<1>8. PassedInv'
  BY <1>6, <1>7, SameBoard, PassedKept
<1> QED
  BY <1>4, <1>8

\* The flash of board n only touches its own chip, whose image is then the
\* reference, what it was, or torn.
LEMMA FlashStep ==
  ASSUME TypeInv, WhereInv, SerialNumbersWork, VerdictInv, PassedInv, Flash
  PROVE  VerdictInv' /\ PassedInv'
<1>1. /\ step = "flash" /\ step' \in {"uart", "fallback"}
      /\ Request.firmware # "none" /\ probeOf[n] # NoProbe
      /\ UNCHANGED <<hostVars, n, discovery, connOk, identityOk, uartOk, failed>>
      /\ n \in BoardNumbers /\ uartOk # TRUE /\ step \in BoardSteps /\ step' \in BoardSteps
  BY Marks DEF Flash, FlashSkipped, WhereInv, TypeInv, BoardSteps
<1>2. Own \in DOMAIN world.device /\ OpenSession(Board, Own) \subseteq {Own, NoDevice}
  BY <1>1, ProbeIsThere, OwnOnly DEF Own, TypeInv
<1>3. \/ device' = device
      \/ \E image \in {"reference", device[Own].image, Torn} :
           device' = [device EXCEPT ![Own].image = image]
  BY <1>1, <1>2, Marks DEF Flash, Own
<1>4. {"reference", device[Own].image, Torn} \subseteq Images
  BY <1>2 DEF TypeInv, Chip, Images
<1>5. \A c \in DOMAIN world.device :
        /\ device'[c].locked = device[c].locked
        /\ \/ Prints(c)' \in {Prints(c), Expected}
           \/ c = Own /\ Prints(c)' = <<>>
  <2>1. CASE device' = device
    BY <2>1 DEF Prints, Output
  <2>2. ASSUME NEW image \in {"reference", device[Own].image, Torn},
               device' = [device EXCEPT ![Own].image = image]
        PROVE  \A c \in DOMAIN world.device :
                 /\ device'[c].locked = device[c].locked
                 /\ \/ Prints(c)' \in {Prints(c), Expected}
                    \/ c = Own /\ Prints(c)' = <<>>
    <3>1. image \in Images
      BY <1>4
    <3>2. Output(image) \in {Expected, Prints(Own), <<>>}
      BY OutputFacts DEF Prints
    <3> QED
      BY <2>2, <3>1, <3>2, Reprogrammed
  <2> QED
    BY <1>3, <2>1, <2>2
<1>6. ASSUME NEW i \in BoardNumbers, i < n, probeOf[i] # NoProbe, ~device[probeOf[i].uid].locked
      PROVE  /\ ~device'[probeOf[i].uid].locked
             /\ /\ ReferenceAsked(i)
                /\ Prints(probeOf[i].uid) = Expected \/ Damaged(i)
                => Prints(probeOf[i].uid)' = Expected \/ Damaged(i)'
  <2>1. probeOf[i].uid \in DOMAIN world.device
    BY <1>6, ProbeIsThere
  <2>2. ~Damaged(i)
    BY <1>1 DEF Damaged
  <2>3. probeOf[i].uid = Own /\ Prints(probeOf[i].uid)' = <<>> => Damaged(i)'
    BY <1>1, SameBoard DEF Damaged, OnSameChip, Own, BoardSteps
  <2>4. \/ Prints(probeOf[i].uid)' \in {Prints(probeOf[i].uid), Expected}
        \/ probeOf[i].uid = Own /\ Prints(probeOf[i].uid)' = <<>>
    BY <1>1, <1>5, <2>1, SameBoard
  <2> QED
    BY <1>5, <1>6, <2>1, <2>2, <2>3, <2>4
<1> QED
  BY <1>1, <1>2, <1>5, <1>6, PassedKept, SameBoard DEF VerdictInv

\* The fallback may program, or tear, the chip of another board: it works, or
\* board n fails.
LEMMA FallbackStep ==
  ASSUME TypeInv, WhereInv, VerdictInv, PassedInv, Fallback
  PROVE  VerdictInv' /\ PassedInv'
<1>1. /\ step = "fallback" /\ step' = "uart" /\ Request.firmware # "none"
      /\ UNCHANGED <<hostVars, n, discovery, connOk, identityOk, uartOk, failed>>
      /\ n \in BoardNumbers /\ flashOk # FALSE /\ flashOk' \in BOOLEAN
      /\ uartOk # TRUE /\ step \in BoardSteps /\ step' \in BoardSteps
  BY Marks DEF Fallback, WhereInv, TypeInv, BoardSteps
<1>2. {FallbackImage, Torn} \subseteq Images /\ Output(FallbackImage) = Expected
      /\ Output(Torn) = <<>>
  BY OutputFacts DEF FallbackImage, Images
<1>3. \/ device' = device
      \/ \E d : device' = [device EXCEPT ![d].image = FallbackImage]
      \/ \E d : device' = [device EXCEPT ![d].image = Torn] /\ flashOk' = FALSE
  BY DEF Fallback
<1>4. \A c \in DOMAIN world.device :
        /\ device'[c].locked = device[c].locked
        /\ \/ Prints(c)' \in {Prints(c), Expected}
           \/ flashOk' = FALSE /\ Prints(c)' = <<>>
  <2>1. CASE device' = device
    BY <2>1 DEF Prints, Output
  <2>2. ASSUME NEW d, device' = [device EXCEPT ![d].image = FallbackImage]
        PROVE  \A c \in DOMAIN world.device :
                 /\ device'[c].locked = device[c].locked
                 /\ Prints(c)' \in {Prints(c), Expected}
    BY <1>2, <2>2, Reprogrammed
  <2>3. ASSUME NEW d, device' = [device EXCEPT ![d].image = Torn]
        PROVE  \A c \in DOMAIN world.device :
                 /\ device'[c].locked = device[c].locked
                 /\ Prints(c)' \in {Prints(c), <<>>}
    BY <1>2, <2>3, Reprogrammed
  <2> QED
    BY <1>3, <2>1, <2>2, <2>3
<1>5. ASSUME NEW i \in BoardNumbers, i < n, probeOf[i] # NoProbe, ~device[probeOf[i].uid].locked
      PROVE  /\ ~device'[probeOf[i].uid].locked
             /\ /\ ReferenceAsked(i)
                /\ Prints(probeOf[i].uid) = Expected \/ Damaged(i)
                => Prints(probeOf[i].uid)' = Expected \/ Damaged(i)'
  <2>1. probeOf[i].uid \in DOMAIN world.device
    BY <1>5, ProbeIsThere
  <2>2. \/ Prints(probeOf[i].uid)' \in {Prints(probeOf[i].uid), Expected}
        \/ flashOk' = FALSE /\ Prints(probeOf[i].uid)' = <<>>
    BY <1>1, <1>4, <2>1, SameBoard
  <2>3. flashOk' = FALSE /\ Prints(probeOf[i].uid)' = <<>> => Damaged(i)'
    BY <1>1, SameBoard DEF Damaged, BoardSteps
  <2>4. Damaged(i) /\ Prints(probeOf[i].uid)' = Prints(probeOf[i].uid) => Damaged(i)'
    BY <1>1, SameBoard DEF Damaged, BoardSteps
  <2> QED
    BY <1>4, <1>5, <2>1, <2>2, <2>3, <2>4
<1>6. connOk = TRUE => Own \in DOMAIN world.device
  BY <1>1, ProbeIsThere DEF VerdictInv, Own
<1> QED
  BY <1>1, <1>4, <1>5, <1>6, PassedKept, SameBoard DEF VerdictInv

\* A recover only erases a chip of a board that may be erased.
LEMMA RecoverStep ==
  ASSUME TypeInv, SerialNumbersWork, VerdictInv, PassedInv, Recover
  PROVE  VerdictInv' /\ PassedInv'
<1>1. /\ step = "recover" /\ step' \in {"reconnect", "summary"} /\ Request.recover
      /\ UNCHANGED <<hostVars, n, discovery, connOk, identityOk, flashOk, uartOk, failed>>
      /\ n \in BoardNumbers /\ step \in BoardSteps /\ step' \in BoardSteps
  BY DEF Recover, TypeInv, BoardSteps
<1>2. \/ device' = device
      \/ device' = [device EXCEPT ![Own] = [image |-> Erased, locked |-> FALSE]]
  <2>1. probeOf[n] # NoProbe => OpenSession(Board, probeOf[n].uid) \subseteq {Own, NoDevice}
    BY <1>1, ProbeIsThere, OwnOnly DEF Own, TypeInv
  <2> QED
    BY <2>1 DEF Recover
<1>3. \A c \in DOMAIN world.device :
        /\ ~device[c].locked => ~device'[c].locked
        /\ c # Own => Prints(c)' = Prints(c)
  <2>1. device \in [DOMAIN world.device -> Chip]
    BY DEF TypeInv
  <2>2. \A c \in DOMAIN world.device :
          \/ device'[c] = device[c]
          \/ c = Own /\ device'[c] = [image |-> Erased, locked |-> FALSE]
    BY <1>2, <2>1
  <2> QED
    BY <2>2 DEF Prints, Output
<1>4. ASSUME NEW i \in BoardNumbers, i < n, probeOf[i] # NoProbe, ~device[probeOf[i].uid].locked
      PROVE  /\ ~device'[probeOf[i].uid].locked
             /\ /\ ReferenceAsked(i)
                /\ Prints(probeOf[i].uid) = Expected \/ Damaged(i)
                => Prints(probeOf[i].uid)' = Expected \/ Damaged(i)'
  <2>1. probeOf[i].uid \in DOMAIN world.device
    BY <1>4, ProbeIsThere
  <2>2. ReferenceAsked(i) => probeOf[i].uid # Own
    BY <1>1 DEF ReferenceAsked, OnSameChip, Own, Request
  <2>3. ReferenceAsked(i) => Prints(probeOf[i].uid)' = Prints(probeOf[i].uid)
    BY <1>1, <1>3, <2>1, <2>2, SameBoard
  <2>4. Damaged(i) /\ Prints(probeOf[i].uid)' = Prints(probeOf[i].uid) => Damaged(i)'
    BY <1>1, SameBoard DEF Damaged, BoardSteps
  <2> QED
    BY <1>3, <1>4, <2>1, <2>3, <2>4
<1>5. connOk = TRUE => Own \in DOMAIN world.device
  BY <1>1, ProbeIsThere DEF VerdictInv, Own
<1> QED
  BY <1>1, <1>3, <1>4, <1>5, PassedKept, SameBoard DEF VerdictInv

\* Board n joins those that have passed only if its verdicts were good.
LEMMA SummariseStep ==
  ASSUME TypeInv, VerdictInv, PassedInv, Summarise
  PROVE  VerdictInv' /\ PassedInv'
<1>1. /\ step = "summary" /\ step \in BoardSteps /\ step' \in {"connect", "exit"}
      /\ n \in BoardNumbers /\ n' = n + 1 /\ n \in Nat
      /\ failed' = (failed \/ ~ItemsPass)
      /\ UNCHANGED <<hostVars, discovery, device>>
      /\ connOk' # TRUE /\ identityOk' # TRUE /\ uartOk' # TRUE
  BY Marks, BoardCount DEF Summarise, TypeInv, BoardSteps
<1>2. VerdictInv'
  BY <1>1 DEF VerdictInv
<1>3. UNCHANGED <<world, probeOf, portOf, BoardNumbers>>
      /\ \A i : ReferenceAsked(i)' <=> ReferenceAsked(i)
  BY <1>1 DEF hostVars, discovery, BoardNumbers, ReferenceAsked, OnSameChip
<1>4. ASSUME ~failed, ItemsPass, NEW i \in BoardNumbers, i < n + 1
      PROVE  /\ probeOf[i] # NoProbe /\ ~device[probeOf[i].uid].locked
             /\ world.boards[i].identity \in {NoVerdict, world.silicon[probeOf[i].uid]}
             /\ ReferenceAsked(i) => Prints(probeOf[i].uid) = Expected
  <2>1. CASE i < n
    <3>1. StillProven(i)
      BY <1>1, <1>4, <2>1 DEF PassedInv
    <3>2. ~Damaged(i)
      BY <1>4 DEF ItemsPass, Damaged
    <3> QED
      BY <3>1, <3>2 DEF StillProven
  <2>2. CASE i = n
    <3>1. connOk = TRUE /\ (Board.identity # NoVerdict => identityOk = TRUE)
          /\ (Request.firmware # "none" => uartOk = TRUE)
      BY <1>4 DEF ItemsPass
    <3>2. ReferenceAsked(n) => /\ Request.firmware # "none" /\ Request.expect
                               /\ ~Request.recover /\ portOf[n].owner = Own
      BY <1>1 DEF ReferenceAsked, OnSameChip, Request, Own
    <3> QED
      BY <1>1, <2>2, <3>1, <3>2 DEF VerdictInv, Own, Board
  <2>3. i < n \/ i = n
    BY <1>1, <1>4, BoardCount
  <2> QED
    BY <2>1, <2>2, <2>3
<1>5. PassedInv'
  <2>1. SUFFICES ASSUME ~failed', NEW i \in BoardNumbers, i < n' PROVE StillProven(i)'
    BY <1>3 DEF PassedInv
  <2>2. Prints(probeOf[i].uid)' = Prints(probeOf[i].uid)
    BY <1>1, <1>3 DEF Prints, Output
  <2> QED
    BY <1>1, <1>3, <1>4, <2>1, <2>2 DEF StillProven
<1> QED
  BY <1>2, <1>5

LEMMA ProvenStep ==
  TypeInv /\ WhereInv /\ TextInv /\ ProvenInv /\ [Next]_vars => ProvenInv'
<1> SUFFICES ASSUME TypeInv, WhereInv, TextInv, ProvenInv, [Next]_vars, SerialNumbersWork'
             PROVE  VerdictInv' /\ PassedInv'
  BY DEF ProvenInv
<1>1. world' = world
  BY DEF Next, vars, hostVars, HostStep, RunHostBootstrap, CheckProbes, NoPyocd,
         CheckTargetPacks, CheckPorts, CheckConnection, CheckIdentity, SkipFlash, Flash,
         Fallback, SkipUart, StartUart, UartStep, EndUart, SkipRecover, Recover, Summarise
<1>2. SerialNumbersWork /\ VerdictInv /\ PassedInv
  BY <1>1 DEF ProvenInv, SerialNumbersWork
<1>3. CASE HostStep \/ CheckProbes \/ CheckTargetPacks
  BY <1>3 DEF HostStep, CheckProbes, CheckTargetPacks, VerdictInv, PassedInv, BoardSteps
<1>4. CASE NoPyocd
  <2>1. step' = "exit" /\ n' = 1 /\ BoardNumbers' = BoardNumbers
    BY <1>1, <1>4 DEF NoPyocd, TypeInv, BoardNumbers
  <2>2. \A i \in BoardNumbers' : ~(i < n')
    BY <2>1, BoardCount
  <2> QED
    BY <2>1, <2>2 DEF VerdictInv, PassedInv, BoardSteps
<1>5. CASE CheckPorts
  <2>1. n' = 1 /\ BoardNumbers' = BoardNumbers
        /\ connOk' # TRUE /\ identityOk' # TRUE /\ uartOk' # TRUE
    BY <1>1, <1>5, Marks DEF CheckPorts, TypeInv, BoardNumbers, WhereInv, checks
  <2>2. \A i \in BoardNumbers' : ~(i < n')
    BY <2>1, BoardCount
  <2> QED
    BY <2>1, <2>2 DEF VerdictInv, PassedInv
<1>6. CASE CheckConnection \/ CheckIdentity
  BY <1>2, <1>6, ConnectionStep, IdentityStep
<1>7. CASE SkipFlash \/ SkipUart \/ StartUart \/ UartStep \/ SkipRecover
  BY <1>2, <1>7, SkipStep
<1>8. CASE Flash \/ Fallback
  BY <1>2, <1>8, FlashStep, FallbackStep
<1>9. CASE EndUart
  BY <1>2, <1>9, EndUartStep
<1>10. CASE Recover \/ Summarise
  BY <1>2, <1>10, RecoverStep, SummariseStep
<1>11. CASE UNCHANGED vars
  <2>1. UNCHANGED <<world, probeOf, portOf, n, device, step, failed, connOk, identityOk,
                    flashOk, uartOk, Own, Board, Request, BoardNumbers>>
    BY <1>11 DEF vars, hostVars, discovery, checks, Own, Board, Request, BoardNumbers
  <2>2. \A c : Prints(c)' = Prints(c)
    BY <2>1 DEF Prints, Output
  <2>3. \A i : /\ ReferenceAsked(i)' <=> ReferenceAsked(i)
               /\ OnSameChip(i, n)' <=> OnSameChip(i, n)
    BY <2>1 DEF ReferenceAsked, OnSameChip
  <2>4. \A i : StillProven(i)' <=> StillProven(i)
    BY <2>1, <2>2, <2>3 DEF StillProven, Damaged
  <2> QED
    BY <1>2, <2>1, <2>2, <2>4 DEF VerdictInv, PassedInv
<1> QED
  BY <1>3, <1>4, <1>5, <1>6, <1>7, <1>8, <1>9, <1>10, <1>11 DEF Next

\* Exit code 0 is about the bench as it is then (main, summarize_board): on
\* every bench where serial numbers work, every board's chip is unlocked and has
\* the configured identity, and where a reference image was asked for and read
\* on the chip's own port, the chip runs an image that prints the text.
THEOREM ExitZeroIsProven == Spec => []ExitZeroMeansProven
<1>1. Init => TypeInv /\ WhereInv /\ TextInv /\ ProvenInv
  <2>1. Init => TypeInv
    BY InitTypes
  <2>2. Init => WhereInv
    BY Marks DEF Init, Init0, WhereInv
  <2>3. Init => TextInv
    BY DEF Init, Init0, CaptureInit, TextInv
  <2>4. Init => ProvenInv
    BY DEF Init, Init0, ProvenInv, VerdictInv, PassedInv, BoardSteps
  <2> QED
    BY <2>1, <2>2, <2>3, <2>4
<1>2. TypeInv /\ WhereInv /\ TextInv /\ ProvenInv /\ [Next]_vars
        => (TypeInv /\ WhereInv /\ TextInv /\ ProvenInv)'
  BY TypeStep, WhereStep, TextStep, ProvenStep
<1>3. TypeInv /\ WhereInv /\ ProvenInv => ExitZeroMeansProven
  <2> SUFFICES ASSUME TypeInv, WhereInv, ProvenInv, exitCode = 0, SerialNumbersWork,
                      NEW i \in BoardNumbers
               PROVE  /\ ~device[probeOf[i].uid].locked
                      /\ world.boards[i].identity \in {NoVerdict, world.silicon[probeOf[i].uid]}
                      /\ ReferenceAsked(i) => Output(device[probeOf[i].uid].image) = Expected
    BY DEF ExitZeroMeansProven
  <2>1. step = "exit" /\ ~failed /\ n = Len(world.boards) + 1
    BY Marks DEF WhereInv
  <2>2. i < n
    BY <2>1, WorldTypes DEF TypeInv, BoardNumbers
  <2>3. StillProven(i) /\ ~Damaged(i)
    BY <2>1, <2>2 DEF ProvenInv, PassedInv, Damaged, BoardSteps
  <2> QED
    BY <2>3 DEF StillProven, Prints
<1> QED
  BY <1>1, <1>2, <1>3, PTL DEF Spec
=============================================================================
