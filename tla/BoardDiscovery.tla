---------------------------- MODULE BoardDiscovery ----------------------------
(***************************************************************************)
(* Which debug probe and which serial port belong to a board: the pure     *)
(* decisions of probe_inventory.py and serial_resolver.py.  The host       *)
(* bootstrap, the Stage 0 check, the smoke verifier and the server all     *)
(* decide with them.                                                       *)
(*                                                                         *)
(* A board is a record with the fields family, nordic (its MCU is an nRF), *)
(* probeHints and portHints (sets of terms); a probe has uid and text; a   *)
(* port has device, serial, text, mentions and bridge.  Searchable texts   *)
(* are sets of the terms they contain; unique ids and serial numbers are   *)
(* sequences of characters, since they are compared by digits and suffix.  *)
(***************************************************************************)
EXTENDS Integers, FiniteSets, Sequences, SequencesExt

CONSTANTS NoProbe, NoPort, NoUid,
          Absent,       \* a vendor tool that is not installed or fails
          FamilyHints   \* family of probe -> terms that name it

(* Characters: 0..9 the digits, 10..35 the letters, 36 anything else.      *)
IsDigit(c) == c < 10
IsAlnum(c) == c < 36

(* How many of the hint terms occur in a text.                             *)
ScoreTerms(text, hints) == Cardinality(text \cap hints)

(* What has the highest score (a function), nothing if that is zero.       *)
Best(score) ==
  {x \in DOMAIN score :
     score[x] > 0 /\ \A y \in DOMAIN score : score[y] <= score[x]}

-----------------------------------------------------------------------------
(* pick_probe_for_board: the only probe with the best score; one probe of  *)
(* the right family may be assumed when nothing matches.                   *)
PickProbe(board, probes, allowSingleFallback) ==
  LET best == Best([p \in probes |-> ScoreTerms(p.text, board.probeHints)])
      only == CHOOSE p \in probes : TRUE
  IN  IF best # {}
        THEN IF Cardinality(best) = 1 THEN CHOOSE p \in best : TRUE ELSE NoProbe
        ELSE IF /\ allowSingleFallback
                /\ Cardinality(probes) = 1
                /\ ScoreTerms(only.text, FamilyHints[board.family]) > 0
               THEN only
               ELSE NoProbe

(* list_connected_probes: the pyOCD API, else the table of `pyocd list     *)
(* --probes`, else that of plain `pyocd list`; api, table and plain are    *)
(* the sets of probes each of them shows.                                  *)
ListConnectedProbes(api, table, plain) ==
  IF api # {} THEN api ELSE IF table # {} THEN table ELSE plain

-----------------------------------------------------------------------------
Normalized(s) == SelectSeq(s, IsAlnum)
Digits(s) == SelectSeq(s, IsDigit)

(* A number without its leading zeros.                                     *)
StripZeros(s) ==
  LET nonzero == {i \in DOMAIN s : s[i] # 0}
  IN  IF nonzero = {}
        THEN <<0>>
        ELSE SubSeq(s, CHOOSE i \in nonzero : \A j \in nonzero : i <= j, Len(s))

NumericSerialVariants(s) ==
  ({Normalized(s), Digits(s)} \ {<<>>})
    \cup (IF Digits(s) = <<>> THEN {} ELSE {StripZeros(Digits(s))})

(* probe_uid_matches_serial: equal, equal as numbers, or one the end of    *)
(* the other.                                                              *)
ProbeUidMatchesSerial(uid, serial) ==
  /\ uid # <<>> /\ serial # <<>>
  /\ \/ NumericSerialVariants(uid) \cap NumericSerialVariants(serial) # {}
     \/ IsSuffix(Normalized(serial), Normalized(uid))
     \/ IsSuffix(Normalized(uid), Normalized(serial))

Linked(uid, port) == uid # NoUid /\ ProbeUidMatchesSerial(uid, port.serial)
Mentioned(uid, port) == uid # NoUid /\ uid \in port.mentions

(* _generic_candidates: hints of the board, a link to its probe, and one   *)
(* point for a USB-to-serial bridge.                                       *)
GenericCandidates(board, ports, uid) ==
  Best([p \in ports |->
          ScoreTerms(p.text, board.portHints)
            + (IF Linked(uid, p) THEN 100
               ELSE IF Mentioned(uid, p) THEN 10 ELSE 0)
            + (IF p.bridge THEN 1 ELSE 0)])

(* Rows [probe, port, vcom] of a vendor tool: those of the probe if there  *)
(* are any, else all of them.                                              *)
RowsOf(uid, rows) ==
  LET own == {r \in rows : uid # NoUid /\ ProbeUidMatchesSerial(uid, r.probe)}
  IN  IF own # {} THEN own ELSE rows

PortsNamed(names, ports) == {p \in ports : p.device \in names}

(* _resolve_nordic_serial: VCOM0 first, then the first port by name.       *)
NordicPort(board, ports, uid, nrfjprog) ==
  IF ~board.nordic \/ board.family # "jlink" \/ nrfjprog = Absent
    THEN NoPort
    ELSE LET rows == {r \in RowsOf(uid, nrfjprog) :
                        PortsNamed({r.port}, ports) # {}}
             Rank(r) == (IF r.vcom = 0 THEN 0 ELSE 1000) + r.port
         IN  IF rows = {}
               THEN NoPort
               ELSE LET first == CHOOSE r \in rows :
                                   \A s \in rows : Rank(r) <= Rank(s)
                    IN  CHOOSE p \in ports : p.device = first.port

(* _resolve_stlink_serial: the port, if the rows leave exactly one.        *)
StlinkPort(board, ports, uid, stm32cli) ==
  IF board.family # "stlink" \/ stm32cli = Absent
    THEN NoPort
    ELSE LET named == PortsNamed({r.port : r \in RowsOf(uid, stm32cli)}, ports)
         IN  IF Cardinality(named) = 1 THEN CHOOSE p \in named : TRUE ELSE NoPort

(* resolve_serial_port as the set of answers it can give: only the prompt  *)
(* for a choice leaves more than one.  tools has the rows of the two       *)
(* vendor tools.                                                           *)
ResolveSerialPort(board, ports, uid, override, allowSingleFallback, tools, interactive) ==
  LET candidates == GenericCandidates(board, ports, uid)
      only == CHOOSE p \in candidates : TRUE
      nordic == NordicPort(board, ports, uid, tools.nrfjprog)
      vendor == IF nordic # NoPort
                  THEN nordic ELSE StlinkPort(board, ports, uid, tools.stm32cli)
      prompt == IF candidates # {} THEN candidates ELSE ports
  IN  CASE override # NoPort ->
             {IF override \in ports THEN override ELSE NoPort}
        [] /\ override = NoPort
           /\ Cardinality(candidates) = 1
           /\ Linked(uid, only) \/ Mentioned(uid, only) -> {only}
        [] OTHER ->
             IF vendor # NoPort THEN {vendor}
             ELSE IF Cardinality(candidates) = 1 THEN {only}
             ELSE IF allowSingleFallback /\ Cardinality(ports) = 1 THEN ports
             ELSE IF interactive THEN prompt \cup {NoPort}
             ELSE {NoPort}
=============================================================================
