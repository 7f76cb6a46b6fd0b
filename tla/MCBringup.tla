------------------------------- MODULE MCBringup ------------------------------
(* The benches Stage0Check is checked on.  Clock unit: 50 ms.                *)
EXTENDS Stage0Check

CONSTANTS x, y

Greeting == <<x, y>>
PinnedTargets == {"nrf52840", "stm32l4"}
HintsOf == [jlink |-> {"jlink"}, stlink |-> {"stlink"}]

\* Unique ids: a J-Link's decimal number, an ST-LINK's hexadecimal string.
dk == <<0, 1, 0, 5>>
dk2 == <<0, 2, 0, 7>>
nucleo == <<0, 6, 15, 15>>

Nrf == [family |-> "jlink", nordic |-> TRUE, target |-> "nrf52840",
        probeHints |-> {"nrfdk"}, portHints |-> {"jlinkcdc"}, identity |-> "nrf",
        recoverNeeded |-> TRUE, recoverMode |-> "nrf_pyocd_unlock"]
Stm == [family |-> "stlink", nordic |-> FALSE, target |-> "stm32l4",
        probeHints |-> {"nucleo"}, portHints |-> {"stcdc"},
        identity |-> NoVerdict, recoverNeeded |-> FALSE, recoverMode |-> "none"]
Manual == [Stm EXCEPT !.recoverNeeded = TRUE, !.recoverMode = "manual_only"]

Dk == [uid |-> dk, text |-> {"jlink", "nrfdk"}]
Dk2 == [uid |-> dk2, text |-> {"jlink"}]
Nucleo == [uid |-> nucleo, text |-> {"stlink", "nucleo"}]

Port(name, serial, text, owner) ==
  [device |-> name, serial |-> serial, text |-> text, mentions |-> {},
   bridge |-> FALSE, owner |-> owner]
DkPort == Port(1, <<1, 0, 5>>, {"jlinkcdc"}, dk)
DkSecond == Port(2, <<1, 0, 5>>, {"jlinkcdc"}, dk)
Dk2Port == Port(6, <<2, 0, 7>>, {}, dk2)
NucleoPort == Port(3, <<>>, {"stcdc"}, nucleo)
NucleoQuiet == Port(4, <<>>, {}, nucleo)
Bridge == [Port(5, <<>>, {}, NoDevice) EXCEPT !.bridge = TRUE]

Ask == [firmware |-> "elf", expect |-> TRUE, recover |-> FALSE,
        override |-> NoPort]
Fresh == [image |-> "old", locked |-> FALSE]
NoTools == [nrfjprog |-> Absent, stm32cli |-> Absent]

\* One DK on a host that has everything.
DkBench ==
  [boards |-> <<Nrf>>, requests |-> <<Ask>>, probes |-> <<Dk>>, api |-> {Dk},
   table |-> {}, ports |-> {DkPort}, packages |-> Packages,
   targets |-> PinnedTargets, installMissing |-> FALSE, installPacks |-> FALSE,
   byId |-> TRUE, interactive |-> FALSE, tools |-> NoTools, nrfjprog |-> FALSE,
   jlinks |-> {dk}, siblingHex |-> FALSE, silicon |-> (dk :> "nrf"),
   flaky |-> {}, device |-> (dk :> Fresh)]

TwoBench ==
  [DkBench EXCEPT
     !.boards = <<Nrf, Stm>>, !.requests = <<Ask, Ask>>,
     !.probes = <<Dk, Nucleo>>, !.api = {Dk, Nucleo},
     !.ports = {DkPort, DkSecond, NucleoPort, Bridge},
     !.tools = [nrfjprog |-> {[probe |-> dk, port |-> 2, vcom |-> 1],
                              [probe |-> dk, port |-> 1, vcom |-> 0]},
                stm32cli |-> {[probe |-> nucleo, port |-> 3, vcom |-> 0]}],
     !.silicon = (dk :> "nrf") @@ (nucleo :> "stm"),
     !.device = (dk :> Fresh) @@ (nucleo :> Fresh)]

Benches == {
  DkBench,
  \* A locked chip, recovered on request, with any output good enough.
  [DkBench EXCEPT !.device = dk :> [Fresh EXCEPT !.locked = TRUE],
                  !.requests = <<[Ask EXCEPT !.recover = TRUE, !.expect = FALSE]>>],
  \* A probe and a port that only the single-device rules can assign.
  [DkBench EXCEPT !.boards = <<Stm>>, !.probes = <<[Nucleo EXCEPT !.text = {"stlink"}]>>,
                  !.api = {}, !.table = {[Nucleo EXCEPT !.text = {"stlink"}]},
                  !.ports = {NucleoQuiet},
                  !.silicon = nucleo :> "stm", !.device = nucleo :> Fresh],
  [DkBench EXCEPT !.boards = <<Stm>>, !.probes = <<[Nucleo EXCEPT !.text = {"stlink"}]>>,
                  !.api = {[Nucleo EXCEPT !.text = {"stlink"}]},
                  !.ports = {NucleoPort, DkPort},
                  !.silicon = nucleo :> "stm", !.device = nucleo :> Fresh],
  \* Nothing installed; host_bootstrap.py and stage0_check.py provision it.
  [DkBench EXCEPT !.packages = {"pyocd"}, !.targets = {},
                  !.installMissing = TRUE, !.installPacks = TRUE],
  [DkBench EXCEPT !.packages = {}, !.targets = {}, !.byId = FALSE],
  [DkBench EXCEPT !.requests = <<[Ask EXCEPT !.firmware = "none"]>>,
                  !.packages = {"pyocd"}, !.targets = {}],
  \* Two boards, each found by its hints and the vendor tools.
  TwoBench,
  \* The same without their targets: provisioning may fail for one of them.
  [TwoBench EXCEPT !.targets = {}, !.installPacks = TRUE],
  \* Two J-Links, one of which refuses its serial number.
  [TwoBench EXCEPT !.probes = <<Dk2, Dk>>, !.api = {}, !.table = {Dk, Dk2},
                   !.boards = <<Nrf, [Nrf EXCEPT !.probeHints = {"jlink"}]>>,
                   !.requests = <<[Ask EXCEPT !.recover = TRUE], Ask>>,
                   !.nrfjprog = TRUE, !.jlinks = {dk, dk2}, !.siblingHex = TRUE,
                   !.flaky = {dk},
                   !.silicon = (dk :> "nrf") @@ (dk2 :> "nrf"),
                   !.device = (dk :> Fresh) @@ (dk2 :> Fresh)],
  \* A locked J-Link that refuses its serial number, next to an ST-LINK.
  [TwoBench EXCEPT !.boards = <<[Nrf EXCEPT !.identity = NoVerdict]>>,
                   !.requests = <<[Ask EXCEPT !.firmware = "none"]>>,
                   !.probes = <<Nucleo, Dk>>, !.flaky = {dk},
                   !.device = (dk :> [Fresh EXCEPT !.locked = TRUE])
                                @@ (nucleo :> Fresh)],
  \* The fallback programmer, which may pick the other J-Link.
  [DkBench EXCEPT !.requests = <<[Ask EXCEPT !.firmware = "hex"]>>,
                  !.nrfjprog = TRUE, !.jlinks = {dk, dk2},
                  !.silicon = (dk :> "nrf") @@ (dk2 :> "nrf"),
                  !.device = (dk :> Fresh) @@ (dk2 :> [Fresh EXCEPT !.image = Erased])],
  \* Unsupported or missing artifacts, another chip, a port of nobody.
  [DkBench EXCEPT !.requests = <<[Ask EXCEPT !.firmware = "unsupported"]>>],
  [DkBench EXCEPT !.requests = <<[Ask EXCEPT !.firmware = "missing",
                                             !.override = Bridge]>>,
                  !.boards = <<Manual>>, !.ports = {NucleoPort}],
  [DkBench EXCEPT !.silicon = dk :> "other"],
  [DkBench EXCEPT !.ports = {Bridge, NucleoPort}, !.interactive = TRUE],
  \* One probe, two boards: each of them matches it.
  [DkBench EXCEPT !.boards = <<Nrf, Nrf>>, !.requests = <<Ask, Ask>>],
  \* The same, with the fallback programmer on another J-Link, whose port the
  \* second board is told to read.
  [DkBench EXCEPT !.boards = <<Nrf, Nrf>>,
                  !.requests = <<[Ask EXCEPT !.firmware = "hex"],
                                 [Ask EXCEPT !.firmware = "hex",
                                             !.override = Dk2Port]>>,
                  !.ports = {DkPort, Dk2Port},
                  !.nrfjprog = TRUE, !.jlinks = {dk, dk2},
                  !.silicon = (dk :> "nrf") @@ (dk2 :> "nrf"),
                  !.device = (dk :> Fresh) @@ (dk2 :> Fresh)]
}

-----------------------------------------------------------------------------
(* The help of --serial-read-seconds: "How long to listen for UART output  *)
(* after opening the port."  A capture that gives up has listened that     *)
(* long.  It has not: two windows of 0.75 s are all it ever opens.         *)
ListensAsAsked == capture = "silent" => now >= ReadSeconds
=============================================================================
