# TLA+ models of the pyOCD debug MCP server and the programs around it

This directory holds TLA+ modules that model `src/src/pyocd_debug_mcp/` and the
host scripts `src/stage0_check.py` and `src/host_bootstrap.py`, the TLC
configurations that check them, and TLAPS proofs about them. Paths below are
relative to the package unless they start with `src/`.

1. [The system](#1-the-system)
2. [What is hard about it](#2-what-is-hard-about-it)
3. [Modules](#3-modules)
4. [Runs](#4-runs)
5. [Proofs](#5-proofs)
6. [Findings](#6-findings)
7. [Not modelled](#7-not-modelled)
8. [Plan](#8-plan)

## 1. The system

A debug server speaks MCP over stdio and drives one microcontroller through a
probe. Its clients are language models: an interactive agent, or the *turnkey
brain*, a loop that asks a model for one action per turn, executes it through
its own MCP client, and decides when a run is over. Around the two stand the
programs an operator uses: a shell that starts runs and opens saved ones, two
benchmark runners that score runs, a firmware build, and the scripts that bring
up a host and a board.

```
 operator --> host_bootstrap --> stage0_check          (probe, port, pack, board)
    |
    +--> shell / benchmark runner --request--> turnkey loop <--decision-- provider
                  |                                |    \
                  |                           MCP client   edit, west build
                  |                                |            |
                  |         watcher, guardrails    |        Zephyr cache
                  |                     debug server
                  |                          |
                  +--smoke test--> target control --> pyOCD, UART --> board
                                             |
                       runs/<session>/{events.jsonl, session.json, ...}
```

| component | state it keeps | operations | correct means |
|---|---|---|---|
| MCP debug server (`server.py`) | `_session_handle`, `_runtime_session`, one lock | one handler per tool | the hardware is touched only when guardrails and watcher let it; every path leaves handle, session and files in agreement |
| Session runtime (`services/session_runtime.py`) | `SessionRecord`; `runs/<id>/events.jsonl`, `session.json`; `runs/server-events.jsonl` | start, append_event, set_block, mark_recover_completed, close | files follow the record, ended sessions are never touched again |
| Convergence watcher (`services/convergence_watcher.py`) | none: it rescans the event log; blocks are kept in the record | observe_event, ensure_allowed | a family is blocked after that many identical consecutive failures, never otherwise |
| Guardrails (`guardrails/`) | none | resolve_flash_request, authorize_recover | one recover per session, only where the board supports it |
| Target control, pyOCD adapter (`services/target_control.py`, `adapters/swd_pyocd.py`) | the open probe | connect, flash, recover, memory, run control | a success means that the hardware did it |
| Turnkey loop (`brain/loop.py`) | `_LoopState`: session ids, verification, counters, run root | turns, green check, finalize, close | success is verified; runs end; brain and server agree on the session |
| MCP client (`brain/mcp_client.py`) | the stdio connection | call_tool with a timeout | an answer belongs to its request |
| Workspace and artifacts (`brain/workspace.py`, `brain/artifacts.py`) | snapshot, edited files, run directory | read, replace, build, diff | only allowed files are edited |
| Evidence, events (`brain/evidence.py`, `brain/events.py`) | append-only lists | record | - |
| Providers (`brain/provider_*.py`), skills, playbooks, board files | none | decide, load | - |
| Benchmark runners (`benchmark_support.py` with an agent in its own process, R11; `brain/benchmark.py` with the turnkey loop, R12) | the case's workspace, the preflight cache, reports | prepare, run, attribute the session, verify, score, accept | a score is earned on the board by the case it is filed under; a suite is accepted on evidence |
| Pack provisioning (`pack_provision.py`) | the pack directory | download, verify, move; discover at connect | connect never uses a pack that is not the pinned one |
| Probe selection, serial resolution (`probe_inventory.py`, `serial_resolver.py`) | - | list, score, choose | the probe and the port of this board, or none |
| UART capture (`services/uart_capture.py`) | the open port | capture until deadline | in time, and the expected text is found if it was printed while listening |
| Symbol reads (`services/symbols.py`) | - | halt, read, resume | a read leaves the core as it found it |
| Zephyr build (`zephyr_build.py`) | a cache of venv, workspace and SDK; a build directory per builder | ensure the runtime, build, copy | what counts as set up is whole; success leaves a fresh artifact |
| Host bootstrap and Stage 0 check (`src/host_bootstrap.py`, `src/stage0_check.py`), smoke test (`reference_smoke.py`) | a pyOCD session kept from the flash | identity, flash, UART, recover | exit code 0 means that all was shown |
| Operator shell, configuration (`ux/`, `brain/app.py`, `brain/config.py`) | the context of the operator; the saved runs | set, run, benchmark, show, rerun | a run does what its command says; a rerun what was saved |

Interaction is by call inside each process, and by request and reply over stdio
between brain and server. Beyond that they share `runs/` (the server journals
there, the brain renames directories there, benchmark runners look for new
directories, the shell reads them back), the firmware artifact (builds write it,
flash calls read it), the caches of packs and of Zephyr, and the board.

## 2. What is hard about it

- *Order and history.* The watcher decides from the whole log of a session; the
  recover guard from one bit written half way through a call; the brain from
  three counters with different limits and different rules of reset.
- *Partial failure.* A tool call acts on the hardware, changes the record and
  writes up to three times below `runs/`; any of it may raise.
- *Timeouts.* The brain stops waiting for a call that the server nevertheless
  executes later: a late flash can hit the board while the brain does something
  else, a late connect opens a session nobody knows.
- *Stale state.* `green_check_ok` survives a later flash; a second `connect`
  answers without a session id, so the brain forgets the one it had.
- *Termination.* Whatever the model decides, a run has to end and release the
  probe.
- *Shared caches without locks.* Packs and the Zephyr runtime are set up by any
  process that finds them missing; a killed one leaves half of them behind.
- *Time.* A capture alternates between short blocking reads, closed ports and a
  deadline, while the target prints only once.
- *Attribution.* A benchmark case learns from the agent, or from a directory that
  is new, which session was its own; anybody may make directories meanwhile.
- *Long sequences.* Reruns of reruns, cases on a board that an earlier case left
  broken, builds in a directory that an earlier app or a killed build left.

`PROJECT.json` lists each hazard with the line where it bites and the property
that would show it.

## 3. Modules

### DebugServer

One action per way through a tool handler. All handlers run under `_lock`, and
the MCP framework runs synchronous tools one at a time on its event loop, so a
handler is atomic; what the probe, the file system and the UART answer is chosen.

| TLA+ | code |
|---|---|
| `handle` | `_session_handle` with the board it was opened for (`Raw` without one) |
| `session`, `record` | `_runtime_session` and its `SessionRecord` |
| `runs`, `globalLines` | the session directories and `server-events.jsonl`, as line counts and the fields of `session.json` |
| `probeOpen`, `flash` | the hardware |
| `Record`, `Appended`, `Journaled` | `_record_event`, `append_event`, `_handle_mutation_event`, `set_block` |
| `Streak`, `Breaks`, `Signed`, `MustBlock` | `_matching_streak`, `_signature`, `observe_event` |
| `FlashRefusal`, `RecoverRefusal` | `resolve_flash_request`, `authorize_recover` |

An event is reduced to tool, outcome, code and the identity the watcher reads;
texts and timestamps are left out. The writes of a call are a choice
`w \in Writes` of the first one that fails, so each handler has a version for
every place at which it can break off: `ConnectUnrecorded` (the handle is kept
without a record), `DisconnectUnrecorded` and `DisconnectUnclosed` (the probe is
released, the handle stays), `RecoverUnrecorded` (erased, marked in memory only).
The tools that are journaled but not watched (registers, memory, breakpoints,
run control) share the action `PlainTool`.

### WatcherCounter, WatcherRefinement

What the watcher promises, with no log: a counter of identical consecutive
failures and a flag. `WatcherRefinement` instantiates it once per family, with
`last`, `count` and `blocked` read off the session's log and record.

### ServerContract, ServerRefinement

What a client of the server may rely on, with no record, log, watcher, guardrail
or probe: the live session, the number of sessions started, the content of the
flash, and for each tool and each of the four texts a client tells apart what the
call has done. `TurnkeyLoop` instantiates it as the server its requests go to.

`ServerRefinement` instantiates it over `DebugServer`. `Issued` counts the session
directories started, `Told` is what a client reads in the answer (`ToolTextResult`
knows refusals, blocks and errors; a notice names no session). `ImplementsContract`
says that every step is one of the contract (`Contract!Spec`) and moreover the
one that the tool and the answer of the call name (`ServesAsTold`).

Both are about a server whose writes to `runs/` succeed. A failing write breaks
the contract: `ConnectUnrecorded` raises and leaves a probe open without a session,
so that the next `connect` answers a notice, and a flash that answers "done", with
no session there; `DisconnectUnrecorded` raises when the probe is already closed.

### TurnkeyLoop

A run of the brain, its client, and the server as `ServerContract` has it. A turn is a decision of the provider; a turn that calls a
tool appends a request to `queue` and waits (`phase`). The server executes
requests in the order sent. `Timeout` ends a wait and leaves the request in the
queue; `ServeLate` executes it later and its reply is dropped.

| TLA+ | code |
|---|---|
| `LocalTurn`, `RunBuild`, `CallConnect`, `CallTool`, `StartGreenCheck`, `Finalize` | the branches of `run_turnkey`'s loop and `_execute_action` |
| `AnswerTool`, `Registered`, `Reconnected` | `_execute_server_tool`, `_register_session_id`, the reconnect rule of benchmarks |
| `AnswerGreen`, `AnswerGreenSerial` | the four steps of `_run_green_check` |
| `Promote` | `_promote_run_root` |
| `EndTurn` | the end of a turn; local convergence appears as a free choice `stop` |
| `Fails`, `GreenRaises` | exceptions `run_turnkey` turns into a result, and those it does not |
| `Close`, `Exit` | the final disconnect and the end of the client's context |

`"done"`, `"idle"`, `"declined"` and `"error"` are the only replies the brain
tells apart. The file of a flash request is read when the request is executed,
so a build in between changes what a late flash programs.

### LocalConvergence

The three counters behind `_check_local_convergence` (identical build failures,
repeated observations, fixes tested in vain), over every kind of turn that
touches them. A turn is its kind and outcome; equal turns stand for equal
observation signatures (classification, summary and result text), and turns that
differ only in the provider's wording are left out: they can only break a streak,
which any other turn does as well. `turns` is a history variable: it is what the properties
count from, the counters never read it.

### PackProvision

`ensure_pack` for one pack, broken up at its system calls, for any number of
processes on one directory. A file is an inode: `dest` and `part` are names, a
call may hold a handle, and a file lives as long as either refers to it, so a
second `open("wb")` of the part file empties the file another process is writing
and a rename moves it. `Write` stores a right or a wrong chunk, `EndOfDownload`
may come early, `DownloadFails` removes the part file by name, `Crash` ends a
call anywhere and leaves the directory as it is (a killed process; a power loss
that undoes writes is not modelled). `discover_local_packs` is what a connect
would load at that moment. `returned`, `overlapped` and `abandoned` are history.

### BoardDiscovery, HostBootstrap, UartCapture, Stage0Check

`BoardDiscovery` has no state: which probe and which port belong to a board, as
operators over sets (best score wins if it is the only one, serial numbers are
compared by digits and suffix, the two vendor tools, the fallbacks, the prompt).
`HostBootstrap` and `Stage0Check` decide with them.

`UartCapture` has a clock in units of 50 ms: a blocking read returns what has
arrived or times out, a window ends, the port is closed for `ReopenDelay` and
opened again, the deadline is looked at between reads only. The target prints
whenever it likes; what it prints while no port is open is lost.

`Stage0Check` extends both and is the composition an operator runs: first the
bootstrap, then for each board probe, target, port, connect, identity, flash,
UART, recover. Every check opens a pyOCD session of its own (the retry without
serial number included); only the one of a successful flash is kept, across the
UART check. `world` is chosen once: the boards asked for, the probes and ports
in sight, tools and arguments. `device` is the chip behind a probe.

### ZephyrBuild

Any number of builders on one cache. A builder is a process at a `step` of
`ensure_runtime` and `run_build`; each step makes one change to the cache or to
its build directory. A workspace is its parts (`none`, `half`, `whole`), an SDK
its content, its `sdk_version` marker and whether it came from the published
archive. `Cut` is a process killed in the middle of a step, or a command that
fails, with what it leaves (half of a module too, from `west update` and from the
fetch of one module by name); west runs in the venv or in the Python of a
toolchain that has the SDK. `Start` is the next process of the same builder,
perhaps for another app or after an edit. Two facts about the past are kept as
history: `spoiled` (an SDK install was cut short or met another one) and
`uncleaned` (a builder whose clean of a build directory was cut short).

### Benchmark

Both runners, from `prepare` to the exit code. A case is an id, a board, a kind
and whether the flash leaves the target halted; what the manifests say besides
agrees among the tracked cases of a kind. An image is the case it was built for
and whether it boots correctly. The agent is external: between `agent` and its
answer it may edit, build, flash, recover, make sessions and say anything. A
stranger may make directories at any time, a bench may lose its probe or port,
and `slips` counts all of that. `Verify` is `run_stage1_smoke`, `Attribute` and
`Report` find the session and score, the last step decides on acceptance.

Abstracted: statuses other than `blocked` and `diagnosed_only` are alike to the
scorer; ELF and hex of one build are one image; probe and port are parts of a
bench (the rules that choose them are in `BoardDiscovery`); the pilot's list of
ids is the known-good cases of the suite with its two boards; the run state of
the core is left out. An exception that nobody catches ends the suite and loses
its reports, as in the code.

### OperatorShell

The operator's `context`, the `environment` that `.env` files may fill in but not
change, the session the renderer saw last (`seen`), and `runs`, the directories
below `runs/` in the order they were created. The shell waits for a run, so a
run is one step; other processes leave runs between the steps. `Request` is what
`app.py` and `config.py` make of a command and what is saved with a run.
Commands that are refused, or fail with a `BrainConfigError`, change nothing and
have no action; other exceptions end the shell (`Crashes`). A flash artifact and
its ELF are one field. Port, iterations and serial seconds (`limits`) and
timeouts cannot be set in the shell, only by the command line programs.

### MC and proof modules

`MCDebugServer`, `MCTurnkeyLoop`, `MCLocalConvergence`, `MCPackProvision`,
`MCBringup` (for `Stage0Check`), `MCZephyrBuild`, `MCBenchmark` and
`MCOperatorShell` name the small constants; `DebugServerProofs`,
`TurnkeyLoopProofs`, `PackProvisionProofs`, `Stage0CheckProofs`,
`ZephyrBuildProofs`, `BenchmarkProofs`, `OperatorShellProofs` and
`LocalConvergenceProofs` hold the theorems. Definitions commented "Mutant of X" are plausible bugs of X; each
property is shown to fail when some X is replaced by its mutant.

## 4. Runs

| run | bounds | shows |
|---|---|---|
| `server_core` | 1 session, 4 events, an nRF board, a board without recover mode, no board, 2 UART expectations | record, handle and files agree; blocks are exact; the log-scanning watcher implements `WatcherCounter`, the server `ServerContract`; the flash changes only in allowed calls |
| `server_faults` | a session of 4 events, then one of 2, a board with recover or none, every write may fail | no block without evidence, one recover per session, files never ahead of the record, ended sessions are frozen |
| `turnkey_loop` | 5 turns, 1 timeout, both modes, one image good, one with a wrong symbol | a passed green check vouches for the artifact, success was verified, sessions agree, run root follows the session, runs end |
| `local_convergence` | 6 turns, 1 file with 2 edits, 2 compiler outputs | each of the three stops happens exactly when the history says so |
| `pack_provision` | 2 provisioners, 2 chunks, 4 inodes, any initial directory | calls one after the other never lose a verified pack nor leave an unverified one except by a kill; part files have an owner even when calls overlap |
| `bringup` | 18 benches (`MCBringup`), captures of 1 s | what the bootstrap calls ready the check finds; exit code 0 was proven on the chip as it is; captures end in time, the check ends |
| `zephyr_build` | 2 builders, 4 hosts, 6 command lines, 2 apps, 2 versions, 2 deaths or failed commands | a managed workspace is ready, an SDK trusted, a success fresh; retries repair all but listed leftovers |
| `benchmark` | 11 campaigns of 1 to 3 cases on 2 boards, 4, 2 or 1 slips | sessions belong to their case, full successes are earned, acceptance has evidence |
| `operator_shell` | 2 runs: a rerun, a rerun of a rerun, a suite of two cases, a view of a foreign run before a run without a session | guided commands edit as they say, reruns repeat what was saved, the shell selects its own newest session |
| `claim_*` | the same modules | the statements of section 6, each refuted |

*Bounds.* The longest threshold of the watcher is three (UART), so four events
hold a block, a near miss broken by another signature before it, and a refused
call after one. A connect is the first event of its session, so a flash or a
recover is blocked with the third event at the earliest and a UART read with the
fourth; with failing writes, four events also hold a block whose own write fails,
a blocked call, two failures parted by a success, which must not block, and a
second attempt to recover (refused as already used, also when mark or event of
the first never reached the disk). The session of two events after it shows
whether blocks, the recover mark or a file leak into the next one. `MaxEvents`
bounds each session by itself. A green check needs one turn, a flash
before it and one after it two more; with five turns a late call can arrive
before, within and after a check. Six turns hold every limit (3 + 1 equal turns,
two edit-test pairs after a baseline) and one turn before it. Two chunks let a
reader and a writer of one file meet half way; four inodes suffice for two names
and two handles. `bringup` reads for 20 units of 50 ms with windows of 15, a
pause of 3 and blocking reads of 1 to 4, so that the second window is cut by the
deadline and a read crosses it; `claim_listen` uses the same numbers with the
default of three seconds. Two deaths let a retry die as well. Three cases let the
first leave something behind for the third; a suite of more cases has fewer
slips. `MaxEvents`, `MaxGlobal`, `MaxSessions`, `MaxTimeouts`, `MaxTurns`,
`MaxVersion`, `MaxFaults`, `MaxSlips` and `MaxRuns` are bounds of the
exploration; `MaxIters` is a parameter of the code. In `operator_shell` the
operator has no image of its own (`Artifacts` is empty): it would be saved and
repeated exactly as the model is.

*What properties leave out.* Two of the `pack_provision` properties speak of
calls that do not overlap. They have to: without `~overlapped`, TLC shows one
process writing a wrong chunk into the file the other has just renamed and is
reading. `ExitZeroMeansProven` leaves out the worlds where a J-Link refuses its
serial number next to another probe (`SerialNumbersWork`): the retry without a
serial number may open the other one. What it says of the image leaves out
boards on a chip that a board reads on another chip's port (`ReferenceAsked`),
see section 6. `SdkTrusted` and `SuccessMeansFresh` except
what an interrupted install or clean has left, and `Recovers` is about a builder
that has the cache to itself (two can remove each other's SDK for ever) and lists
the leftovers no retry repairs (`Stranded`).

*Deadlock.* The server accepts calls until the bounds are reached and some call is
always left (an event-less `read_serial`); a builder and a provisioner can always
start again: TLC checks for deadlock there. A turnkey run, a local convergence
run, the bring-up, a benchmark suite and a shell end, so their configurations
switch the check off.

*Symmetry.* `local_convergence` permutes edits and compiler outputs: the module
only compares them. No run with a liveness or action property uses symmetry.

*View.* `server_faults` tells states apart by `SessionView`, which leaves out
`flash` and `reply`. No guard and no property of this run reads either, so states
that agree on the rest have the same successors up to them, and nothing that the
properties see is lost. The runs that do look at flash or answers (`server_core`,
`claim_flashed`) use no view.

*Fairness.* `TurnkeyLoop`: provider calls and builds run under a timeout, so a
turn is always taken (WF of `Turn`); a wait ends with an answer or by the
client's timeout (WF of `Answer \/ Expire`); the end of a run is straight-line
code (WF of `Close \/ Exit`). The code lets every wait time out. The model allows
`MaxTimeouts` of them, so for the others it assumes that the requests ahead in
the queue are eventually executed (WF of `Late` while waiting), which stands for
the timeout the bound has taken away. Nothing is assumed about calls nobody
waits for. `Stage0Check` (WF of `Next`): one sequential script whose reads have
timeouts; every step takes time or makes progress. `ZephyrBuild`: a process that
was started runs on (WF of `Progress` of each builder), and an operator whose
build failed tries again (WF of `Start`).

## 5. Proofs

TLAPS checks, for every value of the constants:

| theorem | of | from |
|---|---|---|
| `Typing`, `TypeCorrect` | `DebugServer` | the types, and "a session record has a handle" (without which a record could be appended to by a server that has none) |
| `NoBlockWithoutEvidence` | `DebugServer` | `RecordStep`; writes may fail |
| `BlocksAreExact` | `DebugServer` | the same, with `~StorageFaults`: a failing write may skip the block that was due |
| `RecoverOnce` | `DebugServer` | a strengthening: one success at most, none unless marked |
| `EndedRunsStay`, `FilesStayBehind` | `DebugServer` | `StoreStep`; writes may fail |
| `SessionsHaveHandles`, `FilesAgree` | `DebugServer` | `Sound`, below, with `~StorageFaults`: a failing write breaks both |
| `FlashIsGuarded` | `DebugServer` | types; writes may fail |
| `WatcherRefinesCounter` | `WatcherRefinement` | `StreakAppend` and "one streak per family is running", with `~StorageFaults` |
| `ServerKeepsContract` | `ServerRefinement` | `Sound` and `InOrder`, below, with `~StorageFaults` |
| `TypeCorrect` | `TurnkeyLoop` | types |
| `GreenChecksAreSound` | `TurnkeyLoop` | `GreenInv`, below |
| `SuccessesAreVerified`, `OneSessionToldOf` | `TurnkeyLoop` | `SuccessInv`: a pass is behind every `greenOk`, and two sessions told end a benchmark at once |
| `RootsFollowSessions` | `TurnkeyLoop` | `RootInv`: directories taken over and the one in use are of different, earlier sessions |
| `NoTimeoutNoDisagreement` | `TurnkeyLoop` | `AgreeInv`, below |
| `TypeCorrect`, `PartIsOwned` | `PackProvision` | `TypeInv`; the names and handles in use never exhaust `Files` (a cardinality argument) |
| `PackStays`, `UnpinnedIsChecked` | `PackProvision` | `AloneInv`: what the directory holds at each step of a call that is alone |
| `CapturesEndInTime` | `Stage0Check` | `ClockInv`: how far the clock may be past a window or the deadline in each state of a capture |
| `ReadyHostsFindBoards` | `Stage0Check` | `FoundInv`, below |
| `ExitZeroIsProven` | `Stage0Check` | `ProvenInv` with `WhereInv` and `TextInv`, below |
| `TypeCorrect` | `Stage0Check` | `TypeInv`, with the types of a bench (`WorldTypes`) |
| `WorkspaceReady` | `ZephyrBuild` | `ControlInv`, `ReadyInv`: a workspace only grows, and each step knows which parts are there |
| `SdkIsTrusted` | `ZephyrBuild` | `GenuineInv`, `InstallInv`: while nothing is spoiled one builder installs at most |
| `SuccessIsFresh` | `ZephyrBuild` | `DirInv`: a directory that was not left half cleaned holds artifacts of one app |
| `TypeCorrect` | `ZephyrBuild` | `RestInv` |
| `SessionsAreRight` | `Benchmark` | `SessionInv`: directories newer than `before` belong to the case |
| `FullSuccessIsEarned` | `Benchmark` | `FiledInv` with the score lemmas, below |
| `AcceptanceHasEvidence` | `Benchmark` | `FiledInv`, `SmokedInv` and three of four in `NeededFacts` |
| `TypeCorrect` | `Benchmark` | `TypeInv`, scores are percentages |
| `GuidedCommands`, `RerunsRepeat`, `OwnSessionSelected`, `TypeCorrect` | `OperatorShell` | `ShellInv`, below |
| `TypeCorrect`, `StopsWhenTurnsRepeat`, `StopsWhenBuildsFailAlike`, `StopsWhenFixesAreInVain` | `LocalConvergence` | `TypeInv`, `StreakInv`, `BuildInv`, `StagInv`, below |

They assume the named `ASSUME`s of the modules (finite sets, thresholds and bounds
that are numbers, constants that are not each other) and nothing else; each
module says what its assumption is about, and TLC evaluates it in a run.

*DebugServer.* Every tool call does one of six things to the live record
(nothing, empty it, start it, append, close, recover). `RecordStep` says so; one
lemma maps each action to it, and the invariants are proved of `RecordStep`
alone. The core of the block theorems is `StreakAppend`: appending an event
lengthens the streak of its own signature by one, empties the streaks of its
family that it breaks and leaves all others alone. Hence a streak reaches the
threshold exactly in the call that sets the block, and, since blocked calls
record events that count for nothing, stays there. The same lemma carries the
refinement: at most one streak of a family is running, `last` is its signature
and `count` its length, and one more event changes them as the counter changes.

What a call does to the files is `StoreStep`, again for all actions at once.
`Behind` (the files say no more than a record) holds however the call breaks
off, because every write follows the change of the record it is about. `Sound`
adds, for calls that do not break off, that the live session's files say exactly
what its record says and that all other sessions are ended ones; without the
second part a `connect` could start in a directory with lines in it.

That the server implements its contract takes two facts about it. `Sound` ties
session, handle and probe together, so that each answer "done" and each error of a
call on the hardware was given with a session. `InOrder`, the sessions started are
the first ones, makes the number a `connect` hands out the count of those before
it plus one. Each action is then one step of the contract, with the tool and the
text of its own answer. A reply does not say whether the client had asked to leave
the target halted, so `ServesAsTold` lets the contract choose; the lemma
`FlashAsAsked` says it of the parameter of the call: an answered flash that was to
halt has stored the image.

*TurnkeyLoop.* `GreenCheckSound` is not inductive: nothing in it keeps a late
flash from changing the target between two steps of a check. `GreenInv` says
why it cannot. While the brain waits for the flash of a green check, that
request is the last in the queue; requests are executed in order, so when it is
answered nothing else is left, and until the check is over the queue holds the
awaited request alone and the flash holds the artifact. `AgreeInv` is about
histories before the first timeout: nothing is ever executed late, the queue
holds the awaited request or nothing, the requests of a green check do not touch
the session, and each answer tells the brain what became of it.

*PackProvision.* `PartHasOwner` holds also when calls overlap. `ReturnedPackStays`
does not, so `AloneInv` speaks of histories without overlap: it says for each
step of the only call what `dest` and `part` hold, and that a part file from
before was abandoned.

*Stage0Check.* The bootstrap and the check decide for themselves which probe and
which port a board has, with different fallbacks. `SameProbe` and `SamePort` show
that for one board without a port override the check's rule chooses whatever the
bootstrap's rule found unambiguous; `FoundInv` carries what the bootstrap saw to
the step that looks for it. Between the two, packages and packs are only added.

`ExitZeroMeansProven` looks back from the end, when later boards may have
programmed, torn or erased what an earlier one was judged by. `VerdictInv` says
what the verdicts on the board in hand say of the bench as it is; for the UART
that needs the capture to have read what the chip prints now and not something
longer: without resets there is one run of the image to read from (`TextInv`),
and the session that resets is one whose flash has just stored the reference
image (`WhereInv`). `PassedInv` says what is still true of the boards before it:
they print the expected text unless the board in hand has damaged their chip
(`Damaged`), which it can only do by a flash that failed, or one after which it
will read that same chip. Either way it fails, and so does the script.

*ZephyrBuild.* The cache is shared, so what a builder has seen may have changed
when it acts. The workspace is safe because no step takes anything away from it;
the SDK is not, and `InstallInv` needs "at most one installer" until an overlap
is recorded as `spoiled`.

*Benchmark.* A full success has at least 85 points; `ScoreFacts` shows that a
block or a recover leaves at most 75 and that edits in the wrong place or a wrong
diagnosis are not an intervention or not correct. What is then left is that the
verification was of this case's artifact, which is in `FiledInv` together with
what a report remembers of its case.

*LocalConvergence.* The brain keeps three counters, the properties speak of the
history. Each counter is the length of an end of the history: of the turns equal
to the last one, of the builds since the failures became alike, of the tests of
fixes since the verification changed. Most of the argument is what one more turn
does to such an end (`BuildsGrow`, `TestsGrow`); it is carried out on histories
given as arguments, before and after the turn.

*OperatorShell.* Runs are only appended. `ShellInv` says that every saved run is
`Good`: typed, true to its command, and, if it is a rerun, equal to the run it
repeats in what must be equal. It is enough to show that a new run is good, given
that the old ones are. `seen` is the newest session of the shell's own runs as
long as the shell is open.

*Only model-checked*: `Terminates`, `Exits` and `Recovers`, which are liveness
under fairness and out of TLAPS's reach; every other property of a passing run is
a theorem. The
`claim_*` properties are refuted, so nothing is proved of them.

## 6. Findings

Each run `claim_*` refutes one statement of the repository. `PROJECT.json` quotes
the line.

- `claim_flashed`: `flash` with `halt_after_reset=False` swallows a transfer error
  at any step, not only at the final reset; it reports success over a torn image.
- `claim_success_holds`: `finalize` accepts a green check that a later flash has
  made obsolete.
- `claim_listen`: a capture is said to listen for `--serial-read-seconds` (three
  by default); one that hears nothing gives up after two windows, 1.65 s.

Seen while modelling, and part of the models, but not stated as runs:

- When `start_session` cannot write, `connect` raises but keeps the handle;
  `unlock_recover` then erases without a session record, as often as asked.
- A connect that times out and is executed late is a second session that the
  one-session rule of a benchmark case never counts.
- The run root is promoted for every new session id; the second promotion
  merges over and renames the directory of the first session.
- Two build failures "with no file change" are compared by the names of the
  changed files; another edit of the same file does not count.
- Recording a benchmark case hashes its artifact; if a failed clean build has
  removed it, the exception ends the suite and its reports are lost.
- A saved run without a session has no date and is listed before all others for
  good (`Before`), and `/artifacts` without a selected session shows it.
- `/rerun` drops the timeouts of the saved request, and the limits of a case.
- Two boards on one chip: the flash of the second tears the image, the `nrfjprog`
  fallback, which is given no serial number, programs another J-Link and reports
  success, and the second board reads that one's port. Exit code 0, and the chip
  the two boards share is torn.
- A mistyped `/board` is accepted; the next task raises `ConfigError`, which the
  shell does not catch, and the context is gone (`Crashes`).

## 7. Not modelled

- The decision providers: a decision is chosen freely. Skills and playbooks are
  text for their prompts. `brain/evidence.py` and `brain/events.py` record what
  has happened; nothing is decided from them. Board files hold no state.
- The startup of server and providers, and file errors while a run root is
  promoted or artifacts are written.
- Replies that arrive after their timeout: the client has dropped the request's
  future, so they reach nobody.
- The loop takes any text of `read_serial` other than a match for a miss, refusals
  and blocks included, and so does the model. Only a green check tells them apart:
  it ends on a refusal without a verdict.
- A torn or erased flash matches no expected text or symbol.
- `TurnkeyLoop` sees the server through `ServerContract`: a blocked call is a
  declined one like any refusal, and writes to `runs/` succeed. `DebugServer` has
  the watcher and the failing writes; that it keeps the contract is shown for
  `~StorageFaults` only.
- The resume of a core that was running when a symbol was read: every caller that
  is modelled has halted it before.
- What the shell, the scripts and the runners print, the parsing of commands and
  tables, the texts of manifests and reports, and paths on Windows.
- R12 has no preflight in the code, so the model has none.

## 8. Plan

In order of importance:

1. A contract that also covers failing writes below `runs/` (a probe open without
   a session, a session whose probe is closed), and `TurnkeyLoop` over it.
2. `RunRoot`: promotion, merging and renaming of run directories file by file;
   `Workspace`: the guard of edits.
3. `SwdFlash` (its steps and what it swallows) and `SymbolRead` (halt, read,
   resume around a failing read).
