---------------------------- MODULE DebugServer ----------------------------
(***************************************************************************)
(* The MCP debug server: one live probe session, the runtime session record *)
(* kept beside it, the guardrails in front of the destructive tools, and    *)
(* the convergence watcher that blocks a family of tools after repeated     *)
(* identical failures.                                                      *)
(*                                                                          *)
(* Every tool body of server.py runs under one lock, so a tool call is one  *)
(* action.  What the hardware, the file system and the UART answer is       *)
(* chosen nondeterministically; a call that journals an event also chooses  *)
(* the first write to runs/ that fails, if StorageFaults allows any.        *)
(***************************************************************************)
EXTENDS Naturals, Sequences, FiniteSets

CONSTANTS
  Boards,         \* board configs a session can be opened with
  RecoverMode,    \* [Boards -> {"none", "manual_only", "nrf_pyocd_unlock"}]
  Raw,            \* the session was opened without any board config
  NoHandle,       \* _session_handle is None
  Images,         \* firmware images, identified by their sha256
  Paths,          \* explicit artifact paths a client may pass
  DefaultPath,    \* flash_firmware() without a path
  FlashRefusals,  \* codes resolve_flash_request refuses an explicit path with
  BackendErrors,  \* error codes of exceptions raised by the probe or the OS
  UartKeys,       \* (port, baudrate, expected text) of one capture
  NoKey,          \* no identity recorded in the event
  Erased, Torn,   \* flash contents after a mass erase / an interrupted write
  StorageFaults,  \* whether writes below runs/ may fail
  MaxSessions, MaxGlobal,   \* bounds of the exploration
  MaxEvents       \* ... and of the events of each session

ASSUME ServerConstants ==
  /\ RecoverMode \in [Boards -> {"none", "manual_only", "nrf_pyocd_unlock"}]
  /\ Raw \notin Boards
  /\ NoHandle \notin Boards \cup {Raw}
  /\ DefaultPath \notin Paths
  /\ NoKey \notin Images \cup Paths \cup UartKeys
  /\ StorageFaults \in BOOLEAN
  /\ MaxSessions \in Nat /\ MaxGlobal \in Nat
  /\ MaxEvents \in [1..MaxSessions -> Nat]
  /\ "" \notin FlashRefusals \cup BackendErrors
  /\ "recover/confirmation-required" \notin BackendErrors

VARIABLES
  handle,      \* _session_handle: NoHandle, or the board config it was opened with
  probeOpen,   \* the probe is really held open by this process
  flash,       \* what the target's flash holds
  session,     \* _runtime_session: number of the live session record, 0 for None
  record,      \* the in-memory SessionRecord of the live session
  runs,        \* runs/<session>/: [started, lines, count, blocked, recovered, closed]
  globalLines, \* lines of runs/server-events.jsonl
  reply        \* what the last tool call answered

vars == <<handle, probeOpen, flash, session, record, runs, globalLines, reply>>

----------------------------------------------------------------------------
(* Tools, events and what the watcher reads of an event.                    *)

FLASH_TOOL == "flash_firmware"
UART_TOOL == "read_serial"
RECOVER_TOOL == "unlock_recover"
Families == {FLASH_TOOL, UART_TOOL, RECOVER_TOOL}

Tools == Families \cup {"connect", "disconnect", "plain"}

Outcomes == {"success", "refused", "failed", "blocked"}
NoCode == ""
Keys == Images \cup Paths \cup UartKeys \cup {NoKey}

\* What authorize_recover refuses with; the watcher ignores a missing confirmation.
RecoverRefusals ==
  {"recover/no-session", "recover/no-board-config", "recover/confirmation-required",
   "recover/already-used", "recover/unsupported-mode", "recover/manual-only"}

Codes ==
  {NoCode, "memory/invalid-argument", "watch/repetition", "uart/invalid-argument",
   "uart/no-match", "flash/no-session", "flash/no-board-config",
   "flash/missing-default-artifact"}
  \cup FlashRefusals \cup RecoverRefusals \cup BackendErrors

ToolEvent == [tool : Tools, outcome : Outcomes, code : Codes, key : Keys]

Event(tool, outcome, code, key) ==
  [tool |-> tool, outcome |-> outcome, code |-> code, key |-> key]

\* The event counts as a failure of its family (_signature is not None).
Signed(e) ==
  \/ /\ e.tool = FLASH_TOOL
     /\ e.outcome \in {"failed", "refused"}
     /\ e.key # NoKey /\ e.code # NoCode
  \/ /\ e.tool = UART_TOOL
     /\ e.outcome = "failed" /\ e.code = "uart/no-match"
  \/ /\ e.tool = RECOVER_TOOL
     /\ e.outcome \in {"failed", "refused"}
     /\ e.code \notin {NoCode, "recover/confirmation-required"}

Signature(e) == <<e.tool, e.key, e.code>>

Threshold(family) == IF family = UART_TOOL THEN 3 ELSE 2

\* Mutant of Breaks: a success of any tool ends the run.
BreaksAcrossFamilies(e, s) ==
  \/ e.outcome = "success"
  \/ e.tool = s[1] /\ Signed(e) /\ Signature(e) # s

\* Scanning backwards, e ends the run of failures that carry signature s.
Breaks(e, s) ==
  /\ e.tool = s[1]
  /\ e.outcome = "success" \/ (Signed(e) /\ Signature(e) # s)

\* The indices _matching_streak counts: failures with signature s that no
\* later event of the family breaks.
Streak(events, s) ==
  {i \in 1..Len(events) :
     /\ Signed(events[i]) /\ Signature(events[i]) = s
     /\ \A j \in (i + 1)..Len(events) : ~Breaks(events[j], s)}

\* Mutant of MustBlock: all equal failures count, unbroken run or not.
MustBlockOverAll(events, e) ==
  Signed(e) /\ Threshold(e.tool) <= Cardinality(
    {i \in 1..Len(events) : Signed(events[i]) /\ Signature(events[i]) = Signature(e)})

\* observe_event asks for a block of the family of the event just recorded.
MustBlock(events, e) ==
  Signed(e) /\ Cardinality(Streak(events, Signature(e))) >= Threshold(e.tool)

----------------------------------------------------------------------------
(* The session store.                                                       *)

EmptyRecord ==
  [events |-> << >>, blocked |-> {}, recovered |-> FALSE, closed |-> FALSE]

NoRun == [started |-> FALSE, lines |-> 0, count |-> 0, blocked |-> {},
          recovered |-> FALSE, closed |-> FALSE]

SessionIds == 1..MaxSessions

\* _write_summary: session.json is rewritten from the record.
Summarised(run, rec) ==
  [run EXCEPT !.count = Len(rec.events), !.blocked = rec.blocked,
              !.recovered = rec.recovered, !.closed = rec.closed]

\* The first write of a call that raises: none, the append to events.jsonl,
\* the summary that follows it, or the summary that set_block writes.
Writes == IF StorageFaults THEN {"ok", "log", "summary", "block"} ELSE {"ok"}

WithEvent(rec, e) == [rec EXCEPT !.events = Append(@, e)]

\* Mutant of Appended: the record is extended after the writes, not before.
AppendedLast(rec, e, watched, w) ==
  IF w = "ok" /\ watched /\ MustBlock(Append(rec.events, e), e)
  THEN [WithEvent(rec, e) EXCEPT !.blocked = @ \cup {e.tool}]
  ELSE IF w = "ok" THEN WithEvent(rec, e) ELSE rec

\* append_event followed, for the watched tools, by _handle_mutation_event.
Appended(rec, e, watched, w) ==
  IF watched /\ w \in {"ok", "block"} /\ MustBlock(Append(rec.events, e), e)
  THEN [WithEvent(rec, e) EXCEPT !.blocked = @ \cup {e.tool}]
  ELSE WithEvent(rec, e)

\* One more line in events.jsonl.
Logged(run) == [run EXCEPT !.lines = @ + 1]

\* Mutant of Journaled: set_block does not rewrite the summary.
JournaledWithoutBlock(run, rec, e, watched, w) ==
  CASE w = "log" -> run
    [] w = "summary" -> Logged(run)
    [] OTHER -> Summarised(Logged(run), WithEvent(rec, e))

\* What reaches runs/<session> of the same call.
Journaled(run, rec, e, watched, w) ==
  CASE w = "ok" -> Summarised(Logged(run), Appended(rec, e, watched, w))
    [] w = "log" -> run
    [] w = "summary" -> Logged(run)
    [] w = "block" -> Summarised(Logged(run), WithEvent(rec, e))

\* A call that asks for no block has no fourth write to fail.
Attempted(rec, e, watched, w) ==
  w = "block" => watched /\ MustBlock(Append(rec.events, e), e)

\* _record_event for a call that leaves the session in place: to the live
\* record, or to the global log when there is none.
Record(e, watched, w) ==
  IF session = 0
  THEN /\ w \in {"ok", "log"}
       /\ globalLines < MaxGlobal
       /\ globalLines' = IF w = "log" THEN globalLines ELSE globalLines + 1
       /\ UNCHANGED <<record, runs>>
  ELSE /\ Len(record.events) < MaxEvents[session]
       /\ Attempted(record, e, watched, w)
       /\ record' = Appended(record, e, watched, w)
       /\ runs' = [runs EXCEPT ![session] = Journaled(@, record, e, watched, w)]
       /\ UNCHANGED globalLines

\* The answer of a call whose body ends with outcome o: a write that fails
\* turns it into an exception.
Answer(tool, o, w) ==
  reply' = [tool |-> tool, outcome |-> IF w = "ok" THEN o ELSE "raised"]

\* Most calls change nothing but the journal and the answer.
OnlyRecord(tool, o, e, watched, w) ==
  /\ Record(e, watched, w)
  /\ Answer(tool, o, w)
  /\ UNCHANGED <<handle, probeOpen, session>>

----------------------------------------------------------------------------
(* connect and disconnect.                                                  *)

Connected == handle # NoHandle

ConnectAgain(w) ==
  /\ Connected
  /\ OnlyRecord("connect", "returned", Event("connect", "success", NoCode, NoKey), FALSE, w)
  /\ UNCHANGED flash

ConnectFails(code, w) ==
  /\ ~Connected
  /\ OnlyRecord("connect", "raised", Event("connect", "failed", code, NoKey), FALSE, w)
  /\ UNCHANGED flash

\* Mutant of Fresh: every session writes to the same directory.
FreshReused(k) == k = 1

\* Session records are numbered in the order they are started.
Fresh(k) == ~runs[k].started /\ \A j \in 1..(k - 1) : runs[j].started

\* The handle is stored before the session record exists.
Connect(board, k, w) ==
  LET e == Event("connect", "success", NoCode, NoKey)
  IN  /\ ~Connected
      /\ Fresh(k)
      /\ w # "block"
      /\ handle' = board
      /\ probeOpen' = TRUE
      /\ session' = k
      /\ record' = Appended(EmptyRecord, e, FALSE, w)
      /\ runs' = [runs EXCEPT ![k] =
                    Journaled([NoRun EXCEPT !.started = TRUE], EmptyRecord, e, FALSE, w)]
      /\ Answer("connect", "returned", w)
      /\ UNCHANGED <<flash, globalLines>>

\* start_session raises: the handle stays, without any session record.
ConnectUnrecorded(board) ==
  /\ StorageFaults
  /\ ~Connected
  /\ handle' = board
  /\ probeOpen' = TRUE
  /\ reply' = [tool |-> "connect", outcome |-> "raised"]
  /\ UNCHANGED <<flash, session, record, runs, globalLines>>

DisconnectIdle(w) ==
  /\ ~Connected
  /\ OnlyRecord("disconnect", "returned", Event("disconnect", "success", NoCode, NoKey), FALSE, w)
  /\ UNCHANGED flash

\* Mutant of DisconnectFails: the handle is forgotten although it stays open.
DisconnectForgets(code, w) ==
  /\ Connected
  /\ handle' = NoHandle
  /\ Record(Event("disconnect", "failed", code, NoKey), FALSE, w)
  /\ Answer("disconnect", "raised", w)
  /\ UNCHANGED <<probeOpen, session, flash>>

\* The backend cannot close the probe: session and handle are kept.
DisconnectFails(code, w) ==
  /\ Connected
  /\ OnlyRecord("disconnect", "raised", Event("disconnect", "failed", code, NoKey), FALSE, w)
  /\ UNCHANGED flash

Disconnect ==
  LET e == Event("disconnect", "success", NoCode, NoKey)
      closing == [WithEvent(record, e) EXCEPT !.closed = TRUE]
  IN  /\ Connected
      /\ handle' = NoHandle
      /\ probeOpen' = FALSE
      /\ session' = 0
      /\ record' = EmptyRecord
      /\ IF session = 0
         THEN /\ globalLines < MaxGlobal
              /\ globalLines' = globalLines + 1
              /\ UNCHANGED runs
         ELSE /\ runs' = [runs EXCEPT ![session] =
                            Summarised(Logged(@), closing)]
              /\ UNCHANGED globalLines
      /\ reply' = [tool |-> "disconnect", outcome |-> "returned"]
      /\ UNCHANGED flash

\* The probe is released, then a write raises before the globals are cleared.
DisconnectUnrecorded(w) ==
  /\ Connected
  /\ w # "ok"
  /\ probeOpen' = FALSE
  /\ Record(Event("disconnect", "success", NoCode, NoKey), FALSE, w)
  /\ Answer("disconnect", "returned", w)
  /\ UNCHANGED <<handle, session, flash>>

\* The same, when the write that raises is close_session's summary: the record
\* kept in memory already carries its closing time.
DisconnectUnclosed ==
  LET e == Event("disconnect", "success", NoCode, NoKey)
  IN  /\ StorageFaults
      /\ Connected /\ session # 0
      /\ Len(record.events) < MaxEvents[session]
      /\ probeOpen' = FALSE
      /\ record' = [WithEvent(record, e) EXCEPT !.closed = TRUE]
      /\ runs' = [runs EXCEPT ![session] =
                    Summarised(Logged(@), WithEvent(record, e))]
      /\ reply' = [tool |-> "disconnect", outcome |-> "raised"]
      /\ UNCHANGED <<handle, session, flash, globalLines>>

----------------------------------------------------------------------------
(* The tools that are journaled but never watched.                          *)

\* get_state, halt, resume, step, reset, register, memory and breakpoint tools.
PlainTool(outcome, code, w) ==
  /\ outcome = "success" => code = NoCode /\ Connected /\ probeOpen
  /\ outcome # "success" => code # NoCode
  /\ OnlyRecord("plain",
                IF outcome = "failed" THEN "raised"
                ELSE IF outcome = "refused" THEN "refused" ELSE "returned",
                Event("plain", outcome, code, NoKey), FALSE, w)
  /\ UNCHANGED flash

\* get_board_info answers without a session too.
GetBoardInfo(w) ==
  /\ OnlyRecord("plain", "returned", Event("plain", "success", NoCode, NoKey), FALSE, w)
  /\ UNCHANGED flash

----------------------------------------------------------------------------
(* The watched tools.                                                       *)

\* Mutant of IsBlocked: the block is recorded but never consulted.
NeverBlocked(family) == FALSE

\* ensure_allowed consults the live record only.
IsBlocked(family) == session # 0 /\ family \in record.blocked

Blocked(family, w) ==
  /\ IsBlocked(family)
  /\ OnlyRecord(family, "blocked", Event(family, "blocked", "watch/repetition", NoKey), FALSE, w)
  /\ UNCHANGED flash

Refuse(family, code, key, w) ==
  OnlyRecord(family, "refused", Event(family, "refused", code, key), TRUE, w)

Fail(family, code, key, w) ==
  OnlyRecord(family, "raised", Event(family, "failed", code, key), TRUE, w)

Succeed(family, w) ==
  OnlyRecord(family, "returned", Event(family, "success", NoCode, NoKey), TRUE, w)

\* resolve_flash_request: the refusals, and the identity logged with each.  A
\* refusal keeps the path the client passed; only a resolved artifact has a sha256.
FlashRefusal(path) ==
  IF ~Connected THEN {"flash/no-session"}
  ELSE IF path # DefaultPath THEN FlashRefusals
  ELSE IF handle = Raw THEN {"flash/no-board-config"}
  ELSE {"flash/missing-default-artifact"}

\* Mutant of PathKey: the default artifact is logged as if it were a path.
PathKeyAlways(path) == path

PathKey(path) == IF path = DefaultPath THEN NoKey ELSE path

FlashRefused(path, w) ==
  /\ ~IsBlocked(FLASH_TOOL)
  /\ \E code \in FlashRefusal(path) : Refuse(FLASH_TOOL, code, PathKey(path), w)
  /\ UNCHANGED flash

\* The request resolves to some artifact.
Resolvable(path) == Connected /\ (path = DefaultPath => handle # Raw)

\* The artifact exists but cannot be read for its identity.
FlashUnreadable(path, code, w) ==
  /\ ~IsBlocked(FLASH_TOOL)
  /\ Resolvable(path)
  /\ Fail(FLASH_TOOL, code, PathKey(path), w)
  /\ UNCHANGED flash

\* A programming attempt with image i can leave the old contents, a torn
\* write, or the image in place before it raises.
AfterAttempt(i) == IF probeOpen THEN {flash, Torn, i} ELSE {flash}

\* Mutant of FlashFails: an error of the backend is answered like a refusal.
FlashFailsRefused(path, i, code, w) ==
  /\ ~IsBlocked(FLASH_TOOL)
  /\ Resolvable(path)
  /\ flash' \in AfterAttempt(i)
  /\ Refuse(FLASH_TOOL, code, i, w)

FlashFails(path, i, code, w) ==
  /\ ~IsBlocked(FLASH_TOOL)
  /\ Resolvable(path)
  /\ flash' \in AfterAttempt(i)
  /\ Fail(FLASH_TOOL, code, i, w)

\* swd_pyocd.flash swallows a TransferError from any of its three steps
\* unless the caller asked to stay halted.
FlashFirmware(path, i, halted, w) ==
  /\ ~IsBlocked(FLASH_TOOL)
  /\ Resolvable(path)
  /\ probeOpen
  /\ flash' \in IF halted THEN {i} ELSE AfterAttempt(i)
  /\ Succeed(FLASH_TOOL, w)

\* read_seconds or baudrate out of range: refused before anything else.
SerialRefused(w) ==
  /\ OnlyRecord(UART_TOOL, "refused",
                Event(UART_TOOL, "refused", "uart/invalid-argument", NoKey), FALSE, w)
  /\ UNCHANGED flash

\* Not connected, no serial port, or the port fails while capturing: the
\* exception leaves read_serial without any event.
SerialRaises ==
  /\ ~IsBlocked(UART_TOOL)
  /\ handle # Raw
  /\ reply' = [tool |-> UART_TOOL, outcome |-> "raised"]
  /\ UNCHANGED <<handle, probeOpen, flash, session, record, runs, globalLines>>

\* A session without a board config gets a notice, without any event.
SerialNoBoard ==
  /\ ~IsBlocked(UART_TOOL)
  /\ handle = Raw
  /\ reply' = [tool |-> UART_TOOL, outcome |-> "returned"]
  /\ UNCHANGED <<handle, probeOpen, flash, session, record, runs, globalLines>>

ReadSerial(key, matched, w) ==
  /\ ~IsBlocked(UART_TOOL)
  /\ handle \in Boards
  /\ IF matched
     THEN Succeed(UART_TOOL, w)
     ELSE OnlyRecord(UART_TOOL, "returned",
                     Event(UART_TOOL, "failed", "uart/no-match", key), TRUE, w)
  /\ UNCHANGED flash

\* Mutant of RecoverRefusal: the board's recover mode is not looked at.
RecoverRefusalAnyMode(confirm) ==
  IF ~Connected THEN "recover/no-session"
  ELSE IF handle = Raw THEN "recover/no-board-config"
  ELSE IF ~confirm THEN "recover/confirmation-required"
  ELSE IF session # 0 /\ record.recovered THEN "recover/already-used"
  ELSE NoCode

\* Mutant of RecoverRefusal: an earlier recover of the session is not looked at.
RecoverRefusalRepeatable(confirm) ==
  IF ~Connected THEN "recover/no-session"
  ELSE IF handle = Raw THEN "recover/no-board-config"
  ELSE IF ~confirm THEN "recover/confirmation-required"
  ELSE IF RecoverMode[handle] = "none" THEN "recover/unsupported-mode"
  ELSE IF RecoverMode[handle] = "manual_only" THEN "recover/manual-only"
  ELSE NoCode

\* authorize_recover, in its order of tests; NoCode when it authorises.
RecoverRefusal(confirm) ==
  IF ~Connected THEN "recover/no-session"
  ELSE IF handle = Raw THEN "recover/no-board-config"
  ELSE IF ~confirm THEN "recover/confirmation-required"
  ELSE IF session # 0 /\ record.recovered THEN "recover/already-used"
  ELSE IF RecoverMode[handle] = "none" THEN "recover/unsupported-mode"
  ELSE IF RecoverMode[handle] = "manual_only" THEN "recover/manual-only"
  ELSE NoCode

RecoverRefused(confirm, w) ==
  /\ ~IsBlocked(RECOVER_TOOL)
  /\ RecoverRefusal(confirm) # NoCode
  /\ Refuse(RECOVER_TOOL, RecoverRefusal(confirm), NoKey, w)
  /\ UNCHANGED flash

RecoverFails(code, w) ==
  /\ ~IsBlocked(RECOVER_TOOL)
  /\ RecoverRefusal(TRUE) = NoCode
  /\ flash' \in IF probeOpen THEN {flash, Torn, Erased} ELSE {flash}
  /\ Fail(RECOVER_TOOL, code, NoKey, w)

\* The mass erase succeeds; the record is marked, and its summary written,
\* before the event is recorded.
UnlockRecover(w) ==
  LET e == Event(RECOVER_TOOL, "success", NoCode, NoKey)
      marked == [record EXCEPT !.recovered = TRUE]
  IN  /\ ~IsBlocked(RECOVER_TOOL)
      /\ RecoverRefusal(TRUE) = NoCode
      /\ probeOpen
      /\ w # "block"
      /\ flash' = Erased
      /\ IF session = 0
         THEN Record(e, TRUE, w)
         ELSE /\ Len(record.events) < MaxEvents[session]
              /\ record' = Appended(marked, e, TRUE, w)
              /\ runs' = [runs EXCEPT ![session] =
                            Journaled(Summarised(@, marked), marked, e, TRUE, w)]
              /\ UNCHANGED globalLines
      /\ Answer(RECOVER_TOOL, "returned", w)
      /\ UNCHANGED <<handle, probeOpen, session>>

\* mark_recover_completed itself cannot write: no event follows.
RecoverUnrecorded ==
  /\ StorageFaults
  /\ session # 0
  /\ ~IsBlocked(RECOVER_TOOL)
  /\ RecoverRefusal(TRUE) = NoCode
  /\ probeOpen
  /\ flash' = Erased
  /\ record' = [record EXCEPT !.recovered = TRUE]
  /\ reply' = [tool |-> RECOVER_TOOL, outcome |-> "raised"]
  /\ UNCHANGED <<handle, probeOpen, session, runs, globalLines>>

----------------------------------------------------------------------------

Init ==
  /\ handle = NoHandle
  /\ probeOpen = FALSE
  /\ flash \in Images \cup {Erased, Torn}
  /\ session = 0
  /\ record = EmptyRecord
  /\ runs = [k \in SessionIds |-> NoRun]
  /\ globalLines = 0
  /\ reply = [tool |-> "none", outcome |-> "returned"]

Lifecycle(w) ==
  \/ ConnectAgain(w)
  \/ \E code \in BackendErrors : ConnectFails(code, w) \/ DisconnectFails(code, w)
  \/ \E board \in Boards \cup {Raw}, k \in SessionIds : Connect(board, k, w)
  \/ DisconnectIdle(w)
  \/ DisconnectUnrecorded(w)

Unwatched(w) ==
  \/ PlainTool("success", NoCode, w)
  \/ \E code \in BackendErrors : PlainTool("failed", code, w)
  \/ PlainTool("refused", "memory/invalid-argument", w)
  \/ GetBoardInfo(w)

Flash(w) ==
  \/ Blocked(FLASH_TOOL, w)
  \/ \E path \in Paths \cup {DefaultPath} :
       \/ FlashRefused(path, w)
       \/ \E code \in BackendErrors :
            \/ FlashUnreadable(path, code, w)
            \/ \E i \in Images : FlashFails(path, i, code, w)
       \/ \E i \in Images, halted \in BOOLEAN : FlashFirmware(path, i, halted, w)

Serial(w) ==
  \/ Blocked(UART_TOOL, w)
  \/ SerialRefused(w)
  \/ \E key \in UartKeys, matched \in BOOLEAN : ReadSerial(key, matched, w)

Recover(w) ==
  \/ Blocked(RECOVER_TOOL, w)
  \/ \E confirm \in BOOLEAN : RecoverRefused(confirm, w)
  \/ \E code \in BackendErrors : RecoverFails(code, w)
  \/ UnlockRecover(w)

Next ==
  \/ \E w \in Writes : Lifecycle(w) \/ Unwatched(w) \/ Flash(w) \/ Serial(w) \/ Recover(w)
  \/ RecoverUnrecorded
  \/ \E board \in Boards \cup {Raw} : ConnectUnrecorded(board)
  \/ Disconnect
  \/ DisconnectUnclosed
  \/ SerialRaises
  \/ SerialNoBoard

Spec == Init /\ [][Next]_vars

----------------------------------------------------------------------------
(* What the server promises.                                                *)

Run == [started : BOOLEAN, lines : Nat, count : Nat, blocked : SUBSET Families,
        recovered : BOOLEAN, closed : BOOLEAN]

\* Every variable keeps the type its comment gives it.
TypeOK ==
  /\ handle \in Boards \cup {Raw, NoHandle}
  /\ probeOpen \in BOOLEAN
  /\ flash \in Images \cup {Erased, Torn}
  /\ session \in {0} \cup SessionIds
  /\ record \in [events : Seq(ToolEvent), blocked : SUBSET Families,
                 recovered : BOOLEAN, closed : BOOLEAN]
  /\ runs \in [SessionIds -> Run]
  /\ globalLines \in Nat
  /\ reply \in [tool : Tools \cup {"none"}, outcome : {"returned", "refused", "blocked", "raised"}]

\* Signatures a failure can carry.
Signatures ==
  ({FLASH_TOOL} \X (Images \cup Paths) \X (FlashRefusals \cup BackendErrors))
  \cup ({UART_TOOL} \X UartKeys \X {"uart/no-match"})
  \cup ({RECOVER_TOOL} \X {NoKey} \X
         ((BackendErrors \cup RecoverRefusals) \ {"recover/confirmation-required"}))

Repeated(family) ==
  \E s \in Signatures :
    s[1] = family /\ Cardinality(Streak(record.events, s)) >= Threshold(family)

\* A family is blocked exactly while the live session's own log ends, in that
\* family, in a run of identical failures as long as its threshold: other
\* families, refusals that carry no identity and the blocked calls themselves
\* neither lift nor cause a block (convergence_watcher.py).
BlockedIffRepeated == \A f \in Families : f \in record.blocked <=> Repeated(f)

\* The half of it that survives failing writes: no block without its evidence.
BlockedOnlyIfRepeated == \A f \in record.blocked : Repeated(f)

RecoverSuccesses ==
  {i \in 1..Len(record.events) : record.events[i].tool = RECOVER_TOOL
                                 /\ record.events[i].outcome = "success"}

\* A session journals at most one successful recover, and its record remembers
\* it (the recover/already-used refusal of recover_gate.py).
RecoverOncePerSession ==
  /\ Cardinality(RecoverSuccesses) <= 1
  /\ RecoverSuccesses # {} => record.recovered

\* The flash changes only in a flash call that is not blocked, or in a recover
\* that is neither blocked nor already used on a board that supports it.
FlashChangesOnlyWhenAllowed ==
  [][flash' # flash =>
       \/ reply'.tool = FLASH_TOOL /\ ~IsBlocked(FLASH_TOOL)
       \/ /\ reply'.tool = RECOVER_TOOL /\ ~IsBlocked(RECOVER_TOOL)
          /\ handle \in Boards /\ RecoverMode[handle] = "nrf_pyocd_unlock"
          /\ ~(session # 0 /\ record.recovered)]_vars

\* A session record exists exactly while a probe is held open.
SessionIffHandle == (session # 0 <=> Connected) /\ (Connected <=> probeOpen)

\* Every write succeeds: after each call the two files of the live session
\* agree with its record, and the files of an ended session are marked closed.
FilesMatchRecord ==
  \A k \in SessionIds :
    /\ k = session =>
         runs[k] = [started |-> TRUE, lines |-> Len(record.events),
                    count |-> Len(record.events), blocked |-> record.blocked,
                    recovered |-> record.recovered, closed |-> FALSE]
    /\ k # session /\ runs[k].started =>
         runs[k].closed /\ runs[k].count = runs[k].lines

\* A failing write may leave the files behind the record, never ahead of it.
FilesNeverAhead ==
  session # 0 =>
    LET run == runs[session]
    IN  /\ run.lines <= Len(record.events) /\ run.count <= Len(record.events)
        /\ run.blocked \subseteq record.blocked
        /\ run.recovered => record.recovered

\* Once a session has ended nothing touches its directory again
\* (events.jsonl is append-only and a new connect starts a fresh record).
EndedRunsFrozen ==
  [][\A k \in SessionIds : runs[k].started /\ k # session => runs'[k] = runs[k]]_vars

----------------------------------------------------------------------------
(* Claims of the documentation that the code does not keep.                 *)

\* The transfer drop that flash tolerates is one "during the final reset"
\* (swd_pyocd.py): a flash that answers has not left a torn image behind.
FlashedMeansProgrammed ==
  [][reply' # reply /\ reply'.tool = FLASH_TOOL /\ reply'.outcome = "returned"
       => flash' # Torn]_vars
============================================================================
