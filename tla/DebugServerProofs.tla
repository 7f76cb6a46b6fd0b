------------------------- MODULE DebugServerProofs -------------------------
(***************************************************************************)
(* Theorems about DebugServer, for every value of its constants.            *)
(*                                                                          *)
(* Every tool call does one of six things to the live record (RecordStep);  *)
(* the invariants are then proved of RecordStep alone, so that the case     *)
(* analysis over the actions is made once.                                  *)
(***************************************************************************)
EXTENDS WatcherRefinement, ServerRefinement, FiniteSetTheorems, TLAPS

Records == [events : Seq(ToolEvent), blocked : SUBSET Families,
            recovered : BOOLEAN, closed : BOOLEAN]

\* What is known of an event that joins the live record: a failure that counts,
\* or a success, of a watched family was not blocked, is shown to the watcher,
\* and carries one of the known signatures.
Legal(e, watched) ==
  /\ e \in ToolEvent
  /\ watched \in BOOLEAN
  /\ watched => e.tool \in Families
  /\ Signed(e) => Signature(e) \in Signatures /\ watched
  /\ e.tool \in Families /\ (Signed(e) \/ e.outcome = "success") => e.tool \notin record.blocked

\* The successful recovers are the business of UnlockRecover alone.
NoRecover(e) == e.tool = RECOVER_TOOL => e.outcome # "success"

Appends ==
  \E e \in ToolEvent, watched \in BOOLEAN, w \in Writes :
    /\ Legal(e, watched) /\ NoRecover(e)
    /\ record' = Appended(record, e, watched, w)

Starts ==
  \E e \in ToolEvent, w \in Writes :
    e.tool = "connect" /\ record' = Appended(EmptyRecord, e, FALSE, w)

Closes ==
  \E e \in ToolEvent :
    e.tool = "disconnect" /\ record' = [WithEvent(record, e) EXCEPT !.closed = TRUE]

Recovers ==
  LET e == Event(RECOVER_TOOL, "success", NoCode, NoKey)
      marked == [record EXCEPT !.recovered = TRUE]
  IN  /\ ~record.recovered
      /\ RECOVER_TOOL \notin record.blocked
      /\ \/ record' = marked
         \/ \E w \in Writes : record' = Appended(marked, e, TRUE, w)

RecordStep ==
  \/ record' = record
  \/ record' = EmptyRecord
  \/ Starts
  \/ Appends
  \/ Closes
  \/ Recovers

-----------------------------------------------------------------------------
(* Lemmas on the operators of the journal.                                   *)

\* Appending to a record keeps its type.
LEMMA AppendedType ==
  ASSUME NEW rec \in Records, NEW e \in ToolEvent, NEW watched \in BOOLEAN, NEW w,
         watched => e.tool \in Families
  PROVE  /\ Appended(rec, e, watched, w) \in Records
         /\ Len(Appended(rec, e, watched, w).events) = Len(rec.events) + 1
         /\ WithEvent(rec, e) \in Records
         /\ Len(WithEvent(rec, e).events) = Len(rec.events) + 1
<1> DEFINE grown == Append(rec.events, e)
<1>1. grown \in Seq(ToolEvent) /\ Len(grown) = Len(rec.events) + 1
  BY DEF Records
<1>2. WithEvent(rec, e) = [events |-> grown, blocked |-> rec.blocked,
                           recovered |-> rec.recovered, closed |-> rec.closed]
  BY DEF WithEvent, Records
<1>3. WithEvent(rec, e) \in Records /\ WithEvent(rec, e).events = grown
  BY <1>1, <1>2 DEF Records
<1> HIDE DEF grown
<1>4. CASE watched
  <2>1. e.tool \in Families
    BY <1>4
  <2>2. rec.blocked \cup {e.tool} \in SUBSET Families
    BY <2>1 DEF Records
  <2>3. [WithEvent(rec, e) EXCEPT !.blocked = @ \cup {e.tool}]
          = [events |-> grown, blocked |-> rec.blocked \cup {e.tool},
             recovered |-> rec.recovered, closed |-> rec.closed]
    BY <1>2
  <2> QED
    BY <1>1, <1>3, <2>2, <2>3 DEF Appended, Records
<1>5. CASE ~watched
  BY <1>1, <1>3, <1>5 DEF Appended
<1> QED
  BY <1>4, <1>5

\* The empty record and the new directory are well typed.
LEMMA EmptyTypes == EmptyRecord \in Records /\ NoRun \in Run /\ [NoRun EXCEPT !.started = TRUE] \in Run
<1>1. << >> \in Seq(ToolEvent)
  OBVIOUS
<1>2. EmptyRecord \in Records
  BY <1>1 DEF EmptyRecord, Records
<1>3. NoRun \in Run
  BY DEF NoRun, Run
<1>4. [NoRun EXCEPT !.started = TRUE] \in Run
  BY <1>3 DEF Run
<1> QED
  BY <1>2, <1>3, <1>4

\* So is a run with one more line.
LEMMA LoggedType ==
  ASSUME NEW run \in Run
  PROVE  Logged(run) \in Run
BY DEF Logged, Run

\* Writing the summary keeps the type of a run.
LEMMA SummarisedType ==
  ASSUME NEW run \in Run, NEW rec \in Records
  PROVE  Summarised(run, rec) \in Run
<1>1. \A n \in Nat, b \in SUBSET Families, r, c \in BOOLEAN :
        [run EXCEPT !.count = n, !.blocked = b, !.recovered = r, !.closed = c] \in Run
  BY DEF Run
<1>2. Len(rec.events) \in Nat
  BY DEF Records
<1> QED
  BY <1>1, <1>2 DEF Summarised, Records

\* So does journaling an event.
LEMMA JournaledType ==
  ASSUME NEW run \in Run, NEW rec \in Records, NEW e \in ToolEvent,
         NEW watched \in BOOLEAN, NEW w \in Writes, watched => e.tool \in Families
  PROVE  Journaled(run, rec, e, watched, w) \in Run
<1>1. Logged(run) \in Run
  BY LoggedType
<1>2. Summarised(Logged(run), Appended(rec, e, watched, w)) \in Run
  BY <1>1, AppendedType, SummarisedType
<1>3. Summarised(Logged(run), WithEvent(rec, e)) \in Run
  BY <1>1, AppendedType, SummarisedType
<1>4. w \in {"ok", "log", "summary", "block"}
  BY DEF Writes
<1> QED
  BY <1>1, <1>2, <1>3, <1>4 DEF Journaled

-----------------------------------------------------------------------------
(* Every call keeps the types and is one of the six steps of the record.     *)

\* A live session record has a handle: connect sets both, disconnect clears both.
LiveHasHandle == session # 0 => Connected

Typed == TypeOK /\ LiveHasHandle

Replies == {"returned", "refused", "blocked", "raised"}

\* The calls that journal one event in the session they find.
LEMMA JournalStep ==
  ASSUME Typed,
         NEW tool \in Tools, NEW o \in Replies, NEW e \in ToolEvent,
         NEW watched \in BOOLEAN, NEW w \in Writes,
         watched => e.tool \in Families,
         session # 0 => Legal(e, watched) /\ NoRecover(e),
         Record(e, watched, w), Answer(tool, o, w),
         UNCHANGED <<handle, session>>, probeOpen' \in BOOLEAN,
         flash' \in Images \cup {Erased, Torn}
  PROVE  Typed' /\ RecordStep
<1>1. record \in Records /\ runs \in [SessionIds -> Run] /\ globalLines \in Nat
  BY DEF Typed, TypeOK, Records
<1>2. reply' \in [tool : Tools \cup {"none"}, outcome : Replies]
  BY DEF Answer, Replies
<1>3. /\ record' \in Records /\ runs' \in [SessionIds -> Run] /\ globalLines' \in Nat
      /\ RecordStep
  <2>1. CASE session = 0
    BY <1>1, <2>1 DEF Record, RecordStep
  <2>2. CASE session # 0
    <3>1. session \in SessionIds /\ runs[session] \in Run
      BY <1>1, <2>2 DEF Typed, TypeOK
    <3>2. Journaled(runs[session], record, e, watched, w) \in Run
      BY <1>1, <3>1, JournaledType
    <3>3. Appended(record, e, watched, w) \in Records
      BY <1>1, AppendedType
    <3>4. /\ record' = Appended(record, e, watched, w)
          /\ runs' = [runs EXCEPT ![session] = Journaled(@, record, e, watched, w)]
          /\ globalLines' = globalLines
      BY <2>2 DEF Record
    <3>5. runs' \in [SessionIds -> Run]
      BY <1>1, <3>1, <3>2, <3>4
    <3>6. Appends
      BY <2>2, <3>4 DEF Appends
    <3> QED
      BY <1>1, <3>3, <3>4, <3>5, <3>6 DEF RecordStep
  <2> QED
    BY <2>1, <2>2
<1> QED
  BY <1>2, <1>3 DEF Typed, TypeOK, LiveHasHandle, Connected, Records, Replies

\* Events are well typed.
LEMMA EventType ==
  ASSUME NEW tool \in Tools, NEW o \in Outcomes, NEW code \in Codes, NEW key \in Keys
  PROVE  /\ Event(tool, o, code, key) \in ToolEvent
         /\ Event(tool, o, code, key).tool = tool
         /\ Event(tool, o, code, key).outcome = o
         /\ Event(tool, o, code, key).code = code
         /\ Event(tool, o, code, key).key = key
BY DEF Event, ToolEvent

\* In particular those of a success.
LEMMA SuccessType ==
  ASSUME NEW tool \in Tools
  PROVE  LET e == Event(tool, "success", NoCode, NoKey)
         IN  e \in ToolEvent /\ e.tool = tool /\ e.outcome = "success" /\ ~Signed(e)
<1>1. "success" \in Outcomes /\ NoCode \in Codes /\ NoKey \in Keys
  BY DEF Outcomes, Codes, Keys
<1> QED
  BY <1>1, EventType DEF Signed, FLASH_TOOL, UART_TOOL, RECOVER_TOOL

\* An event that never counts for the watcher is legal unwatched.
LEMMA UnwatchedLegal ==
  ASSUME NEW tool \in Tools, NEW o \in Outcomes, NEW code \in Codes,
         \/ tool \notin Families
         \/ o = "blocked" /\ code = "watch/repetition"
         \/ tool = UART_TOOL /\ o = "refused"
  PROVE  LET e == Event(tool, o, code, NoKey)
         IN  e \in ToolEvent /\ Legal(e, FALSE) /\ NoRecover(e)
<1>1. NoKey \in Keys
  BY DEF Keys
<1>2. ~Signed(Event(tool, o, code, NoKey))
  BY <1>1, EventType DEF Signed, Families, FLASH_TOOL, UART_TOOL, RECOVER_TOOL
<1> QED
  BY <1>1, <1>2, EventType DEF Legal, NoRecover, Families, FLASH_TOOL, UART_TOOL, RECOVER_TOOL

\* So is, watched, an event of a family that is not blocked, when a failure
\* that counts has one of the known signatures.
LEMMA WatchedLegal ==
  ASSUME NEW family \in Families, NEW o \in Outcomes, NEW code \in Codes, NEW key \in Keys,
         family \notin record.blocked,
         family = RECOVER_TOOL => o # "success",
         Signed(Event(family, o, code, key)) => <<family, key, code>> \in Signatures
  PROVE  LET e == Event(family, o, code, key)
         IN  e \in ToolEvent /\ e.tool \in Families /\ Legal(e, TRUE) /\ NoRecover(e)
<1>1. family \in Tools
  BY DEF Tools
<1> QED
  BY <1>1, EventType DEF Legal, NoRecover, Signature

\* The calls about the session itself.
LEMMA LifecycleStep ==
  ASSUME Typed, NEW w \in Writes, Lifecycle(w)
  PROVE  Typed' /\ RecordStep
<1>1. /\ NoCode \in Codes /\ BackendErrors \subseteq Codes
      /\ "connect" \in Tools /\ "disconnect" \in Tools
      /\ flash \in Images \cup {Erased, Torn} /\ probeOpen \in BOOLEAN
      /\ "connect" \notin Families /\ "disconnect" \notin Families
  BY DEF Codes, Tools, Typed, TypeOK, Families, FLASH_TOOL, UART_TOOL, RECOVER_TOOL
<1>2. \A tool \in {"connect", "disconnect"}, o \in Outcomes, code \in Codes :
         LET e == Event(tool, o, code, NoKey)
         IN  e \in ToolEvent /\ Legal(e, FALSE) /\ NoRecover(e)
  BY <1>1, UnwatchedLegal
<1>3. "success" \in Outcomes /\ "failed" \in Outcomes /\ "returned" \in Replies /\ "raised" \in Replies
  BY DEF Outcomes, Replies
<1>4. CASE ConnectAgain(w)
  BY <1>1, <1>2, <1>3, <1>4, JournalStep DEF OnlyRecord, ConnectAgain
<1>5. ASSUME NEW code \in BackendErrors, ConnectFails(code, w)
      PROVE  Typed' /\ RecordStep
  BY <1>1, <1>2, <1>3, <1>5, JournalStep DEF OnlyRecord, ConnectFails
<1>6. ASSUME NEW code \in BackendErrors, DisconnectFails(code, w)
      PROVE  Typed' /\ RecordStep
  BY <1>1, <1>2, <1>3, <1>6, JournalStep DEF OnlyRecord, DisconnectFails
<1>7. CASE DisconnectIdle(w)
  BY <1>1, <1>2, <1>3, <1>7, JournalStep DEF OnlyRecord, DisconnectIdle
<1>8. CASE DisconnectUnrecorded(w)
  BY <1>1, <1>2, <1>3, <1>8, JournalStep DEF DisconnectUnrecorded
<1>9. ASSUME NEW board \in Boards \cup {Raw}, NEW k \in SessionIds, Connect(board, k, w)
      PROVE  Typed' /\ RecordStep
  <2> DEFINE e == Event("connect", "success", NoCode, NoKey)
             fresh == [NoRun EXCEPT !.started = TRUE]
  <2>1. e \in ToolEvent /\ e.tool = "connect"
    BY <1>1, <1>2, <1>3, EventType DEF Keys
  <2>2. EmptyRecord \in Records /\ fresh \in Run
    BY EmptyTypes
  <2>3. Appended(EmptyRecord, e, FALSE, w) \in Records
    BY <2>1, <2>2, AppendedType
  <2>4. Journaled(fresh, EmptyRecord, e, FALSE, w) \in Run
    BY <2>1, <2>2, JournaledType
  <2>5. record' = Appended(EmptyRecord, e, FALSE, w)
    BY <1>9 DEF Connect
  <2>6. runs' \in [SessionIds -> Run]
    BY <1>9, <2>4 DEF Connect, Typed, TypeOK
  <2>7. reply' \in [tool : Tools \cup {"none"}, outcome : Replies]
    BY <1>1, <1>3, <1>9 DEF Connect, Answer
  <2>8. handle' = board /\ board # NoHandle /\ session' = k /\ probeOpen' = TRUE
    BY <1>9, ServerConstants DEF Connect
  <2>9. Starts
    BY <2>1, <2>5 DEF Starts
  <2> QED
    BY <1>9, <2>3, <2>5, <2>6, <2>7, <2>8, <2>9
    DEF Connect, Typed, TypeOK, LiveHasHandle, Connected, RecordStep, Records, Replies
<1> QED
  BY <1>4, <1>5, <1>6, <1>7, <1>8, <1>9 DEF Lifecycle

\* The tools that are never watched.
LEMMA UnwatchedStep ==
  ASSUME Typed, NEW w \in Writes, Unwatched(w)
  PROVE  Typed' /\ RecordStep
<1>1. /\ NoCode \in Codes /\ BackendErrors \subseteq Codes /\ "memory/invalid-argument" \in Codes
      /\ "plain" \in Tools /\ "plain" \notin Families
      /\ flash \in Images \cup {Erased, Torn} /\ probeOpen \in BOOLEAN
  BY DEF Codes, Tools, Typed, TypeOK, Families, FLASH_TOOL, UART_TOOL, RECOVER_TOOL
<1>2. \A o \in Outcomes, code \in Codes :
         LET e == Event("plain", o, code, NoKey)
         IN  e \in ToolEvent /\ Legal(e, FALSE) /\ NoRecover(e)
  BY <1>1, UnwatchedLegal
<1>3. /\ {"success", "failed", "refused"} \subseteq Outcomes
      /\ "returned" \in Replies /\ "raised" \in Replies /\ "refused" \in Replies
  BY DEF Outcomes, Replies
<1>4. ASSUME NEW o \in {"success", "failed", "refused"}, NEW code \in Codes, PlainTool(o, code, w)
      PROVE  Typed' /\ RecordStep
  BY <1>1, <1>2, <1>3, <1>4, JournalStep DEF OnlyRecord, PlainTool
<1>5. CASE GetBoardInfo(w)
  BY <1>1, <1>2, <1>3, <1>5, JournalStep DEF OnlyRecord, GetBoardInfo
<1> QED
  BY <1>1, <1>4, <1>5 DEF Unwatched

\* A family that is not blocked for ensure_allowed is not blocked in a live record.
LEMMA NotBlocked ==
  ASSUME NEW family, session # 0, ~IsBlocked(family)
  PROVE  family \notin record.blocked
BY DEF IsBlocked

\* A call that a block turns away only journals the refusal.
LEMMA BlockedStep ==
  ASSUME Typed, NEW family \in Families, NEW w \in Writes, Blocked(family, w)
  PROVE  Typed' /\ RecordStep
<1>1. /\ family \in Tools /\ "watch/repetition" \in Codes /\ "blocked" \in Outcomes
      /\ "blocked" \in Replies
      /\ flash \in Images \cup {Erased, Torn} /\ probeOpen \in BOOLEAN
  BY DEF Tools, Codes, Outcomes, Replies, Typed, TypeOK
<1>2. LET e == Event(family, "blocked", "watch/repetition", NoKey)
      IN  e \in ToolEvent /\ Legal(e, FALSE) /\ NoRecover(e)
  BY <1>1, UnwatchedLegal
<1> QED
  BY <1>1, <1>2, JournalStep DEF OnlyRecord, Blocked

\* A watched call that journals one event of its family.
LEMMA WatchedStep ==
  ASSUME Typed, NEW family \in Families, NEW o \in Outcomes, NEW code \in Codes,
         NEW key \in Keys, NEW w \in Writes, NEW answer \in Replies,
         ~IsBlocked(family), family = RECOVER_TOOL => o # "success",
         session # 0 /\ Signed(Event(family, o, code, key)) => <<family, key, code>> \in Signatures,
         OnlyRecord(family, answer, Event(family, o, code, key), TRUE, w),
         flash' \in Images \cup {Erased, Torn}
  PROVE  Typed' /\ RecordStep
<1> DEFINE e == Event(family, o, code, key)
<1>1. family \in Tools
  BY DEF Tools
<1>2. e \in ToolEvent /\ e.tool \in Families
  BY <1>1, EventType
<1>3. session # 0 => Legal(e, TRUE) /\ NoRecover(e)
  BY WatchedLegal, NotBlocked
<1>4. probeOpen' \in BOOLEAN /\ UNCHANGED <<handle, session>>
      /\ Record(e, TRUE, w) /\ Answer(family, answer, w)
  BY DEF OnlyRecord, Typed, TypeOK
<1> HIDE DEF e
<1> QED
  BY <1>1, <1>2, <1>3, <1>4, JournalStep

\* flash_firmware.
LEMMA FlashStep ==
  ASSUME Typed, NEW w \in Writes, Flash(w)
  PROVE  Typed' /\ RecordStep
<1>1. /\ FLASH_TOOL \in Families /\ FLASH_TOOL # RECOVER_TOOL
      /\ NoCode \in Codes /\ BackendErrors \subseteq Codes /\ FlashRefusals \subseteq Codes
      /\ {"flash/no-session", "flash/no-board-config", "flash/missing-default-artifact"} \subseteq Codes
      /\ Images \cup Paths \cup {NoKey} \subseteq Keys
      /\ {"success", "failed", "refused"} \subseteq Outcomes
      /\ {"returned", "refused", "raised"} \subseteq Replies
  BY DEF Families, FLASH_TOOL, RECOVER_TOOL, UART_TOOL, Codes, Keys, Outcomes, Replies
<1>2. flash \in Images \cup {Erased, Torn}
  BY DEF Typed, TypeOK
<1>3. ASSUME NEW o \in {"failed", "refused"}, NEW key \in Images \cup Paths \cup {NoKey},
             NEW code \in FlashRefusals \cup BackendErrors
      PROVE  Signed(Event(FLASH_TOOL, o, code, key)) => <<FLASH_TOOL, key, code>> \in Signatures
  BY DEF Signed, Signatures, Event, FLASH_TOOL, UART_TOOL, RECOVER_TOOL
<1>4. ASSUME NEW path \in Paths \cup {DefaultPath}
      PROVE  PathKey(path) \in Paths \cup {NoKey} /\ (path = DefaultPath => PathKey(path) = NoKey)
  BY DEF PathKey
<1>5. CASE Blocked(FLASH_TOOL, w)
  BY <1>1, <1>5, BlockedStep
<1>6. ASSUME NEW path \in Paths \cup {DefaultPath}, FlashRefused(path, w)
      PROVE  Typed' /\ RecordStep
  <2>1. PICK code \in FlashRefusal(path) : Refuse(FLASH_TOOL, code, PathKey(path), w)
    BY <1>6 DEF FlashRefused
  <2>2. code \in Codes
    BY <1>1, <2>1 DEF FlashRefusal
  <2>3. session # 0 /\ Signed(Event(FLASH_TOOL, "refused", code, PathKey(path)))
          => <<FLASH_TOOL, PathKey(path), code>> \in Signatures
    <3>1. CASE path = DefaultPath
      BY <1>4, <3>1 DEF Signed, Event, FLASH_TOOL, UART_TOOL, RECOVER_TOOL
    <3>2. CASE path # DefaultPath
      BY <1>3, <1>4, <2>1, <3>2 DEF FlashRefusal, Typed, LiveHasHandle
    <3> QED
      BY <3>1, <3>2
  <2> QED
    BY <1>1, <1>2, <1>4, <1>6, <2>1, <2>2, <2>3, WatchedStep DEF FlashRefused, Refuse
<1>7. ASSUME NEW path \in Paths \cup {DefaultPath}, NEW code \in BackendErrors,
             FlashUnreadable(path, code, w)
      PROVE  Typed' /\ RecordStep
  BY <1>1, <1>2, <1>3, <1>4, <1>7, WatchedStep DEF FlashUnreadable, Fail
<1>8. ASSUME NEW path \in Paths \cup {DefaultPath}, NEW i \in Images, NEW code \in BackendErrors,
             FlashFails(path, i, code, w)
      PROVE  Typed' /\ RecordStep
  BY <1>1, <1>2, <1>3, <1>8, WatchedStep DEF FlashFails, Fail, AfterAttempt
<1>9. ASSUME NEW path \in Paths \cup {DefaultPath}, NEW i \in Images, NEW halted \in BOOLEAN,
             FlashFirmware(path, i, halted, w)
      PROVE  Typed' /\ RecordStep
  <2>1. ~Signed(Event(FLASH_TOOL, "success", NoCode, NoKey))
    BY DEF Signed, Event, FLASH_TOOL, UART_TOOL, RECOVER_TOOL
  <2> QED
    BY <1>1, <1>2, <1>9, <2>1, WatchedStep DEF FlashFirmware, Succeed, AfterAttempt
<1> QED
  BY <1>5, <1>6, <1>7, <1>8, <1>9 DEF Flash

\* read_serial.
LEMMA SerialStep ==
  ASSUME Typed, NEW w \in Writes, Serial(w)
  PROVE  Typed' /\ RecordStep
<1>1. /\ UART_TOOL \in Families /\ UART_TOOL # RECOVER_TOOL /\ UART_TOOL \in Tools
      /\ NoCode \in Codes /\ "uart/no-match" \in Codes /\ "uart/invalid-argument" \in Codes
      /\ UartKeys \cup {NoKey} \subseteq Keys
      /\ {"success", "failed", "refused"} \subseteq Outcomes
      /\ {"returned", "refused"} \subseteq Replies
  BY DEF Families, Tools, FLASH_TOOL, RECOVER_TOOL, UART_TOOL, Codes, Keys, Outcomes, Replies
<1>2. flash \in Images \cup {Erased, Torn} /\ probeOpen \in BOOLEAN
  BY DEF Typed, TypeOK
<1>3. CASE Blocked(UART_TOOL, w)
  BY <1>1, <1>3, BlockedStep
<1>4. CASE SerialRefused(w)
  <2>1. LET e == Event(UART_TOOL, "refused", "uart/invalid-argument", NoKey)
        IN  e \in ToolEvent /\ Legal(e, FALSE) /\ NoRecover(e)
    BY <1>1, UnwatchedLegal
  <2> QED
    BY <1>1, <1>2, <1>4, <2>1, JournalStep DEF OnlyRecord, SerialRefused
<1>5. ASSUME NEW key \in UartKeys, NEW matched \in BOOLEAN, ReadSerial(key, matched, w)
      PROVE  Typed' /\ RecordStep
  <2>1. ~Signed(Event(UART_TOOL, "success", NoCode, NoKey))
    BY DEF Signed, Event, FLASH_TOOL, UART_TOOL, RECOVER_TOOL
  <2>2. <<UART_TOOL, key, "uart/no-match">> \in Signatures
    BY DEF Signatures
  <2>3. CASE matched
    BY <1>1, <1>2, <1>5, <2>1, <2>3, WatchedStep DEF ReadSerial, Succeed
  <2>4. CASE ~matched
    BY <1>1, <1>2, <1>5, <2>2, <2>4, WatchedStep DEF ReadSerial
  <2> QED
    BY <2>3, <2>4
<1> QED
  BY <1>3, <1>4, <1>5 DEF Serial

\* unlock_recover, when authorised: nothing recovered and nothing blocked yet.
LEMMA Authorised ==
  ASSUME session # 0, RecoverRefusal(TRUE) = NoCode, ~IsBlocked(RECOVER_TOOL)
  PROVE  ~record.recovered /\ RECOVER_TOOL \notin record.blocked
BY DEF RecoverRefusal, NoCode, IsBlocked

\* Marking a record keeps its type.
LEMMA MarkedType ==
  ASSUME NEW rec \in Records
  PROVE  [rec EXCEPT !.recovered = TRUE] \in Records
BY DEF Records

\* A successful recover of the session, with its event.
LEMMA UnlockRecoverStep ==
  ASSUME Typed, NEW w \in Writes, UnlockRecover(w)
  PROVE  Typed' /\ RecordStep
<1> DEFINE e == Event(RECOVER_TOOL, "success", NoCode, NoKey)
           marked == [record EXCEPT !.recovered = TRUE]
<1>1. e \in ToolEvent /\ e.tool \in Families
  BY SuccessType DEF Tools, Families
<1>2. record \in Records /\ runs \in [SessionIds -> Run] /\ globalLines \in Nat
  BY DEF Typed, TypeOK, Records
<1>3. flash' = Erased /\ Answer(RECOVER_TOOL, "returned", w) /\ UNCHANGED <<handle, probeOpen, session>>
  BY DEF UnlockRecover
<1>4. reply' \in [tool : Tools \cup {"none"}, outcome : Replies]
  BY <1>3 DEF Answer, Tools, Families, Replies
<1>5. /\ record' \in Records /\ runs' \in [SessionIds -> Run] /\ globalLines' \in Nat
      /\ RecordStep
  <2>1. CASE session = 0
    BY <1>2, <2>1 DEF UnlockRecover, Record, RecordStep
  <2>2. CASE session # 0
    <3>1. session \in SessionIds /\ runs[session] \in Run
      BY <1>2, <2>2 DEF Typed, TypeOK
    <3>2. marked \in Records
      BY <1>2, MarkedType
    <3>3. Appended(marked, e, TRUE, w) \in Records
      BY <1>1, <3>2, AppendedType
    <3>4. Summarised(runs[session], marked) \in Run
      BY <3>1, <3>2, SummarisedType
    <3>5. Journaled(Summarised(runs[session], marked), marked, e, TRUE, w) \in Run
      BY <1>1, <3>2, <3>4, JournaledType
    <3>6. /\ record' = Appended(marked, e, TRUE, w)
          /\ runs' = [runs EXCEPT ![session] = Journaled(Summarised(@, marked), marked, e, TRUE, w)]
          /\ globalLines' = globalLines
      BY <2>2 DEF UnlockRecover
    <3>7. runs' \in [SessionIds -> Run]
      BY <1>2, <3>1, <3>5, <3>6
    <3>8. ~record.recovered /\ RECOVER_TOOL \notin record.blocked
      BY <2>2, Authorised DEF UnlockRecover
    <3>9. Recovers
      BY <3>6, <3>8 DEF Recovers
    <3> QED
      BY <1>2, <3>3, <3>6, <3>7, <3>9 DEF RecordStep
  <2> QED
    BY <2>1, <2>2
<1> QED
  BY <1>3, <1>4, <1>5 DEF Typed, TypeOK, LiveHasHandle, Connected, Records, Replies

\* unlock_recover, whatever it answers.
LEMMA RecoverStep ==
  ASSUME Typed, NEW w \in Writes, Recover(w)
  PROVE  Typed' /\ RecordStep
<1>1. /\ RECOVER_TOOL \in Families /\ BackendErrors \subseteq Codes /\ RecoverRefusals \subseteq Codes
      /\ NoKey \in Keys /\ {"failed", "refused"} \subseteq Outcomes
      /\ {"refused", "raised"} \subseteq Replies
  BY DEF Families, FLASH_TOOL, RECOVER_TOOL, UART_TOOL, Codes, Keys, Outcomes, Replies
<1>2. flash \in Images \cup {Erased, Torn}
  BY DEF Typed, TypeOK
<1>3. ASSUME NEW o \in {"failed", "refused"}, NEW code \in BackendErrors \cup RecoverRefusals
      PROVE  Signed(Event(RECOVER_TOOL, o, code, NoKey)) => <<RECOVER_TOOL, NoKey, code>> \in Signatures
  BY DEF Signed, Signatures, Event, FLASH_TOOL, UART_TOOL, RECOVER_TOOL
<1>4. CASE Blocked(RECOVER_TOOL, w)
  BY <1>1, <1>4, BlockedStep
<1>5. ASSUME NEW confirm \in BOOLEAN, RecoverRefused(confirm, w)
      PROVE  Typed' /\ RecordStep
  <2>1. RecoverRefusal(confirm) \in RecoverRefusals
    BY <1>5 DEF RecoverRefused, RecoverRefusal, RecoverRefusals
  <2> QED
    BY <1>1, <1>2, <1>3, <1>5, <2>1, WatchedStep DEF RecoverRefused, Refuse
<1>6. ASSUME NEW code \in BackendErrors, RecoverFails(code, w)
      PROVE  Typed' /\ RecordStep
  BY <1>1, <1>2, <1>3, <1>6, WatchedStep DEF RecoverFails, Fail
<1>7. CASE UnlockRecover(w)
  BY <1>7, UnlockRecoverStep
<1> QED
  BY <1>4, <1>5, <1>6, <1>7 DEF Recover

\* disconnect, when it closes the probe and every write succeeds.
LEMMA DisconnectStep ==
  ASSUME Typed, Disconnect
  PROVE  Typed' /\ RecordStep
<1> DEFINE e == Event("disconnect", "success", NoCode, NoKey)
           closing == [WithEvent(record, e) EXCEPT !.closed = TRUE]
<1>1. e \in ToolEvent
  BY SuccessType DEF Tools
<1>2. record \in Records /\ runs \in [SessionIds -> Run] /\ globalLines \in Nat
  BY DEF Typed, TypeOK, Records
<1>3. closing \in Records
  <2>1. WithEvent(record, e) \in Records
    BY <1>1, <1>2, AppendedType
  <2> QED
    BY <2>1 DEF Records
<1>4. runs' \in [SessionIds -> Run]
  <2>1. CASE session = 0
    BY <1>2, <2>1 DEF Disconnect
  <2>2. CASE session # 0
    <3>1. session \in SessionIds /\ runs[session] \in Run
      BY <1>2, <2>2 DEF Typed, TypeOK
    <3>2. Summarised(Logged(runs[session]), closing) \in Run
      BY <1>3, <3>1, LoggedType, SummarisedType
    <3>3. runs' = [runs EXCEPT ![session] = Summarised(Logged(@), closing)]
      BY <2>2 DEF Disconnect
    <3> HIDE DEF closing
    <3> QED
      BY <1>2, <3>1, <3>2, <3>3
  <2> QED
    BY <2>1, <2>2
<1>5. globalLines' \in Nat /\ record' = EmptyRecord /\ session' = 0
  BY <1>2 DEF Disconnect
<1>6. reply' \in [tool : Tools \cup {"none"}, outcome : Replies] /\ probeOpen' \in BOOLEAN
  BY DEF Disconnect, Tools, Replies
<1> QED
  BY <1>4, <1>5, <1>6, EmptyTypes
  DEF Disconnect, Typed, TypeOK, LiveHasHandle, RecordStep, Records, Replies

\* disconnect, when the last summary of the session cannot be written.
LEMMA DisconnectUnclosedStep ==
  ASSUME Typed, DisconnectUnclosed
  PROVE  Typed' /\ RecordStep
<1> DEFINE e == Event("disconnect", "success", NoCode, NoKey)
<1>1. e \in ToolEvent /\ e.tool = "disconnect"
  BY SuccessType DEF Tools
<1>2. record \in Records /\ runs \in [SessionIds -> Run] /\ session \in SessionIds
  BY DEF Typed, TypeOK, Records, DisconnectUnclosed
<1>3. WithEvent(record, e) \in Records
  BY <1>1, <1>2, AppendedType
<1>4. Summarised(Logged(runs[session]), WithEvent(record, e)) \in Run
  BY <1>2, <1>3, LoggedType, SummarisedType
<1>5. /\ record' = [WithEvent(record, e) EXCEPT !.closed = TRUE]
      /\ runs' = [runs EXCEPT ![session] = Summarised(Logged(@), WithEvent(record, e))]
      /\ reply' = [tool |-> "disconnect", outcome |-> "raised"]
      /\ probeOpen' = FALSE /\ UNCHANGED <<handle, session, flash, globalLines>>
  BY DEF DisconnectUnclosed
<1>6. Closes
  BY <1>1, <1>5 DEF Closes
<1> HIDE DEF e
<1>7. record' \in Records
  BY <1>3, <1>5 DEF Records
<1>8. runs' \in [SessionIds -> Run]
  BY <1>2, <1>4, <1>5
<1>9. reply' \in [tool : Tools \cup {"none"}, outcome : Replies]
  BY <1>5 DEF Tools, Replies
<1> QED
  BY <1>5, <1>6, <1>7, <1>8, <1>9
  DEF Typed, TypeOK, LiveHasHandle, Connected, RecordStep, Records, Replies

\* The calls that leave the record and its files alone, but for the mark of a
\* recover whose summary cannot be written.
LEMMA UnrecordedStep ==
  ASSUME Typed,
         \/ RecoverUnrecorded
         \/ \E board \in Boards \cup {Raw} : ConnectUnrecorded(board)
         \/ SerialRaises
         \/ SerialNoBoard
  PROVE  Typed' /\ RecordStep
<1>1. /\ {"returned", "raised"} \subseteq Replies
      /\ {RECOVER_TOOL, UART_TOOL, "connect"} \subseteq Tools
  BY DEF Replies, Tools, Families
<1>2. CASE RecoverUnrecorded
  <2>1. ~record.recovered /\ RECOVER_TOOL \notin record.blocked
    BY <1>2, Authorised DEF RecoverUnrecorded
  <2>2. Recovers
    BY <1>2, <2>1 DEF RecoverUnrecorded, Recovers
  <2>3. record' \in Records
    BY <1>2, MarkedType DEF RecoverUnrecorded, Typed, TypeOK, Records
  <2> QED
    BY <1>1, <1>2, <2>2, <2>3
    DEF RecoverUnrecorded, Typed, TypeOK, LiveHasHandle, Connected, RecordStep, Records, Replies
<1>3. ASSUME NEW board \in Boards \cup {Raw}, ConnectUnrecorded(board)
      PROVE  Typed' /\ RecordStep
  <2>1. board # NoHandle
    BY ServerConstants
  <2> QED
    BY <1>1, <1>3, <2>1
    DEF ConnectUnrecorded, Typed, TypeOK, LiveHasHandle, Connected, RecordStep, Replies
<1>4. CASE SerialRaises
  BY <1>1, <1>4 DEF SerialRaises, Typed, TypeOK, LiveHasHandle, Connected, RecordStep, Replies
<1>5. CASE SerialNoBoard
  BY <1>1, <1>5 DEF SerialNoBoard, Typed, TypeOK, LiveHasHandle, Connected, RecordStep, Replies
<1> QED
  BY <1>2, <1>3, <1>4, <1>5

\* Every step of the server.
LEMMA NextStep ==
  ASSUME Typed, [Next]_vars
  PROVE  Typed' /\ RecordStep
<1>1. CASE UNCHANGED vars
  BY <1>1 DEF vars, Typed, TypeOK, LiveHasHandle, Connected, RecordStep
<1>2. CASE Next
  BY <1>2, LifecycleStep, UnwatchedStep, FlashStep, SerialStep, RecoverStep,
     DisconnectStep, DisconnectUnclosedStep, UnrecordedStep DEF Next
<1> QED
  BY <1>1, <1>2

\* The initial states are well typed: no handle, an empty record, no directory.
LEMMA InitTyped == Init => Typed
<1> SUFFICES ASSUME Init PROVE Typed
  OBVIOUS
<1>1. record \in Records /\ runs \in [SessionIds -> Run]
  BY EmptyTypes DEF Init
<1> QED
  BY <1>1 DEF Init, Typed, TypeOK, LiveHasHandle, Records

\* The server's state keeps its types, and no session record outlives its handle.
THEOREM Typing == Spec => []Typed
<1>1. Typed /\ [Next]_vars => Typed'
  BY NextStep
<1> QED
  BY <1>1, InitTyped, PTL DEF Spec

\* Every variable keeps its type.
THEOREM TypeCorrect == Spec => []TypeOK
<1>1. Typed => TypeOK
  BY DEF Typed
<1> QED
  BY <1>1, Typing, PTL

-----------------------------------------------------------------------------
(* The watcher: what one more event does to the runs of identical failures.  *)

\* A matching failure extends the run, a breaking event empties it, any other
\* event leaves it as it was.
LEMMA StreakAppend ==
  ASSUME NEW events \in Seq(ToolEvent), NEW e \in ToolEvent, NEW s
  PROVE  /\ Breaks(e, s) => Streak(Append(events, e), s) = {}
         /\ ~Breaks(e, s) /\ ~(Signed(e) /\ Signature(e) = s)
              => Streak(Append(events, e), s) = Streak(events, s)
<1> DEFINE grown == Append(events, e)
           n == Len(events)
<1>1. n \in Nat /\ Len(grown) = n + 1 /\ grown[n + 1] = e
      /\ \A i \in 1..n : grown[i] = events[i]
  OBVIOUS
<1> HIDE DEF grown, n
<1>2. ASSUME Breaks(e, s) PROVE Streak(grown, s) = {}
  <2>1. SUFFICES ASSUME NEW i \in 1..(n + 1), Signed(grown[i]), Signature(grown[i]) = s,
                        \A j \in (i + 1)..(n + 1) : ~Breaks(grown[j], s)
                 PROVE  FALSE
    BY <1>1 DEF Streak
  <2>2. CASE i = n + 1
    BY <1>1, <1>2, <2>1, <2>2 DEF Breaks, Signed
  <2>3. CASE i \in 1..n
    <3>1. n + 1 \in (i + 1)..(n + 1)
      BY <1>1, <2>3
    <3> QED
      BY <1>1, <1>2, <2>1, <3>1
  <2> QED
    BY <1>1, <2>2, <2>3
<1>3. ASSUME ~Breaks(e, s), ~(Signed(e) /\ Signature(e) = s)
      PROVE  Streak(grown, s) = Streak(events, s)
  <2>1. ASSUME NEW i \in 1..n
        PROVE  (\A j \in (i + 1)..(n + 1) : ~Breaks(grown[j], s))
                 <=> (\A j \in (i + 1)..n : ~Breaks(events[j], s))
    <3>1. \A j \in (i + 1)..n : j \in 1..n /\ j \in (i + 1)..(n + 1)
      BY <1>1
    <3>2. \A j \in (i + 1)..(n + 1) : j = n + 1 \/ j \in (i + 1)..n
      BY <1>1
    <3> QED
      BY <1>1, <1>3, <3>1, <3>2
  <2>2. \A i \in 1..(n + 1) : i \in Streak(grown, s) => i \in 1..n
    BY <1>1, <1>3 DEF Streak
  <2>3. 1..n \subseteq 1..(n + 1)
    BY <1>1
  <2> QED
    BY <1>1, <2>1, <2>2, <2>3 DEF Streak, n
<1> QED
  BY <1>2, <1>3 DEF grown

RepeatedIn(events, family) ==
  \E s \in Signatures :
    s[1] = family /\ Cardinality(Streak(events, s)) >= Threshold(family)

\* What one more event does to the test for repetition of one family.
LEMMA RepeatedAppend ==
  ASSUME NEW events \in Seq(ToolEvent), NEW e \in ToolEvent, NEW f \in Families
  PROVE  LET after == RepeatedIn(Append(events, e), f)
         IN  /\ e.tool = f /\ Signed(e) /\ Signature(e) \in Signatures
                  => (after <=> MustBlock(Append(events, e), e))
             /\ e.tool = f /\ e.outcome = "success" => ~after
             /\ e.tool # f \/ ~(Signed(e) \/ e.outcome = "success")
                  => (after <=> RepeatedIn(events, f))
<1> DEFINE grown == Append(events, e)
<1>1. Threshold(f) \in {2, 3} /\ Cardinality({}) = 0
  BY FS_EmptySet DEF Threshold
<1>2. \A s : Breaks(e, s) => ~(Cardinality(Streak(grown, s)) >= Threshold(f))
  <2>1. \A s : Breaks(e, s) => Streak(grown, s) = {}
    BY StreakAppend
  <2> HIDE DEF grown
  <2>2. ~(0 >= Threshold(f))
    BY <1>1
  <2> QED
    BY <1>1, <2>1, <2>2
<1>3. \A s : ~Breaks(e, s) /\ ~(Signed(e) /\ Signature(e) = s)
                 => Streak(grown, s) = Streak(events, s)
  BY StreakAppend
<1> HIDE DEF grown
<1>4. Signature(e)[1] = e.tool
  BY DEF Signature
<1>5. ASSUME e.tool = f, Signed(e), Signature(e) \in Signatures
      PROVE  RepeatedIn(grown, f) <=> MustBlock(grown, e)
  <2>1. \A s : s[1] = f /\ s # Signature(e) => Breaks(e, s)
    BY <1>5 DEF Breaks
  <2> QED
    BY <1>2, <1>4, <1>5, <2>1 DEF RepeatedIn, MustBlock
<1>6. ASSUME e.tool = f, e.outcome = "success"
      PROVE  ~RepeatedIn(grown, f)
  <2>1. \A s : s[1] = f => Breaks(e, s)
    BY <1>6 DEF Breaks
  <2> QED
    BY <1>2, <2>1 DEF RepeatedIn
<1>7. ASSUME e.tool # f \/ ~(Signed(e) \/ e.outcome = "success")
      PROVE  RepeatedIn(grown, f) <=> RepeatedIn(events, f)
  <2>1. \A s : s[1] = f => ~Breaks(e, s) /\ ~(Signed(e) /\ Signature(e) = s)
    BY <1>4, <1>7 DEF Breaks
  <2> QED
    BY <1>3, <2>1 DEF RepeatedIn
<1> QED
  BY <1>5, <1>6, <1>7 DEF grown

\* What the six steps of the record do to the two fields the watcher reads.
WatchStep ==
  \/ record'.events = record.events /\ record'.blocked = record.blocked
  \/ record'.events = << >> /\ record'.blocked = {}
  \/ \E e \in ToolEvent : /\ e.tool \notin Families
                         /\ record'.events = Append(<< >>, e) /\ record'.blocked = {}
  \/ \E e \in ToolEvent, watched \in BOOLEAN, w \in Writes :
       /\ Legal(e, watched)
       /\ record'.events = Append(record.events, e)
       /\ record'.blocked =
            IF watched /\ w \in {"ok", "block"} /\ MustBlock(Append(record.events, e), e)
            THEN record.blocked \cup {e.tool} ELSE record.blocked

\* The fields of a record that an event has joined.
LEMMA WithEventFields ==
  ASSUME NEW rec \in Records, NEW e \in ToolEvent
  PROVE  WithEvent(rec, e) = [events |-> Append(rec.events, e), blocked |-> rec.blocked,
                              recovered |-> rec.recovered, closed |-> rec.closed]
<1>1. ASSUME NEW grown
      PROVE  [rec EXCEPT !.events = grown] =
               [events |-> grown, blocked |-> rec.blocked,
                recovered |-> rec.recovered, closed |-> rec.closed]
  BY DEF Records
<1> QED
  BY <1>1 DEF WithEvent

\* What Appended does to the events and to the blocked families.
LEMMA AppendedFields ==
  ASSUME NEW rec \in Records, NEW e \in ToolEvent, NEW watched \in BOOLEAN, NEW w \in Writes
  PROVE  /\ Appended(rec, e, watched, w).events = Append(rec.events, e)
         /\ Appended(rec, e, watched, w).blocked =
              IF watched /\ w \in {"ok", "block"} /\ MustBlock(Append(rec.events, e), e)
              THEN rec.blocked \cup {e.tool} ELSE rec.blocked
         /\ Appended(rec, e, watched, w).recovered = rec.recovered
<1> DEFINE grown == Append(rec.events, e)
           new == WithEvent(rec, e)
<1>1. new = [events |-> grown, blocked |-> rec.blocked,
             recovered |-> rec.recovered, closed |-> rec.closed]
  BY WithEventFields
<1> HIDE DEF grown, new
<1>2. LET b == [new EXCEPT !.blocked = @ \cup {e.tool}]
      IN  b.events = grown /\ b.blocked = rec.blocked \cup {e.tool} /\ b.recovered = rec.recovered
  BY <1>1
<1> QED
  BY <1>1, <1>2 DEF Appended, new, grown

\* Each of the six steps of the record is a step of the watcher: it keeps, clears
\* or extends the log together with the blocks.
LEMMA WatchStepOfRecordStep ==
  ASSUME Typed, RecordStep
  PROVE  WatchStep
<1>1. record \in Records /\ EmptyRecord \in Records
  BY EmptyTypes DEF Typed, TypeOK, Records
<1>2. CASE record' = record
  BY <1>2 DEF WatchStep
<1>3. CASE record' = EmptyRecord
  BY <1>3 DEF WatchStep, EmptyRecord
<1>4. CASE Starts
  <2>1. PICK e \in ToolEvent, w \in Writes :
          e.tool = "connect" /\ record' = Appended(EmptyRecord, e, FALSE, w)
    BY <1>4 DEF Starts
  <2>2. EmptyRecord.events = << >> /\ EmptyRecord.blocked = {}
    BY DEF EmptyRecord
  <2>3. record' = WithEvent(EmptyRecord, e)
    BY <2>1 DEF Appended
  <2>4. record'.events = Append(<< >>, e) /\ record'.blocked = {}
    BY <1>1, <2>2, <2>3, WithEventFields
  <2> QED
    BY <2>1, <2>4 DEF WatchStep, Families, FLASH_TOOL, UART_TOOL, RECOVER_TOOL
<1>5. CASE Appends
  <2>1. PICK e \in ToolEvent, watched \in BOOLEAN, w \in Writes :
          Legal(e, watched) /\ record' = Appended(record, e, watched, w)
    BY <1>5 DEF Appends
  <2>2. /\ record'.events = Append(record.events, e)
        /\ record'.blocked =
             IF watched /\ w \in {"ok", "block"} /\ MustBlock(Append(record.events, e), e)
             THEN record.blocked \cup {e.tool} ELSE record.blocked
    BY <1>1, <2>1, AppendedFields
  <2> QED
    BY <2>1, <2>2 DEF WatchStep
<1>6. CASE Closes
  <2>1. PICK e \in ToolEvent :
          e.tool = "disconnect" /\ record' = [WithEvent(record, e) EXCEPT !.closed = TRUE]
    BY <1>6 DEF Closes
  <2>2. record'.events = Append(record.events, e) /\ record'.blocked = record.blocked
    <3> DEFINE grown == Append(record.events, e)
    <3>1. WithEvent(record, e) = [events |-> grown, blocked |-> record.blocked,
                                  recovered |-> record.recovered, closed |-> record.closed]
      BY <1>1, WithEventFields
    <3> HIDE DEF grown
    <3>2. record'.events = grown /\ record'.blocked = record.blocked
      BY <2>1, <3>1
    <3> QED
      BY <3>2 DEF grown
  <2>3. Legal(e, FALSE)
    BY <2>1 DEF Legal, Signed, Families, FLASH_TOOL, UART_TOOL, RECOVER_TOOL
  <2>4. "ok" \in Writes
    BY DEF Writes
  <2> QED
    BY <2>2, <2>3, <2>4 DEF WatchStep
<1>7. CASE Recovers
  <2> DEFINE e == Event(RECOVER_TOOL, "success", NoCode, NoKey)
             marked == [record EXCEPT !.recovered = TRUE]
  <2>1. marked \in Records /\ marked.events = record.events /\ marked.blocked = record.blocked
    BY <1>1, MarkedType DEF Records
  <2>2. e \in ToolEvent /\ e.tool = RECOVER_TOOL /\ ~Signed(e) /\ RECOVER_TOOL \in Families
    BY SuccessType DEF Tools, Families
  <2>3. Legal(e, TRUE)
    BY <1>7, <2>2 DEF Recovers, Legal
  <2>4. CASE record' = marked
    BY <2>1, <2>4 DEF WatchStep
  <2>5. ASSUME NEW w \in Writes, record' = Appended(marked, e, TRUE, w)
        PROVE  WatchStep
    <3> HIDE DEF e, marked
    <3>1. /\ record'.events = Append(record.events, e)
          /\ record'.blocked =
               IF w \in {"ok", "block"} /\ MustBlock(Append(record.events, e), e)
               THEN record.blocked \cup {e.tool} ELSE record.blocked
      BY <2>1, <2>2, <2>5, AppendedFields
    <3> QED
      BY <2>2, <2>3, <3>1 DEF WatchStep
  <2> QED
    BY <1>7, <2>4, <2>5 DEF Recovers
<1> QED
  BY <1>2, <1>3, <1>4, <1>5, <1>6, <1>7 DEF RecordStep

\* The empty log repeats nothing.
LEMMA RepeatedInEmpty == ASSUME NEW f \in Families PROVE ~RepeatedIn(<< >>, f)
<1>1. \A s : Streak(<< >>, s) = {}
  BY DEF Streak
<1>2. ~(0 >= Threshold(f)) /\ Cardinality({}) = 0
  BY FS_EmptySet DEF Threshold
<1> QED
  BY <1>1, <1>2 DEF RepeatedIn

\* The evidence for a block survives every step that keeps the block, and a new
\* block has its evidence.
LEMMA BlockHasEvidence ==
  ASSUME Typed, WatchStep, BlockedOnlyIfRepeated
  PROVE  BlockedOnlyIfRepeated'
<1>1. record \in Records /\ record.events \in Seq(ToolEvent) /\ record.blocked \in SUBSET Families
  BY DEF Typed, TypeOK, Records
<1>2. /\ \A f : Repeated(f) <=> RepeatedIn(record.events, f)
      /\ \A f : Repeated(f)' <=> RepeatedIn(record'.events, f)
  BY DEF Repeated, RepeatedIn
<1>3. CASE record'.events = record.events /\ record'.blocked = record.blocked
  BY <1>2, <1>3 DEF BlockedOnlyIfRepeated
<1>4. CASE record'.blocked = {}
  BY <1>4 DEF BlockedOnlyIfRepeated
<1>5. ASSUME NEW e \in ToolEvent, NEW watched \in BOOLEAN, NEW w \in Writes,
             Legal(e, watched),
             record'.events = Append(record.events, e),
             record'.blocked =
               IF watched /\ w \in {"ok", "block"} /\ MustBlock(Append(record.events, e), e)
               THEN record.blocked \cup {e.tool} ELSE record.blocked
      PROVE  BlockedOnlyIfRepeated'
  <2>1. SUFFICES ASSUME NEW f \in record'.blocked PROVE RepeatedIn(record'.events, f)
    BY <1>2 DEF BlockedOnlyIfRepeated
  <2>2. CASE f \in record.blocked
    <3>1. f \in Families /\ RepeatedIn(record.events, f)
      BY <1>1, <1>2, <2>2 DEF BlockedOnlyIfRepeated
    <3>2. e.tool # f \/ ~(Signed(e) \/ e.outcome = "success")
      BY <1>5, <2>2, <3>1 DEF Legal
    <3> QED
      BY <1>1, <1>5, <3>1, <3>2, RepeatedAppend
  <2>3. CASE f \notin record.blocked
    <3>1. f = e.tool /\ watched /\ MustBlock(Append(record.events, e), e)
      BY <1>5, <2>1, <2>3
    <3>2. f \in Families /\ Signed(e) /\ Signature(e) \in Signatures
      BY <1>5, <3>1 DEF Legal, MustBlock
    <3> QED
      BY <1>1, <1>5, <3>1, <3>2, RepeatedAppend
  <2> QED
    BY <2>2, <2>3
<1> QED
  BY <1>3, <1>4, <1>5 DEF WatchStep

\* The other half, when writes below runs/ succeed: no repetition without its block.
LEMMA RepetitionBlocks ==
  ASSUME Typed, WatchStep, BlockedIffRepeated, ~StorageFaults
  PROVE  BlockedIffRepeated'
<1>1. record \in Records /\ record.events \in Seq(ToolEvent) /\ record.blocked \in SUBSET Families
  BY DEF Typed, TypeOK, Records
<1>2. /\ \A f : Repeated(f) <=> RepeatedIn(record.events, f)
      /\ \A f : Repeated(f)' <=> RepeatedIn(record'.events, f)
  BY DEF Repeated, RepeatedIn
<1>3. SUFFICES ASSUME NEW f \in Families
               PROVE  f \in record'.blocked <=> RepeatedIn(record'.events, f)
  BY <1>2 DEF BlockedIffRepeated
<1>4. f \in record.blocked <=> RepeatedIn(record.events, f)
  BY <1>2 DEF BlockedIffRepeated
<1>5. CASE record'.events = record.events /\ record'.blocked = record.blocked
  BY <1>4, <1>5
<1>6. CASE record'.events = << >> /\ record'.blocked = {}
  BY <1>6, RepeatedInEmpty
<1>7. ASSUME NEW e \in ToolEvent, e.tool \notin Families,
             record'.events = Append(<< >>, e), record'.blocked = {}
      PROVE  f \in record'.blocked <=> RepeatedIn(record'.events, f)
  <2>1. << >> \in Seq(ToolEvent)
    OBVIOUS
  <2>2. e.tool # f
    BY <1>7
  <2>3. RepeatedIn(Append(<< >>, e), f) <=> RepeatedIn(<< >>, f)
    BY <2>1, <2>2, RepeatedAppend
  <2>4. ~RepeatedIn(<< >>, f)
    BY RepeatedInEmpty
  <2> QED
    BY <1>7, <2>3, <2>4
<1>8. ASSUME NEW e \in ToolEvent, NEW watched \in BOOLEAN, NEW w \in Writes,
             Legal(e, watched),
             record'.events = Append(record.events, e),
             record'.blocked =
               IF watched /\ w \in {"ok", "block"} /\ MustBlock(Append(record.events, e), e)
               THEN record.blocked \cup {e.tool} ELSE record.blocked
      PROVE  f \in record'.blocked <=> RepeatedIn(record'.events, f)
  <2>1. w = "ok"
    BY DEF Writes
  <2>2. CASE e.tool # f \/ ~(Signed(e) \/ e.outcome = "success")
    <3>1. RepeatedIn(record'.events, f) <=> RepeatedIn(record.events, f)
      BY <1>1, <1>8, <2>2, RepeatedAppend
    <3>2. f \in record'.blocked <=> f \in record.blocked
      BY <1>8, <2>2 DEF MustBlock
    <3> QED
      BY <1>4, <3>1, <3>2
  <2>3. CASE e.tool = f /\ Signed(e)
    <3>1. f \notin record.blocked /\ watched /\ Signature(e) \in Signatures
      BY <1>8, <2>3 DEF Legal
    <3>2. RepeatedIn(record'.events, f) <=> MustBlock(Append(record.events, e), e)
      BY <1>1, <1>8, <2>3, <3>1, RepeatedAppend
    <3> QED
      BY <1>8, <2>1, <2>3, <3>1, <3>2
  <2>4. CASE e.tool = f /\ e.outcome = "success"
    <3>1. ~Signed(e)
      BY <2>4 DEF Signed
    <3>2. f \notin record.blocked /\ ~MustBlock(Append(record.events, e), e)
      BY <1>8, <2>4, <3>1 DEF Legal, MustBlock
    <3>3. ~RepeatedIn(record'.events, f)
      BY <1>1, <1>8, <2>4, RepeatedAppend
    <3> QED
      BY <1>8, <3>2, <3>3
  <2> QED
    BY <2>2, <2>3, <2>4
<1> QED
  BY <1>5, <1>6, <1>7, <1>8 DEF WatchStep

\* No family of tools is blocked without a run of identical failures in the
\* live session's log, whatever writes fail (convergence_watcher.py).
THEOREM NoBlockWithoutEvidence == Spec => []BlockedOnlyIfRepeated
<1>1. Init => BlockedOnlyIfRepeated
  BY DEF Init, EmptyRecord, BlockedOnlyIfRepeated
<1>2. Typed /\ BlockedOnlyIfRepeated /\ [Next]_vars => BlockedOnlyIfRepeated'
  BY NextStep, WatchStepOfRecordStep, BlockHasEvidence
<1> QED
  BY <1>1, <1>2, Typing, PTL DEF Spec

\* When writes succeed, a family is blocked exactly while the log ends, in that
\* family, in a run of identical failures as long as its threshold.
THEOREM BlocksAreExact == ~StorageFaults => (Spec => []BlockedIffRepeated)
<1> SUFFICES ASSUME ~StorageFaults PROVE Spec => []BlockedIffRepeated
  OBVIOUS
<1>1. Init => BlockedIffRepeated
  <2>1. ASSUME Init PROVE \A f \in Families : ~Repeated(f) /\ record.blocked = {}
    BY <2>1, RepeatedInEmpty DEF Init, EmptyRecord, Repeated, RepeatedIn
  <2> QED
    BY <2>1 DEF BlockedIffRepeated
<1>2. Typed /\ BlockedIffRepeated /\ [Next]_vars => BlockedIffRepeated'
  BY NextStep, WatchStepOfRecordStep, RepetitionBlocks
<1> QED
  BY <1>1, <1>2, Typing, PTL DEF Spec

-----------------------------------------------------------------------------
(* One recover per session.                                                  *)

SuccessesIn(events) ==
  {i \in 1..Len(events) : events[i].tool = RECOVER_TOOL /\ events[i].outcome = "success"}

\* One more event adds its index exactly if it is a successful recover.
LEMMA SuccessesAppend ==
  ASSUME NEW events \in Seq(ToolEvent), NEW e \in ToolEvent
  PROVE  SuccessesIn(Append(events, e)) =
           SuccessesIn(events) \cup
             (IF NoRecover(e) THEN {} ELSE {Len(events) + 1})
<1> DEFINE grown == Append(events, e)
           n == Len(events)
<1>1. n \in Nat /\ Len(grown) = n + 1 /\ grown[n + 1] = e
      /\ \A i \in 1..n : grown[i] = events[i]
  OBVIOUS
<1> HIDE DEF grown, n
<1>2. \A i : i \in 1..(n + 1) <=> i \in 1..n \/ i = n + 1
  BY <1>1
<1>3. NoRecover(e) <=> ~(e.tool = RECOVER_TOOL /\ e.outcome = "success")
  BY DEF NoRecover
<1>4. \A i : i \in SuccessesIn(grown) <=>
              i \in SuccessesIn(events) \/ (i = n + 1 /\ ~NoRecover(e))
  BY <1>1, <1>2, <1>3 DEF SuccessesIn, n
<1> QED
  BY <1>4 DEF grown, n

Once(rec) ==
  /\ Cardinality(SuccessesIn(rec.events)) <= 1
  /\ SuccessesIn(rec.events) # {} => rec.recovered

\* Each of the six steps of the record keeps at most one successful recover in
\* the log: a second one would need a record that is not yet marked.
LEMMA OnceStep ==
  ASSUME Typed, RecordStep, Once(record)
  PROVE  Once(record')
<1>1. record \in Records /\ EmptyRecord \in Records /\ record.events \in Seq(ToolEvent)
  BY EmptyTypes DEF Typed, TypeOK, Records
<1>2. SuccessesIn(EmptyRecord.events) = {} /\ Cardinality({}) = 0
  BY FS_EmptySet DEF SuccessesIn, EmptyRecord
<1>3. Once(EmptyRecord)
  BY <1>2 DEF Once
<1>4. ASSUME NEW rec \in Records, Once(rec), NEW e \in ToolEvent, NoRecover(e),
             NEW new, new.events = Append(rec.events, e), new.recovered = rec.recovered
      PROVE  Once(new)
  <2>1. SuccessesIn(new.events) = SuccessesIn(rec.events)
    BY <1>4, SuccessesAppend DEF Records
  <2> QED
    BY <1>4, <2>1 DEF Once
<1>5. CASE record' = record \/ record' = EmptyRecord
  BY <1>3, <1>5
<1>6. CASE Starts
  <2>1. PICK e \in ToolEvent, w \in Writes :
          e.tool = "connect" /\ record' = Appended(EmptyRecord, e, FALSE, w)
    BY <1>6 DEF Starts
  <2>2. record' = WithEvent(EmptyRecord, e)
    BY <2>1 DEF Appended
  <2>3. record'.events = Append(EmptyRecord.events, e) /\ record'.recovered = EmptyRecord.recovered
    BY <1>1, <2>2, WithEventFields
  <2>4. NoRecover(e)
    BY <2>1 DEF NoRecover, RECOVER_TOOL
  <2> QED
    BY <1>1, <1>3, <1>4, <2>3, <2>4
<1>7. CASE Appends
  <2>1. PICK e \in ToolEvent, watched \in BOOLEAN, w \in Writes :
          NoRecover(e) /\ record' = Appended(record, e, watched, w)
    BY <1>7 DEF Appends
  <2>2. record'.events = Append(record.events, e) /\ record'.recovered = record.recovered
    BY <1>1, <2>1, AppendedFields
  <2> QED
    BY <1>1, <1>4, <2>1, <2>2
<1>8. CASE Closes
  <2>1. PICK e \in ToolEvent :
          e.tool = "disconnect" /\ record' = [WithEvent(record, e) EXCEPT !.closed = TRUE]
    BY <1>8 DEF Closes
  <2>2. record'.events = Append(record.events, e) /\ record'.recovered = record.recovered
    <3> DEFINE grown == Append(record.events, e)
    <3>1. WithEvent(record, e) = [events |-> grown, blocked |-> record.blocked,
                                  recovered |-> record.recovered, closed |-> record.closed]
      BY <1>1, WithEventFields
    <3> HIDE DEF grown
    <3>2. record'.events = grown /\ record'.recovered = record.recovered
      BY <2>1, <3>1
    <3> QED
      BY <3>2 DEF grown
  <2>3. NoRecover(e)
    BY <2>1 DEF NoRecover, RECOVER_TOOL
  <2> QED
    BY <1>1, <1>4, <2>2, <2>3
<1>9. CASE Recovers
  <2> DEFINE e == Event(RECOVER_TOOL, "success", NoCode, NoKey)
             marked == [record EXCEPT !.recovered = TRUE]
  <2>1. marked \in Records /\ marked.events = record.events /\ marked.recovered
    BY <1>1, MarkedType DEF Records
  <2>2. e \in ToolEvent
    BY SuccessType DEF Tools, Families
  <2>3. SuccessesIn(record.events) = {}
    BY <1>9 DEF Recovers, Once
  <2>4. CASE record' = marked
    BY <1>2, <2>1, <2>3, <2>4 DEF Once
  <2>5. ASSUME NEW w \in Writes, record' = Appended(marked, e, TRUE, w)
        PROVE  Once(record')
    <3> HIDE DEF e, marked
    <3>1. record'.events = Append(record.events, e) /\ record'.recovered
      BY <2>1, <2>2, <2>5, AppendedFields, ZenonT(40)
    <3>2. SuccessesIn(record'.events) \in {{}, {Len(record.events) + 1}}
      BY <1>1, <2>2, <2>3, <3>1, SuccessesAppend
    <3>3. Cardinality({Len(record.events) + 1}) = 1
      BY FS_Singleton
    <3>4. Cardinality(SuccessesIn(record'.events)) <= 1
      <4>1. CASE SuccessesIn(record'.events) = {}
        BY <1>2, <4>1
      <4>2. CASE SuccessesIn(record'.events) = {Len(record.events) + 1}
        BY <3>3, <4>2
      <4> QED
        BY <3>2, <4>1, <4>2
    <3> QED
      BY <3>1, <3>4 DEF Once
  <2> QED
    BY <1>9, <2>4, <2>5 DEF Recovers
<1> QED
  BY <1>5, <1>6, <1>7, <1>8, <1>9 DEF RecordStep

\* A session journals at most one successful recover, and its record remembers
\* it, whatever writes fail (recover_gate.py).
THEOREM RecoverOnce == Spec => []RecoverOncePerSession
<1>1. RecoverOncePerSession <=> Once(record)
  BY DEF RecoverOncePerSession, RecoverSuccesses, Once, SuccessesIn
<1>2. RecoverOncePerSession' <=> Once(record')
  BY DEF RecoverOncePerSession, RecoverSuccesses, Once, SuccessesIn
<1>3. Init => RecoverOncePerSession
  <2>1. Cardinality({}) = 0
    BY FS_EmptySet
  <2>2. Init => RecoverSuccesses = {}
    BY DEF Init, EmptyRecord, RecoverSuccesses
  <2> QED
    BY <2>1, <2>2 DEF RecoverOncePerSession
<1>4. Typed /\ RecoverOncePerSession /\ [Next]_vars => RecoverOncePerSession'
  BY <1>1, <1>2, NextStep, OnceStep
<1> QED
  BY <1>3, <1>4, Typing, PTL DEF Spec

-----------------------------------------------------------------------------
(* The files of a session, the probe and the flash.                          *)

\* The calls that journal an event, in the session they find, and change
\* neither handle nor session.
JournalsAs(e, watched, w) ==
  /\ Record(e, watched, w)
  /\ UNCHANGED <<handle, session>>
  /\ probeOpen' = probeOpen \/ w # "ok"

Journals == \E e, watched : \E w \in Writes : JournalsAs(e, watched, w)

Untouched == UNCHANGED <<handle, probeOpen, session, record, runs>>

\* What a step does to the session store and the probe.
StoreStep ==
  \/ Untouched
  \/ Journals
  \/ \E board \in Boards \cup {Raw}, k \in SessionIds, w \in Writes : Connect(board, k, w)
  \/ \E board \in Boards \cup {Raw} : ConnectUnrecorded(board)
  \/ Disconnect
  \/ DisconnectUnclosed
  \/ \E w \in Writes : session # 0 /\ UnlockRecover(w)
  \/ RecoverUnrecorded

\* A call that journals one event is one of Journals.
LEMMA RecordJournals ==
  ASSUME NEW e, NEW watched, NEW w \in Writes, Record(e, watched, w),
         UNCHANGED <<handle, session>>, probeOpen' = probeOpen \/ w # "ok"
  PROVE  StoreStep
<1>1. JournalsAs(e, watched, w)
  BY DEF JournalsAs
<1>2. Journals
  BY <1>1 DEF Journals
<1> QED
  BY <1>2 DEF StoreStep

\* In particular every call made of OnlyRecord.
LEMMA OnlyRecordJournals ==
  ASSUME NEW tool, NEW o, NEW e, NEW watched, NEW w \in Writes,
         OnlyRecord(tool, o, e, watched, w)
  PROVE  StoreStep
<1>1. Record(e, watched, w) /\ UNCHANGED <<handle, session>> /\ probeOpen' = probeOpen
  BY DEF OnlyRecord
<1> QED
  BY <1>1, RecordJournals

\* Every step is one of those.
LEMMA StoreSteps ==
  ASSUME [Next]_vars
  PROVE  StoreStep
<1>1. CASE UNCHANGED vars
  BY <1>1 DEF vars, StoreStep, Untouched
<1>2. ASSUME NEW w \in Writes, Lifecycle(w)
      PROVE  StoreStep
  <2>1. CASE DisconnectUnrecorded(w)
    BY <2>1, RecordJournals DEF DisconnectUnrecorded
  <2>2. CASE \E board \in Boards \cup {Raw}, k \in SessionIds : Connect(board, k, w)
    BY <2>2 DEF StoreStep
  <2>3. CASE ConnectAgain(w) \/ DisconnectIdle(w)
    BY <2>3, OnlyRecordJournals DEF ConnectAgain, DisconnectIdle
  <2>4. ASSUME NEW code \in BackendErrors, ConnectFails(code, w) \/ DisconnectFails(code, w)
        PROVE  StoreStep
    BY <2>4, OnlyRecordJournals DEF ConnectFails, DisconnectFails
  <2> QED
    BY <1>2, <2>1, <2>2, <2>3, <2>4 DEF Lifecycle
<1>3. ASSUME NEW w \in Writes, Unwatched(w)
      PROVE  StoreStep
  BY <1>3, OnlyRecordJournals DEF Unwatched, PlainTool, GetBoardInfo
<1>4. ASSUME NEW w \in Writes, NEW family, Blocked(family, w)
      PROVE  StoreStep
  BY <1>4, OnlyRecordJournals DEF Blocked
<1>5. ASSUME NEW w \in Writes, Flash(w)
      PROVE  StoreStep
  <2>1. ASSUME NEW path, FlashRefused(path, w)
        PROVE  StoreStep
    BY <2>1, OnlyRecordJournals DEF FlashRefused, Refuse
  <2>2. ASSUME NEW path, NEW code, FlashUnreadable(path, code, w)
        PROVE  StoreStep
    BY <2>2, OnlyRecordJournals DEF FlashUnreadable, Fail
  <2>3. ASSUME NEW path, NEW i, NEW code, FlashFails(path, i, code, w)
        PROVE  StoreStep
    BY <2>3, OnlyRecordJournals DEF FlashFails, Fail
  <2>4. ASSUME NEW path, NEW i, NEW halted, FlashFirmware(path, i, halted, w)
        PROVE  StoreStep
    BY <2>4, OnlyRecordJournals DEF FlashFirmware, Succeed
  <2> QED
    BY <1>4, <1>5, <2>1, <2>2, <2>3, <2>4 DEF Flash
<1>6. ASSUME NEW w \in Writes, Serial(w)
      PROVE  StoreStep
  <2>1. CASE SerialRefused(w)
    BY <2>1, OnlyRecordJournals DEF SerialRefused
  <2>2. ASSUME NEW key, NEW matched, ReadSerial(key, matched, w)
        PROVE  StoreStep
    BY <2>2, OnlyRecordJournals DEF ReadSerial, Succeed
  <2> QED
    BY <1>4, <1>6, <2>1, <2>2 DEF Serial
<1>7. ASSUME NEW w \in Writes, Recover(w)
      PROVE  StoreStep
  <2>1. ASSUME NEW confirm, RecoverRefused(confirm, w)
        PROVE  StoreStep
    BY <2>1, OnlyRecordJournals DEF RecoverRefused, Refuse
  <2>2. ASSUME NEW code, RecoverFails(code, w)
        PROVE  StoreStep
    BY <2>2, OnlyRecordJournals DEF RecoverFails, Fail
  <2>3. CASE UnlockRecover(w)
    <3>1. CASE session = 0
      BY <2>3, <3>1, RecordJournals DEF UnlockRecover
    <3>2. CASE session # 0
      BY <2>3, <3>2 DEF StoreStep
    <3> QED
      BY <3>1, <3>2
  <2> QED
    BY <1>4, <1>7, <2>1, <2>2, <2>3 DEF Recover
<1>8. CASE SerialRaises \/ SerialNoBoard
  BY <1>8 DEF SerialRaises, SerialNoBoard, StoreStep, Untouched
<1>9. CASE \/ RecoverUnrecorded \/ Disconnect \/ DisconnectUnclosed
           \/ \E board \in Boards \cup {Raw} : ConnectUnrecorded(board)
  BY <1>9 DEF StoreStep
<1> QED
  BY <1>1, <1>2, <1>3, <1>5, <1>6, <1>7, <1>8, <1>9 DEF Next

\* Nothing but Connect, which takes a fresh directory, writes to a directory
\* that is not the live session's.
LEMMA OtherRunsStay ==
  ASSUME TypeOK, StoreStep, NEW k \in SessionIds, runs[k].started, k # session
  PROVE  runs'[k] = runs[k]
<1>1. runs \in [SessionIds -> Run] /\ k \in SessionIds
  BY DEF TypeOK
<1>2. ASSUME NEW j, NEW run, j # k, runs' = [runs EXCEPT ![j] = run]
      PROVE  runs'[k] = runs[k]
  BY <1>1, <1>2
<1>3. CASE Untouched
  BY <1>3 DEF Untouched
<1>4. CASE Journals
  <2>1. PICK e, watched : \E w \in Writes : JournalsAs(e, watched, w)
    BY <1>4 DEF Journals
  <2>2. PICK w \in Writes : Record(e, watched, w)
    BY <2>1 DEF JournalsAs
  <2>3. \/ runs' = runs
        \/ runs' = [runs EXCEPT ![session] = Journaled(runs[session], record, e, watched, w)]
    BY <2>2 DEF Record
  <2> QED
    BY <1>2, <2>3
<1>5. CASE \E board \in Boards \cup {Raw}, j \in SessionIds, w \in Writes : Connect(board, j, w)
  BY <1>2, <1>5 DEF Connect, Fresh
<1>6. CASE \/ RecoverUnrecorded
           \/ \E board \in Boards \cup {Raw} : ConnectUnrecorded(board)
  BY <1>6 DEF RecoverUnrecorded, ConnectUnrecorded
<1>7. CASE Disconnect \/ DisconnectUnclosed
  <2> DEFINE e == Event("disconnect", "success", NoCode, NoKey)
             closing == [WithEvent(record, e) EXCEPT !.closed = TRUE]
  <2>1. \/ runs' = runs
        \/ runs' = [runs EXCEPT ![session] = Summarised(Logged(runs[session]), closing)]
        \/ runs' = [runs EXCEPT ![session] =
                      Summarised(Logged(runs[session]), WithEvent(record, e))]
    BY <1>7 DEF Disconnect, DisconnectUnclosed
  <2> HIDE DEF e, closing
  <2> QED
    BY <1>2, <2>1
<1>8. CASE \E w \in Writes : session # 0 /\ UnlockRecover(w)
  <2> DEFINE e == Event(RECOVER_TOOL, "success", NoCode, NoKey)
             marked == [record EXCEPT !.recovered = TRUE]
  <2>1. PICK w \in Writes : session # 0 /\ UnlockRecover(w)
    BY <1>8
  <2>2. runs' = [runs EXCEPT ![session] =
                  Journaled(Summarised(runs[session], marked), marked, e, TRUE, w)]
    BY <2>1 DEF UnlockRecover
  <2> HIDE DEF e, marked
  <2> QED
    BY <1>2, <2>2
<1> QED
  BY <1>3, <1>4, <1>5, <1>6, <1>7, <1>8 DEF StoreStep

\* Once a session has ended nothing touches its directory again, whatever
\* writes fail (events.jsonl is append-only, a connect starts a fresh record).
THEOREM EndedRunsStay == Spec => EndedRunsFrozen
<1>1. Typed /\ [Next]_vars =>
        [\A k \in SessionIds : runs[k].started /\ k # session => runs'[k] = runs[k]]_vars
  BY StoreSteps, OtherRunsStay DEF Typed
<1> QED
  BY <1>1, Typing, PTL DEF Spec, EndedRunsFrozen

\* What an event adds to a record, whatever the event.
LEMMA RecordGrows ==
  ASSUME NEW rec \in Records, NEW e, NEW watched, NEW w
  PROVE  /\ Len(rec.events) \in Nat
         /\ WithEvent(rec, e) = [events |-> Append(rec.events, e), blocked |-> rec.blocked,
                                 recovered |-> rec.recovered, closed |-> rec.closed]
         /\ Len(Append(rec.events, e)) = Len(rec.events) + 1
         /\ Len(Appended(rec, e, watched, w).events) = Len(rec.events) + 1
         /\ rec.blocked \subseteq Appended(rec, e, watched, w).blocked
         /\ Appended(rec, e, watched, w).recovered = rec.recovered
         /\ Appended(rec, e, watched, w).closed = rec.closed
<1> DEFINE grown == Append(rec.events, e)
           new == WithEvent(rec, e)
<1>1. rec.events \in Seq(ToolEvent \cup {e}) /\ Len(rec.events) \in Nat
  BY DEF Records
<1>2. Len(grown) = Len(rec.events) + 1
  BY <1>1
<1>3. new = [events |-> grown, blocked |-> rec.blocked,
             recovered |-> rec.recovered, closed |-> rec.closed]
  <2>1. \A x : [rec EXCEPT !.events = x] =
                [events |-> x, blocked |-> rec.blocked,
                 recovered |-> rec.recovered, closed |-> rec.closed]
    BY DEF Records
  <2> QED
    BY <2>1 DEF WithEvent
<1> HIDE DEF grown, new
<1>4. LET b == [new EXCEPT !.blocked = @ \cup {e.tool}]
      IN  /\ b.events = grown /\ b.blocked = rec.blocked \cup {e.tool}
          /\ b.recovered = rec.recovered /\ b.closed = rec.closed
  BY <1>3
<1>5. \/ Appended(rec, e, watched, w) = new
      \/ Appended(rec, e, watched, w) = [new EXCEPT !.blocked = @ \cup {e.tool}]
  BY DEF Appended, new
<1> QED
  BY <1>1, <1>2, <1>3, <1>4, <1>5 DEF grown, new

\* The number of its events, and whether it is closed.
LEMMA NewRecordGrows ==
  ASSUME NEW rec \in Records, NEW e, NEW watched \in BOOLEAN, NEW w
  PROVE  LET new == Appended(rec, e, watched, w)
         IN  Len(new.events) = Len(rec.events) + 1 /\ new.closed = rec.closed
  BY RecordGrows

\* The files of a run are not ahead of a record.
Behind(run, rec) ==
  /\ run.lines <= Len(rec.events) /\ run.count <= Len(rec.events)
  /\ run.blocked \subseteq rec.blocked
  /\ run.recovered => rec.recovered

\* Writing a summary, or a line of an event the record has, keeps them so.
LEMMA JournalStaysBehind ==
  ASSUME NEW run \in Run, NEW rec \in Records, NEW e, NEW watched, NEW w \in Writes,
         Behind(run, rec)
  PROVE  /\ Behind(Journaled(run, rec, e, watched, w), Appended(rec, e, watched, w))
         /\ Behind(Summarised(run, rec), rec)
         /\ Behind(Summarised(Logged(run), WithEvent(rec, e)), WithEvent(rec, e))
<1> DEFINE n == Len(rec.events)
           new == Appended(rec, e, watched, w)
           plain == WithEvent(rec, e)
<1>1. /\ n \in Nat /\ Len(new.events) = n + 1 /\ rec.blocked \subseteq new.blocked
      /\ new.recovered = rec.recovered
      /\ Len(plain.events) = n + 1 /\ plain.blocked = rec.blocked
      /\ plain.recovered = rec.recovered
  BY RecordGrows
<1>2. /\ run.lines \in Nat /\ run.count \in Nat /\ run.lines <= n /\ run.count <= n
      /\ run.blocked \subseteq rec.blocked /\ run.recovered => rec.recovered
  BY DEF Behind, Run
<1>3. /\ Logged(run).lines = run.lines + 1 /\ Logged(run).count = run.count
      /\ Logged(run).blocked = run.blocked /\ Logged(run).recovered = run.recovered
      /\ Logged(run) \in Run
  BY LoggedType DEF Logged, Run
<1>4. ASSUME NEW r \in Run, NEW s
      PROVE  /\ Summarised(r, s).lines = r.lines
             /\ Summarised(r, s).count = Len(s.events)
             /\ Summarised(r, s).blocked = s.blocked
             /\ Summarised(r, s).recovered = s.recovered
  BY DEF Summarised, Run
<1> HIDE DEF n, new, plain
<1>5. Behind(Summarised(run, rec), rec)
  BY <1>1, <1>2, <1>4 DEF Behind, n
<1>6. Behind(Summarised(Logged(run), plain), plain)
  <2>1. /\ Summarised(Logged(run), plain).lines = run.lines + 1
        /\ Summarised(Logged(run), plain).count = Len(plain.events)
        /\ Summarised(Logged(run), plain).blocked = plain.blocked
        /\ Summarised(Logged(run), plain).recovered = plain.recovered
    BY <1>3, <1>4
  <2> QED
    BY <1>1, <1>2, <2>1 DEF Behind
<1>7. Behind(run, new) /\ Behind(Logged(run), new)
  BY <1>1, <1>2, <1>3 DEF Behind
<1>8. Behind(Summarised(Logged(run), new), new)
  <2>1. /\ Summarised(Logged(run), new).lines = run.lines + 1
        /\ Summarised(Logged(run), new).count = Len(new.events)
        /\ Summarised(Logged(run), new).blocked = new.blocked
        /\ Summarised(Logged(run), new).recovered = new.recovered
    BY <1>3, <1>4
  <2> QED
    BY <1>1, <1>2, <2>1 DEF Behind
<1>9. Behind(Summarised(Logged(run), plain), new)
  <2>1. /\ Summarised(Logged(run), plain).lines = run.lines + 1
        /\ Summarised(Logged(run), plain).count = Len(plain.events)
        /\ Summarised(Logged(run), plain).blocked = plain.blocked
        /\ Summarised(Logged(run), plain).recovered = plain.recovered
    BY <1>3, <1>4
  <2> QED
    BY <1>1, <1>2, <2>1 DEF Behind
<1>10. w \in {"ok", "log", "summary", "block"}
  BY DEF Writes
<1> QED
  BY <1>5, <1>6, <1>7, <1>8, <1>9, <1>10 DEF Journaled, new, plain

\* Whatever a step does, the files of the live session stay behind its record.
LEMMA FilesStayBehindStep ==
  ASSUME TypeOK, StoreStep, FilesNeverAhead
  PROVE  FilesNeverAhead'
<1>1. /\ runs \in [SessionIds -> Run] /\ record \in Records
      /\ session \in {0} \cup SessionIds /\ 0 \notin SessionIds
  BY DEF TypeOK, Records, SessionIds
<1>2. session # 0 => session \in SessionIds /\ runs[session] \in Run /\ Behind(runs[session], record)
  BY <1>1 DEF FilesNeverAhead, Behind
<1>3. SUFFICES session' # 0 => Behind(runs'[session'], record')
  BY DEF FilesNeverAhead, Behind
<1>4. ASSUME NEW k \in SessionIds, NEW run, runs' = [runs EXCEPT ![k] = run]
      PROVE  runs'[k] = run
  BY <1>1, <1>4
<1>5. CASE Untouched \/ \E board \in Boards \cup {Raw} : ConnectUnrecorded(board)
  <2>1. UNCHANGED <<session, record, runs>>
    BY <1>5 DEF Untouched, ConnectUnrecorded
  <2> QED
    BY <1>2, <2>1
<1>6. CASE Journals
  <2>0. PICK e, watched : \E w \in Writes : JournalsAs(e, watched, w)
    BY <1>6 DEF Journals
  <2>1. PICK w \in Writes : Record(e, watched, w) /\ session' = session
    BY <2>0 DEF JournalsAs
  <2>2. CASE session = 0
    BY <2>1, <2>2
  <2>3. CASE session # 0
    <3>1. /\ record' = Appended(record, e, watched, w)
          /\ runs' = [runs EXCEPT ![session] = Journaled(runs[session], record, e, watched, w)]
      BY <2>1, <2>3 DEF Record
    <3>2. Behind(Journaled(runs[session], record, e, watched, w), Appended(record, e, watched, w))
      BY <1>1, <1>2, <2>3, JournalStaysBehind
    <3> QED
      BY <1>2, <1>4, <2>1, <2>3, <3>1, <3>2
  <2> QED
    BY <2>2, <2>3
<1>7. ASSUME NEW board, NEW k \in SessionIds, NEW w \in Writes, Connect(board, k, w)
      PROVE  Behind(runs'[session'], record')
  <2> DEFINE e == Event("connect", "success", NoCode, NoKey)
             fresh == [NoRun EXCEPT !.started = TRUE]
  <2>1. /\ session' = k /\ record' = Appended(EmptyRecord, e, FALSE, w)
        /\ runs' = [runs EXCEPT ![k] = Journaled(fresh, EmptyRecord, e, FALSE, w)]
    BY <1>7 DEF Connect
  <2>2. Behind(fresh, EmptyRecord)
    BY DEF Behind, NoRun, EmptyRecord
  <2>3. fresh \in Run /\ EmptyRecord \in Records
    BY EmptyTypes
  <2> HIDE DEF e, fresh
  <2>4. Behind(Journaled(fresh, EmptyRecord, e, FALSE, w), Appended(EmptyRecord, e, FALSE, w))
    BY <2>2, <2>3, JournalStaysBehind
  <2> QED
    BY <1>4, <2>1, <2>4
<1>8. CASE Disconnect
  BY <1>8 DEF Disconnect
<1>9. CASE DisconnectUnclosed
  <2> DEFINE e == Event("disconnect", "success", NoCode, NoKey)
  <2>1. /\ session # 0 /\ session' = session
        /\ record' = [WithEvent(record, e) EXCEPT !.closed = TRUE]
        /\ runs' = [runs EXCEPT ![session] =
                     Summarised(Logged(runs[session]), WithEvent(record, e))]
    BY <1>9 DEF DisconnectUnclosed
  <2> HIDE DEF e
  <2>2. Behind(Summarised(Logged(runs[session]), WithEvent(record, e)), WithEvent(record, e))
    BY <1>1, <1>2, <2>1, JournalStaysBehind, "ok" \in Writes DEF Writes
  <2>3. /\ record'.events = WithEvent(record, e).events
        /\ record'.blocked = WithEvent(record, e).blocked
        /\ record'.recovered = WithEvent(record, e).recovered
    <3> DEFINE grown == Append(record.events, e)
    <3>1. WithEvent(record, e) = [events |-> grown, blocked |-> record.blocked,
                                  recovered |-> record.recovered, closed |-> record.closed]
      BY <1>1, RecordGrows
    <3> HIDE DEF grown
    <3> QED
      BY <2>1, <3>1
  <2>4. runs'[session'] = Summarised(Logged(runs[session]), WithEvent(record, e))
    BY <1>2, <1>4, <2>1
  <2> QED
    BY <2>2, <2>3, <2>4 DEF Behind
<1>10. ASSUME NEW w \in Writes, session # 0, UnlockRecover(w)
       PROVE  Behind(runs'[session'], record')
  <2> DEFINE e == Event(RECOVER_TOOL, "success", NoCode, NoKey)
             marked == [record EXCEPT !.recovered = TRUE]
             first == Summarised(runs[session], marked)
  <2>1. /\ session' = session /\ record' = Appended(marked, e, TRUE, w)
        /\ runs' = [runs EXCEPT ![session] = Journaled(first, marked, e, TRUE, w)]
    BY <1>10 DEF UnlockRecover
  <2>2. /\ marked \in Records /\ marked.events = record.events
        /\ marked.blocked = record.blocked /\ marked.recovered
    BY <1>1, MarkedType DEF Records
  <2>3. Behind(runs[session], marked)
    BY <1>2, <1>10, <2>2 DEF Behind
  <2> HIDE DEF e, marked
  <2>4. first \in Run /\ Behind(first, marked)
    BY <1>2, <1>10, <2>2, <2>3, SummarisedType, JournalStaysBehind, "ok" \in Writes DEF Writes
  <2> HIDE DEF first
  <2>5. Behind(Journaled(first, marked, e, TRUE, w), Appended(marked, e, TRUE, w))
    BY <2>2, <2>4, JournalStaysBehind
  <2> QED
    BY <1>2, <1>4, <1>10, <2>1, <2>5
<1>11. CASE RecoverUnrecorded
  <2>1. /\ UNCHANGED <<session, runs>> /\ session # 0
        /\ record' = [record EXCEPT !.recovered = TRUE]
    BY <1>11 DEF RecoverUnrecorded
  <2>2. /\ record'.events = record.events /\ record'.blocked = record.blocked
        /\ record'.recovered
    BY <1>1, <2>1 DEF Records
  <2> QED
    BY <1>2, <2>1, <2>2 DEF Behind
<1> QED
  BY <1>5, <1>6, <1>7, <1>8, <1>9, <1>10, <1>11 DEF StoreStep

\* Whatever writes fail, events.jsonl and session.json of the live session never
\* say more than its record in memory: no line, block or recover mark that the
\* server does not know of (session_store.py writes after it has changed the
\* record).
THEOREM FilesStayBehind == Spec => []FilesNeverAhead
<1>1. Init => FilesNeverAhead
  BY DEF Init, FilesNeverAhead
<1>2. Typed /\ FilesNeverAhead /\ [Next]_vars => FilesNeverAhead'
  BY StoreSteps, FilesStayBehindStep DEF Typed
<1> QED
  BY <1>1, <1>2, Typing, PTL DEF Spec

-----------------------------------------------------------------------------
(* Record, handle and files when every write succeeds.                       *)

Agrees(run, rec) ==
  /\ run.started /\ ~run.closed
  /\ run.lines = Len(rec.events) /\ run.count = Len(rec.events)
  /\ run.blocked = rec.blocked /\ run.recovered = rec.recovered

\* A summary replaces all but two fields.
LEMMA SummaryFields ==
  ASSUME NEW run \in Run, NEW rec
  PROVE  LET new == Summarised(run, rec)
         IN  /\ new.started = run.started /\ new.lines = run.lines
             /\ new.count = Len(rec.events) /\ new.blocked = rec.blocked
             /\ new.recovered = rec.recovered /\ new.closed = rec.closed
BY DEF Summarised, Run

\* The summary after one more line says what the record says.
LEMMA JournalAgrees ==
  ASSUME NEW run \in Run, NEW n \in Nat, NEW rec, run.started, run.lines = n,
         Len(rec.events) = n + 1
  PROVE  LET new == Summarised(Logged(run), rec)
         IN  /\ new.closed = rec.closed /\ new.count = new.lines
             /\ ~rec.closed => Agrees(new, rec)
<1>1. Logged(run) \in Run /\ Logged(run).started /\ Logged(run).lines = n + 1
  BY LoggedType DEF Logged, Run
<1>2. LET new == Summarised(Logged(run), rec)
      IN  /\ new.started = Logged(run).started /\ new.lines = Logged(run).lines
          /\ new.count = Len(rec.events) /\ new.blocked = rec.blocked
          /\ new.recovered = rec.recovered /\ new.closed = rec.closed
  BY <1>1, SummaryFields
<1> QED
  BY <1>1, <1>2 DEF Agrees

\* A recover mark changes the summary in that field alone.
LEMMA MarkAgrees ==
  ASSUME NEW rec \in Records, ~rec.closed, NEW run \in Run, Agrees(run, rec)
  PROVE  LET marked == [rec EXCEPT !.recovered = TRUE]
         IN  Agrees(Summarised(run, marked), marked) /\ ~marked.closed
<1> DEFINE marked == [rec EXCEPT !.recovered = TRUE]
<1>1. /\ marked.events = rec.events /\ marked.blocked = rec.blocked
      /\ marked.closed = rec.closed
  BY DEF Records
<1> HIDE DEF marked
<1>2. LET new == Summarised(run, marked)
      IN  /\ new.started = run.started /\ new.lines = run.lines
          /\ new.count = Len(marked.events) /\ new.blocked = marked.blocked
          /\ new.recovered = marked.recovered /\ new.closed = marked.closed
  BY SummaryFields
<1> QED
  BY <1>1, <1>2 DEF Agrees, marked

\* The files of the other sessions are those of ended ones.
Ended(run) == run.started => run.closed /\ run.count = run.lines

Sound ==
  /\ SessionIffHandle
  /\ session # 0 => ~record.closed /\ Agrees(runs[session], record)
  /\ \A k \in SessionIds : k # session => Ended(runs[k])

\* Sound is FilesMatchRecord and SessionIffHandle, and a live record is open.
LEMMA SoundMeaning ==
  ASSUME TypeOK, Sound
  PROVE  SessionIffHandle /\ FilesMatchRecord
<1>1. 0 \notin SessionIds
  BY DEF SessionIds
<1>2. ASSUME NEW k \in SessionIds, k = session
      PROVE  runs[k] = [started |-> TRUE, lines |-> Len(record.events),
                        count |-> Len(record.events), blocked |-> record.blocked,
                        recovered |-> record.recovered, closed |-> FALSE]
  <2>1. runs[k] \in Run /\ Agrees(runs[k], record)
    BY <1>1, <1>2 DEF Sound, TypeOK
  <2>2. ASSUME NEW run \in Run
        PROVE  run = [started |-> run.started, lines |-> run.lines, count |-> run.count,
                      blocked |-> run.blocked, recovered |-> run.recovered,
                      closed |-> run.closed]
    BY DEF Run
  <2>3. runs[k].started = TRUE /\ runs[k].closed = FALSE
    BY <2>1 DEF Agrees, Run
  <2> QED
    BY <2>1, <2>2, <2>3 DEF Agrees
<1>3. \A k \in SessionIds : k # session /\ runs[k].started => runs[k].closed /\ runs[k].count = runs[k].lines
  BY DEF Sound, Ended
<1> QED
  BY <1>2, <1>3 DEF Sound, FilesMatchRecord

\* Every step keeps that, as long as writes succeed.
LEMMA SoundStep ==
  ASSUME ~StorageFaults, TypeOK, StoreStep, Sound
  PROVE  Sound'
<1>1. /\ runs \in [SessionIds -> Run] /\ record \in Records
      /\ session \in {0} \cup SessionIds /\ 0 \notin SessionIds
  BY DEF TypeOK, Records, SessionIds
<1>2. \A w \in Writes : w = "ok"
  BY DEF Writes
<1>3. session # 0 => /\ session \in SessionIds /\ runs[session] \in Run
                     /\ ~record.closed /\ Agrees(runs[session], record)
  BY <1>1 DEF Sound
<1>4. ASSUME NEW k \in SessionIds, NEW run, runs' = [runs EXCEPT ![k] = run]
      PROVE  runs'[k] = run /\ \A j \in SessionIds : j # k => runs'[j] = runs[j]
  BY <1>1, <1>4
<1>5. ASSUME UNCHANGED <<handle, probeOpen, session, record, runs>>
      PROVE  Sound'
  BY <1>5 DEF Sound, SessionIffHandle, Connected
<1>6. CASE Journals
  <2>0. PICK e, watched : \E w \in Writes : JournalsAs(e, watched, w)
    BY <1>6 DEF Journals
  <2>1. PICK w \in Writes :
          /\ Record(e, watched, w) /\ UNCHANGED <<handle, session>>
          /\ probeOpen' = probeOpen \/ w # "ok"
    BY <2>0 DEF JournalsAs
  <2>2. w = "ok" /\ probeOpen' = probeOpen
    BY <1>2, <2>1
  <2>3. CASE session = 0
    <3>1. UNCHANGED <<record, runs>>
      BY <2>1, <2>3 DEF Record
    <3> QED
      BY <1>5, <2>1, <2>2, <3>1
  <2>4. CASE session # 0
    <3> DEFINE new == Appended(record, e, watched, w)
               run == Summarised(Logged(runs[session]), new)
    <3>1. record' = new /\ runs' = [runs EXCEPT ![session] = run]
      BY <2>1, <2>2, <2>4 DEF Record, Journaled
    <3>2. /\ Len(new.events) = Len(record.events) + 1 /\ Len(record.events) \in Nat
          /\ new.closed = record.closed
      BY <1>1, RecordGrows
    <3>3. /\ runs[session] \in Run /\ runs[session].started
          /\ runs[session].lines = Len(record.events) /\ ~record.closed
      BY <1>3, <2>4 DEF Agrees
    <3> HIDE DEF new
    <3>5. ~new.closed
      BY <3>2, <3>3
    <3>4. Agrees(run, new)
      BY <3>2, <3>3, <3>5, JournalAgrees
    <3> HIDE DEF run
    <3>6. Agrees(runs'[session], new)
      BY <1>3, <1>4, <2>4, <3>1, <3>4
    <3>7. \A k \in SessionIds : k # session => Ended(runs'[k])
      BY <1>3, <1>4, <2>4, <3>1 DEF Sound
    <3>8. SessionIffHandle'
      BY <2>1, <2>2 DEF Sound, SessionIffHandle, Connected
    <3> QED
      BY <2>1, <3>1, <3>5, <3>6, <3>7, <3>8 DEF Sound
  <2> QED
    BY <2>3, <2>4
<1>7. ASSUME NEW board \in Boards \cup {Raw}, NEW k \in SessionIds, NEW w \in Writes,
             Connect(board, k, w)
      PROVE  Sound'
  <2> DEFINE e == Event("connect", "success", NoCode, NoKey)
             fresh == [NoRun EXCEPT !.started = TRUE]
             new == Appended(EmptyRecord, e, FALSE, w)
             run == Summarised(Logged(fresh), new)
  <2>1. /\ session' = k /\ record' = new /\ handle' = board /\ probeOpen' = TRUE
        /\ ~Connected /\ runs' = [runs EXCEPT ![k] = run]
    BY <1>2, <1>7 DEF Connect, Journaled
  <2>2. fresh \in Run /\ fresh.started /\ fresh.lines = 0 /\ EmptyRecord \in Records
    BY EmptyTypes DEF NoRun
  <2>3. Len(new.events) = 0 + 1 /\ new.closed = FALSE
    <3>1. Len(EmptyRecord.events) = 0 /\ EmptyRecord.closed = FALSE
      BY DEF EmptyRecord
    <3>2. new = Appended(EmptyRecord, e, FALSE, w)
      OBVIOUS
    <3>3. EmptyRecord \in Records
      BY <2>2
    <3> HIDE DEF e, new, run
    <3>4. Len(new.events) = Len(EmptyRecord.events) + 1 /\ new.closed = EmptyRecord.closed
      BY <3>2, <3>3, NewRecordGrows
    <3> QED
      BY <3>1, <3>4
  <2> HIDE DEF fresh, new
  <2>4. Agrees(run, new)
    BY <2>2, <2>3, JournalAgrees, 0 \in Nat
  <2> HIDE DEF run
  <2>5. runs'[k] = run /\ \A j \in SessionIds : j # k => runs'[j] = runs[j]
    BY <1>4, <2>1
  <2>6. session = 0
    BY <2>1 DEF Sound, SessionIffHandle
  <2>7. \A j \in SessionIds : j # k => Ended(runs'[j])
    BY <1>1, <2>5, <2>6 DEF Sound
  <2>8. SessionIffHandle'
    BY <1>1, <2>1, ServerConstants DEF SessionIffHandle, Connected
  <2> QED
    BY <2>1, <2>3, <2>4, <2>5, <2>7, <2>8 DEF Sound
<1>8. CASE Disconnect
  <2> DEFINE e == Event("disconnect", "success", NoCode, NoKey)
             closing == [WithEvent(record, e) EXCEPT !.closed = TRUE]
             run == Summarised(Logged(runs[session]), closing)
  <2>1. /\ session' = 0 /\ handle' = NoHandle /\ probeOpen' = FALSE /\ Connected
        /\ session # 0 => runs' = [runs EXCEPT ![session] = run]
    BY <1>8 DEF Disconnect
  <2>2. session # 0
    BY <2>1 DEF Sound, SessionIffHandle
  <2>3. Len(closing.events) = Len(record.events) + 1 /\ closing.closed = TRUE
    <3> DEFINE grown == Append(record.events, e)
    <3>1. /\ WithEvent(record, e) = [events |-> grown, blocked |-> record.blocked,
                                     recovered |-> record.recovered, closed |-> record.closed]
          /\ Len(grown) = Len(record.events) + 1
      BY <1>1, RecordGrows
    <3> HIDE DEF grown
    <3> QED
      BY <3>1
  <2>4. /\ runs[session] \in Run /\ runs[session].started
        /\ runs[session].lines = Len(record.events) /\ Len(record.events) \in Nat
    BY <1>1, <1>3, <2>2 DEF Agrees, Run
  <2> HIDE DEF closing
  <2>5. run.closed = TRUE /\ run.count = run.lines
    BY <2>3, <2>4, JournalAgrees
  <2> HIDE DEF run
  <2>6. Ended(run)
    BY <2>5 DEF Ended
  <2>7. \A k \in SessionIds : Ended(runs'[k])
    <3>1. runs'[session] = run /\ \A j \in SessionIds : j # session => runs'[j] = runs[j]
      BY <1>3, <1>4, <2>1, <2>2
    <3> QED
      BY <2>6, <3>1 DEF Sound
  <2> QED
    BY <2>1, <2>7 DEF Sound, SessionIffHandle, Connected
<1>9. ASSUME NEW w \in Writes, session # 0, UnlockRecover(w)
      PROVE  Sound'
  <2> DEFINE e == Event(RECOVER_TOOL, "success", NoCode, NoKey)
             marked == [record EXCEPT !.recovered = TRUE]
             first == Summarised(runs[session], marked)
             new == Appended(marked, e, TRUE, w)
             run == Summarised(Logged(first), new)
  <2>1. /\ UNCHANGED <<handle, probeOpen, session>> /\ record' = new
        /\ runs' = [runs EXCEPT ![session] = run]
    BY <1>2, <1>9 DEF UnlockRecover, Journaled
  <2>2. marked \in Records /\ ~marked.closed /\ Agrees(first, marked)
    BY <1>1, <1>3, <1>9, MarkedType, MarkAgrees
  <2>3. first \in Run
    BY <1>3, <1>9, <2>2, SummarisedType
  <2> HIDE DEF marked, first, e
  <2>4. /\ Len(new.events) = Len(marked.events) + 1 /\ Len(marked.events) \in Nat
        /\ new.closed = marked.closed
    <3>1. new = Appended(marked, e, TRUE, w)
      OBVIOUS
    <3>2. marked \in Records
      BY <2>2
    <3> HIDE DEF new, run
    <3>3. Len(new.events) = Len(marked.events) + 1 /\ new.closed = marked.closed
      BY <3>1, <3>2, NewRecordGrows
    <3>4. Len(marked.events) \in Nat
      BY <3>2 DEF Records
    <3> QED
      BY <3>3, <3>4
  <2>5. first.started /\ first.lines = Len(marked.events)
    BY <2>2 DEF Agrees
  <2> HIDE DEF new
  <2>6. ~new.closed
    BY <2>2, <2>4
  <2>7. Agrees(run, new)
    BY <2>3, <2>4, <2>5, <2>6, JournalAgrees
  <2> HIDE DEF run
  <2>8. Agrees(runs'[session], new)
    BY <1>3, <1>4, <1>9, <2>1, <2>7
  <2>9. \A k \in SessionIds : k # session => Ended(runs'[k])
    BY <1>3, <1>4, <1>9, <2>1 DEF Sound
  <2>10. SessionIffHandle'
    BY <2>1 DEF Sound, SessionIffHandle, Connected
  <2> QED
    BY <2>1, <2>6, <2>8, <2>9, <2>10 DEF Sound
<1>10. CASE \/ RecoverUnrecorded \/ DisconnectUnclosed
            \/ \E board \in Boards \cup {Raw} : ConnectUnrecorded(board)
  BY <1>10 DEF RecoverUnrecorded, DisconnectUnclosed, ConnectUnrecorded
<1> QED
  BY <1>5, <1>6, <1>7, <1>8, <1>9, <1>10 DEF StoreStep, Untouched

\* It holds in every reachable state.
LEMMA AlwaysSound == ~StorageFaults => (Spec => []Sound)
<1> SUFFICES ASSUME ~StorageFaults PROVE Spec => []Sound
  OBVIOUS
<1>1. Init => Sound
  BY DEF Init, Sound, SessionIffHandle, Connected, Ended, NoRun
<1>2. Typed /\ Sound /\ [Next]_vars => Sound'
  BY StoreSteps, SoundStep DEF Typed
<1> QED
  BY <1>1, <1>2, Typing, PTL DEF Spec

\* While writes succeed there is a session record exactly while a probe is held
\* open (connect and disconnect set and clear the three together).
THEOREM SessionsHaveHandles == ~StorageFaults => (Spec => []SessionIffHandle)
<1> SUFFICES ASSUME ~StorageFaults PROVE Spec => []SessionIffHandle
  OBVIOUS
<1>1. Sound => SessionIffHandle
  BY DEF Sound
<1>2. Spec => []Sound
  BY AlwaysSound
<1> QED
  BY <1>1, <1>2, PTL

\* While writes succeed the two files of the live session say what its record
\* says after each call, and the files of an ended session are closed.
THEOREM FilesAgree == ~StorageFaults => (Spec => []FilesMatchRecord)
<1> SUFFICES ASSUME ~StorageFaults PROVE Spec => []FilesMatchRecord
  OBVIOUS
<1>1. Typed /\ Sound => FilesMatchRecord
  BY SoundMeaning DEF Typed
<1>2. Spec => []Sound
  BY AlwaysSound
<1> QED
  BY <1>1, <1>2, Typing, PTL

-----------------------------------------------------------------------------
(* What may change the flash.                                                *)

FlashAllowed ==
  \/ reply'.tool = FLASH_TOOL /\ ~IsBlocked(FLASH_TOOL)
  \/ /\ reply'.tool = RECOVER_TOOL /\ ~IsBlocked(RECOVER_TOOL)
     /\ handle \in Boards /\ RecoverMode[handle] = "nrf_pyocd_unlock"
     /\ ~(session # 0 /\ record.recovered)

\* authorize_recover lets a recover through only on a board that supports it
\* and in a session that has not recovered yet.
LEMMA AuthorisedMeans ==
  ASSUME TypeOK, RecoverRefusal(TRUE) = NoCode
  PROVE  /\ handle \in Boards /\ RecoverMode[handle] = "nrf_pyocd_unlock"
         /\ ~(session # 0 /\ record.recovered)
<1>1. handle \in Boards
  BY DEF RecoverRefusal, NoCode, Connected, TypeOK
<1>2. RecoverMode[handle] \in {"none", "manual_only", "nrf_pyocd_unlock"}
  BY <1>1, ServerConstants
<1> QED
  BY <1>1, <1>2 DEF RecoverRefusal, NoCode, Connected

\* Every step that changes the flash was allowed to.
LEMMA FlashChanges ==
  ASSUME TypeOK, [Next]_vars, flash' # flash
  PROVE  FlashAllowed
<1>1. ~UNCHANGED vars
  BY DEF vars
<1>2. ASSUME NEW w, Lifecycle(w)
      PROVE  FALSE
  BY <1>2 DEF Lifecycle, ConnectAgain, ConnectFails, DisconnectFails, Connect,
              DisconnectIdle, DisconnectUnrecorded
<1>3. ASSUME NEW w, Unwatched(w)
      PROVE  FALSE
  BY <1>3 DEF Unwatched, PlainTool, GetBoardInfo
<1>4. ASSUME NEW w, Serial(w)
      PROVE  FALSE
  BY <1>4 DEF Serial, Blocked, SerialRefused, ReadSerial
<1>5. ASSUME NEW w, Flash(w)
      PROVE  FlashAllowed
  <2>1. ASSUME NEW path, NEW i, NEW code, FlashFails(path, i, code, w)
        PROVE  FlashAllowed
    BY <2>1 DEF FlashFails, Fail, OnlyRecord, Answer, FlashAllowed
  <2>2. ASSUME NEW path, NEW i, NEW halted, FlashFirmware(path, i, halted, w)
        PROVE  FlashAllowed
    BY <2>2 DEF FlashFirmware, Succeed, OnlyRecord, Answer, FlashAllowed
  <2> QED
    BY <1>5, <2>1, <2>2 DEF Flash, Blocked, FlashRefused, FlashUnreadable
<1>6. ASSUME NEW w, Recover(w)
      PROVE  FlashAllowed
  <2>1. ASSUME NEW code, RecoverFails(code, w)
        PROVE  FlashAllowed
    BY <2>1, AuthorisedMeans DEF RecoverFails, Fail, OnlyRecord, Answer, FlashAllowed
  <2>2. CASE UnlockRecover(w)
    BY <2>2, AuthorisedMeans DEF UnlockRecover, Answer, FlashAllowed
  <2> QED
    BY <1>6, <2>1, <2>2 DEF Recover, Blocked, RecoverRefused
<1>7. CASE RecoverUnrecorded
  BY <1>7, AuthorisedMeans DEF RecoverUnrecorded, FlashAllowed
<1>8. CASE \/ \E board \in Boards \cup {Raw} : ConnectUnrecorded(board)
           \/ Disconnect \/ DisconnectUnclosed \/ SerialRaises \/ SerialNoBoard
  BY <1>8 DEF ConnectUnrecorded, Disconnect, DisconnectUnclosed, SerialRaises, SerialNoBoard
<1> QED
  BY <1>1, <1>2, <1>3, <1>4, <1>5, <1>6, <1>7, <1>8 DEF Next

\* Whatever writes fail, the flash changes only in a flash call that is not
\* blocked, or in a recover that is neither blocked nor already used, on a board
\* whose recover mode allows it (recover_gate.py, convergence_watcher.py).
THEOREM FlashIsGuarded == Spec => FlashChangesOnlyWhenAllowed
<1>1. Typed /\ [Next]_vars =>
        [flash' # flash =>
           \/ reply'.tool = FLASH_TOOL /\ ~IsBlocked(FLASH_TOOL)
           \/ /\ reply'.tool = RECOVER_TOOL /\ ~IsBlocked(RECOVER_TOOL)
              /\ handle \in Boards /\ RecoverMode[handle] = "nrf_pyocd_unlock"
              /\ ~(session # 0 /\ record.recovered)]_vars
  BY FlashChanges DEF Typed, FlashAllowed
<1> QED
  BY <1>1, Typing, PTL DEF Spec, FlashChangesOnlyWhenAllowed

-----------------------------------------------------------------------------
(* The watcher as a counter.                                                 *)

LastIn(events, family) ==
  IF RunningIn(events, family) = {} THEN NoSignature
  ELSE CHOOSE s \in RunningIn(events, family) : TRUE

CountIn(events, family) ==
  Cardinality(UNION {Streak(events, s) : s \in RunningIn(events, family)})

\* What is running: the signatures of the family with failures left to count.
LEMMA RunningMeans ==
  ASSUME NEW events \in Seq(ToolEvent), NEW f, NEW s
  PROVE  s \in RunningIn(events, f) <=> s[1] = f /\ Streak(events, s) # {}
<1>1. \A e : Signature(e)[1] = e.tool
  BY DEF Signature
<1>2. ASSUME s \in RunningIn(events, f) PROVE s[1] = f /\ Streak(events, s) # {}
  <2>1. PICK j \in 1..Len(events) :
          /\ Signed(events[j]) /\ events[j].tool = f
          /\ Streak(events, Signature(events[j])) # {} /\ s = Signature(events[j])
    BY <1>2 DEF RunningIn
  <2> QED
    BY <1>1, <2>1
<1>3. ASSUME s[1] = f, Streak(events, s) # {} PROVE s \in RunningIn(events, f)
  <2>1. PICK j \in 1..Len(events) : Signed(events[j]) /\ Signature(events[j]) = s
    BY <1>3 DEF Streak
  <2>2. events[j].tool = f
    BY <1>1, <1>3, <2>1
  <2>3. Streak(events, Signature(events[j])) # {}
    BY <1>3, <2>1
  <2> QED
    BY <2>1, <2>2, <2>3 DEF RunningIn
<1> QED
  BY <1>2, <1>3

\* One signature of a family is running at most: of two, the one that failed
\* last has ended the other.
LEMMA RunningIsOne ==
  ASSUME NEW events \in Seq(ToolEvent), NEW f,
         NEW s \in RunningIn(events, f), NEW t \in RunningIn(events, f)
  PROVE  s = t
<1>1. s[1] = f /\ t[1] = f
  BY RunningMeans
<1>2. PICK i \in 1..Len(events) :
        /\ Signed(events[i]) /\ Signature(events[i]) = s
        /\ \A k \in (i + 1)..Len(events) : ~Breaks(events[k], s)
  BY RunningMeans DEF Streak
<1>3. PICK j \in 1..Len(events) :
        /\ Signed(events[j]) /\ Signature(events[j]) = t
        /\ \A k \in (j + 1)..Len(events) : ~Breaks(events[k], t)
  BY RunningMeans DEF Streak
<1>4. events[i].tool = f /\ events[j].tool = f
  <2>1. \A e : Signature(e)[1] = e.tool
    BY DEF Signature
  <2> QED
    BY <1>1, <1>2, <1>3, <2>1
<1>5. CASE i = j
  BY <1>2, <1>3, <1>5
<1>6. CASE i < j
  <2>1. j \in (i + 1)..Len(events)
    BY <1>6
  <2>2. ~Breaks(events[j], s)
    BY <1>2, <2>1
  <2> QED
    BY <1>1, <1>3, <1>4, <2>2 DEF Breaks
<1>7. CASE j < i
  <2>1. i \in (j + 1)..Len(events)
    BY <1>7
  <2>2. ~Breaks(events[i], t)
    BY <1>3, <2>1
  <2> QED
    BY <1>1, <1>2, <1>4, <2>2 DEF Breaks
<1> QED
  BY <1>5, <1>6, <1>7

\* The counter read off a log with nothing running, and with one signature.
LEMMA CounterMeans ==
  ASSUME NEW events \in Seq(ToolEvent), NEW f
  PROVE  /\ RunningIn(events, f) = {} => LastIn(events, f) = NoSignature /\ CountIn(events, f) = 0
         /\ \A s \in RunningIn(events, f) :
              LastIn(events, f) = s /\ CountIn(events, f) = Cardinality(Streak(events, s))
<1>1. ASSUME RunningIn(events, f) = {}
      PROVE  LastIn(events, f) = NoSignature /\ CountIn(events, f) = 0
  <2>1. UNION {Streak(events, s) : s \in RunningIn(events, f)} = {}
    BY <1>1
  <2> QED
    BY <1>1, <2>1, FS_EmptySet DEF LastIn, CountIn
<1>2. ASSUME NEW s \in RunningIn(events, f)
      PROVE  LastIn(events, f) = s /\ CountIn(events, f) = Cardinality(Streak(events, s))
  <2>1. RunningIn(events, f) = {s}
    BY <1>2, RunningIsOne
  <2>2. UNION {Streak(events, t) : t \in {s}} = Streak(events, s)
    OBVIOUS
  <2>3. (CHOOSE t \in {s} : TRUE) = s
    OBVIOUS
  <2> QED
    BY <2>1, <2>2, <2>3 DEF LastIn, CountIn
<1> QED
  BY <1>1, <1>2

\* A run of failures is a finite set of indices.
LEMMA StreakFinite ==
  ASSUME NEW events \in Seq(ToolEvent), NEW s
  PROVE  IsFiniteSet(Streak(events, s)) /\ Cardinality(Streak(events, s)) \in Nat
<1>1. Streak(events, s) \subseteq 1..Len(events)
  BY DEF Streak
<1>2. IsFiniteSet(1..Len(events))
  BY FS_Interval
<1> QED
  BY <1>1, <1>2, FS_Subset, FS_CardinalityType

\* One more failure with signature s lengthens its run by one.
LEMMA StreakGrows ==
  ASSUME NEW events \in Seq(ToolEvent), NEW e \in ToolEvent, Signed(e)
  PROVE  Cardinality(Streak(Append(events, e), Signature(e)))
           = Cardinality(Streak(events, Signature(e))) + 1
<1> DEFINE grown == Append(events, e)
           n == Len(events)
           s == Signature(e)
<1>1. n \in Nat /\ Len(grown) = n + 1 /\ grown[n + 1] = e
      /\ \A i \in 1..n : grown[i] = events[i]
  OBVIOUS
<1>2. ~Breaks(e, s)
  BY DEF Breaks, Signed
<1> HIDE DEF grown, n, s
<1>3. ASSUME NEW i \in 1..n
      PROVE  (\A j \in (i + 1)..(n + 1) : ~Breaks(grown[j], s))
               <=> (\A j \in (i + 1)..n : ~Breaks(events[j], s))
  <2>1. \A j \in (i + 1)..n : j \in 1..n /\ j \in (i + 1)..(n + 1)
    BY <1>1
  <2>2. \A j \in (i + 1)..(n + 1) : j = n + 1 \/ j \in (i + 1)..n
    BY <1>1
  <2> QED
    BY <1>1, <1>2, <2>1, <2>2
<1>4. \A i \in 1..n : i \in Streak(grown, s) <=> i \in Streak(events, s)
  <2>1. \A i \in 1..n : i \in 1..(n + 1)
    BY <1>1
  <2> QED
    BY <1>1, <1>3, <2>1 DEF Streak, n
<1>5. n + 1 \in Streak(grown, s)
  <2>1. \A j \in (n + 1 + 1)..(n + 1) : FALSE
    BY <1>1
  <2>2. n + 1 \in 1..(n + 1)
    BY <1>1
  <2> QED
    BY <1>1, <2>1, <2>2 DEF Streak, s
<1>6. Streak(grown, s) \subseteq 1..(n + 1) /\ Streak(events, s) \subseteq 1..n
  BY <1>1 DEF Streak, n
<1>7. Streak(grown, s) = Streak(events, s) \cup {n + 1} /\ n + 1 \notin Streak(events, s)
  <2>1. \A i \in 1..(n + 1) : i \in 1..n \/ i = n + 1
    BY <1>1
  <2>2. n + 1 \notin 1..n
    BY <1>1
  <2> QED
    BY <1>4, <1>5, <1>6, <2>1, <2>2
<1>8. IsFiniteSet(Streak(events, s))
  BY <1>1, <1>6, FS_Interval, FS_Subset
<1>9. Cardinality(Streak(events, s) \cup {n + 1}) = Cardinality(Streak(events, s)) + 1
  BY <1>7, <1>8, FS_AddElement
<1> QED
  BY <1>7, <1>9 DEF grown, s

\* What one more event does to the counter of a family: a failure counts or
\* starts over, a success ends the count, another event changes nothing.
LEMMA CounterAppend ==
  ASSUME NEW events \in Seq(ToolEvent), NEW e \in ToolEvent, NEW f
  PROVE  LET grown == Append(events, e)
         IN  /\ e.tool = f /\ Signed(e) /\ Signature(e) # NoSignature =>
                  /\ LastIn(grown, f) = Signature(e)
                  /\ CountIn(grown, f) = Cardinality(Streak(grown, Signature(e)))
                  /\ CountIn(grown, f) = IF Signature(e) = LastIn(events, f)
                                         THEN CountIn(events, f) + 1 ELSE 1
             /\ e.tool = f /\ e.outcome = "success" =>
                  LastIn(grown, f) = NoSignature /\ CountIn(grown, f) = 0
             /\ e.tool # f \/ ~(Signed(e) \/ e.outcome = "success") =>
                  LastIn(grown, f) = LastIn(events, f) /\ CountIn(grown, f) = CountIn(events, f)
<1> DEFINE grown == Append(events, e)
<1>1. grown \in Seq(ToolEvent) /\ Signature(e)[1] = e.tool
  BY DEF Signature
<1>2. \A s : s \in RunningIn(grown, f) <=> s[1] = f /\ Streak(grown, s) # {}
  BY <1>1, RunningMeans
<1>3. ASSUME e.tool = f, Signed(e), Signature(e) # NoSignature
      PROVE  /\ LastIn(grown, f) = Signature(e)
             /\ CountIn(grown, f) = Cardinality(Streak(grown, Signature(e)))
             /\ CountIn(grown, f) = IF Signature(e) = LastIn(events, f)
                                    THEN CountIn(events, f) + 1 ELSE 1
  <2> DEFINE s == Signature(e)
  <2>1. Cardinality(Streak(grown, s)) = Cardinality(Streak(events, s)) + 1
    BY <1>3, StreakGrows
  <2>2. IsFiniteSet(Streak(events, s)) /\ Cardinality(Streak(events, s)) \in Nat
    BY StreakFinite
  <2>3. Streak(grown, s) # {}
    <3>1. Cardinality(Streak(grown, s)) # 0
      BY <2>1, <2>2
    <3> HIDE DEF grown, s
    <3> QED
      BY <3>1, FS_EmptySet
  <2>4. s \in RunningIn(grown, f)
    BY <1>1, <1>2, <1>3, <2>3
  <2>5. LastIn(grown, f) = s /\ CountIn(grown, f) = Cardinality(Streak(grown, s))
    BY <1>1, <2>4, CounterMeans
  <2>6. CASE s = LastIn(events, f)
    <3>1. RunningIn(events, f) # {}
      BY <1>3, <2>6, CounterMeans
    <3>2. PICK t \in RunningIn(events, f) : TRUE
      BY <3>1
    <3>3. s \in RunningIn(events, f)
      BY <2>6, <3>2, CounterMeans
    <3>4. CountIn(events, f) = Cardinality(Streak(events, s))
      BY <3>3, CounterMeans
    <3> QED
      BY <2>1, <2>5, <2>6, <3>4
  <2>7. CASE s # LastIn(events, f)
    <3>1. s \notin RunningIn(events, f)
      BY <2>7, CounterMeans
    <3>2. Streak(events, s) = {}
      BY <1>1, <1>3, <3>1, RunningMeans
    <3> QED
      BY <2>1, <2>5, <2>7, <3>2, FS_EmptySet
  <2> QED
    BY <2>5, <2>6, <2>7
<1>4. ASSUME e.tool = f, e.outcome = "success"
      PROVE  LastIn(grown, f) = NoSignature /\ CountIn(grown, f) = 0
  <2>1. \A s : s[1] = f => Streak(grown, s) = {}
    BY <1>4, StreakAppend DEF Breaks
  <2>2. RunningIn(grown, f) = {}
    BY <1>2, <2>1
  <2> QED
    BY <1>1, <2>2, CounterMeans
<1>5. ASSUME e.tool # f \/ ~(Signed(e) \/ e.outcome = "success")
      PROVE  LastIn(grown, f) = LastIn(events, f) /\ CountIn(grown, f) = CountIn(events, f)
  <2>1. \A s : s[1] = f => ~Breaks(e, s) /\ ~(Signed(e) /\ Signature(e) = s)
    BY <1>1, <1>5 DEF Breaks
  <2>2. \A s : s[1] = f => Streak(grown, s) = Streak(events, s)
    BY <2>1, StreakAppend
  <2>3. \A s : s \in RunningIn(grown, f) <=> s \in RunningIn(events, f)
    BY <1>2, <2>2, RunningMeans
  <2>4. RunningIn(grown, f) = RunningIn(events, f)
    BY <2>3
  <2>5. CASE RunningIn(events, f) = {}
    BY <1>1, <2>4, <2>5, CounterMeans
  <2>6. CASE RunningIn(events, f) # {}
    <3>1. PICK s \in RunningIn(events, f) : TRUE
      BY <2>6
    <3>2. s \in RunningIn(grown, f) /\ Streak(grown, s) = Streak(events, s)
      BY <2>2, <2>4, <3>1, RunningMeans
    <3> QED
      BY <1>1, <3>1, <3>2, CounterMeans
  <2> QED
    BY <2>5, <2>6
<1> QED
  BY <1>3, <1>4, <1>5

\* A step of the counter of family f, or none.
CounterStep(f) ==
  \/ \E s \in SignaturesOf(f) :
       /\ f \notin record.blocked
       /\ Last(f)' = s
       /\ Count(f)' = IF s = Last(f) THEN Count(f) + 1 ELSE 1
       /\ f \in record'.blocked <=> Count(f)' >= Threshold(f)
  \/ /\ f \notin record.blocked /\ f \notin record'.blocked
     /\ Last(f)' = NoSignature /\ Count(f)' = 0
  \/ f \notin record'.blocked /\ Last(f)' = NoSignature /\ Count(f)' = 0
  \/ /\ f \in record'.blocked <=> f \in record.blocked
     /\ Last(f)' = Last(f) /\ Count(f)' = Count(f)

\* Each step of the record is one of the counter of every family.
LEMMA CounterSteps ==
  ASSUME Typed, WatchStep, ~StorageFaults, NEW f \in Families
  PROVE  CounterStep(f)
<1>1. record.events \in Seq(ToolEvent)
  BY DEF Typed, TypeOK
<1>2. /\ Last(f) = LastIn(record.events, f) /\ Last(f)' = LastIn(record'.events, f)
      /\ Count(f) = CountIn(record.events, f) /\ Count(f)' = CountIn(record'.events, f)
  BY DEF Last, LastIn, Count, CountIn, Running
<1>3. << >> \in Seq(ToolEvent) /\ LastIn(<< >>, f) = NoSignature /\ CountIn(<< >>, f) = 0
  <2>1. << >> \in Seq(ToolEvent)
    OBVIOUS
  <2>2. RunningIn(<< >>, f) = {}
    BY DEF RunningIn
  <2> QED
    BY <2>1, <2>2, CounterMeans
<1>4. CASE record'.events = record.events /\ record'.blocked = record.blocked
  BY <1>2, <1>4 DEF CounterStep
<1>5. CASE record'.events = << >> /\ record'.blocked = {}
  BY <1>2, <1>3, <1>5 DEF CounterStep
<1>6. ASSUME NEW e \in ToolEvent, e.tool \notin Families,
             record'.events = Append(<< >>, e), record'.blocked = {}
      PROVE  CounterStep(f)
  <2>1. e.tool # f
    BY <1>6
  <2>2. LastIn(Append(<< >>, e), f) = NoSignature /\ CountIn(Append(<< >>, e), f) = 0
    BY <1>3, <2>1, CounterAppend
  <2> QED
    BY <1>2, <1>6, <2>2 DEF CounterStep
<1>7. ASSUME NEW e \in ToolEvent, NEW watched \in BOOLEAN, NEW w \in Writes,
             Legal(e, watched),
             record'.events = Append(record.events, e),
             record'.blocked =
               IF watched /\ w \in {"ok", "block"} /\ MustBlock(Append(record.events, e), e)
               THEN record.blocked \cup {e.tool} ELSE record.blocked
      PROVE  CounterStep(f)
  <2> DEFINE grown == Append(record.events, e)
  <2>1. w = "ok"
    BY DEF Writes
  <2>2. CASE e.tool = f /\ Signed(e)
    <3>1. f \notin record.blocked /\ watched /\ Signature(e) \in Signatures
      BY <1>7, <2>2 DEF Legal
    <3>2. Signature(e) \in SignaturesOf(f) /\ Signature(e) # NoSignature
      BY <2>2, <3>1, NoSignatureIsNew DEF SignaturesOf, Signature
    <3>3. /\ Last(f)' = Signature(e)
          /\ Count(f)' = Cardinality(Streak(grown, Signature(e)))
          /\ Count(f)' = IF Signature(e) = Last(f) THEN Count(f) + 1 ELSE 1
      BY <1>1, <1>2, <1>7, <2>2, <3>2, CounterAppend
    <3>4. MustBlock(grown, e) <=> Count(f)' >= Threshold(f)
      BY <2>2, <3>3 DEF MustBlock
    <3>5. f \in record'.blocked <=> MustBlock(grown, e)
      BY <1>7, <2>1, <2>2, <3>1
    <3> QED
      BY <3>1, <3>2, <3>3, <3>4, <3>5 DEF CounterStep
  <2>3. CASE e.tool = f /\ e.outcome = "success"
    <3>1. ~Signed(e)
      BY <2>3 DEF Signed
    <3>2. f \notin record.blocked /\ ~MustBlock(grown, e)
      BY <1>7, <2>3, <3>1 DEF Legal, MustBlock
    <3>3. Last(f)' = NoSignature /\ Count(f)' = 0
      BY <1>1, <1>2, <1>7, <2>3, CounterAppend
    <3> QED
      BY <1>7, <3>2, <3>3 DEF CounterStep
  <2>4. CASE e.tool # f \/ ~(Signed(e) \/ e.outcome = "success")
    <3>1. Last(f)' = Last(f) /\ Count(f)' = Count(f)
      BY <1>1, <1>2, <1>7, <2>4, CounterAppend
    <3>2. f \in record'.blocked <=> f \in record.blocked
      BY <1>7, <2>4 DEF MustBlock
    <3> QED
      BY <3>1, <3>2 DEF CounterStep
  <2> QED
    BY <2>2, <2>3, <2>4
<1> QED
  BY <1>4, <1>5, <1>6, <1>7 DEF WatchStep

\* When writes succeed, the watcher that rescans the log implements one counter
\* of identical consecutive failures per family (convergence_watcher.py).
THEOREM WatcherRefinesCounter == ~StorageFaults => (Spec => ImplementsCounter)
<1> SUFFICES ASSUME ~StorageFaults PROVE Spec => ImplementsCounter
  OBVIOUS
<1>1. Typed /\ [Next]_vars => \A f \in Families : CounterStep(f)
  BY NextStep, WatchStepOfRecordStep, CounterSteps
<1>2. Init => \A f \in Families :
                Last(f) = NoSignature /\ Count(f) = 0 /\ f \notin record.blocked
  <2>1. << >> \in Seq(ToolEvent) /\ \A f : RunningIn(<< >>, f) = {}
    BY DEF RunningIn
  <2>2. \A f : LastIn(<< >>, f) = NoSignature /\ CountIn(<< >>, f) = 0
    BY <2>1, CounterMeans
  <2> QED
    BY <2>2 DEF Init, EmptyRecord, Last, LastIn, Count, CountIn, Running
<1>3. Init => FlashWatcher!Init /\ UartWatcher!Init /\ RecoverWatcher!Init
  BY <1>2 DEF Families, FlashWatcher!Init, UartWatcher!Init, RecoverWatcher!Init
<1>4. CounterStep(FLASH_TOOL) => [FlashWatcher!Next]_(FlashWatcher!vars)
  BY DEF CounterStep, FlashWatcher!Next, FlashWatcher!vars, FlashWatcher!Failure,
         FlashWatcher!Success, FlashWatcher!Clear
<1>5. CounterStep(UART_TOOL) => [UartWatcher!Next]_(UartWatcher!vars)
  BY DEF CounterStep, UartWatcher!Next, UartWatcher!vars, UartWatcher!Failure,
         UartWatcher!Success, UartWatcher!Clear
<1>6. CounterStep(RECOVER_TOOL) => [RecoverWatcher!Next]_(RecoverWatcher!vars)
  BY DEF CounterStep, RecoverWatcher!Next, RecoverWatcher!vars, RecoverWatcher!Failure,
         RecoverWatcher!Success, RecoverWatcher!Clear
<1>7. Typed /\ [Next]_vars =>
        /\ [FlashWatcher!Next]_(FlashWatcher!vars)
        /\ [UartWatcher!Next]_(UartWatcher!vars)
        /\ [RecoverWatcher!Next]_(RecoverWatcher!vars)
  BY <1>1, <1>4, <1>5, <1>6 DEF Families
<1> QED
  BY <1>3, <1>7, Typing, PTL
  DEF Spec, ImplementsCounter, FlashWatcher!Spec, UartWatcher!Spec, RecoverWatcher!Spec

-----------------------------------------------------------------------------
(* What the server promises its clients.                                     *)

\* Only a connect starts a run.
LEMMA StartedStays ==
  ASSUME ~StorageFaults, TypeOK, SessionIffHandle, StoreStep, session' \in {0, session}
  PROVE  \A k \in SessionIds : runs'[k].started = runs[k].started
<1>1. /\ runs \in [SessionIds -> Run] /\ session \in {0} \cup SessionIds
      /\ 0 \notin SessionIds
  BY DEF TypeOK, SessionIds
<1>2. \A w \in Writes : w = "ok"
  BY DEF Writes
<1>3. ASSUME NEW run, run.started = runs[session].started,
             runs' = [runs EXCEPT ![session] = run]
      PROVE  \A k \in SessionIds : runs'[k].started = runs[k].started
  BY <1>1, <1>3
<1>4. ASSUME NEW rec, NEW run \in Run
      PROVE  /\ Summarised(Logged(run), rec).started = run.started
             /\ Summarised(run, rec).started = run.started
             /\ Summarised(Logged(Summarised(run, rec)), rec).started = run.started
  BY DEF Summarised, Logged, Run
<1>5. CASE Untouched
  BY <1>5 DEF Untouched
<1>6. CASE Journals
  <2>1. PICK e, watched : \E w \in Writes : JournalsAs(e, watched, w)
    BY <1>6 DEF Journals
  <2>2. Record(e, watched, "ok")
    BY <1>2, <2>1 DEF JournalsAs
  <2>3. CASE session = 0
    BY <2>2, <2>3 DEF Record
  <2>4. CASE session # 0
    <3>1. runs' = [runs EXCEPT ![session] =
                     Summarised(Logged(runs[session]), Appended(record, e, watched, "ok"))]
      BY <2>2, <2>4 DEF Record, Journaled
    <3>2. runs[session] \in Run
      BY <1>1, <2>4
    <3> QED
      BY <1>3, <1>4, <3>1, <3>2
  <2> QED
    BY <2>3, <2>4
<1>7. CASE \E board \in Boards \cup {Raw}, k \in SessionIds, w \in Writes : Connect(board, k, w)
  BY <1>1, <1>7 DEF Connect, SessionIffHandle
<1>8. CASE Disconnect
  <2> DEFINE e == Event("disconnect", "success", NoCode, NoKey)
             closing == [WithEvent(record, e) EXCEPT !.closed = TRUE]
  <2>1. session # 0
    BY <1>8 DEF Disconnect, SessionIffHandle
  <2>2. runs' = [runs EXCEPT ![session] = Summarised(Logged(runs[session]), closing)]
    BY <1>8, <2>1 DEF Disconnect
  <2>3. runs[session] \in Run
    BY <1>1, <2>1
  <2> HIDE DEF e, closing
  <2> QED
    BY <1>3, <1>4, <2>2, <2>3
<1>9. CASE \E w \in Writes : session # 0 /\ UnlockRecover(w)
  <2> DEFINE e == Event(RECOVER_TOOL, "success", NoCode, NoKey)
             marked == [record EXCEPT !.recovered = TRUE]
             first == Summarised(runs[session], marked)
             new == Appended(marked, e, TRUE, "ok")
  <2>1. UnlockRecover("ok") /\ session # 0
    BY <1>2, <1>9
  <2>2. runs' = [runs EXCEPT ![session] = Summarised(Logged(first), new)]
    BY <2>1 DEF UnlockRecover, Journaled
  <2>3. runs[session] \in Run
    BY <1>1, <2>1
  <2>4. Summarised(Logged(first), new).started = runs[session].started
    <3> HIDE DEF e, marked, new
    <3> QED
      BY <2>3 DEF Summarised, Logged, Run
  <2> HIDE DEF e, marked, first, new
  <2> QED
    BY <1>3, <2>2, <2>4
<1>10. CASE \/ RecoverUnrecorded \/ DisconnectUnclosed
            \/ \E board \in Boards \cup {Raw} : ConnectUnrecorded(board)
  BY <1>10 DEF RecoverUnrecorded, DisconnectUnclosed, ConnectUnrecorded
<1> QED
  BY <1>5, <1>6, <1>7, <1>8, <1>9, <1>10 DEF StoreStep

\* Runs are started in order: those that have been started are the first ones.
InOrder ==
  \A k \in SessionIds : runs[k].started => \A j \in 1..(k - 1) : runs[j].started

\* The ids below an id are ids.
LEMMA EarlierIds ==
  ASSUME NEW k \in SessionIds, NEW j \in 1..(k - 1)
  PROVE  j \in SessionIds
<1>1. MaxSessions \in Nat
  BY ServerConstants
<1>2. k \in 1..MaxSessions
  BY DEF SessionIds
<1>3. j \in 1..MaxSessions
  BY <1>1, <1>2
<1> QED
  BY <1>3 DEF SessionIds

\* The session a connect starts is numbered one above those issued before.
LEMMA IssuedGrows ==
  ASSUME TypeOK, InOrder, NEW k \in SessionIds, Fresh(k),
         NEW run, run.started = TRUE, runs' = [runs EXCEPT ![k] = run]
  PROVE  k = Issued + 1 /\ Issued' = Issued + 1 /\ InOrder'
<1>1. runs \in [SessionIds -> Run] /\ SessionIds \subseteq Nat /\ k \in Nat /\ k >= 1
  BY DEF TypeOK, SessionIds
<1>2. \A j \in SessionIds : runs'[j] = IF j = k THEN run ELSE runs[j]
  BY <1>1
<1>3. {j \in SessionIds : runs[j].started} = 1..(k - 1)
  <2>1. ASSUME NEW j \in SessionIds, runs[j].started PROVE j \in 1..(k - 1)
    <3>1. j \in Nat /\ j >= 1 /\ \A i \in 1..(j - 1) : runs[i].started
      BY <1>1, <2>1 DEF InOrder, SessionIds
    <3>2. ~runs[k].started
      BY DEF Fresh
    <3>3. j # k /\ k \notin 1..(j - 1)
      BY <2>1, <3>1, <3>2
    <3> QED
      BY <1>1, <3>1, <3>3
  <2>2. ASSUME NEW j \in 1..(k - 1) PROVE j \in SessionIds /\ runs[j].started
    <3>1. runs[j].started
      BY DEF Fresh
    <3> QED
      BY <3>1, EarlierIds
  <2> QED
    BY <2>1, <2>2
<1>4. {j \in SessionIds : runs'[j].started} = 1..k
  <2>1. ASSUME NEW j \in SessionIds, runs'[j].started PROVE j \in 1..k
    <3>1. j = k \/ j \in 1..(k - 1)
      BY <1>2, <1>3, <2>1
    <3> QED
      BY <1>1, <3>1
  <2>2. ASSUME NEW j \in 1..k PROVE j \in SessionIds /\ runs'[j].started
    <3>1. j = k \/ j \in 1..(k - 1)
      BY <1>1
    <3>2. CASE j = k
      BY <1>2, <3>2
    <3>3. CASE j \in 1..(k - 1) /\ j # k
      <4>1. j \in SessionIds /\ runs[j].started
        BY <1>3, <3>3
      <4> QED
        BY <1>2, <3>3, <4>1
    <3> QED
      BY <3>1, <3>2, <3>3
  <2> QED
    BY <2>1, <2>2
<1>5. Cardinality(1..(k - 1)) = k - 1 /\ Cardinality(1..k) = k
  BY <1>1, FS_Interval
<1>6. Issued = k - 1 /\ Issued' = k
  BY <1>3, <1>4, <1>5 DEF Issued
<1>7. InOrder'
  BY <1>1, <1>4 DEF InOrder
<1> QED
  BY <1>1, <1>6, <1>7

\* A call that keeps the session, or only ends it, issues none.
LEMMA IssuedStays ==
  ASSUME ~StorageFaults, TypeOK, SessionIffHandle, StoreStep, InOrder, session' \in {0, session}
  PROVE  Issued' = Issued /\ InOrder'
<1>1. \A k \in SessionIds : runs'[k].started = runs[k].started
  BY StartedStays
<1>2. {k \in SessionIds : runs'[k].started} = {k \in SessionIds : runs[k].started}
  BY <1>1
<1>3. \A k \in SessionIds : \A j \in 1..(k - 1) : j \in SessionIds
  BY EarlierIds
<1> QED
  BY <1>1, <1>2, <1>3 DEF Issued, InOrder

\* What the contract's reading of an answer needs to know of the answer.
LEMMA ToldMeans ==
  ASSUME NEW tool, NEW o, reply' = [tool |-> tool, outcome |-> o]
  PROVE  /\ reply'.tool = tool
         /\ o = "raised" => Told = "error"
         /\ o \in {"refused", "blocked"} => Told = "declined"
         /\ o = "returned" => Told = IF IF tool \in {"connect", "disconnect"}
                                       THEN session' = session ELSE session = 0
                                    THEN "idle" ELSE "done"
  BY DEF Told, Notice

\* A call that changes nothing keeps the contract whatever it refuses, and, if it
\* is not one of connect and disconnect, whatever it raises.
LEMMA NothingDone ==
  ASSUME NEW tool \in Families \cup {"plain"}, NEW o \in Replies,
         reply' = [tool |-> tool, outcome |-> o],
         UNCHANGED <<session, flash>>, Issued' = Issued,
         o = "raised" => session # 0 \/ tool \in {"plain", UART_TOOL},
         o = "returned" => tool = "plain" \/ (tool = UART_TOOL /\ session # 0)
  PROVE  Honest
<1>1. PICK image : image \in Images
  BY SomeImage
<1>2. /\ reply'.tool = tool
      /\ o = "raised" => Told = "error"
      /\ o \in {"refused", "blocked"} => Told = "declined"
      /\ o = "returned" => Told = IF session = 0 THEN "idle" ELSE "done"
  BY ToldMeans DEF Families, FLASH_TOOL, UART_TOOL, RECOVER_TOOL
<1>3. CASE tool = FLASH_TOOL
  <2>1. ToolOf(tool) = "flash" /\ Contract!ServeFlash(image, TRUE, Told)
    BY <1>2, <1>3 DEF ToolOf, FLASH_TOOL, UART_TOOL, RECOVER_TOOL, Replies,
                      Contract!ServeFlash, Contract!Attempted
  <2>2. Contract!Serve(ToolOf(reply'.tool), image, TRUE, Told)
    BY <1>2, <2>1 DEF Contract!Serve
  <2> QED
    BY <1>1, <2>2 DEF Honest
<1>4. CASE tool = RECOVER_TOOL
  <2>1. ToolOf(tool) = "recover" /\ Contract!ServeRecover(Told)
    BY <1>2, <1>4 DEF ToolOf, FLASH_TOOL, UART_TOOL, RECOVER_TOOL, Replies,
                      Contract!ServeRecover, Contract!Attempted
  <2>2. Contract!Serve(ToolOf(reply'.tool), image, TRUE, Told)
    BY <1>2, <2>1 DEF Contract!Serve
  <2> QED
    BY <1>1, <2>2 DEF Honest
<1>5. CASE tool = UART_TOOL
  <2>1. ToolOf(tool) = "serial" /\ Contract!ServePlain(Told)
    BY <1>2, <1>5 DEF ToolOf, FLASH_TOOL, UART_TOOL, RECOVER_TOOL, Replies,
                      Contract!ServePlain, Contract!target
  <2>2. Contract!Serve(ToolOf(reply'.tool), image, TRUE, Told)
    BY <1>2, <2>1 DEF Contract!Serve
  <2> QED
    BY <1>1, <2>2 DEF Honest
<1>6. CASE tool = "plain"
  <2>1. ToolOf(tool) = "plain" /\ (Contract!ServePlain(Told) \/ Contract!ServeNotice(Told))
    BY <1>2, <1>6 DEF ToolOf, FLASH_TOOL, UART_TOOL, RECOVER_TOOL, Replies,
                      Contract!ServePlain, Contract!ServeNotice, Contract!target
  <2>2. Contract!Serve(ToolOf(reply'.tool), image, TRUE, Told)
    BY <1>2, <2>1 DEF Contract!Serve
  <2> QED
    BY <1>1, <2>2 DEF Honest
<1> QED
  BY <1>3, <1>4, <1>5, <1>6 DEF Families

\* A connect or disconnect that keeps the session is a notice or a failure.
LEMMA ConnectionKept ==
  ASSUME NEW tool \in {"connect", "disconnect"}, NEW o \in {"returned", "raised"},
         reply' = [tool |-> tool, outcome |-> o],
         UNCHANGED <<session, flash>>, Issued' = Issued,
         session # 0 <=> IF tool = "connect" THEN o = "returned" ELSE o = "raised"
  PROVE  Honest
<1>1. PICK image : image \in Images
  BY SomeImage
<1>2. reply'.tool = tool /\ Told = IF o = "raised" THEN "error" ELSE "idle"
  BY ToldMeans
<1>3. ToolOf(tool) = tool
  BY DEF ToolOf, FLASH_TOOL, UART_TOOL, RECOVER_TOOL
<1>4. Contract!Serve(ToolOf(reply'.tool), image, TRUE, Told)
  BY <1>2, <1>3 DEF Contract!Serve, Contract!ServeConnect, Contract!ServeDisconnect
<1> QED
  BY <1>1, <1>4 DEF Honest

\* A connect hands out the next session number.
LEMMA ConnectHonest ==
  ASSUME TypeOK, InOrder, SessionIffHandle,
         NEW board, NEW k \in SessionIds, Connect(board, k, "ok")
  PROVE  Honest /\ InOrder'
<1> DEFINE e == Event("connect", "success", NoCode, NoKey)
           fresh == [NoRun EXCEPT !.started = TRUE]
           new == Appended(EmptyRecord, e, FALSE, "ok")
           run == Summarised(Logged(fresh), new)
<1>1. PICK image : image \in Images
  BY SomeImage
<1>2. /\ session = 0 /\ session' = k /\ Fresh(k) /\ UNCHANGED flash
      /\ reply' = [tool |-> "connect", outcome |-> "returned"]
      /\ runs' = [runs EXCEPT ![k] = run]
  BY DEF Connect, Answer, Journaled, SessionIffHandle
<1>3. run.started = TRUE
  <2>1. fresh \in Run /\ fresh.started = TRUE
    BY EmptyTypes DEF NoRun
  <2> HIDE DEF fresh, new
  <2> QED
    BY <2>1 DEF Summarised, Logged, Run
<1> HIDE DEF run
<1>4. k = Issued + 1 /\ Issued' = Issued + 1 /\ InOrder'
  BY <1>2, <1>3, IssuedGrows
<1>5. reply'.tool = "connect" /\ Told = "done"
  <2>1. k # 0
    BY DEF SessionIds
  <2> QED
    BY <1>2, <2>1, ToldMeans
<1>6. ToolOf(reply'.tool) = "connect"
  BY <1>5 DEF ToolOf, FLASH_TOOL, UART_TOOL, RECOVER_TOOL
<1>7. Contract!ServeConnect(Told)
  BY <1>2, <1>4, <1>5 DEF Contract!ServeConnect
<1>8. Contract!Serve(ToolOf(reply'.tool), image, TRUE, Told)
  BY <1>6, <1>7 DEF Contract!Serve
<1> QED
  BY <1>1, <1>4, <1>8 DEF Honest

\* The disconnect that is answered ends the session.
LEMMA DisconnectHonest ==
  ASSUME SessionIffHandle, Disconnect, Issued' = Issued
  PROVE  Honest
<1>1. PICK image : image \in Images
  BY SomeImage
<1>2. /\ session # 0 /\ session' = 0 /\ UNCHANGED flash
      /\ reply' = [tool |-> "disconnect", outcome |-> "returned"]
  BY DEF Disconnect, SessionIffHandle
<1>3. reply'.tool = "disconnect" /\ Told = "done"
  BY <1>2, ToldMeans
<1>4. ToolOf(reply'.tool) = "disconnect" /\ Contract!ServeDisconnect(Told)
  BY <1>2, <1>3 DEF ToolOf, FLASH_TOOL, UART_TOOL, RECOVER_TOOL, Contract!ServeDisconnect
<1>5. Contract!Serve(ToolOf(reply'.tool), image, TRUE, Told)
  BY <1>4 DEF Contract!Serve
<1> QED
  BY <1>1, <1>5 DEF Honest

\* A flash call that is answered leaves the image it was asked for, and may only
\* fall short of it when it was not asked to leave the target halted
\* (swd_pyocd.flash tolerates a dropped transfer unless halt_after).
LEMMA FlashAsAsked ==
  ASSUME SessionIffHandle, Issued' = Issued,
         NEW path, NEW i, NEW halted \in BOOLEAN, FlashFirmware(path, i, halted, "ok")
  PROVE  Told = "done" /\ Contract!Serve(ToolOf(reply'.tool), i, halted, Told)
<1>1. /\ session # 0 /\ UNCHANGED session
      /\ reply' = [tool |-> FLASH_TOOL, outcome |-> "returned"]
      /\ flash' \in IF halted THEN {i} ELSE {flash, Torn, i}
  BY DEF FlashFirmware, Succeed, OnlyRecord, Answer, AfterAttempt, Resolvable, SessionIffHandle
<1>2. reply'.tool = FLASH_TOOL /\ Told = "done"
  BY <1>1, ToldMeans DEF FLASH_TOOL
<1>3. ToolOf(reply'.tool) = "flash"
  BY <1>2 DEF ToolOf, FLASH_TOOL, UART_TOOL, RECOVER_TOOL
<1>4. Contract!ServeFlash(i, halted, Told)
  BY <1>1, <1>2 DEF Contract!ServeFlash, Contract!Programmed, Contract!Attempted
<1> QED
  BY <1>2, <1>3, <1>4 DEF Contract!Serve

\* A flash or recover that raises has at most begun its own work.
LEMMA AttemptHonest ==
  ASSUME NEW tool \in {FLASH_TOOL, RECOVER_TOOL}, session # 0, UNCHANGED session,
         Issued' = Issued, reply' = [tool |-> tool, outcome |-> "raised"],
         NEW image \in Images,
         flash' \in {flash, Torn, IF tool = FLASH_TOOL THEN image ELSE Erased}
  PROVE  Honest
<1>1. reply'.tool = tool /\ Told = "error"
  BY ToldMeans
<1>2. CASE tool = FLASH_TOOL
  <2>1. ToolOf(reply'.tool) = "flash" /\ Contract!ServeFlash(image, TRUE, Told)
    BY <1>1, <1>2 DEF ToolOf, FLASH_TOOL, UART_TOOL, RECOVER_TOOL,
                      Contract!ServeFlash, Contract!Attempted
  <2>2. Contract!Serve(ToolOf(reply'.tool), image, TRUE, Told)
    BY <2>1 DEF Contract!Serve
  <2> QED
    BY <2>2 DEF Honest
<1>3. CASE tool = RECOVER_TOOL
  <2>1. ToolOf(reply'.tool) = "recover" /\ Contract!ServeRecover(Told)
    BY <1>1, <1>3 DEF ToolOf, FLASH_TOOL, UART_TOOL, RECOVER_TOOL,
                      Contract!ServeRecover, Contract!Attempted
  <2>2. Contract!Serve(ToolOf(reply'.tool), image, TRUE, Told)
    BY <2>1 DEF Contract!Serve
  <2> QED
    BY <2>2 DEF Honest
<1> QED
  BY <1>2, <1>3

\* A recover that is answered has erased the flash.
LEMMA RecoverHonest ==
  ASSUME SessionIffHandle, Issued' = Issued, UnlockRecover("ok")
  PROVE  Honest
<1>1. PICK image : image \in Images
  BY SomeImage
<1>2. /\ session # 0 /\ UNCHANGED session /\ flash' = Erased
      /\ reply' = [tool |-> RECOVER_TOOL, outcome |-> "returned"]
  BY DEF UnlockRecover, Answer, SessionIffHandle
<1>3. reply'.tool = RECOVER_TOOL /\ Told = "done"
  BY <1>2, ToldMeans DEF RECOVER_TOOL
<1>4. ToolOf(reply'.tool) = "recover" /\ Contract!ServeRecover(Told)
  BY <1>2, <1>3 DEF ToolOf, FLASH_TOOL, UART_TOOL, RECOVER_TOOL, Contract!ServeRecover
<1>5. Contract!Serve(ToolOf(reply'.tool), image, TRUE, Told)
  BY <1>4 DEF Contract!Serve
<1> QED
  BY <1>1, <1>5 DEF Honest

\* Every call keeps the contract, by the kind of call.
LEMMA HonestStep ==
  ASSUME ~StorageFaults, TypeOK, SessionIffHandle, InOrder, Next
  PROVE  Honest /\ InOrder'
<1>1. StoreStep /\ \A w \in Writes : w = "ok"
  BY StoreSteps DEF Writes
<1>2. session' \in {0, session} => Issued' = Issued /\ InOrder'
  BY <1>1, IssuedStays
<1>3. ASSUME NEW tool, NEW o, NEW e, NEW watched, OnlyRecord(tool, o, e, watched, "ok")
      PROVE  /\ reply' = [tool |-> tool, outcome |-> o] /\ UNCHANGED session
             /\ Issued' = Issued /\ InOrder'
  BY <1>2, <1>3 DEF OnlyRecord, Answer
<1>4. Connected <=> session # 0
  BY DEF SessionIffHandle
<1>5. FLASH_TOOL \in Families /\ UART_TOOL \in Families /\ RECOVER_TOOL \in Families
  BY DEF Families
<1>6. ASSUME NEW w \in Writes, Lifecycle(w) PROVE Honest /\ InOrder'
  <2>1. w = "ok"
    BY <1>1
  <2>2. CASE ConnectAgain(w)
    BY <1>3, <1>4, <2>1, <2>2, ConnectionKept DEF ConnectAgain
  <2>3. ASSUME NEW code, ConnectFails(code, w) PROVE Honest /\ InOrder'
    BY <1>3, <1>4, <2>1, <2>3, ConnectionKept DEF ConnectFails
  <2>4. ASSUME NEW code, DisconnectFails(code, w) PROVE Honest /\ InOrder'
    BY <1>3, <1>4, <2>1, <2>4, ConnectionKept DEF DisconnectFails
  <2>5. CASE DisconnectIdle(w)
    BY <1>3, <1>4, <2>1, <2>5, ConnectionKept DEF DisconnectIdle
  <2>6. CASE \E board \in Boards \cup {Raw}, k \in SessionIds : Connect(board, k, w)
    BY <2>1, <2>6, ConnectHonest
  <2>7. ~DisconnectUnrecorded(w)
    BY <2>1 DEF DisconnectUnrecorded
  <2> QED
    BY <1>6, <2>2, <2>3, <2>4, <2>5, <2>6, <2>7 DEF Lifecycle
<1>7. ASSUME NEW tool \in Families \cup {"plain"}, NEW o \in Replies, NEW e, NEW watched,
             OnlyRecord(tool, o, e, watched, "ok"), UNCHANGED flash,
             o = "raised" => session # 0 \/ tool \in {"plain", UART_TOOL},
             o = "returned" => tool = "plain" \/ (tool = UART_TOOL /\ session # 0)
      PROVE  Honest /\ InOrder'
  BY <1>3, <1>7, NothingDone
<1>8. {"returned", "refused", "blocked", "raised"} \subseteq Replies
  BY DEF Replies
<1>9. ASSUME NEW family \in Families, NEW w \in Writes, Blocked(family, w)
      PROVE  Honest /\ InOrder'
  BY <1>1, <1>7, <1>8, <1>9 DEF Blocked
<1>10. ASSUME NEW w \in Writes, Unwatched(w) PROVE Honest /\ InOrder'
  <2>1. w = "ok"
    BY <1>1
  <2>2. ASSUME NEW o \in Replies, NEW e, OnlyRecord("plain", o, e, FALSE, w), UNCHANGED flash
        PROVE  Honest /\ InOrder'
    BY <1>7, <2>1, <2>2
  <2>3. ASSUME NEW o, NEW code, PlainTool(o, code, w) PROVE Honest /\ InOrder'
    <3> DEFINE e == Event("plain", o, code, NoKey)
    <3>1. PICK answer \in Replies : OnlyRecord("plain", answer, e, FALSE, w)
      BY <1>8, <2>3 DEF PlainTool
    <3> QED
      BY <2>2, <2>3, <3>1 DEF PlainTool
  <2>4. CASE GetBoardInfo(w)
    BY <1>8, <2>2, <2>4 DEF GetBoardInfo
  <2> QED
    BY <1>10, <2>3, <2>4 DEF Unwatched
<1>11. ASSUME NEW w \in Writes, Flash(w) PROVE Honest /\ InOrder'
  <2>1. w = "ok"
    BY <1>1
  <2>2. ASSUME NEW path, FlashRefused(path, w) PROVE Honest /\ InOrder'
    BY <1>5, <1>7, <1>8, <2>1, <2>2 DEF FlashRefused, Refuse
  <2>3. ASSUME NEW path, NEW code, FlashUnreadable(path, code, w) PROVE Honest /\ InOrder'
    BY <1>4, <1>5, <1>7, <1>8, <2>1, <2>3 DEF FlashUnreadable, Fail, Resolvable
  <2>4. ASSUME NEW path, NEW i \in Images, NEW code, FlashFails(path, i, code, w)
        PROVE  Honest /\ InOrder'
    <3>1. OnlyRecord(FLASH_TOOL, "raised", Event(FLASH_TOOL, "failed", code, i), TRUE, "ok")
      BY <2>1, <2>4 DEF FlashFails, Fail
    <3>2. session # 0 /\ flash' \in {flash, Torn, i}
      BY <1>4, <2>4 DEF FlashFails, Resolvable, AfterAttempt
    <3> QED
      BY <1>3, <3>1, <3>2, AttemptHonest
  <2>5. ASSUME NEW path, NEW i \in Images, NEW halted \in BOOLEAN,
               FlashFirmware(path, i, halted, w)
        PROVE  Honest /\ InOrder'
    <3>1. Issued' = Issued /\ InOrder'
      BY <1>3, <2>1, <2>5 DEF FlashFirmware, Succeed
    <3> QED
      BY <2>1, <2>5, <3>1, FlashAsAsked DEF Honest
  <2> QED
    BY <1>5, <1>9, <1>11, <2>2, <2>3, <2>4, <2>5 DEF Flash
<1>12. ASSUME NEW w \in Writes, Serial(w) PROVE Honest /\ InOrder'
  <2>1. w = "ok"
    BY <1>1
  <2>2. CASE SerialRefused(w)
    BY <1>5, <1>7, <1>8, <2>1, <2>2 DEF SerialRefused
  <2>3. ASSUME NEW key, NEW matched, ReadSerial(key, matched, w) PROVE Honest /\ InOrder'
    <3>1. session # 0
      BY <1>4, <2>3, ServerConstants DEF ReadSerial, Connected
    <3> QED
      BY <1>5, <1>7, <1>8, <2>1, <2>3, <3>1 DEF ReadSerial, Succeed
  <2> QED
    BY <1>5, <1>9, <1>12, <2>2, <2>3 DEF Serial
<1>13. ASSUME NEW w \in Writes, Recover(w) PROVE Honest /\ InOrder'
  <2>1. w = "ok"
    BY <1>1
  <2>2. ASSUME NEW confirm, RecoverRefused(confirm, w) PROVE Honest /\ InOrder'
    BY <1>5, <1>7, <1>8, <2>1, <2>2 DEF RecoverRefused, Refuse
  <2>3. ASSUME NEW code, RecoverFails(code, w) PROVE Honest /\ InOrder'
    <3>1. OnlyRecord(RECOVER_TOOL, "raised", Event(RECOVER_TOOL, "failed", code, NoKey), TRUE, "ok")
      BY <2>1, <2>3 DEF RecoverFails, Fail
    <3>2. session # 0 /\ flash' \in {flash, Torn, Erased}
      BY <1>4, <2>3, AuthorisedMeans, ServerConstants DEF RecoverFails, Connected
    <3>3. PICK image : image \in Images
      BY SomeImage
    <3> QED
      BY <1>3, <3>1, <3>2, <3>3, AttemptHonest DEF FLASH_TOOL, RECOVER_TOOL
  <2>4. CASE UnlockRecover(w)
    <3>1. UNCHANGED session
      BY <2>4 DEF UnlockRecover
    <3> QED
      BY <1>2, <2>1, <2>4, <3>1, RecoverHonest
  <2> QED
    BY <1>5, <1>9, <1>13, <2>2, <2>3, <2>4 DEF Recover
<1>14. CASE Disconnect
  <2>1. session' = 0
    BY <1>14 DEF Disconnect
  <2> QED
    BY <1>2, <1>14, <2>1, DisconnectHonest
<1>15. CASE SerialRaises \/ SerialNoBoard
  <2>1. /\ UNCHANGED <<session, flash>>
        /\ \/ reply' = [tool |-> UART_TOOL, outcome |-> "raised"]
           \/ /\ reply' = [tool |-> UART_TOOL, outcome |-> "returned"]
              /\ session # 0
    BY <1>4, <1>15, ServerConstants DEF SerialRaises, SerialNoBoard, Connected
  <2> QED
    BY <1>2, <1>5, <1>8, <2>1, NothingDone
<1>16. ~(\/ RecoverUnrecorded \/ DisconnectUnclosed
         \/ \E board \in Boards \cup {Raw} : ConnectUnrecorded(board))
  BY DEF RecoverUnrecorded, DisconnectUnclosed, ConnectUnrecorded
<1> QED
  BY <1>6, <1>10, <1>11, <1>12, <1>13, <1>14, <1>15, <1>16 DEF Next

\* An honest answer is a step of the contract.
LEMMA HonestIsContract == Honest => Contract!Next
  BY DEF Honest, Contract!Next, Contract!Serve, Contract!ServeConnect,
    Contract!ServeDisconnect, Contract!ServeFlash, Contract!ServeRecover,
    Contract!ServePlain, Contract!ServeNotice, Contract!Tools, Contract!Replies

\* When writes succeed, the server with its guardrails, watcher and journals
\* implements what its clients rely on, and each call what its own answer says.
THEOREM ServerKeepsContract == ~StorageFaults => (Spec => ImplementsContract)
<1> SUFFICES ASSUME ~StorageFaults PROVE Spec => ImplementsContract
  OBVIOUS
<1>1. Init => InOrder /\ Contract!Init
  <2> SUFFICES ASSUME Init PROVE InOrder /\ Contract!Init
    OBVIOUS
  <2>1. \A k \in SessionIds : ~runs[k].started
    BY DEF Init, NoRun
  <2>2. Issued = 0
    BY <2>1, FS_EmptySet DEF Issued
  <2> QED
    BY <2>1, <2>2 DEF InOrder, Init, Contract!Init
<1>2. Typed /\ Sound /\ InOrder /\ [Next]_vars => InOrder' /\ [Honest]_vars
  BY HonestStep DEF Typed, Sound, vars, InOrder
<1>3. [Honest]_vars => [Contract!Next]_(Contract!target)
  <2>1. UNCHANGED vars => UNCHANGED <<session, Issued, flash>>
    BY DEF vars, Issued
  <2> QED
    BY <2>1, HonestIsContract DEF Contract!target
<1>4. Spec => []Sound
  BY AlwaysSound
<1>5. Spec => [](Typed /\ Sound)
  BY <1>4, Typing, PTL
<1>6. Spec => []InOrder /\ [][Honest]_vars
  BY <1>1, <1>2, <1>5, PTL DEF Spec
<1>7. Spec => [][Contract!Next]_(Contract!target)
  BY <1>3, <1>6, PTL
<1> QED
  BY <1>1, <1>6, <1>7, PTL DEF Spec, ImplementsContract, ServesAsTold, Contract!Spec
=============================================================================
