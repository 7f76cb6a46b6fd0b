------------------------- MODULE TurnkeyLoopProofs -------------------------
(***************************************************************************)
(* Theorems about TurnkeyLoop, for runs of any length in which any number   *)
(* of calls time out.                                                       *)
(***************************************************************************)
EXTENDS TurnkeyLoop, TLAPS, FiniteSetTheorems

----------------------------------------------------------------------------
(* Types.                                                                   *)

\* The requests the brain makes up itself are requests.
LEMMA RequestTypes ==
  /\ \A tool \in Server!Tools : Call(tool) \in Request
  /\ GreenFlash \in Request
  /\ TurnRequests \subseteq Request
<1>1. \A tool \in Server!Tools : Call(tool) \in Request
  BY DEF Call, Request
<1>2. GreenFlash \in Request
  BY DEF GreenFlash, Request, Server!Tools
<1>3. TurnRequests \subseteq Request
  <2>1. {Call(tool) : tool \in Server!Tools} \subseteq Request
    BY <1>1
  <2>2. {[tool |-> "flash", file |-> file, halted |-> halted] :
           file \in {"artifact", "other"}, halted \in BOOLEAN} \subseteq Request
    BY DEF Request, Server!Tools
  <2> QED
    BY <2>1, <2>2 DEF TurnRequests
<1> QED
  BY <1>1, <1>2, <1>3

\* Whatever the server answers, its state keeps its types.
LEMMA ServeType ==
  ASSUME TypeOK, NEW req \in Request, NEW reply \in Server!Replies, Serve(req, reply)
  PROVE  /\ server' \in Nat /\ issued' \in Nat
         /\ flash' \in Images \cup {Torn, Erased}
<1> USE DEF TypeOK
<1>1. Content(req) \in Images \cup {Torn}
  BY TurnkeyConstants DEF Content
<1>2. CASE req.tool = "connect"
  BY <1>2 DEF Serve, Server!Serve, Server!ServeConnect, Server!Replies
<1>3. CASE req.tool = "disconnect"
  BY <1>3 DEF Serve, Server!Serve, Server!ServeDisconnect, Server!Replies
<1>4. CASE req.tool = "flash"
  <2>1. Server!ServeFlash(Content(req), req.halted, reply)
    BY <1>4 DEF Serve, Server!Serve
  <2>2. Server!Attempted(Content(req)) \subseteq Images \cup {Torn, Erased}
    BY <1>1 DEF Server!Attempted
  <2>3. Server!Programmed(Content(req), req.halted) \subseteq Images \cup {Torn, Erased}
    BY <1>1, <2>2 DEF Server!Programmed
  <2> QED
    BY <2>1, <2>2, <2>3 DEF Server!ServeFlash, Server!Replies
<1>5. CASE req.tool = "recover"
  BY <1>5 DEF Serve, Server!Serve, Server!ServeRecover, Server!Attempted, Server!Replies
<1>6. CASE req.tool \notin {"connect", "disconnect", "flash", "recover"}
  <2>1. Server!ServePlain(reply) \/ Server!ServeNotice(reply)
    BY <1>6 DEF Serve, Server!Serve
  <2> QED
    BY <2>1 DEF Server!ServePlain, Server!ServeNotice, Server!target
<1> QED
  BY <1>2, <1>3, <1>4, <1>5, <1>6

\* The end of a turn keeps the types of what it changes.
LEMMA EndTurnType ==
  ASSUME TypeOK, NEW stop \in BOOLEAN, EndTurn(stop)
  PROVE  /\ phase' \in {"decide", "end"}
         /\ iteration' \in 1..MaxIters
         /\ result' \in {result, "blocked"}
  BY TurnkeyConstants DEF EndTurn, TypeOK

\* A promotion keeps the types of the run roots.
LEMMA PromoteType ==
  ASSUME TypeOK, NEW known \in Nat, Promote(known)
  PROVE  runRoot' \in Nat /\ lost' \subseteq Nat
  BY DEF Promote, TypeOK

\* A request sent is queued behind the others.
LEMMA SendType ==
  ASSUME TypeOK, NEW req \in Request, NEW step \in {"turn", "green.flash"}, Send(req, step)
  PROVE  TypeOK'
  BY DEF Send, TypeOK, GreenSteps, target

\* The session id after a reply is a number.
LEMMA RegisteredType ==
  ASSUME TypeOK, NEW req \in Request, NEW reply \in Server!Replies
  PROVE  Registered(req, reply) \in Nat
  BY DEF Registered, TypeOK

\* Every step of the brain and the server keeps the types.
LEMMA TypeStep == TypeOK /\ [Next]_vars => TypeOK'
<1> SUFFICES ASSUME TypeOK, [Next]_vars PROVE TypeOK'
  OBVIOUS
<1> USE DEF TypeOK
<1>1. ASSUME NEW stop \in BOOLEAN, LocalTurn(stop) PROVE TypeOK'
  BY <1>1, EndTurnType DEF LocalTurn, target
<1>2. ASSUME NEW stop \in BOOLEAN, RunBuild(stop) PROVE TypeOK'
  BY <1>2, EndTurnType DEF RunBuild, target
<1>3. ASSUME ProviderFails \/ WorkspaceRaises PROVE TypeOK'
  BY <1>3 DEF ProviderFails, WorkspaceRaises, Fails, target
<1>4. ASSUME NEW arguments, CallConnect(arguments) PROVE TypeOK'
  BY <1>4, SendType, RequestTypes DEF CallConnect, Server!Tools
<1>5. ASSUME NEW req \in TurnRequests, CallTool(req) PROVE TypeOK'
  BY <1>5, SendType, RequestTypes DEF CallTool
<1>6. ASSUME StartGreenCheck PROVE TypeOK'
  BY <1>6, SendType, RequestTypes DEF StartGreenCheck
<1>7. ASSUME NEW status \in {"success", "other"}, Finalize(status) PROVE TypeOK'
  BY <1>7 DEF Finalize, target
<1>8. ASSUME NEW req \in Request, NEW reply \in Server!Replies, NEW stop \in BOOLEAN,
             AnswerTool(req, reply, stop)
      PROVE  TypeOK'
  <2>1. server' \in Nat /\ issued' \in Nat /\ flash' \in Images \cup {Torn, Erased}
    BY <1>8, ServeType DEF AnswerTool, Answered
  <2>2. queue' \in Seq(Request) /\ UNCHANGED <<timeouts, artifact, mode, greenOk, passed>>
    BY <1>8 DEF AnswerTool, Answered
  <2>3. Registered(req, reply) \in Nat
    BY RegisteredType
  <2>4. CASE reply = "error"
    BY <1>8, <2>1, <2>2, <2>4, EndTurnType DEF AnswerTool
  <2>5. CASE reply # "error"
    <3>1. sessionId' \in Nat /\ seen' \subseteq Nat /\ Promote(Registered(req, reply))
      BY <1>8, <2>3, <2>5 DEF AnswerTool
    <3>2. runRoot' \in Nat /\ lost' \subseteq Nat
      BY <2>3, <3>1, PromoteType
    <3>3. \/ phase' = "end" /\ result' = "blocked" /\ UNCHANGED iteration
          \/ EndTurn(stop)
      BY <1>8, <2>5 DEF AnswerTool
    <3>4. phase' \in {"decide", "end"} /\ iteration' \in 1..MaxIters
            /\ result' \in {result, "blocked"}
      BY <3>3, EndTurnType
    <3> QED
      BY <2>1, <2>2, <3>1, <3>2, <3>4
  <2> QED
    BY <2>4, <2>5
<1>9. ASSUME NEW req \in Request, NEW reply \in Server!Replies, NEW stop \in BOOLEAN,
             AnswerGreen(req, reply, stop)
      PROVE  TypeOK'
  <2>1. server' \in Nat /\ issued' \in Nat /\ flash' \in Images \cup {Torn, Erased}
    BY <1>9, ServeType DEF AnswerGreen
  <2>2. UNCHANGED <<mode, sessionId, seen, passed, runRoot, lost, timeouts, artifact>>
    BY <1>9 DEF AnswerGreen
  <2>3. CASE /\ phase' = GreenNext(phase)
             /\ queue' = <<Call(IF phase' = "green.serial" THEN "serial" ELSE "plain")>>
             /\ UNCHANGED <<iteration, result, greenOk>>
    <3>1. phase' \in GreenSteps
      BY <2>3 DEF GreenNext, GreenSteps
    <3>2. queue' \in Seq(Request)
      BY <2>3, RequestTypes DEF Server!Tools
    <3> QED
      BY <2>1, <2>2, <2>3, <3>1, <3>2
  <2>4. CASE queue' = << >> /\ EndTurn(stop) /\ greenOk' \in BOOLEAN
    BY <2>1, <2>2, <2>4, EndTurnType
  <2> QED
    BY <1>9, <2>3, <2>4 DEF AnswerGreen
<1>10. ASSUME NEW req \in Request, NEW reply \in Server!Replies, NEW stop \in BOOLEAN,
              NEW matched \in BOOLEAN, AnswerGreenSerial(req, reply, matched, stop)
       PROVE  TypeOK'
  <2>1. server' \in Nat /\ issued' \in Nat /\ flash' \in Images \cup {Torn, Erased}
    BY <1>10, ServeType DEF AnswerGreenSerial, Answered
  <2>2. EndTurn(stop) /\ queue' = << >> /\ UNCHANGED <<timeouts, artifact>>
    BY <1>10 DEF AnswerGreenSerial, Answered
  <2>3. greenOk' \in BOOLEAN /\ passed' \in Images \cup {Torn, NoImage}
    BY <1>10 DEF AnswerGreenSerial
  <2>4. UNCHANGED <<mode, sessionId, seen, runRoot, lost>>
    BY <1>10 DEF AnswerGreenSerial
  <2> QED
    BY <2>1, <2>2, <2>3, <2>4, EndTurnType
<1>11. ASSUME NEW req \in Request, NEW reply \in Server!Replies, AnswerClose(req, reply)
       PROVE  TypeOK'
  BY <1>11, ServeType DEF AnswerClose, Answered
<1>12. ASSUME NEW req \in Request, GreenRaises(req) PROVE TypeOK'
  BY <1>12, ServeType DEF GreenRaises, Answered, Server!Replies
<1>13. ASSUME NEW stop \in BOOLEAN, Timeout(stop) PROVE TypeOK'
  <2>1. timeouts' \in 0..MaxTimeouts
    BY <1>13, TurnkeyConstants DEF Timeout
  <2>2. CASE phase = "close"
    BY <1>13, <2>1, <2>2 DEF Timeout, target
  <2>3. CASE phase # "close"
    BY <1>13, <2>1, <2>3, EndTurnType DEF Timeout, target
  <2> QED
    BY <2>2, <2>3
<1>14. ASSUME NEW req \in Request, NEW reply \in Server!Replies, ServeLate(req, reply)
       PROVE  TypeOK'
  <2>1. queue # << >>
    BY <1>14 DEF ServeLate
  <2>2. queue' \in Seq(Request)
    BY <1>14, <2>1 DEF ServeLate
  <2> QED
    BY <1>14, <2>2, ServeType DEF ServeLate, brain
<1>15. ASSUME Close PROVE TypeOK'
  <2>1. runRoot' \in Nat /\ lost' \subseteq Nat
    BY <1>15, PromoteType DEF Close
  <2>2. queue' \in Seq(Request)
    BY <1>15, RequestTypes DEF Close, Server!Tools
  <2> QED
    BY <1>15, <2>1, <2>2 DEF Close, target
<1>16. ASSUME Exit PROVE TypeOK'
  <2>1. Interrupted \subseteq Images \cup {Torn, Erased}
    BY TurnkeyConstants DEF Interrupted, Server!Attempted, Content
  <2> QED
    BY <1>16, <2>1 DEF Exit
<1>17. CASE UNCHANGED vars
  BY <1>17 DEF vars, brain, target
<1> QED
  BY <1>1, <1>2, <1>3, <1>4, <1>5, <1>6, <1>7, <1>8, <1>9, <1>10, <1>11,
     <1>12, <1>13, <1>14, <1>15, <1>16, <1>17
  DEF Next, Turn, Answer, Expire, Late

\* The variables keep their types, for any number of turns and timeouts.
THEOREM TypeCorrect == Spec => []TypeOK
<1>1. Init => TypeOK
  <2>1. 1 \in 1..MaxIters /\ 0 \in 0..MaxTimeouts
    BY TurnkeyConstants
  <2>2. << >> \in Seq(Request)
    OBVIOUS
  <2> SUFFICES ASSUME Init PROVE TypeOK
    OBVIOUS
  <2>3. iteration \in 1..MaxIters /\ timeouts \in 0..MaxTimeouts /\ queue \in Seq(Request)
    BY <2>1, <2>2 DEF Init
  <2>4. /\ mode \in {"benchmark", "task"} /\ phase = "decide" /\ result = "none"
        /\ sessionId \in Nat /\ seen \subseteq Nat /\ greenOk \in BOOLEAN
        /\ passed \in Images \cup {Torn, NoImage} /\ runRoot \in Nat /\ lost \subseteq Nat
        /\ server \in Nat /\ issued \in Nat /\ artifact \in Images \cup {Torn}
        /\ flash \in Images \cup {Torn, Erased}
    BY DEF Init
  <2> QED
    BY <2>3, <2>4 DEF TypeOK
<1> QED
  BY <1>1, TypeStep, PTL DEF Spec

----------------------------------------------------------------------------
(* The green check.                                                         *)

\* While a green check waits for its flash, the flash is the last request the
\* server has; from then on it has only the request awaited, and the target
\* holds the artifact.
GreenInv ==
  /\ phase = "green.flash" => queue # << >> /\ queue[Len(queue)] = GreenFlash
  /\ phase \in {"green.pc", "green.symbol", "green.serial"} =>
       /\ Len(queue) = 1 /\ queue[1].tool \in {"plain", "serial"}
       /\ flash = artifact
  /\ phase = "green.serial" /\ CheckSymbol => flash \in SymbolOk

\* A request of another tool than flash or recover leaves the flash alone.
LEMMA PlainKeepsFlash ==
  ASSUME NEW req, NEW reply, Serve(req, reply), req.tool \in {"plain", "serial"}
  PROVE  UNCHANGED flash
  BY DEF Serve, Server!Serve, Server!ServePlain, Server!ServeNotice, Server!target

\* The flash of a green check, when it is answered, leaves the artifact.
LEMMA GreenFlashPrograms ==
  ASSUME NEW reply, Serve(GreenFlash, reply), GreenContinues(reply)
  PROVE  flash' = artifact
  BY DEF GreenFlash, Serve, Server!Serve, Server!ServeFlash, GreenContinues,
    Server!Programmed, Content

\* A step that leaves the green check, or stays outside, keeps its invariant.
LEMMA OutsideGreen ==
  ASSUME phase' \notin GreenSteps
  PROVE  GreenInv'
  BY DEF GreenInv, GreenSteps

\* Every step keeps the invariant of the green check: a late request can only
\* be executed while the flash is still waiting behind it.
LEMMA GreenStep == TypeOK /\ GreenInv /\ [Next]_vars => GreenInv'
<1> SUFFICES ASSUME TypeOK, GreenInv, [Next]_vars PROVE GreenInv'
  OBVIOUS
<1>1. ASSUME NEW stop \in BOOLEAN,
             LocalTurn(stop) \/ RunBuild(stop) \/ Timeout(stop)
      PROVE  GreenInv'
  BY <1>1, OutsideGreen DEF LocalTurn, RunBuild, Timeout, EndTurn, GreenSteps
<1>2. ASSUME ProviderFails \/ WorkspaceRaises \/ Close \/ Exit PROVE GreenInv'
  BY <1>2, OutsideGreen DEF ProviderFails, WorkspaceRaises, Fails, Close, Exit, GreenSteps
<1>3. ASSUME NEW arguments, CallConnect(arguments) PROVE GreenInv'
  BY <1>3, OutsideGreen DEF CallConnect, Send, GreenSteps
<1>4. ASSUME NEW req, CallTool(req) PROVE GreenInv'
  BY <1>4, OutsideGreen DEF CallTool, Send, GreenSteps
<1>5. ASSUME StartGreenCheck PROVE GreenInv'
  <2>1. phase' = "green.flash" /\ queue' = Append(queue, GreenFlash)
    BY <1>5 DEF StartGreenCheck, Send
  <2>2. queue \in Seq(Request) /\ GreenFlash \in Request
    BY RequestTypes DEF TypeOK
  <2>3. Len(queue') = Len(queue) + 1 /\ queue'[Len(queue')] = GreenFlash
    BY <2>1, <2>2
  <2> QED
    BY <2>1, <2>3, <2>2 DEF GreenInv
<1>6. ASSUME NEW status, Finalize(status) PROVE GreenInv'
  BY <1>6, OutsideGreen DEF Finalize, GreenSteps
<1>7. ASSUME NEW req \in Request, NEW reply \in Server!Replies, NEW stop \in BOOLEAN,
             AnswerTool(req, reply, stop)
      PROVE  GreenInv'
  BY <1>7, OutsideGreen DEF AnswerTool, EndTurn, GreenSteps
<1>8. ASSUME NEW req \in Request, NEW reply \in Server!Replies, NEW stop \in BOOLEAN,
             AnswerGreen(req, reply, stop)
      PROVE  GreenInv'
  <2> DEFINE wrong == phase = "green.symbol" /\ flash \notin SymbolOk
             goesOn == GreenContinues(reply) /\ ~wrong
  <2>1. /\ phase \in GreenSteps \ {"green.serial"}
        /\ Len(queue) = 1 /\ req = Head(queue) /\ Serve(req, reply)
        /\ UNCHANGED artifact
    BY <1>8 DEF AnswerGreen
  <2>2. req = queue[1] /\ queue \in Seq(Request)
    BY <2>1 DEF TypeOK
  <2>3. CASE ~goesOn
    <3>1. EndTurn(stop)
      BY <1>8, <2>3 DEF AnswerGreen
    <3> QED
      BY <3>1, OutsideGreen DEF EndTurn, GreenSteps
  <2>4. CASE goesOn
    <3>1. /\ phase' = GreenNext(phase)
          /\ queue' = <<Call(IF phase' = "green.serial" THEN "serial" ELSE "plain")>>
      BY <1>8, <2>4 DEF AnswerGreen
    <3>2. Len(queue') = 1 /\ queue'[1].tool \in {"plain", "serial"}
      BY <3>1 DEF Call
    <3>3. flash' = artifact'
      <4>1. CASE phase = "green.flash"
        BY <2>1, <2>2, <2>4, <4>1, GreenFlashPrograms DEF GreenInv
      <4>2. CASE phase # "green.flash"
        BY <2>1, <2>2, <4>2, PlainKeepsFlash DEF GreenInv, GreenSteps
      <4> QED
        BY <4>1, <4>2
    <3>4. phase' = "green.serial" /\ CheckSymbol => flash' \in SymbolOk
      <4> SUFFICES ASSUME phase' = "green.serial", CheckSymbol PROVE flash' \in SymbolOk
        OBVIOUS
      <4>1. phase = "green.symbol"
        BY <2>1, <3>1 DEF GreenNext, GreenSteps
      <4> QED
        BY <2>1, <2>2, <2>4, <4>1, PlainKeepsFlash DEF GreenInv
    <3>5. phase' # "green.flash"
      BY <3>1 DEF GreenNext
    <3> QED
      BY <3>2, <3>3, <3>4, <3>5 DEF GreenInv
  <2> QED
    BY <2>3, <2>4
<1>9. ASSUME NEW req, NEW reply, NEW stop, NEW matched,
             AnswerGreenSerial(req, reply, matched, stop)
      PROVE  GreenInv'
  BY <1>9, OutsideGreen DEF AnswerGreenSerial, EndTurn, GreenSteps
<1>10. ASSUME NEW req, NEW reply, AnswerClose(req, reply) PROVE GreenInv'
  BY <1>10, OutsideGreen DEF AnswerClose, GreenSteps
<1>11. ASSUME NEW req, GreenRaises(req) PROVE GreenInv'
  BY <1>11, OutsideGreen DEF GreenRaises, GreenSteps
<1>12. ASSUME NEW req \in Request, NEW reply \in Server!Replies, ServeLate(req, reply)
       PROVE  GreenInv'
  <2>1. phase' = phase /\ queue' = Tail(queue)
    BY <1>12 DEF ServeLate, brain
  <2>2. CASE phase \notin GreenSteps
    BY <2>1, <2>2, OutsideGreen
  <2>3. CASE phase \in GreenSteps
    <3>1. 1 < Len(queue)
      BY <1>12, <2>3 DEF ServeLate, Waiting
    <3>2. phase = "green.flash"
      <4>1. phase \in {"green.pc", "green.symbol", "green.serial"} => Len(queue) = 1
        BY DEF GreenInv
      <4>2. ~(Len(queue) = 1)
        <5> SUFFICES ASSUME Len(queue) = 1 PROVE FALSE
          OBVIOUS
        <5>1. 1 < 1
          BY <3>1
        <5> QED
          BY <5>1
      <4> QED
        BY <2>3, <4>1, <4>2 DEF GreenSteps
    <3>3. Len(queue') = Len(queue) - 1 /\ queue'[Len(queue')] = queue[Len(queue)]
      BY <2>1, <3>1 DEF TypeOK
    <3>4. queue[Len(queue)] = GreenFlash
      BY <3>2 DEF GreenInv
    <3>5. Len(queue) \in Nat
      BY DEF TypeOK
    <3>6. queue' # << >>
      BY <3>1, <3>3, <3>5
    <3> QED
      BY <2>1, <3>2, <3>3, <3>4, <3>6 DEF GreenInv
  <2> QED
    BY <2>2, <2>3
<1>13. CASE UNCHANGED vars
  BY <1>13 DEF vars, brain, target, GreenInv
<1> QED
  BY <1>1, <1>2, <1>3, <1>4, <1>5, <1>6, <1>7, <1>8, <1>9, <1>10, <1>11, <1>12, <1>13
  DEF Next, Turn, Answer, Expire, Late

\* Only the serial step of a green check, when it matched, vouches for anything.
LEMMA PassedStep ==
  ASSUME [Next]_vars
  PROVE  \/ UNCHANGED passed
         \/ \E req, reply, stop : AnswerGreenSerial(req, reply, TRUE, stop)
<1>1. ASSUME NEW stop, LocalTurn(stop) \/ RunBuild(stop) \/ Timeout(stop)
      PROVE  UNCHANGED passed
  BY <1>1 DEF LocalTurn, RunBuild, Timeout
<1>2. ASSUME ProviderFails \/ WorkspaceRaises \/ Close \/ Exit PROVE UNCHANGED passed
  BY <1>2 DEF ProviderFails, WorkspaceRaises, Fails, Close, Exit
<1>3. ASSUME NEW arguments, CallConnect(arguments) PROVE UNCHANGED passed
  BY <1>3 DEF CallConnect, Send
<1>4. ASSUME NEW req, CallTool(req) PROVE UNCHANGED passed
  BY <1>4 DEF CallTool, Send
<1>5. ASSUME StartGreenCheck PROVE UNCHANGED passed
  BY <1>5 DEF StartGreenCheck, Send
<1>6. ASSUME NEW status, Finalize(status) PROVE UNCHANGED passed
  BY <1>6 DEF Finalize
<1>7. ASSUME NEW req, NEW reply, NEW stop,
             AnswerTool(req, reply, stop) \/ AnswerGreen(req, reply, stop)
      PROVE  UNCHANGED passed
  BY <1>7 DEF AnswerTool, AnswerGreen
<1>8. ASSUME NEW req, NEW reply, NEW stop, NEW matched \in BOOLEAN,
             AnswerGreenSerial(req, reply, matched, stop)
      PROVE  UNCHANGED passed \/ AnswerGreenSerial(req, reply, TRUE, stop)
  BY <1>8 DEF AnswerGreenSerial
<1>9. ASSUME NEW req, NEW reply,
             AnswerClose(req, reply) \/ GreenRaises(req) \/ ServeLate(req, reply)
      PROVE  UNCHANGED passed
  BY <1>9 DEF AnswerClose, GreenRaises, ServeLate, brain
<1>10. CASE UNCHANGED vars
  BY <1>10 DEF vars, brain
<1> QED
  BY <1>1, <1>2, <1>3, <1>4, <1>5, <1>6, <1>7, <1>8, <1>9, <1>10
  DEF Next, Turn, Answer, Expire, Late

\* A green check that passes vouches for a good image, however many calls have
\* timed out and whenever the server executes them.
THEOREM GreenChecksAreSound == Spec => []GreenCheckSound
<1>1. Init => GreenInv /\ GreenCheckSound
  BY DEF Init, GreenInv, GreenCheckSound
<1>2. TypeOK /\ GreenInv /\ GreenCheckSound /\ [Next]_vars => GreenCheckSound'
  <2> SUFFICES ASSUME TypeOK, GreenInv, GreenCheckSound, [Next]_vars
               PROVE  GreenCheckSound'
    OBVIOUS
  <2>1. CASE UNCHANGED passed
    BY <2>1 DEF GreenCheckSound
  <2>2. ASSUME NEW req, NEW reply, NEW stop, AnswerGreenSerial(req, reply, TRUE, stop)
        PROVE  GreenCheckSound'
    <3>1. phase = "green.serial" /\ flash \in UartOk /\ passed' = artifact
      BY <2>2 DEF AnswerGreenSerial
    <3>2. flash = artifact /\ (CheckSymbol => flash \in SymbolOk)
      BY <3>1 DEF GreenInv
    <3>3. passed' \in Good
      BY <3>1, <3>2 DEF Good
    <3> QED
      BY <3>3 DEF GreenCheckSound
  <2> QED
    BY <2>1, <2>2, PassedStep
<1> QED
  BY <1>1, <1>2, TypeCorrect, GreenStep, PTL DEF Spec

----------------------------------------------------------------------------
(* Successes.                                                               *)

\* An artifact, torn or not, is never the mark of a check that has not passed.
LEMMA PassedIsImage ==
  ASSUME TypeOK
  PROVE  artifact # NoImage
  BY TurnkeyConstants DEF TypeOK

\* While the run goes on it has no result.
Undecided == phase \in {"decide", "turn"} \cup GreenSteps => result = "none"

\* Until it is blocked, a benchmark case has seen one session at most.
OneSeen ==
  /\ IsFiniteSet(seen)
  /\ mode = "benchmark" /\ result \in {"none", "success"} => Cardinality(seen) <= 1

Verified == greenOk \/ result = "success" => passed # NoImage

SuccessInv == Undecided /\ OneSeen /\ Verified

\* Every step keeps the facts about results, sessions seen and green checks.
LEMMA SuccessStep == TypeOK /\ SuccessInv /\ [Next]_vars => SuccessInv'
<1> SUFFICES ASSUME TypeOK, SuccessInv, [Next]_vars PROVE SuccessInv'
  OBVIOUS
<1> USE DEF SuccessInv, Undecided, OneSeen, Verified
<1>1. ASSUME NEW stop \in BOOLEAN, LocalTurn(stop) \/ RunBuild(stop) PROVE SuccessInv'
  BY <1>1 DEF LocalTurn, RunBuild, EndTurn, GreenSteps
<1>2. ASSUME ProviderFails \/ WorkspaceRaises PROVE SuccessInv'
  BY <1>2 DEF ProviderFails, WorkspaceRaises, Fails, GreenSteps
<1>3. ASSUME NEW arguments, CallConnect(arguments) PROVE SuccessInv'
  BY <1>3 DEF CallConnect, Send
<1>4. ASSUME NEW req, CallTool(req) PROVE SuccessInv'
  BY <1>4 DEF CallTool, Send
<1>5. ASSUME StartGreenCheck PROVE SuccessInv'
  BY <1>5 DEF StartGreenCheck, Send, GreenSteps
<1>6. ASSUME NEW status \in {"success", "other"}, Finalize(status) PROVE SuccessInv'
  BY <1>6 DEF Finalize, MayFinalize, GreenSteps
<1>7. ASSUME NEW req \in Request, NEW reply \in Server!Replies, NEW stop \in BOOLEAN,
             AnswerTool(req, reply, stop)
      PROVE  SuccessInv'
  <2> DEFINE known == Registered(req, reply)
             ids == seen \cup ({known} \ {0})
  <2>1. result = "none" /\ UNCHANGED <<mode, greenOk, passed>>
    BY <1>7 DEF AnswerTool
  <2>2. CASE reply = "error"
    BY <1>7, <2>1, <2>2 DEF AnswerTool, EndTurn, GreenSteps
  <2>3. CASE reply # "error"
    <3>1. seen' = ids /\ IsFiniteSet(ids)
      BY <1>7, <2>3, FS_Singleton, FS_Union, FS_Difference DEF AnswerTool
    <3>2. CASE Reconnected(ids)
      BY <1>7, <2>1, <2>3, <3>1, <3>2 DEF AnswerTool, GreenSteps
    <3>3. CASE ~Reconnected(ids)
      <4>1. EndTurn(stop)
        BY <1>7, <2>3, <3>3 DEF AnswerTool
      <4>2. mode = "benchmark" => Cardinality(ids) <= 1
        BY <3>1, <3>3, FS_CardinalityType DEF Reconnected
      <4> QED
        BY <2>1, <3>1, <4>1, <4>2 DEF EndTurn, GreenSteps
    <3> QED
      BY <3>2, <3>3
  <2> QED
    BY <2>2, <2>3
<1>8. ASSUME NEW req \in Request, NEW reply \in Server!Replies, NEW stop \in BOOLEAN,
             AnswerGreen(req, reply, stop)
      PROVE  SuccessInv'
  <2>1. phase \in GreenSteps /\ UNCHANGED <<mode, seen, passed>>
    BY <1>8 DEF AnswerGreen
  <2>2. greenOk' => greenOk
    BY <1>8 DEF AnswerGreen, TypeOK
  <2>3. \/ UNCHANGED result
        \/ EndTurn(stop)
    BY <1>8 DEF AnswerGreen
  <2>4. \/ result' = result
        \/ result' = "blocked" /\ phase' = "end"
    BY <2>3 DEF EndTurn
  <2>5. Undecided'
    BY <2>1, <2>4 DEF GreenSteps
  <2>6. OneSeen' /\ Verified'
    BY <2>1, <2>2, <2>4
  <2> QED
    BY <2>5, <2>6
<1>9. ASSUME NEW req, NEW reply, NEW stop, NEW matched \in BOOLEAN,
             AnswerGreenSerial(req, reply, matched, stop)
      PROVE  SuccessInv'
  <2>1. phase = "green.serial" /\ EndTurn(stop) /\ UNCHANGED <<mode, seen>>
    BY <1>9 DEF AnswerGreenSerial
  <2>2. greenOk' => passed' # NoImage
    <3>1. CASE matched
      BY <1>9, <3>1, PassedIsImage DEF AnswerGreenSerial
    <3>2. CASE ~matched
      BY <1>9, <3>2 DEF AnswerGreenSerial
    <3> QED
      BY <3>1, <3>2
  <2>3. result' \in {"none", "blocked"} /\ (result' = "blocked" => phase' = "end")
    BY <2>1 DEF EndTurn, GreenSteps
  <2> QED
    BY <2>1, <2>2, <2>3 DEF EndTurn, GreenSteps
<1>10. ASSUME NEW req, NEW reply, AnswerClose(req, reply) PROVE SuccessInv'
  BY <1>10 DEF AnswerClose, GreenSteps
<1>11. ASSUME NEW req, GreenRaises(req) PROVE SuccessInv'
  BY <1>11 DEF GreenRaises, GreenSteps
<1>12. ASSUME NEW stop, Timeout(stop) PROVE SuccessInv'
  BY <1>12 DEF Timeout, EndTurn, GreenSteps, Waiting
<1>13. ASSUME NEW req, NEW reply, ServeLate(req, reply) PROVE SuccessInv'
  BY <1>13 DEF ServeLate, brain
<1>14. ASSUME Close \/ Exit PROVE SuccessInv'
  BY <1>14 DEF Close, Exit, GreenSteps
<1>15. CASE UNCHANGED vars
  BY <1>15 DEF vars, brain
<1> QED
  BY <1>1, <1>2, <1>3, <1>4, <1>5, <1>6, <1>7, <1>8, <1>9, <1>10, <1>11, <1>12,
     <1>13, <1>14, <1>15
  DEF Next, Turn, Answer, Expire, Late

\* They hold of every run.
LEMMA SuccessInvariant == Spec => []SuccessInv
<1>1. Init => SuccessInv
  BY FS_EmptySet DEF Init, SuccessInv, Undecided, OneSeen, Verified
<1> QED
  BY <1>1, TypeCorrect, SuccessStep, PTL DEF Spec

\* No run is finalized as healthy or fixed without a green check that passed.
THEOREM SuccessesAreVerified == Spec => []SuccessWasVerified
<1>1. SuccessInv => SuccessWasVerified
  BY DEF SuccessInv, Verified, SuccessWasVerified
<1> QED
  BY <1>1, SuccessInvariant, PTL

\* A benchmark case that was told of two sessions is never a success.
THEOREM OneSessionToldOf == Spec => []BenchmarkOneSession
<1>1. SuccessInv => BenchmarkOneSession
  BY DEF SuccessInv, OneSeen, BenchmarkOneSession
<1> QED
  BY <1>1, SuccessInvariant, PTL

----------------------------------------------------------------------------
(* Sessions, run roots and directories.                                     *)

\* What a reply says of the server's session: it is a new one, none, or the
\* one before; and only a tool that connects or disconnects changes it.
LEMMA SessionStep ==
  ASSUME NEW req, NEW reply, Serve(req, reply)
  PROVE  \/ /\ req.tool = "connect" /\ reply = "done"
            /\ issued' = issued + 1 /\ server' = issued + 1
         \/ /\ req.tool = "disconnect" /\ reply = "done"
            /\ UNCHANGED issued /\ server' = 0
         \/ /\ <<req.tool, reply>> \notin {<<"connect", "done">>, <<"disconnect", "done">>}
            /\ UNCHANGED <<issued, server>>
  BY DEF Serve, Server!Serve, Server!ServeConnect, Server!ServeDisconnect,
    Server!ServeFlash, Server!ServeRecover, Server!ServePlain, Server!ServeNotice, Server!target

\* A step of the brain or the server changes the session id only with the
\* answer of a tool, and forgets it with the answer to the closing disconnect.
LEMMA SessionChanges ==
  ASSUME TypeOK, [Next]_vars
  PROVE  \/ UNCHANGED <<sessionId, seen, runRoot, lost>> /\ issued' \in {issued, issued + 1}
         \/ \E req \in Request, reply \in Server!Replies, stop \in BOOLEAN : AnswerTool(req, reply, stop)
         \/ Close
         \/ \E req \in Request, reply \in Server!Replies : AnswerClose(req, reply)
<1> DEFINE Stays == UNCHANGED <<sessionId, seen, runRoot, lost>> /\ issued' \in {issued, issued + 1}
<1>1. ASSUME NEW stop, LocalTurn(stop) \/ RunBuild(stop) \/ Timeout(stop) PROVE Stays
  BY <1>1 DEF LocalTurn, RunBuild, Timeout, target
<1>2. ASSUME ProviderFails \/ WorkspaceRaises \/ StartGreenCheck \/ Exit PROVE Stays
  BY <1>2 DEF ProviderFails, WorkspaceRaises, Fails, StartGreenCheck, Send, Exit, target
<1>3. ASSUME NEW req, CallConnect(req) \/ CallTool(req) PROVE Stays
  BY <1>3 DEF CallConnect, CallTool, Send, target
<1>4. ASSUME NEW status, Finalize(status) PROVE Stays
  BY <1>4 DEF Finalize, target
<1>5. ASSUME NEW req, NEW reply, NEW stop, NEW matched,
             AnswerGreen(req, reply, stop) \/ AnswerGreenSerial(req, reply, matched, stop)
      PROVE  Stays
  BY <1>5, SessionStep DEF AnswerGreen, AnswerGreenSerial, Answered
<1>6. ASSUME NEW req, GreenRaises(req) PROVE Stays
  BY <1>6, SessionStep DEF GreenRaises, Answered
<1>7. ASSUME NEW req, NEW reply, ServeLate(req, reply) PROVE Stays
  BY <1>7, SessionStep DEF ServeLate, brain
<1>8. CASE UNCHANGED vars
  BY <1>8 DEF vars, brain, target
<1> QED
  BY <1>1, <1>2, <1>3, <1>4, <1>5, <1>6, <1>7, <1>8
  DEF Next, Turn, Answer, Expire, Late

\* Directories taken over and the one in use are of different sessions, all of
\* them started before; a session id known is that of the run root.
RootInv ==
  /\ runRoot <= issued
  /\ \A s \in lost : s # 0 /\ s # runRoot /\ s <= issued
  /\ sessionId # 0 => runRoot = sessionId

\* Every step keeps this: a session answered anew is one nobody had before.
LEMMA RootStep == TypeOK /\ RootInv /\ [Next]_vars => RootInv'
<1> SUFFICES ASSUME TypeOK, RootInv, [Next]_vars PROVE RootInv'
  OBVIOUS
<1> USE DEF TypeOK, RootInv
<1>1. CASE UNCHANGED <<sessionId, seen, runRoot, lost>> /\ issued' \in {issued, issued + 1}
  BY <1>1
<1>2. ASSUME NEW req \in Request, NEW reply \in Server!Replies, NEW stop \in BOOLEAN,
             AnswerTool(req, reply, stop)
      PROVE  RootInv'
  <2>1. Serve(req, reply)
    BY <1>2 DEF AnswerTool, Answered
  <2>2. issued' \in {issued, issued + 1}
    BY <2>1, SessionStep
  <2>3. CASE reply = "error"
    <3>1. UNCHANGED <<sessionId, seen, runRoot, lost>>
      BY <1>2, <2>3 DEF AnswerTool
    <3> QED
      BY <2>2, <3>1
  <2>4. CASE reply # "error"
    <3>1. sessionId' = Registered(req, reply) /\ Promote(sessionId')
      BY <1>2, <2>4 DEF AnswerTool
    <3>2. CASE req.tool = "connect" /\ reply = "done"
      <4>1. sessionId' = issued + 1 /\ issued' = issued + 1
        BY <2>1, <3>1, <3>2, SessionStep DEF Registered
      <4>2. runRoot' = issued + 1 /\ lost' = lost \cup ({runRoot} \ {0})
        BY <3>1, <4>1 DEF Promote
      <4> QED
        BY <4>1, <4>2
    <3>3. CASE ~(req.tool = "connect" /\ reply = "done")
      <4>1. sessionId' \in {0, sessionId}
        BY <3>1, <3>3 DEF Registered
      <4>2. UNCHANGED <<runRoot, lost>>
        BY <3>1, <4>1 DEF Promote
      <4> QED
        BY <2>2, <4>1, <4>2
    <3> QED
      BY <3>2, <3>3
  <2> QED
    BY <2>3, <2>4
<1>3. CASE Close
  BY <1>3 DEF Close, Promote, target
<1>4. ASSUME NEW req \in Request, NEW reply \in Server!Replies, AnswerClose(req, reply) PROVE RootInv'
  BY <1>4, SessionStep DEF AnswerClose, Answered
<1> QED
  BY <1>1, <1>2, <1>3, <1>4, SessionChanges

\* The run root carries the name of the session in use, which no other session
\* has taken over, however many sessions a run goes through and whatever call
\* times out.
THEOREM RootsFollowSessions == Spec => []RunRootFollowsSession
<1>1. Init => RootInv
  BY DEF Init, RootInv
<1>2. RootInv => RunRootFollowsSession
  BY DEF RootInv, RunRootFollowsSession
<1> QED
  BY <1>1, <1>2, TypeCorrect, RootStep, PTL DEF Spec

\* The turns of a run, with or without a reply awaited.
Turning == phase \in {"decide", "turn"} \cup GreenSteps

\* Before any timeout the server has nothing but the request awaited, a green
\* check none that touches the session, and brain and server know the same
\* sessions.
AgreeInv ==
  timeouts = 0 /\ Turning =>
    /\ phase = "decide" => queue = << >>
    /\ phase # "decide" => Len(queue) = 1
    /\ phase \in GreenSteps => queue[1].tool \in {"flash", "plain", "serial"}
    /\ seen = 1..issued
    /\ sessionId # 0 => server = sessionId /\ sessionId <= issued

\* Every step keeps this.  Nothing is ever executed late, and the answer of a
\* tool tells the brain what became of the session.
LEMMA AgreeStep == TypeOK /\ AgreeInv /\ [Next]_vars => AgreeInv'
<1> SUFFICES ASSUME TypeOK, AgreeInv, [Next]_vars, timeouts' = 0, Turning' PROVE AgreeInv'
  BY DEF AgreeInv
<1> DEFINE Agree == seen = 1..issued /\ (sessionId # 0 => server = sessionId /\ sessionId <= issued)
<1>2. ASSUME phase' = "decide", queue' = << >>, Agree' PROVE AgreeInv'
  BY <1>2 DEF AgreeInv, GreenSteps
<1>3. ASSUME NEW req, phase' \in {"turn"} \cup GreenSteps, queue' = <<req>>, Agree',
             phase' \in GreenSteps => req.tool \in {"flash", "plain", "serial"}
      PROVE  AgreeInv'
  BY <1>3 DEF AgreeInv, GreenSteps
<1>4. ASSUME NEW stop, EndTurn(stop) PROVE phase' = "decide"
  BY <1>4 DEF EndTurn, Turning, GreenSteps
<1>5. ASSUME NEW stop, LocalTurn(stop) \/ RunBuild(stop) PROVE AgreeInv'
  <2>1. phase = "decide" /\ phase' = "decide" /\ timeouts = 0
          /\ UNCHANGED <<queue, seen, issued, sessionId, server>>
    BY <1>4, <1>5 DEF LocalTurn, RunBuild, target
  <2> QED
    BY <1>2, <2>1 DEF AgreeInv, Turning
<1>6. ASSUME NEW req, NEW step \in {"turn", "green.flash"}, phase = "decide", Send(req, step),
             step = "green.flash" => req = GreenFlash
      PROVE  AgreeInv'
  <2>1. timeouts = 0 /\ UNCHANGED <<seen, issued, sessionId, server>>
    BY <1>6 DEF Send, target
  <2>2. queue = << >> /\ Agree
    BY <1>6, <2>1 DEF AgreeInv, Turning
  <2>3. queue' = <<req>> /\ phase' = step
    BY <1>6, <2>2 DEF Send
  <2> QED
    BY <1>3, <1>6, <2>1, <2>2, <2>3 DEF GreenSteps, GreenFlash
<1>7. ASSUME ProviderFails \/ WorkspaceRaises \/ Close \/ Exit PROVE FALSE
  BY <1>7 DEF ProviderFails, WorkspaceRaises, Fails, Close, Exit, Turning, GreenSteps
<1>8. ASSUME NEW status, Finalize(status) PROVE FALSE
  BY <1>8 DEF Finalize, Turning, GreenSteps
<1>9. ASSUME NEW req \in Request, NEW reply \in Server!Replies, NEW stop \in BOOLEAN,
             AnswerTool(req, reply, stop)
      PROVE  AgreeInv'
  <2>1. phase = "turn" /\ timeouts = 0 /\ queue' = << >> /\ Serve(req, reply)
    BY <1>9 DEF AnswerTool, Answered
  <2>2. Agree
    BY <2>1 DEF AgreeInv, Turning
  <2>3. phase' = "decide"
    BY <1>4, <1>9 DEF AnswerTool, Turning, GreenSteps
  <2>4. CASE reply = "error"
    BY <1>2, <1>9, <2>1, <2>2, <2>3, <2>4, SessionStep DEF AnswerTool
  <2>5. CASE reply # "error"
    <3>1. /\ sessionId' = Registered(req, reply)
          /\ seen' = seen \cup ({Registered(req, reply)} \ {0})
      BY <1>9, <2>5 DEF AnswerTool
    <3>2. CASE req.tool = "connect" /\ reply = "done"
      <4>1. issued' = issued + 1 /\ server' = issued + 1 /\ Registered(req, reply) = issued + 1
        BY <2>1, <3>2, SessionStep DEF Registered
      <4>2. seen' = 1..issued'
        BY <2>2, <3>1, <4>1 DEF TypeOK
      <4> QED
        BY <1>2, <2>1, <2>3, <3>1, <4>1, <4>2 DEF TypeOK
    <3>3. CASE req.tool = "disconnect" /\ reply = "done"
      <4>1. UNCHANGED issued /\ Registered(req, reply) = 0
        BY <2>1, <3>3, SessionStep DEF Registered
      <4> QED
        BY <1>2, <2>1, <2>2, <2>3, <3>1, <4>1
    <3>4. CASE <<req.tool, reply>> \notin {<<"connect", "done">>, <<"disconnect", "done">>}
      <4>1. UNCHANGED <<issued, server>> /\ Registered(req, reply) \in {0, sessionId}
        BY <2>1, <3>4, SessionStep DEF Registered
      <4>2. seen' = seen
        BY <2>2, <3>1, <4>1 DEF TypeOK
      <4> QED
        BY <1>2, <2>1, <2>2, <2>3, <3>1, <4>1, <4>2
    <3> QED
      BY <3>2, <3>3, <3>4
  <2> QED
    BY <2>4, <2>5
<1>10. ASSUME NEW req, NEW reply, phase \in GreenSteps, timeouts = 0,
              Len(queue) = 1, req = Head(queue), Serve(req, reply),
              UNCHANGED <<sessionId, seen>>
       PROVE  Agree'
  <2>1. Agree /\ queue[1].tool \in {"flash", "plain", "serial"}
    BY <1>10 DEF AgreeInv, Turning, GreenSteps
  <2>2. UNCHANGED <<issued, server>>
    BY <1>10, <2>1, SessionStep DEF TypeOK
  <2> QED
    BY <1>10, <2>1, <2>2
<1>11. ASSUME NEW req \in Request, NEW reply \in Server!Replies, NEW stop \in BOOLEAN,
              AnswerGreen(req, reply, stop)
       PROVE  AgreeInv'
  <2>1. Agree'
    BY <1>10, <1>11 DEF AnswerGreen
  <2>2. CASE /\ phase' = GreenNext(phase)
             /\ queue' = <<Call(IF phase' = "green.serial" THEN "serial" ELSE "plain")>>
    <3>1. phase' \in GreenSteps
      BY <2>2 DEF GreenNext, GreenSteps
    <3> QED
      BY <1>3, <2>1, <2>2, <3>1 DEF Call
  <2>3. CASE queue' = << >> /\ EndTurn(stop)
    BY <1>2, <1>4, <2>1, <2>3
  <2> QED
    BY <1>11, <2>2, <2>3 DEF AnswerGreen
<1>12. ASSUME NEW req, NEW reply, NEW stop, NEW matched,
              AnswerGreenSerial(req, reply, matched, stop)
       PROVE  AgreeInv'
  <2>1. Agree'
    BY <1>10, <1>12 DEF AnswerGreenSerial, Answered, GreenSteps
  <2> QED
    BY <1>2, <1>4, <1>12, <2>1 DEF AnswerGreenSerial, Answered
<1>13. ASSUME NEW req, NEW reply, AnswerClose(req, reply) \/ GreenRaises(req) PROVE FALSE
  BY <1>13 DEF AnswerClose, GreenRaises, Turning, GreenSteps
<1>14. ASSUME NEW stop, Timeout(stop) PROVE FALSE
  BY <1>14 DEF Timeout, TypeOK
<1>15. ASSUME NEW req, NEW reply, ServeLate(req, reply) PROVE FALSE
  <2>1. timeouts = 0 /\ Turning /\ Len(queue) > (IF Waiting THEN 1 ELSE 0)
    BY <1>15 DEF ServeLate, brain, Turning
  <2>2. CASE phase = "decide"
    BY <2>1, <2>2 DEF AgreeInv, Waiting, GreenSteps
  <2>3. CASE phase # "decide"
    <3>1. Waiting /\ Len(queue) = 1
      BY <2>1, <2>3 DEF AgreeInv, Turning, Waiting
    <3> QED
      BY <2>1, <3>1
  <2> QED
    BY <2>2, <2>3
<1>16. CASE UNCHANGED vars
  BY <1>16 DEF vars, brain, target, AgreeInv, Turning
<1>17. CASE Turn
  BY <1>5, <1>6, <1>7, <1>8, <1>17 DEF Turn, CallConnect, CallTool, StartGreenCheck
<1>18. CASE Answer
  BY <1>9, <1>11, <1>12, <1>13, <1>18 DEF Answer
<1> QED
  BY <1>7, <1>14, <1>15, <1>16, <1>17, <1>18 DEF Next, Expire, Late

\* Without a timeout the brain knows the sessions of the server: all it has
\* started, and which one is live if it holds an id.
THEOREM NoTimeoutNoDisagreement == Spec => []SessionsAgree
<1>1. Init => AgreeInv
  BY DEF Init, AgreeInv, GreenSteps
<1>2. AgreeInv => SessionsAgree
  BY DEF AgreeInv, Turning, SessionsAgree
<1> QED
  BY <1>1, <1>2, TypeCorrect, AgreeStep, PTL DEF Spec
=============================================================================
