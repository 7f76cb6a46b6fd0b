---------------------------- MODULE TurnkeyLoop ----------------------------
(***************************************************************************)
(* One turnkey run: the brain's loop of turns, its stdio client with a      *)
(* timeout on every tool call, and the debug server it drives.              *)
(*                                                                          *)
(* The server executes its requests one by one in the order they were sent. *)
(* The brain waits for one request at a time, the last it sent; a timeout   *)
(* ends the wait, not the request, which the server still executes later.   *)
(* What the provider decides and what a build writes is chosen              *)
(* nondeterministically; the server keeps the promises of ServerContract.   *)
(***************************************************************************)
EXTENDS Naturals, Sequences, FiniteSets

CONSTANTS
  Images,         \* contents a build can give the artifact
  UartOk,         \* images whose boot prints the expected text
  SymbolOk,       \* images whose symbol has the expected value, if one is expected
  Other,          \* image behind any other path the provider may flash
  Torn, Erased,   \* a partial write, a mass erase
  NoImage,        \* no green check has passed yet
  CheckSymbol,    \* the invocation names an expected symbol
  RecoverAllowed, \* the invocation allows unlock_recover
  MaxIters,       \* max_iters of the invocation
  MaxTimeouts     \* bound of the exploration: calls that time out

ASSUME TurnkeyConstants ==
  /\ UartOk \subseteq Images /\ SymbolOk \subseteq Images
  /\ Other \in Images
  /\ Torn \notin Images /\ Erased \notin Images \cup {Torn}
  /\ NoImage \notin Images \cup {Torn, Erased}
  /\ CheckSymbol \in BOOLEAN /\ RecoverAllowed \in BOOLEAN
  /\ MaxIters \in Nat \ {0} /\ MaxTimeouts \in Nat

VARIABLES
  mode,       \* invocation.mode
  phase,      \* what the brain does next, or which reply it waits for
  iteration,  \* the turn it is in
  result,     \* the status the run ends with
  sessionId,  \* state.session_id, 0 for None
  seen,       \* state.session_ids_seen
  greenOk,    \* state.verification.green_check_ok
  passed,     \* the artifact of the last green check that passed
  runRoot,    \* the session run_root is named after, 0 while provisional
  timeouts,   \* calls that have timed out
  queue,      \* requests sent and not yet executed
  server,     \* session the server holds, 0 when disconnected
  issued,     \* sessions the server has started
  lost,       \* sessions whose runs/<session> another one has taken over
  artifact,   \* content of the artifact the green check flashes
  flash       \* content of the target's flash

brain == <<mode, phase, iteration, result, sessionId, seen, greenOk, passed, runRoot, lost>>
target == <<server, issued, flash>>
vars == <<brain, timeouts, queue, target, artifact>>

----------------------------------------------------------------------------
(* Requests and what the server does with them.                             *)

Server == INSTANCE ServerContract

\* A flash request names a file, and may ask to leave the target halted.
Request == [tool : Server!Tools, file : {"artifact", "other"}, halted : BOOLEAN]

Call(tool) == [tool |-> tool, file |-> "artifact", halted |-> FALSE]

\* The file is read when the request is executed, not when it is sent.
Content(req) == IF req.file = "artifact" THEN artifact ELSE Other

\* The server executes a request as it promises.
Serve(req, reply) == Server!Serve(req.tool, Content(req), req.halted, reply)

----------------------------------------------------------------------------
(* Turns.                                                                   *)

GreenSteps == {"green.flash", "green.pc", "green.symbol", "green.serial"}
Waiting == phase \in {"turn", "close"} \cup GreenSteps

\* Mutant of EndTurn: range(1, max_iters + 2), one turn more than allowed.
EndTurnOneMore(stop) ==
  IF stop \/ iteration > MaxIters
  THEN phase' = "end" /\ result' = "blocked" /\ UNCHANGED iteration
  ELSE phase' = "decide" /\ iteration' = iteration + 1 /\ UNCHANGED result

\* Mutant of EndTurn: a turn that is over is not counted.
EndTurnUncounted(stop) ==
  IF stop
  THEN phase' = "end" /\ result' = "blocked" /\ UNCHANGED iteration
  ELSE phase' = "decide" /\ UNCHANGED <<iteration, result>>

\* The turn is over: local convergence may stop the run, and so does max_iters.
EndTurn(stop) ==
  IF stop \/ iteration = MaxIters
  THEN phase' = "end" /\ result' = "blocked" /\ UNCHANGED iteration
  ELSE phase' = "decide" /\ iteration' = iteration + 1 /\ UNCHANGED result

\* A read_file, a replace_file, a refusal, or an error before any call.
LocalTurn(stop) ==
  /\ phase = "decide"
  /\ EndTurn(stop)
  /\ UNCHANGED <<mode, sessionId, seen, greenOk, passed, runRoot, lost,
                 timeouts, queue, target, artifact>>

\* A build, successful or not, may rewrite the artifact.
RunBuild(stop) ==
  /\ phase = "decide"
  /\ artifact' \in Images \cup {Torn}
  /\ EndTurn(stop)
  /\ UNCHANGED <<mode, sessionId, seen, greenOk, passed, runRoot, lost,
                 timeouts, queue, target>>

\* The provider raises: the run ends with a result.  An OSError of the
\* workspace leaves run_turnkey without one.
Fails(ending, status) ==
  /\ phase = "decide"
  /\ phase' = ending /\ result' = status
  /\ UNCHANGED <<mode, iteration, sessionId, seen, greenOk, passed, runRoot, lost,
                 timeouts, queue, target, artifact>>

ProviderFails == Fails("end", "failed")
WorkspaceRaises == Fails("done", "raised")

\* A request is sent, and its reply awaited as part of the step named.
Send(req, step) ==
  /\ queue' = Append(queue, req)
  /\ phase' = step
  /\ UNCHANGED <<mode, iteration, result, sessionId, seen, greenOk, passed, runRoot, lost,
                 timeouts, target, artifact>>

\* A connect with the defaults is refused while a session id is known; one with
\* a probe or a target is refused in a benchmark; one with another board or
\* board config is never refused.
CallConnect(arguments) ==
  /\ phase = "decide"
  /\ arguments = "defaults" => sessionId = 0
  /\ arguments = "override" => mode # "benchmark"
  /\ Send(Call("connect"), "turn")

CallTool(req) ==
  /\ phase = "decide"
  /\ req.tool # "connect"
  /\ req.tool = "recover" => RecoverAllowed
  /\ Send(req, "turn")

GreenFlash == [tool |-> "flash", file |-> "artifact", halted |-> TRUE]

\* run_green_check begins with a flash that leaves the target halted.
StartGreenCheck == phase = "decide" /\ Send(GreenFlash, "green.flash")

\* Mutant of MayFinalize: the green check is not asked for.
MayFinalizeAnyway(status) == TRUE

MayFinalize(status) == status = "success" => greenOk

\* "success" stands for healthy_confirmed and fixed, "other" for the rest.
Finalize(status) ==
  /\ phase = "decide"
  /\ MayFinalize(status)
  /\ phase' = "end" /\ result' = status
  /\ UNCHANGED <<mode, iteration, sessionId, seen, greenOk, passed, runRoot, lost,
                 timeouts, queue, target, artifact>>

----------------------------------------------------------------------------
(* Replies and timeouts.                                                    *)

\* The request awaited is the only one left: it is executed and answered.
Answered(req, reply) ==
  /\ Len(queue) = 1 /\ req = Head(queue)
  /\ queue' = << >>
  /\ Serve(req, reply)
  /\ UNCHANGED <<timeouts, artifact>>

\* Mutant of Registered: a disconnect leaves the session id.
RegisteredKept(req, reply) ==
  IF req.tool = "connect" /\ reply = "done" THEN issued + 1
  ELSE IF req.tool = "connect" /\ reply = "idle" THEN 0
  ELSE sessionId

\* state.session_id after a reply: an answered connect always replaces it.
Registered(req, reply) ==
  IF req.tool = "connect" /\ reply = "done" THEN issued + 1
  ELSE IF <<req.tool, reply>> \in {<<"connect", "idle">>, <<"disconnect", "done">>} THEN 0
  ELSE sessionId

\* Mutant of Promote: only the provisional root is renamed.
PromoteOnce(known) ==
  IF known # 0 /\ runRoot = 0
  THEN runRoot' = known /\ UNCHANGED lost
  ELSE UNCHANGED <<runRoot, lost>>

\* _promote_run_root: the directory of the session is merged into run_root,
\* which takes over its name; whatever had the old name has it no more.
Promote(known) ==
  IF known # 0 /\ known # runRoot
  THEN runRoot' = known /\ lost' = lost \cup ({runRoot} \ {0})
  ELSE UNCHANGED <<runRoot, lost>>

\* Mutant of Reconnected: sessions are not counted.
ReconnectedNever(ids) == FALSE

Reconnected(ids) == mode = "benchmark" /\ Cardinality(ids) > 1

\* A server_tool action gets its answer.
AnswerTool(req, reply, stop) ==
  LET known == Registered(req, reply)
      ids == seen \cup ({known} \ {0})
  IN  /\ phase = "turn"
      /\ Answered(req, reply)
      /\ IF reply = "error"
         THEN EndTurn(stop) /\ UNCHANGED <<sessionId, seen, runRoot, lost>>
         ELSE /\ sessionId' = known
              /\ seen' = ids
              /\ Promote(known)
              /\ IF Reconnected(ids)
                 THEN phase' = "end" /\ result' = "blocked" /\ UNCHANGED iteration
                 ELSE EndTurn(stop)
      /\ UNCHANGED <<mode, greenOk, passed>>

\* Mutant of GreenContinues: a refused or blocked step is passed over.
GreenContinuesAnyway(reply) == reply # "error"

GreenContinues(reply) == reply = "done"

GreenNext(step) ==
  IF step = "green.flash" THEN "green.pc"
  ELSE IF step = "green.pc" /\ CheckSymbol THEN "green.symbol"
  ELSE "green.serial"

\* The flash, the pc or the symbol of a green check is answered; a symbol with
\* the wrong value ends the turn and takes an earlier pass back.
AnswerGreen(req, reply, stop) ==
  LET wrong == phase = "green.symbol" /\ flash \notin SymbolOk
  IN  /\ phase \in GreenSteps \ {"green.serial"}
      /\ Len(queue) = 1 /\ req = Head(queue)
      /\ Serve(req, reply)
      /\ IF GreenContinues(reply) /\ ~wrong
         THEN /\ phase' = GreenNext(phase)
              /\ queue' = <<Call(IF phase' = "green.serial" THEN "serial" ELSE "plain")>>
              /\ UNCHANGED <<iteration, result, greenOk>>
         ELSE /\ queue' = << >>
              /\ EndTurn(stop)
              /\ greenOk' = (greenOk /\ ~(GreenContinues(reply) /\ wrong))
      /\ UNCHANGED <<mode, sessionId, seen, passed, runRoot, lost, timeouts, artifact>>

\* The pc is answered, and the ELF file of the symbol cannot be read: the error
\* of the ELF library leaves run_turnkey.
GreenRaises(req) ==
  /\ phase = "green.pc" /\ CheckSymbol
  /\ Answered(req, "done")
  /\ phase' = "done" /\ result' = "raised"
  /\ UNCHANGED <<mode, iteration, sessionId, seen, greenOk, passed, runRoot, lost>>

\* The UART of a green check is answered.  Only the expected text of the image
\* that runs can match; a miss takes an earlier pass back, a refusal does not.
AnswerGreenSerial(req, reply, matched, stop) ==
  /\ phase = "green.serial"
  /\ matched => reply = "done" /\ flash \in UartOk
  /\ Answered(req, reply)
  /\ greenOk' = IF reply = "done" THEN matched ELSE greenOk
  /\ passed' = IF matched THEN artifact ELSE passed
  /\ EndTurn(stop)
  /\ UNCHANGED <<mode, sessionId, seen, runRoot, lost>>

\* The brain stops waiting; the request stays with the server.
Timeout(stop) ==
  /\ Waiting
  /\ timeouts < MaxTimeouts
  /\ timeouts' = timeouts + 1
  /\ IF phase = "close"
     THEN phase' = "done" /\ UNCHANGED <<iteration, result>>
     ELSE EndTurn(stop)
  /\ UNCHANGED <<mode, sessionId, seen, greenOk, passed, runRoot, lost, queue, target, artifact>>

\* The server executes a request nobody waits for any more.
ServeLate(req, reply) ==
  /\ Len(queue) > (IF Waiting THEN 1 ELSE 0)
  /\ req = Head(queue)
  /\ queue' = Tail(queue)
  /\ Serve(req, reply)
  /\ UNCHANGED <<brain, timeouts, artifact>>

----------------------------------------------------------------------------
(* The end of the run.                                                      *)

\* A session the brain still knows is promoted once more and disconnected.
Close ==
  /\ phase = "end"
  /\ Promote(sessionId)
  /\ IF sessionId = 0
     THEN phase' = "done" /\ UNCHANGED queue
     ELSE phase' = "close" /\ queue' = Append(queue, Call("disconnect"))
  /\ UNCHANGED <<mode, iteration, result, sessionId, seen, greenOk, passed,
                 timeouts, target, artifact>>

AnswerClose(req, reply) ==
  /\ phase = "close"
  /\ Answered(req, reply)
  /\ sessionId' = IF reply = "error" THEN sessionId ELSE 0
  /\ phase' = "done"
  /\ UNCHANGED <<mode, iteration, result, seen, greenOk, passed, runRoot, lost>>

\* What the request being executed leaves behind when the server is killed.
Interrupted ==
  LET req == Head(queue)
  IN  IF queue = << >> \/ server = 0 THEN {flash}
      ELSE IF req.tool = "flash" THEN Server!Attempted(Content(req))
      ELSE IF req.tool = "recover" THEN Server!Attempted(Erased)
      ELSE {flash}

\* Leaving the client's context ends the server process and its session.
Exit ==
  /\ phase = "done"
  /\ phase' = "exited"
  /\ queue' = << >>
  /\ server' = 0
  /\ flash' \in Interrupted
  /\ UNCHANGED <<mode, iteration, result, sessionId, seen, greenOk, passed, runRoot, lost,
                 timeouts, issued, artifact>>

Init ==
  /\ mode \in {"benchmark", "task"}
  /\ phase = "decide" /\ iteration = 1 /\ result = "none"
  /\ sessionId = 0 /\ seen = {}
  /\ greenOk = FALSE /\ passed = NoImage
  /\ runRoot = 0 /\ lost = {}
  /\ timeouts = 0 /\ queue = << >>
  /\ server = 0 /\ issued = 0
  /\ artifact \in Images
  /\ flash \in Images \cup {Torn, Erased}

TurnRequests ==
  {Call(tool) : tool \in Server!Tools}
  \cup {[tool |-> "flash", file |-> file, halted |-> halted] :
          file \in {"artifact", "other"}, halted \in BOOLEAN}

Turn ==
  \/ \E stop \in BOOLEAN : LocalTurn(stop) \/ RunBuild(stop)
  \/ ProviderFails
  \/ WorkspaceRaises
  \/ \E arguments \in {"defaults", "override", "config"} : CallConnect(arguments)
  \/ \E req \in TurnRequests : CallTool(req)
  \/ StartGreenCheck
  \/ \E status \in {"success", "other"} : Finalize(status)

Answer ==
  \E req \in Request, reply \in Server!Replies, stop \in BOOLEAN :
    \/ AnswerTool(req, reply, stop)
    \/ AnswerGreen(req, reply, stop)
    \/ \E matched \in BOOLEAN : AnswerGreenSerial(req, reply, matched, stop)
    \/ AnswerClose(req, reply)
    \/ GreenRaises(req)

Expire == \E stop \in BOOLEAN : Timeout(stop)
Late == \E req \in Request, reply \in Server!Replies : ServeLate(req, reply)

Next == Turn \/ Answer \/ Expire \/ Late \/ Close \/ Exit

\* Provider calls, builds and tool calls all run under a timeout, so the brain
\* always takes its next step, and a wait ends with an answer or a timeout.
\* MaxTimeouts takes from later waits the timeout that ends them; that a late
\* request ahead of the one awaited gets executed stands for it.
Fairness ==
  /\ WF_vars(Turn)
  /\ WF_vars(Answer \/ Expire)
  /\ WF_vars(Late /\ Waiting)
  /\ WF_vars(Close \/ Exit)

Spec == Init /\ [][Next]_vars /\ Fairness

----------------------------------------------------------------------------
(* What the loop promises.                                                  *)

\* Every variable keeps the type its comment gives it.
TypeOK ==
  /\ mode \in {"benchmark", "task"}
  /\ phase \in {"decide", "turn", "end", "close", "done", "exited"} \cup GreenSteps
  /\ iteration \in 1..MaxIters
  /\ result \in {"none", "success", "other", "blocked", "failed", "raised"}
  /\ sessionId \in {0} \cup Nat /\ seen \subseteq Nat
  /\ greenOk \in BOOLEAN
  /\ passed \in Images \cup {Torn, NoImage}
  /\ runRoot \in Nat /\ lost \subseteq Nat
  /\ timeouts \in 0..MaxTimeouts
  /\ queue \in Seq(Request)
  /\ server \in Nat /\ issued \in Nat
  /\ artifact \in Images \cup {Torn}
  /\ flash \in Images \cup {Torn, Erased}

Good == IF CheckSymbol THEN UartOk \cap SymbolOk ELSE UartOk

\* A green check that passes has run the very artifact it vouches for: whatever
\* timed out before it and is executed late, the artifact is a good one.
GreenCheckSound == passed \in Good \cup {NoImage}

\* A run ends as healthy or fixed only after some green check has passed.
SuccessWasVerified == result = "success" => passed # NoImage

\* As long as no call has timed out, the brain has seen every session the
\* server started, and a session id it holds is the live one.
SessionsAgree ==
  timeouts = 0 /\ phase = "decide" =>
    /\ seen = 1..issued
    /\ sessionId # 0 => server = sessionId

\* The run root carries the name of the session in use, so that the artifacts
\* of the run join the log of that session.
RunRootFollowsSession ==
  phase = "decide" /\ sessionId # 0 => runRoot = sessionId /\ sessionId \notin lost

\* A benchmark case that has seen two sessions never ends as a success.
BenchmarkOneSession ==
  mode = "benchmark" /\ result = "success" => Cardinality(seen) <= 1

\* The run ends, whatever the provider decides and whichever calls time out.
Terminates == <>(phase = "exited")

----------------------------------------------------------------------------
(* Claims of the documentation that the code does not keep.                 *)

\* The green check is the "runner-owned final verification" (loop.py): when the
\* run ends as healthy or fixed, the target still holds what it verified.
SuccessHoldsVerified == result = "success" => flash = passed
============================================================================
