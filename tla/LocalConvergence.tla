-------------------------- MODULE LocalConvergence --------------------------
(***************************************************************************)
(* When the turnkey brain gives up: three counters, each with a limit of    *)
(* its own, that are brought up to date by every turn and tested after it.  *)
(*                                                                          *)
(* A turn is what the provider asked for and the text it got back.  The     *)
(* history of turns is kept to say what the counters should have counted;   *)
(* the brain itself decides from the counters alone.                        *)
(***************************************************************************)
EXTENDS Naturals, Sequences, FiniteSets

CONSTANTS
  Paths, Contents,               \* files of the workspace, what an edit can write
  Original,                      \* content of every file before the run
  Errors,                        \* outputs of a failing build
  None,                          \* no signature yet
  MAX_NO_PROGRESS_STREAK,
  MAX_IDENTICAL_BUILD_FAILURES,
  MAX_STAGNANT_FIX_CYCLES,
  MaxTurns                       \* bound of the exploration: turns of a run

ASSUME ConvergenceConstants ==
  /\ MAX_NO_PROGRESS_STREAK \in Nat \ {0}
  /\ MAX_IDENTICAL_BUILD_FAILURES \in Nat \ {0}
  /\ MAX_STAGNANT_FIX_CYCLES \in Nat \ {0}
  /\ MaxTurns \in Nat

VARIABLES
  files,             \* content of the workspace
  verification,      \* state.verification
  lastVerification,  \* state.last_verification_signature
  pending,           \* state.pending_fix_evaluation
  stagnant,          \* state.stagnant_fix_cycle_count
  buildFailures,     \* state.repeated_build_failure_count
  lastBuildFailure,  \* state.last_build_failure_signature
  streak,            \* state.no_progress_streak
  lastTurn,          \* state.last_no_progress_signature
  result,            \* "running", or what the run was stopped for
  turns              \* history: text of each turn, and what it left

fixing == <<pending, stagnant>>
building == <<buildFailures, lastBuildFailure>>
verifying == <<verification, lastVerification>>
observing == <<streak, lastTurn, result, turns>>
vars == <<files, fixing, building, verifying, observing>>

Verification == [flash : BOOLEAN, uart : BOOLEAN, symbol : BOOLEAN, green : BOOLEAN]

Text ==
  [kind : {"look"}, outcome : {"told"}] \cup [kind : {"edit"}, outcome : {"done"}]
  \cup [kind : {"build"}, outcome : {"done", "raised"} \cup Errors]
  \cup [kind : {"flash"}, outcome : {"done"}]
  \cup [kind : {"serial"}, outcome : {"matched", "missed"}]
  \cup [kind : {"green"}, outcome : {"passed", "missed", "mismatch"}]

ASSUME DistinctConstants ==
  /\ Errors \cap {"done", "raised"} = {}
  /\ None \notin Text \cup Verification \cup [error : Errors, changed : SUBSET Paths]

\* WorkspaceSession.changed_files: the names of the files that differ from the
\* snapshot, whatever they contain now.
Changed(content) == {path \in Paths : content[path] # Original}

----------------------------------------------------------------------------
(* Bookkeeping.                                                             *)

\* Mutant of StreakAfter: a new observation counts as a repetition of itself.
StreakAfterOne(text) == IF text = lastTurn THEN streak + 1 ELSE 1

\* _update_observation_state: how often the last turn has been repeated.
StreakAfter(text) == IF text = lastTurn THEN streak + 1 ELSE 0

\* Mutant of Convergence: the run goes on when a counter reaches its limit.
ConvergenceLate(failures, repeats, cycles) ==
  IF failures > MAX_IDENTICAL_BUILD_FAILURES THEN "build"
  ELSE IF repeats > MAX_NO_PROGRESS_STREAK THEN "progress"
  ELSE IF cycles > MAX_STAGNANT_FIX_CYCLES THEN "improvement"
  ELSE "running"

\* _check_local_convergence, in the order of its tests.
Convergence(failures, repeats, cycles) ==
  IF failures >= MAX_IDENTICAL_BUILD_FAILURES THEN "build"
  ELSE IF repeats >= MAX_NO_PROGRESS_STREAK THEN "progress"
  ELSE IF cycles >= MAX_STAGNANT_FIX_CYCLES THEN "improvement"
  ELSE "running"

\* Every turn that does not end the run by itself is closed like this.
Turn(kind, outcome) ==
  LET text == [kind |-> kind, outcome |-> outcome]
  IN  /\ result = "running" /\ Len(turns) < MaxTurns
      /\ streak' = StreakAfter(text)
      /\ lastTurn' = text
      /\ turns' = Append(turns, [text |-> text, verification |-> verification', files |-> files'])
      /\ result' = Convergence(buildFailures', streak', stagnant')

\* Mutant of FailuresAfter: only the output of the build is compared.
FailuresAfterAnywhere(error) ==
  IF lastBuildFailure # None /\ lastBuildFailure.error = error
  THEN buildFailures + 1 ELSE 1

\* _update_build_failure_state.
FailuresAfter(error) ==
  IF lastBuildFailure = [error |-> error, changed |-> Changed(files)]
  THEN buildFailures + 1 ELSE 1

\* Mutant of StagnantAfter: a change that no fix waits for does not reset.
StagnantAfterKept(found, evaluates) ==
  IF ~(evaluates /\ pending) THEN stagnant
  ELSE IF found = lastVerification THEN stagnant + 1 ELSE 0

StagnantAfter(found, evaluates) ==
  IF found # lastVerification THEN 0
  ELSE IF evaluates /\ pending THEN stagnant + 1 ELSE stagnant

\* _update_verification_state; track_stagnation is FALSE for a plain flash.
Verified(found, evaluates) ==
  /\ verification' = found
  /\ lastVerification' = found
  /\ stagnant' = StagnantAfter(found, evaluates)
  /\ pending' = (pending /\ ~evaluates)
  /\ UNCHANGED <<files, building>>

----------------------------------------------------------------------------
(* Turns.                                                                   *)

\* Reads, refusals, errors, and the tools that no counter looks at.
Look ==
  /\ UNCHANGED <<files, fixing, building, verifying>>
  /\ Turn("look", "told")

ReplaceFile(path, content) ==
  /\ files' = [files EXCEPT ![path] = content]
  /\ pending' = TRUE
  /\ UNCHANGED <<stagnant, building, verifying>>
  /\ Turn("edit", "done")

BuildSucceeds ==
  /\ pending' = TRUE
  /\ buildFailures' = 0 /\ lastBuildFailure' = None
  /\ UNCHANGED <<files, stagnant, verifying>>
  /\ Turn("build", "done")

BuildFails(error) ==
  /\ pending' = TRUE
  /\ buildFailures' = FailuresAfter(error)
  /\ lastBuildFailure' = [error |-> error, changed |-> Changed(files)]
  /\ UNCHANGED <<files, stagnant, verifying>>
  /\ Turn("build", error)

\* A build that times out or has no command raises once it is registered.
BuildRaises ==
  /\ pending' = TRUE
  /\ UNCHANGED <<files, stagnant, building, verifying>>
  /\ Turn("build", "raised")

FlashFirmware ==
  /\ Verified([verification EXCEPT !.flash = TRUE], FALSE)
  /\ Turn("flash", "done")

\* Any reply but "UART matched" counts as a miss, a refusal and a block too.
ReadSerial(outcome) ==
  /\ Verified([verification EXCEPT !.uart = (outcome = "matched")], TRUE)
  /\ Turn("serial", outcome)

\* The three ways a green check comes to a verdict.  A refused or failing step
\* of it reaches none and is a Look.
GreenVerdict(outcome) ==
  CASE outcome = "passed" ->
         [flash |-> TRUE, uart |-> TRUE, symbol |-> TRUE, green |-> TRUE]
    [] outcome = "missed" ->
         [flash |-> TRUE, uart |-> FALSE, symbol |-> TRUE, green |-> FALSE]
    [] outcome = "mismatch" ->
         [flash |-> TRUE, uart |-> verification.uart, symbol |-> FALSE, green |-> FALSE]

RunGreenCheck(outcome) ==
  /\ Verified(GreenVerdict(outcome), TRUE)
  /\ Turn("green", outcome)

Init ==
  /\ files = [path \in Paths |-> Original]
  /\ verification = [flash |-> FALSE, uart |-> FALSE, symbol |-> FALSE, green |-> FALSE]
  /\ lastVerification = None
  /\ pending = FALSE /\ stagnant = 0
  /\ buildFailures = 0 /\ lastBuildFailure = None
  /\ streak = 0 /\ lastTurn = None
  /\ result = "running" /\ turns = << >>

Next ==
  \/ Look
  \/ \E path \in Paths, content \in Contents : ReplaceFile(path, content)
  \/ BuildSucceeds
  \/ \E error \in Errors : BuildFails(error)
  \/ BuildRaises
  \/ FlashFirmware
  \/ \E outcome \in {"matched", "missed"} : ReadSerial(outcome)
  \/ \E outcome \in {"passed", "missed", "mismatch"} : RunGreenCheck(outcome)

Spec == Init /\ [][Next]_vars

----------------------------------------------------------------------------
(* What the counters should count.                                          *)

\* Every variable keeps the type its comment gives it, and no counter passes
\* the limit that stops the run.
TypeOK ==
  /\ files \in [Paths -> Contents \cup {Original}]
  /\ verification \in Verification /\ lastVerification \in Verification \cup {None}
  /\ pending \in BOOLEAN /\ stagnant \in 0..MAX_STAGNANT_FIX_CYCLES
  /\ buildFailures \in 0..MAX_IDENTICAL_BUILD_FAILURES
  /\ lastBuildFailure \in [error : Errors, changed : SUBSET Paths] \cup {None}
  /\ streak \in 0..MAX_NO_PROGRESS_STREAK /\ lastTurn \in Text \cup {None}
  /\ result \in {"running", "build", "progress", "improvement"}
  /\ turns \in Seq([text : Text, verification : Verification,
                    files : [Paths -> Contents \cup {Original}]])

Kind(i) == turns[i].text.kind
Outcome(i) == turns[i].text.outcome
Before(i) == IF i = 1 THEN None ELSE turns[i - 1].verification

\* The last turns, one more than the streak allows, are all the same.
SameTurns ==
  /\ Len(turns) > MAX_NO_PROGRESS_STREAK
  /\ \A i \in (Len(turns) - MAX_NO_PROGRESS_STREAK)..Len(turns) :
       turns[i].text = turns[Len(turns)].text

\* Builds that ran to an end since turn i, i included.
BuildsFrom(i) == {j \in i..Len(turns) : Kind(j) = "build" /\ Outcome(j) # "raised"}

\* The last builds all failed, with one output and one set of changed files.
SameFailures ==
  \E i \in 1..Len(turns) :
    /\ Cardinality(BuildsFrom(i)) >= MAX_IDENTICAL_BUILD_FAILURES
    /\ \A j, k \in BuildsFrom(i) :
         /\ Outcome(j) \in Errors
         /\ Outcome(j) = Outcome(k)
         /\ Changed(turns[j].files) = Changed(turns[k].files)

Fixes(i) == Kind(i) \in {"edit", "build"}
Tests(i) == Kind(i) \in {"serial", "green"}

\* Turn i tests a fix: since the last test there was an edit or a build.
TestsFix(i) ==
  /\ Tests(i)
  /\ \E j \in 1..(i - 1) : Fixes(j) /\ \A k \in (j + 1)..(i - 1) : ~Tests(k)

\* The turns that verify anything, and the turns at which what they found
\* differs from what was found before, the first of them included.
Verifies(i) == Tests(i) \/ Kind(i) = "flash"
Differs(i) ==
  /\ Verifies(i)
  /\ \/ \A j \in 1..(i - 1) : ~Verifies(j)
     \/ turns[i].verification # Before(i)

\* Since the verification last changed, that many fixes were tested in vain.
Stagnated ==
  \E i \in 1..Len(turns) :
    /\ Differs(i)
    /\ \A j \in (i + 1)..Len(turns) : ~Differs(j)
    /\ Cardinality({j \in (i + 1)..Len(turns) : TestsFix(j)}) >= MAX_STAGNANT_FIX_CYCLES

\* The run is stopped for lack of progress exactly when its last turns repeat
\* each other, and no earlier (_update_observation_state).
NoProgressExact == (result = "progress") <=> (SameTurns /\ ~SameFailures)

\* It is stopped for its builds exactly when the last ones failed alike; edits,
\* tests and builds that raise in between change nothing about that
\* (_update_build_failure_state).
BuildFailuresExact == (result = "build") <=> SameFailures

\* It is stopped for lack of improvement exactly when that many fixes in a row
\* were tested without any change of the verification: tests no fix waits for
\* and fixes nobody tests do not count (_update_verification_state).
StagnationExact ==
  (result = "improvement") <=> (Stagnated /\ ~SameTurns /\ ~SameFailures)
============================================================================
