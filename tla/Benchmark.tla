------------------------------- MODULE Benchmark ------------------------------
(***************************************************************************)
(* The benchmark runners: benchmark_support.py (R11, an agent in its own   *)
(* process) and brain/benchmark.py (R12, the turnkey loop).  A runner      *)
(* prepares a workspace and a board for a case, lets the agent work, finds *)
(* out which session directory the agent made, flashes and checks the      *)
(* board itself (reference_smoke.py), scores what it saw, and goes on to   *)
(* the next case of the suite.  Anything else on the host may make session *)
(* directories meanwhile, and the bench may fail and be repaired.          *)
(***************************************************************************)
EXTENDS Integers, Sequences, FiniteSets, FiniteSetsExt

CONSTANTS
  Boards,
  Campaigns,  \* command lines: [runner, suite, pilot, single] (see below)
  MaxSlips,   \* bound on what goes wrong (agent, bench, strangers) in a suite
              \* of one case, of two, ...
  None

(* suite is a sequence of cases [id, board, kind, halted]; pilot says that *)
(* it is pilot_v1, single that one case was asked for.  What a manifest    *)
(* says besides is the same in all of one kind: a bug case expects         *)
(* code_bug, allows edits in one root and needs a fix; the others are made *)
(* from the reference and allow no edit; all need a green verification and *)
(* none allows a recover.                                                  *)
Kinds == {"known_good", "injected_bug", "observability_fault"}
Statuses == {"blocked", "diagnosed_only", "other"}

\* What an agent may say: of this case, its session directory, and so on.
Answers(directories) ==
  [mine : BOOLEAN, session : directories, correct : BOOLEAN,
   status : Statuses, recovered : BOOLEAN]

ASSUME BenchmarkAssumption ==
  /\ MaxSlips \in Seq(Nat)
  /\ None \notin {0, 1} /\ None \notin Answers(Nat)
  /\ \A c \in Campaigns :
       /\ c.runner \in {"R11", "R12"}
       /\ c.pilot => c.runner = "R11" /\ ~c.single
       /\ Len(c.suite) \in DOMAIN MaxSlips /\ DOMAIN c.suite = 1 .. Len(c.suite)
       /\ c.single => Len(c.suite) = 1
       /\ \A i, j \in DOMAIN c.suite : i # j => c.suite[i].id # c.suite[j].id
       /\ \A i \in DOMAIN c.suite :
            /\ c.suite[i].kind \in Kinds
            /\ c.suite[i].board \in Boards
            /\ c.suite[i].halted \in BOOLEAN

VARIABLES
  campaign,
  step,      \* what the runner does next
  n,         \* the case it is at
  bench,     \* per board, which of its probe and UART port are there
  preflight, \* _STAGE1_PREFLIGHT_CACHE
  smoked,    \* boards whose reference firmware has passed the smoke test
  device,    \* per board, the image in its flash
  work,      \* workspace of the case: source (it is right), edits, artifact
  dirs,      \* session directories under runs/, in the order they appear
  before,    \* how many there were when the agent was started
  seen,      \* session_ids_seen of the turnkey loop
  result,    \* what the agent says
  root,      \* directory the case is filed under, 0 for None
  reports,
  exitCode,
  slips

progress == <<step, n, reports, exitCode>>
preflights == <<preflight, smoked>>
sessions == <<dirs, before, seen>>
verdicts == <<result, root>>
vars == <<campaign, progress, bench, preflights, device, work, sessions,
          verdicts, slips>>

Suite == campaign.suite
Case == Suite[n]
Parts == {"probe", "uart"}
Places == {"allowed", "elsewhere"}
Outcomes == {"full_success", "partial_success", "fail"}

\* An image: the case it was built for (0: the reference), and whether it
\* boots with the expected text and symbol value.
Image(case, good) == [case |-> case, good |-> good]
Reference == Image(0, TRUE)
Unusable == Image(0, FALSE)
Images == [case : 0 .. Len(Suite), good : BOOLEAN]

Results == Answers(0 .. Len(dirs))

TypeOK ==
  /\ step \in {"prepare", "preflight", "target", "agent", "verify", "over"}
  /\ n \in 1 .. Len(Suite) + 1
  /\ bench \in [Boards -> SUBSET Parts]
  /\ preflight \in [Boards -> {"unknown", "passed", "failed"}]
  /\ smoked \subseteq Boards
  /\ device \in [Boards -> Images]
  /\ work.source \in BOOLEAN /\ work.edits \subseteq Places
  /\ work.artifact \in Images \cup {None}
  /\ \A s \in DOMAIN dirs : dirs[s].during \in DOMAIN Suite
  /\ before \in 0 .. Len(dirs)
  /\ seen \subseteq DOMAIN dirs
  /\ result \in Results \cup {None}
  /\ root \in 0 .. Len(dirs)
  /\ \A i \in DOMAIN reports :
       /\ reports[i].outcome \in Outcomes
       /\ reports[i].score \in 0 .. 100
       /\ reports[i].session \in 0 .. Len(dirs)
  /\ exitCode \in {None, 0, 1}
  /\ slips \in 0 .. MaxSlips[Len(Suite)]

\* What is local to run_case before and after it.
NoWork == [source |-> TRUE, edits |-> {}, artifact |-> None]

Slip(count) ==
  slips + count <= MaxSlips[Len(Suite)] /\ slips' = slips + count

Init ==
  /\ campaign \in Campaigns
  /\ step = "prepare" /\ n = 1
  /\ bench = [b \in Boards |-> Parts]
  /\ preflight = [b \in Boards |-> "unknown"] /\ smoked = {}
  /\ device = [b \in Boards |-> Unusable]
  /\ work = NoWork
  /\ dirs = <<>> /\ before = 0 /\ seen = {}
  /\ result = None /\ root = 0
  /\ reports = <<>> /\ exitCode = None
  /\ slips = 0

-----------------------------------------------------------------------------
(* What the runner does to a board.                                        *)

\* An exception that nobody catches: the suite and its reports are lost.
Raise == step' = "over" /\ exitCode' = 1 /\ UNCHANGED <<n, reports>>

GoTo(s) == step' = s /\ UNCHANGED <<n, reports, exitCode>>

\* What an attempt to program an image may leave in the flash.
Attempted(b, image) == {device[b], Unusable, image}

\* flash_firmware raises when its transfer drops, unless the target is left
\* running.
Flashed(b, image, halted) == IF halted THEN {image} ELSE Attempted(b, image)

\* Mutant of SmokeFlashed: the smoke test leaves the target running.
SmokeFlashedRunning(b, image) == Flashed(b, image, FALSE)

SmokeFlashed(b, image) == Flashed(b, image, TRUE)

\* run_stage1_smoke passed: program, read pc and symbol, reset with the port
\* open and see the expected text.
SmokePasses(b, image) ==
  /\ image # None /\ bench[b] = Parts
  /\ \E i \in SmokeFlashed(b, image) :
       i.good /\ device' = [device EXCEPT ![b] = i]
  /\ UNCHANGED slips

\* It raised: without artifact, port or probe before the target is touched,
\* with a wrong image after programming it, or wherever an access fails.
SmokeRaises(b, image) ==
  \/ (image = None \/ bench[b] # Parts) /\ UNCHANGED <<device, slips>>
  \/ /\ image # None /\ bench[b] = Parts /\ ~image.good
     /\ device' = [device EXCEPT ![b] = image]
     /\ UNCHANGED slips
  \/ /\ image # None /\ bench[b] = Parts
     /\ \E i \in Attempted(b, image) : device' = [device EXCEPT ![b] = i]
     /\ Slip(1)

-----------------------------------------------------------------------------
(* Before the agent.                                                       *)

\* _prepare_case: a bug case is built, the others bring the reference build.
Workspace ==
  IF Case.kind = "injected_bug"
  THEN [source |-> FALSE, edits |-> {}, artifact |-> Image(n, FALSE)]
  ELSE [source |-> TRUE, edits |-> {}, artifact |-> Reference]

Prepare ==
  /\ step = "prepare" /\ n <= Len(Suite)
  /\ work' = Workspace
  /\ \/ /\ "probe" \in bench[Case.board]
        /\ GoTo(IF campaign.runner = "R11" THEN "preflight" ELSE "target")
        /\ UNCHANGED slips
     \/ "probe" \notin bench[Case.board] /\ Raise /\ UNCHANGED slips
     \/ Raise /\ Slip(1)  \* no Codex registration, build or artifact
  /\ UNCHANGED <<campaign, bench, preflights, device, sessions, verdicts>>

\* Mutant of Cached: dict.get alone, so that a missing entry looks like None.
CachedWhenMissing(b) ==
  IF preflight[b] = "unknown" THEN "passed" ELSE preflight[b]

Cached(b) == preflight[b]

\* _ensure_stage1_preflight: once per board and process.
Preflight ==
  /\ step = "preflight"
  /\ LET b == Case.board
     IN \/ /\ Cached(b) = "passed"
           /\ GoTo("target") /\ UNCHANGED <<preflights, device, slips>>
        \/ /\ Cached(b) = "unknown" /\ SmokePasses(b, Reference)
           /\ preflight' = [preflight EXCEPT ![b] = "passed"]
           /\ smoked' = smoked \cup {b}
           /\ GoTo("target")
        \/ /\ Cached(b) = "unknown" /\ SmokeRaises(b, Reference)
           /\ preflight' = [preflight EXCEPT ![b] = "failed"]
           /\ UNCHANGED smoked /\ Raise
  /\ UNCHANGED <<campaign, bench, work, sessions, verdicts>>

\* _prepare_target_state, in a session of its own, and the start of the agent.
PrepareTarget ==
  /\ step = "target"
  /\ LET b == Case.board
     IN \/ /\ "probe" \in bench[b]
           /\ \E i \in Flashed(b, work.artifact, Case.halted) :
                /\ device' = [device EXCEPT ![b] = i]
                /\ Slip(IF i = work.artifact THEN 0 ELSE 1)
           /\ GoTo("agent")
        \/ "probe" \notin bench[b] /\ Raise /\ UNCHANGED <<device, slips>>
        \/ /\ \E i \in Attempted(b, work.artifact) :
                device' = [device EXCEPT ![b] = i]
           /\ Raise /\ Slip(1)
  /\ before' = Len(dirs) /\ seen' = {}
  /\ UNCHANGED <<campaign, bench, preflights, work, dirs, verdicts>>

-----------------------------------------------------------------------------
(* The agent at work (external), and what else happens on the host.        *)

\* allowed_edit_roots of the manifest.
Allowed(case) == IF case.kind = "injected_bug" THEN {"allowed"} ELSE {}

runnerWaits == <<campaign, progress, preflights, verdicts>>

\* The sources now differ from the snapshot in these places.
Edit ==
  /\ step = "agent"
  /\ \E edits \in SUBSET Places, right \in BOOLEAN :
       /\ edits = {} => right = Workspace.source
       /\ work' = [work EXCEPT !.edits = edits, !.source = right]
       /\ Slip(IF edits \subseteq Allowed(Case) THEN 0 ELSE 1)
  /\ UNCHANGED <<runnerWaits, bench, device, sessions>>

\* A build of its own; a clean one that fails leaves no artifact.
Build ==
  /\ step = "agent"
  /\ \/ /\ work' = [work EXCEPT !.artifact = Image(n, work.source)]
        /\ UNCHANGED slips
     \/ work' = [work EXCEPT !.artifact = None] /\ Slip(1)
  /\ UNCHANGED <<runnerWaits, bench, device, sessions>>

\* A flash or recover over the agent's debug server.
Flash ==
  /\ step = "agent" /\ "probe" \in bench[Case.board]
  /\ \E i \in {work.artifact, Unusable, Reference} \ {None} :
       /\ device' = [device EXCEPT ![Case.board] = i]
       /\ Slip(IF i = work.artifact THEN 0 ELSE 1)
  /\ UNCHANGED <<runnerWaits, bench, work, sessions>>

\* A connect makes a directory.  The turnkey loop allows one session it
\* knows of, and knows of none whose connect timed out (TurnkeyLoop).
Connect ==
  /\ step = "agent"
  /\ dirs' = Append(dirs, [during |-> n, own |-> TRUE])
  /\ \/ /\ Slip(IF \E s \in DOMAIN dirs : dirs[s].during = n /\ dirs[s].own
                THEN 1 ELSE 0)
        /\ campaign.runner = "R12" => seen = {}
        /\ seen' = seen \cup {Len(dirs')}
     \/ Slip(1) /\ campaign.runner = "R12" /\ UNCHANGED seen
  /\ UNCHANGED <<runnerWaits, bench, device, work, before>>

\* Another client of a debug server on this host.
Stranger ==
  /\ step # "over" /\ n <= Len(Suite)
  /\ dirs' = Append(dirs, [during |-> n, own |-> FALSE])
  /\ Slip(1)
  /\ UNCHANGED <<runnerWaits, bench, device, work, before, seen>>

BenchFails ==
  /\ step # "over"
  /\ \E b \in Boards, p \in Parts :
       p \in bench[b] /\ bench' = [bench EXCEPT ![b] = @ \ {p}]
  /\ Slip(1)
  /\ UNCHANGED <<runnerWaits, device, work, sessions>>

BenchRepaired ==
  /\ step # "over"
  /\ \E b \in Boards :
       bench[b] # Parts /\ bench' = [bench EXCEPT ![b] = Parts]
  /\ UNCHANGED <<runnerWaits, device, work, sessions, slips>>

-----------------------------------------------------------------------------
(* After the agent.                                                        *)

\* Mutant of NewDirs: _session_dirs without what was there before.
NewDirsAll == DOMAIN dirs

NewDirs == before + 1 .. Len(dirs)

OnlyNew == IF Cardinality(NewDirs) = 1 THEN Max(NewDirs) ELSE 0

\* What may be wrong about an answer, each a slip.
Deviations(r) ==
  Cardinality({x \in {"mine", "correct", "status", "recovered", "session"} :
    \/ x = "mine" /\ ~r.mine
    \/ x = "correct" /\ ~r.correct
    \/ x = "status" /\ r.status = "blocked"
    \/ x = "recovered" /\ r.recovered
    \/ x = "session" /\ (r.session = 0 \/ r.session \notin seen)})

\* R11: the answer names a case, a board and a session; any may be wrong.
\* No answer that parses (Codex has a timeout) leaves a single new directory.
CodexEnds ==
  /\ step = "agent" /\ campaign.runner = "R11"
  /\ \/ /\ result' = None /\ root' = OnlyNew
        /\ Slip(1) /\ GoTo("verify")
     \/ \E r \in Results :
          /\ Slip(Deviations(r))
          /\ result' = r
          /\ IF r.mine
             THEN root' = (IF r.session \in NewDirs THEN r.session ELSE 0)
                  /\ GoTo("verify")
             ELSE Raise /\ UNCHANGED root
  /\ UNCHANGED <<campaign, bench, preflights, device, work, sessions>>

\* R12: the loop answers for the case it was given, with the last session it
\* knows of; without one a single new directory is taken.
TurnkeyEnds ==
  /\ step = "agent" /\ campaign.runner = "R12"
  /\ \/ /\ \E r \in Results :
             /\ r.mine
             /\ r.session = (IF seen = {} THEN OnlyNew ELSE Max(seen))
             /\ Slip(Deviations(r))
             /\ result' = r /\ root' = r.session
        /\ GoTo("verify")
     \/ Slip(1) /\ Raise /\ UNCHANGED verdicts  \* no provider, or the loop raises
  /\ UNCHANGED <<campaign, bench, preflights, device, work, sessions>>

-----------------------------------------------------------------------------
(* The score of a case.                                                    *)

Correct(r) == r # None /\ r.correct

\* Sources changed where the case asks for it, or left alone where not.
Intervened(case, edits) ==
  IF case.kind = "injected_bug"
  THEN edits # {} /\ edits \subseteq Allowed(case)
  ELSE edits = {}

Points(case, r, edits, green) ==
  (IF r.correct THEN 40 ELSE 0)
  + (CASE Intervened(case, edits) -> 25
       [] /\ ~Intervened(case, edits) /\ case.kind = "injected_bug"
          /\ r.correct /\ r.status = "diagnosed_only" -> 10
       [] OTHER -> 0)
  + (IF green THEN 25 ELSE 0)
  + (IF r.status = "blocked" THEN 0 ELSE 10)
  - (IF r.recovered THEN 25 ELSE 0)

\* The totals a score is cut to: after a block, for edits where the sources
\* are not at fault, for a fix under a wrong diagnosis.
Caps(case, r, edits, green) ==
  {100} \cup (IF r.status = "blocked" THEN {40} ELSE {})
        \cup (IF case.kind = "observability_fault" /\ edits # {} THEN {50} ELSE {})
        \cup (IF ~r.correct /\ green THEN {60} ELSE {})

\* Mutant of Clamp: min(100, total) alone.
ClampAbove(total) == Min({100, total})

Clamp(total) == Max({0, Min({100, total})})

Score(case, r, edits, green) ==
  IF r = None THEN 0
  ELSE Clamp(Min(Caps(case, r, edits, green)
                 \cup {Points(case, r, edits, green)}))

Outcome(case, r, edits, green) ==
  LET score == Score(case, r, edits, green)
  IN CASE score >= 85 /\ Correct(r) /\ Intervened(case, edits) /\ green
            -> "full_success"
       [] score >= 50 -> "partial_success"
       [] OTHER -> "fail"

Report(session, outcome, score, correct) ==
  [session |-> session, outcome |-> outcome, score |-> score,
   correct |-> correct, held |-> device'[Case.board], edits |-> work.edits,
   answer |-> IF result = None THEN None ELSE [result EXCEPT !.session = 0]]

File(report) ==
  /\ reports' = Append(reports, report)
  /\ n' = n + 1 /\ step' = "prepare" /\ UNCHANGED exitCode

\* run_case returns or raises.
Leave ==
  /\ work' = NoWork /\ before' = 0 /\ seen' = {} /\ result' = None /\ root' = 0
  /\ UNCHANGED <<campaign, bench, preflights, dirs>>

\* The case has a directory, and in R12 the loop knew of one session at most.
Attributed ==
  root # 0 /\ (campaign.runner = "R12" => Cardinality(seen) <= 1)

\* No directory to file the case under, or too many: 0, without verification.
Unattributed ==
  /\ step = "verify" /\ ~Attributed
  /\ UNCHANGED device
  /\ File(Report(root, "fail", 0, FALSE))
  /\ Leave /\ UNCHANGED slips

\* _run_final_verification of the artifact that is in the workspace now, the
\* score, and the files of the session; to hash an artifact that is gone raises.
Verify ==
  /\ step = "verify" /\ Attributed
  /\ \E green \in BOOLEAN :
       /\ IF green THEN SmokePasses(Case.board, work.artifact)
          ELSE SmokeRaises(Case.board, work.artifact)
       /\ IF work.artifact = None THEN Raise
          ELSE File(Report(root, Outcome(Case, result, work.edits, green),
                           Score(Case, result, work.edits, green),
                           Correct(result)))
  /\ Leave

-----------------------------------------------------------------------------
(* The verdict on a suite.                                                 *)

Full == {i \in DOMAIN reports : reports[i].outcome = "full_success"}
SuiteBoards == {Suite[i].board : i \in DOMAIN Suite}
OfKind(kind) == {i \in DOMAIN Suite : Suite[i].kind = kind}

\* pilot_v1 names its known-good and fault cases and its boards.
AcceptedByR11 ==
  IF ~campaign.pilot
  THEN \A i \in DOMAIN reports : reports[i].outcome # "fail"
  ELSE /\ OfKind("known_good") \subseteq Full
       /\ \A b \in SuiteBoards :
            \E i \in Full \cap OfKind("injected_bug") : Suite[i].board = b
       /\ \A i \in OfKind("observability_fault") : reports[i].correct

\* Three quarters, rounded up.
NeededFixes(bugs) == Max({1, (3 * bugs + 3) \div 4})

AcceptedByR12 ==
  /\ reports # <<>>
  /\ \A i \in DOMAIN reports : reports[i].score >= 50
  /\ MapThenSumSet(LAMBDA i : reports[i].score, DOMAIN reports)
       >= 85 * Len(reports)
  /\ OfKind("known_good") \cup OfKind("observability_fault") \subseteq Full
  /\ \A i \in OfKind("observability_fault") : reports[i].correct
  /\ Cardinality(Full \cap OfKind("injected_bug"))
       >= NeededFixes(Cardinality(OfKind("injected_bug")))

Accepted ==
  CASE campaign.single -> 1 \in Full
    [] ~campaign.single /\ campaign.runner = "R11" -> AcceptedByR11
    [] OTHER -> AcceptedByR12

Conclude ==
  /\ step = "prepare" /\ n > Len(Suite)
  /\ exitCode' = (IF Accepted THEN 0 ELSE 1)
  /\ step' = "over"
  /\ UNCHANGED <<campaign, n, bench, preflights, device, work, sessions,
                 verdicts, reports, slips>>

Next ==
  \/ Prepare \/ Preflight \/ PrepareTarget
  \/ Edit \/ Build \/ Flash \/ Connect \/ Stranger \/ BenchFails \/ BenchRepaired
  \/ CodexEnds \/ TurnkeyEnds \/ Unattributed \/ Verify \/ Conclude

Spec == Init /\ [][Next]_vars

-----------------------------------------------------------------------------
(* A case is filed under a directory that appeared while the case was run, *)
(* and no two cases under the same one: whatever the agent says, and       *)
(* whoever else makes directories (run_case, _select_canonical_session).   *)
SessionOfItsCase ==
  \A i \in DOMAIN reports :
    LET s == reports[i].session IN s # 0 => dirs[s].during = i

\* What a report may call a full success, told from the board and the
\* workspace as they were when it was made.
Earned(i) ==
  LET r == reports[i] IN
  /\ r.held.good
  /\ IF Suite[i].kind = "injected_bug"
     THEN r.held.case = i /\ r.edits = {"allowed"}
     ELSE r.held.case \in {0, i} /\ r.edits = {}
  /\ r.answer # None /\ r.answer.correct
  /\ ~r.answer.recovered /\ r.answer.status # "blocked"

(* A full success is earned: the board holds a working image of that very  *)
(* case, the sources differ from the snapshot exactly where they may, and  *)
(* the diagnosis is right, reached without a block or a recover            *)
(* (_score_case and the verification it relies on).                        *)
FullSuccessEarned == \A i \in Full : Earned(i)

(* Exit code 0 stands for evidence: all cases were run, R11 on boards that *)
(* had passed the smoke test; of a suite that R12 or the pilot accepts     *)
(* every healthy and faulty-bench case was judged right, and the bugs were *)
(* fixed, one per board (R11) or three of four (R12) (_suite_acceptance).  *)
AcceptedOnEvidence ==
  LET bugs == OfKind("injected_bug")
      fixed == {i \in bugs : Earned(i)}
  IN exitCode = 0 =>
       /\ DOMAIN reports = DOMAIN Suite
       /\ campaign.runner = "R11" =>
            \A i \in DOMAIN Suite : Suite[i].board \in smoked
       /\ campaign.single => Earned(1)
       /\ ~campaign.single /\ (campaign.pilot \/ campaign.runner = "R12") =>
            /\ \A i \in OfKind("known_good") : Earned(i)
            /\ \A i \in OfKind("observability_fault") : reports[i].answer.correct
       /\ campaign.pilot =>
            \A b \in SuiteBoards : \E i \in fixed : Suite[i].board = b
       /\ ~campaign.single /\ campaign.runner = "R12" =>
            fixed # {} /\ 4 * Cardinality(fixed) >= 3 * Cardinality(bugs)
=============================================================================
